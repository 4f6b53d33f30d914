------------------------ MODULE CommandBuffer_proofs ------------------------
(***************************************************************************)
(* What a draw sees, for any programs, slots, passes, clients and values.  *)
(* The sections follow the model: the hash map of a set layout by itself   *)
(* (MapInv, and Kept: what is in use is not written); then TrackInv,       *)
(* action by action; then what is read off it, and the keys of pipelines   *)
(* and sets, which need that the hashes cover what they stand for.         *)
(***************************************************************************)
EXTENDS CommandBuffer, TLAPS, FiniteSetTheorems, SequenceTheorems

(* Rings and sequences.                                                    *)
LEMMA NextRing ==
  ASSUME NEW i \in Rings
  PROVE  /\ (i + 1) % RingSize \in Rings
         /\ (i + 1) % RingSize = (IF i + 1 = RingSize THEN 0 ELSE i + 1)
<1>1. RingSize \in Nat /\ RingSize > 0 BY RingAssumption
<1>2. i \in Nat /\ i < RingSize BY <1>1 DEF Rings
<1>3. CASE i + 1 = RingSize
  <2>1. (i + 1) % RingSize = 0 BY <1>1, <1>3
  <2> QED BY <1>1, <1>3, <2>1 DEF Rings
<1>4. CASE i + 1 # RingSize
  <2>1. i + 1 < RingSize BY <1>1, <1>2, <1>4
  <2>2. (i + 1) % RingSize = i + 1 BY <1>1, <1>2, <2>1
  <2> QED BY <1>1, <1>2, <1>4, <2>1, <2>2 DEF Rings
<1> QED BY <1>3, <1>4

LEMMA IsSeqOf ==
  ASSUME NEW T, NEW n \in Nat, NEW t \in [1 .. n -> T]
  PROVE  t \in Seq(T)
BY SeqDef

LEMMA SequenceIs ==
  ASSUME NEW s, IsSequence(s)
  PROVE  Len(s) \in Nat /\ DOMAIN s = 1 .. Len(s)
BY LenProperties DEF IsSequence

LEMMA SequenceFrom ==
  ASSUME NEW S, NEW s \in Seq(S)
  PROVE  IsSequence(s)
<1> DEFINE T == {s[n] : n \in DOMAIN s}
<1>1. Len(s) \in Nat /\ s \in [1 .. Len(s) -> S] /\ DOMAIN s = 1 .. Len(s) BY LenProperties
<1>2. \A i \in 1 .. Len(s) : s[i] \in T BY <1>1
<1> HIDE DEF T
<1>3. s \in [1 .. Len(s) -> T] BY <1>1, <1>2
<1>4. s \in Seq(T) BY <1>1, <1>3, IsSeqOf
<1> QED BY <1>4 DEF T, IsSequence

LEMMA LongerSequence ==
  ASSUME NEW s, IsSequence(s), NEW k \in Nat, NEW b, IsSequence(b), Len(b) = k
  PROVE  /\ IsSequence(s \o b) /\ Len(s \o b) = Len(s) + k /\ DOMAIN (s \o b) = 1 .. (Len(s) + k)
         /\ \A n \in DOMAIN s : (s \o b)[n] = s[n]
<1> DEFINE A == {s[n] : n \in DOMAIN s}
           B == {b[n] : n \in DOMAIN b}
<1>1. s \in Seq(A) /\ b \in Seq(B) BY DEF IsSequence
<1> HIDE DEF A, B
<1>2. s \in Seq(A \cup B) /\ b \in Seq(A \cup B) BY <1>1, SeqMonotonic
<1>3. /\ s \o b \in Seq(A \cup B) /\ Len(s \o b) = Len(s) + k
      /\ \A i \in 1 .. (Len(s) + k) : (s \o b)[i] = IF i <= Len(s) THEN s[i] ELSE b[i - Len(s)]
  BY <1>2, ConcatProperties
<1>4. DOMAIN (s \o b) = 1 .. (Len(s) + k) BY <1>3, LenProperties
<1>5. IsSequence(s \o b) BY <1>3, SequenceFrom
<1>6. \A n \in DOMAIN s : (s \o b)[n] = s[n] BY <1>3, SequenceIs
<1> QED BY <1>3, <1>4, <1>5, <1>6

-----------------------------------------------------------------------------
(* The hash map of a descriptor set layout.                                *)

LEMMA MapFacts ==
  ASSUME NEW m, MapInv(m)
  PROVE  /\ DOMAIN m = MapFields
         /\ m.index \in Rings /\ m.begin \in BOOLEAN
         /\ Len(m.hash) \in Nat /\ Nodes(m) = 1 .. Len(m.hash)
         /\ DOMAIN m.hash = Nodes(m) /\ DOMAIN m.content = Nodes(m)
         /\ DOMAIN m.rings = Rings /\ \A i \in Rings : m.rings[i] \subseteq Nodes(m)
         /\ m.rings \in [Rings -> SUBSET Nodes(m)] /\ m.vacants \subseteq Nodes(m)
         /\ \A n \in Nodes(m) :
              /\ n \in m.vacants <=> \A i \in Rings : n \notin m.rings[i]
              /\ \A i, j \in Rings : n \in m.rings[i] /\ n \in m.rings[j] => i = j
         /\ \A h \in DOMAIN m.map : m.map[h] \in Nodes(m) \ m.vacants /\ m.hash[m.map[h]] = h
         /\ \A n \in Nodes(m) \ m.vacants : m.hash[n] \in DOMAIN m.map /\ m.map[m.hash[n]] = n
BY SequenceIs DEF MapInv, MapTyped, NodesShared, MapInverse, Nodes

(* What begin_frame does to a map: ring k is the oldest.                   *)
BegunFrom(m, m1, k) ==
  /\ k = (m.index + 1) % RingSize
  /\ DOMAIN m1 = MapFields
  /\ m1.index = k /\ m1.begin = FALSE /\ m1.rings \in [Rings -> SUBSET Nodes(m)]
  /\ \A i \in Rings : m1.rings[i] = IF i = k THEN {} ELSE m.rings[i]
  /\ \A h : h \in DOMAIN m1.map <=> h \in DOMAIN m.map /\ \A n \in m.rings[k] : m.hash[n] # h
  /\ \A h \in DOMAIN m1.map : m1.map[h] = m.map[h]
  /\ m1.hash = m.hash /\ m1.content = m.content /\ m1.vacants = m.vacants \cup m.rings[k]

LEMMA BeginFrameIs ==
  ASSUME NEW m, MapInv(m), NEW m1, m1 = BeginFrame(m)
  PROVE  \E k \in Rings : BegunFrom(m, m1, k)
<1>1. PICK k \in Rings : k = (m.index + 1) % RingSize BY NextRing, MapFacts
<1>2. m1 = [m EXCEPT !.index = k, !.begin = FALSE, !.rings[k] = {},
                     !.map = [h \in DOMAIN m.map \ {m.hash[n] : n \in m.rings[k]} |-> m.map[h]],
                     !.vacants = @ \cup m.rings[k]]
  BY <1>1 DEF BeginFrame
<1>3. m.rings \in [Rings -> SUBSET Nodes(m)] /\ DOMAIN m = MapFields BY MapFacts
<1>4. /\ DOMAIN m1 = MapFields
      /\ m1.index = k /\ m1.begin = FALSE /\ m1.rings = [m.rings EXCEPT ![k] = {}]
      /\ m1.map = [h \in DOMAIN m.map \ {m.hash[n] : n \in m.rings[k]} |-> m.map[h]]
      /\ m1.hash = m.hash /\ m1.content = m.content /\ m1.vacants = m.vacants \cup m.rings[k]
  BY <1>2, <1>3 DEF MapFields
<1>5. /\ m1.rings \in [Rings -> SUBSET Nodes(m)]
      /\ \A i \in Rings : m1.rings[i] = IF i = k THEN {} ELSE m.rings[i]
  BY <1>3, <1>4
<1>6. /\ \A h : h \in DOMAIN m1.map <=> h \in DOMAIN m.map /\ \A n \in m.rings[k] : m.hash[n] # h
      /\ \A h \in DOMAIN m1.map : m1.map[h] = m.map[h]
  BY <1>4
<1>7. BegunFrom(m, m1, k) BY <1>1, <1>4, <1>5, <1>6 DEF BegunFrom
<1> QED BY <1>7

LEMMA BeginFrameKeeps ==
  ASSUME NEW m, MapInv(m), NEW m1, m1 = BeginFrame(m)
  PROVE  MapInv(m1)
<1>0. PICK k \in Rings : BegunFrom(m, m1, k) BY BeginFrameIs
<1>1. /\ k = (m.index + 1) % RingSize
      /\ DOMAIN m1 = MapFields
      /\ m1.index = k /\ m1.begin = FALSE /\ m1.rings \in [Rings -> SUBSET Nodes(m)]
      /\ \A i \in Rings : m1.rings[i] = IF i = k THEN {} ELSE m.rings[i]
      /\ \A h : h \in DOMAIN m1.map <=> h \in DOMAIN m.map /\ \A n \in m.rings[k] : m.hash[n] # h
      /\ \A h \in DOMAIN m1.map : m1.map[h] = m.map[h]
      /\ m1.hash = m.hash /\ m1.content = m.content /\ m1.vacants = m.vacants \cup m.rings[k]
  BY <1>0 DEF BegunFrom
<1>2. Nodes(m1) = Nodes(m) BY <1>1 DEF Nodes
<1>3. MapTyped(m1)
  <2>1. MapTyped(m) BY DEF MapInv
  <2>2. m1.vacants \subseteq Nodes(m) BY <1>1, MapFacts
  <2> QED BY <1>1, <1>2, <2>1, <2>2 DEF MapTyped
<1>4. NodesShared(m1)
  <2>1. SUFFICES ASSUME NEW n \in Nodes(m)
                 PROVE  /\ n \in m1.vacants <=> \A i \in Rings : n \notin m1.rings[i]
                        /\ \A i, j \in Rings : n \in m1.rings[i] /\ n \in m1.rings[j] => i = j
    BY <1>2 DEF NodesShared
  <2>2. /\ n \in m.vacants <=> \A i \in Rings : n \notin m.rings[i]
        /\ \A i, j \in Rings : n \in m.rings[i] /\ n \in m.rings[j] => i = j
    BY MapFacts
  <2> QED BY <1>1, <2>2
<1>5. MapInverse(m1)
  <2>1. ASSUME NEW h \in DOMAIN m1.map
        PROVE  m1.map[h] \in Nodes(m) \ m1.vacants /\ m1.hash[m1.map[h]] = h
    <3>1. h \in DOMAIN m.map /\ (\A n \in m.rings[k] : m.hash[n] # h) /\ m1.map[h] = m.map[h]
      BY <1>1
    <3>2. m.map[h] \in Nodes(m) \ m.vacants /\ m.hash[m.map[h]] = h BY <3>1, MapFacts
    <3> QED BY <1>1, <3>1, <3>2
  <2>2. ASSUME NEW n \in Nodes(m) \ m1.vacants
        PROVE  m1.hash[n] \in DOMAIN m1.map /\ m1.map[m1.hash[n]] = n
    <3>1. n \notin m.vacants /\ n \notin m.rings[k] BY <1>1
    <3>2. m.hash[n] \in DOMAIN m.map /\ m.map[m.hash[n]] = n BY <3>1, MapFacts
    <3>3. ASSUME NEW o \in m.rings[k] PROVE m.hash[o] # m.hash[n]
      <4>1. o \in Nodes(m) \ m.vacants BY MapFacts
      <4>2. m.map[m.hash[o]] = o BY <4>1, MapFacts
      <4> QED BY <3>1, <3>2, <4>2
    <3> QED BY <1>1, <3>2, <3>3
  <2> QED BY <1>2, <2>1, <2>2 DEF MapInverse
<1> QED BY <1>3, <1>4, <1>5 DEF MapInv

LEMMA RequestIs ==
  ASSUME NEW m, MapInv(m), NEW h \in DOMAIN m.map, NEW m1, m1 = Request(m, h)
  PROVE  /\ DOMAIN m1 = MapFields
         /\ m1.index = m.index /\ m1.begin = m.begin /\ m1.map = m.map /\ m1.hash = m.hash
         /\ m1.content = m.content /\ m1.vacants = m.vacants
         /\ m1.rings \in [Rings -> SUBSET Nodes(m)]
         /\ \A i \in Rings : \A n : n \in m1.rings[i] <=>
              IF n = m.map[h] THEN i = m.index ELSE n \in m.rings[i]
<1>1. /\ DOMAIN m1 = MapFields
      /\ m1.index = m.index /\ m1.begin = m.begin /\ m1.map = m.map /\ m1.hash = m.hash
      /\ m1.content = m.content /\ m1.vacants = m.vacants
      /\ m1.rings = [i \in DOMAIN m.rings |->
           IF i = m.index THEN m.rings[i] \cup {m.map[h]} ELSE m.rings[i] \ {m.map[h]}]
  BY MapFacts DEF Request, MapFields
<1>2. m.map[h] \in Nodes(m) /\ DOMAIN m.rings = Rings /\ \A i \in Rings : m.rings[i] \subseteq Nodes(m)
  BY MapFacts
<1>3. m1.rings \in [Rings -> SUBSET Nodes(m)] BY <1>1, <1>2
<1>4. ASSUME NEW i \in Rings, NEW n
      PROVE  n \in m1.rings[i] <=> IF n = m.map[h] THEN i = m.index ELSE n \in m.rings[i]
  BY <1>1, <1>2
<1> QED BY <1>1, <1>3, <1>4

LEMMA RequestKeeps ==
  ASSUME NEW m, MapInv(m), NEW h \in DOMAIN m.map, NEW m1, m1 = Request(m, h)
  PROVE  MapInv(m1)
<1>1. /\ DOMAIN m1 = MapFields
      /\ m1.index = m.index /\ m1.begin = m.begin /\ m1.map = m.map /\ m1.hash = m.hash
      /\ m1.content = m.content /\ m1.vacants = m.vacants
      /\ m1.rings \in [Rings -> SUBSET Nodes(m)]
      /\ \A i \in Rings : \A n : n \in m1.rings[i] <=>
           IF n = m.map[h] THEN i = m.index ELSE n \in m.rings[i]
  BY RequestIs
<1>2. Nodes(m1) = Nodes(m) BY <1>1 DEF Nodes
<1>3. MapTyped(m1)
  <2>1. MapTyped(m) BY DEF MapInv
  <2> QED BY <1>1, <1>2, <2>1 DEF MapTyped
<1>4. NodesShared(m1)
  <2>1. SUFFICES ASSUME NEW n \in Nodes(m)
                 PROVE  /\ n \in m1.vacants <=> \A i \in Rings : n \notin m1.rings[i]
                        /\ \A i, j \in Rings : n \in m1.rings[i] /\ n \in m1.rings[j] => i = j
    BY <1>2 DEF NodesShared
  <2>2. CASE n = m.map[h]
    <3>1. n \notin m.vacants /\ m.index \in Rings BY <2>2, MapFacts
    <3> QED BY <1>1, <2>2, <3>1
  <2>3. CASE n # m.map[h]
    <3>1. /\ n \in m.vacants <=> \A i \in Rings : n \notin m.rings[i]
          /\ \A i, j \in Rings : n \in m.rings[i] /\ n \in m.rings[j] => i = j
      BY MapFacts
    <3>2. \A i \in Rings : n \in m1.rings[i] <=> n \in m.rings[i] BY <1>1, <2>3
    <3> QED BY <1>1, <3>1, <3>2
  <2> QED BY <2>2, <2>3
<1>5. MapInverse(m1)
  <2>1. MapInverse(m) BY DEF MapInv
  <2> QED BY <1>1, <1>2, <2>1 DEF MapInverse
<1> QED BY <1>3, <1>4, <1>5 DEF MapInv

LEMMA MakeVacantIs ==
  ASSUME NEW m, MapInv(m), NEW m1, m1 = MakeVacant(m)
  PROVE  /\ DOMAIN m1 = MapFields
         /\ m1.index = m.index /\ m1.begin = m.begin /\ m1.map = m.map /\ m1.rings = m.rings
         /\ IsSequence(m1.hash) /\ IsSequence(m1.content) /\ Len(m1.content) = Len(m1.hash)
         /\ Nodes(m) \subseteq Nodes(m1) /\ Nodes(m1) # Nodes(m)
         /\ \A n \in Nodes(m) : m1.hash[n] = m.hash[n] /\ m1.content[n] = m.content[n]
         /\ m1.vacants = m.vacants \cup (Nodes(m1) \ Nodes(m))
<1> DEFINE b == [i \in 1 .. SetsPerPool |-> None]
<1>1. /\ DOMAIN m1 = MapFields
      /\ m1.index = m.index /\ m1.begin = m.begin /\ m1.map = m.map /\ m1.rings = m.rings
      /\ m1.hash = m.hash \o b /\ m1.content = m.content \o b
      /\ m1.vacants = m.vacants \cup ((Len(m.hash) + 1) .. (Len(m.hash) + SetsPerPool))
  <2>1. m1 = [m EXCEPT !.hash = @ \o b, !.content = @ \o b,
                       !.vacants = @ \cup ((Len(m.hash) + 1) .. (Len(m.hash) + SetsPerPool))]
    BY DEF MakeVacant
  <2> HIDE DEF b
  <2>2. DOMAIN m = MapFields BY MapFacts
  <2> QED BY <2>1, <2>2 DEF MapFields
<1>2. SetsPerPool \in Nat /\ SetsPerPool > 0 BY RingAssumption
<1>3. b \in [1 .. SetsPerPool -> {None}] OBVIOUS
<1> HIDE DEF b
<1>4. b \in Seq({None}) BY <1>2, <1>3, IsSeqOf
<1>5. IsSequence(b) BY <1>4, SequenceFrom
<1>6. Len(b) = SetsPerPool BY <1>2, <1>3, <1>4, LenProperties
<1>7. /\ IsSequence(m.hash) /\ IsSequence(m.content) /\ Len(m.content) = Len(m.hash)
      /\ Len(m.hash) \in Nat /\ DOMAIN m.hash = 1 .. Len(m.hash) /\ DOMAIN m.content = DOMAIN m.hash
  BY SequenceIs DEF MapInv, MapTyped
<1>8. /\ IsSequence(m.hash \o b) /\ Len(m.hash \o b) = Len(m.hash) + SetsPerPool
      /\ DOMAIN (m.hash \o b) = 1 .. (Len(m.hash) + SetsPerPool)
      /\ \A n \in DOMAIN m.hash : (m.hash \o b)[n] = m.hash[n]
  BY <1>2, <1>5, <1>6, <1>7, LongerSequence
<1>9. /\ IsSequence(m.content \o b) /\ Len(m.content \o b) = Len(m.hash) + SetsPerPool
      /\ \A n \in DOMAIN m.content : (m.content \o b)[n] = m.content[n]
  <2>1. /\ IsSequence(m.content \o b) /\ Len(m.content \o b) = Len(m.content) + SetsPerPool
        /\ \A n \in DOMAIN m.content : (m.content \o b)[n] = m.content[n]
    BY <1>2, <1>5, <1>6, <1>7, LongerSequence
  <2> QED BY <1>7, <2>1
<1>10. /\ IsSequence(m1.hash) /\ IsSequence(m1.content) /\ Len(m1.content) = Len(m1.hash)
       /\ Nodes(m1) = 1 .. (Len(m.hash) + SetsPerPool) /\ Nodes(m) = 1 .. Len(m.hash)
       /\ \A n \in Nodes(m) : m1.hash[n] = m.hash[n] /\ m1.content[n] = m.content[n]
  BY <1>1, <1>7, <1>8, <1>9 DEF Nodes
<1>11. Nodes(m) \subseteq Nodes(m1) /\ Nodes(m1) # Nodes(m) BY <1>2, <1>7, <1>10
<1>12. Nodes(m1) \ Nodes(m) = (Len(m.hash) + 1) .. (Len(m.hash) + SetsPerPool)
  BY <1>2, <1>7, <1>10
<1> QED BY <1>1, <1>10, <1>11, <1>12

LEMMA MakeVacantKeeps ==
  ASSUME NEW m, MapInv(m), NEW m1, m1 = MakeVacant(m)
  PROVE  MapInv(m1) /\ m1.vacants # {}
<1>1. /\ DOMAIN m1 = MapFields
      /\ m1.index = m.index /\ m1.begin = m.begin /\ m1.map = m.map /\ m1.rings = m.rings
      /\ IsSequence(m1.hash) /\ IsSequence(m1.content) /\ Len(m1.content) = Len(m1.hash)
      /\ Nodes(m) \subseteq Nodes(m1) /\ Nodes(m1) # Nodes(m)
      /\ \A n \in Nodes(m) : m1.hash[n] = m.hash[n] /\ m1.content[n] = m.content[n]
      /\ m1.vacants = m.vacants \cup (Nodes(m1) \ Nodes(m))
  BY MakeVacantIs
<1>2. MapTyped(m1)
  <2>1. m1.rings \in [Rings -> SUBSET Nodes(m1)] /\ m1.vacants \subseteq Nodes(m1)
    BY <1>1, MapFacts
  <2> QED BY <1>1, <2>1, MapFacts DEF MapTyped
<1>3. NodesShared(m1)
  <2>1. SUFFICES ASSUME NEW n \in Nodes(m1)
                 PROVE  /\ n \in m1.vacants <=> \A i \in Rings : n \notin m1.rings[i]
                        /\ \A i, j \in Rings : n \in m1.rings[i] /\ n \in m1.rings[j] => i = j
    BY DEF NodesShared
  <2>2. CASE n \in Nodes(m)
    <3>1. /\ n \in m.vacants <=> \A i \in Rings : n \notin m.rings[i]
          /\ \A i, j \in Rings : n \in m.rings[i] /\ n \in m.rings[j] => i = j
      BY <2>2, MapFacts
    <3> QED BY <1>1, <2>2, <3>1
  <2>3. CASE n \notin Nodes(m)
    <3>1. \A i \in Rings : n \notin m.rings[i] BY <2>3, MapFacts
    <3> QED BY <1>1, <2>1, <2>3, <3>1
  <2> QED BY <2>2, <2>3
<1>4. MapInverse(m1)
  <2>1. ASSUME NEW h \in DOMAIN m1.map
        PROVE  m1.map[h] \in Nodes(m1) \ m1.vacants /\ m1.hash[m1.map[h]] = h
    <3>1. m.map[h] \in Nodes(m) \ m.vacants /\ m.hash[m.map[h]] = h BY <1>1, <2>1, MapFacts
    <3> QED BY <1>1, <3>1
  <2>2. ASSUME NEW n \in Nodes(m1) \ m1.vacants
        PROVE  m1.hash[n] \in DOMAIN m1.map /\ m1.map[m1.hash[n]] = n
    <3>1. n \in Nodes(m) \ m.vacants BY <1>1, <2>2
    <3>2. m.hash[n] \in DOMAIN m.map /\ m.map[m.hash[n]] = n BY <3>1, MapFacts
    <3> QED BY <1>1, <3>1, <3>2
  <2> QED BY <2>1, <2>2 DEF MapInverse
<1> QED BY <1>1, <1>2, <1>3, <1>4 DEF MapInv

LEMMA RequestVacantIs ==
  ASSUME NEW m, MapInv(m), NEW h, m.vacants # {}, NEW m1, m1 = RequestVacant(m, h)
  PROVE  \E n \in m.vacants :
         /\ DOMAIN m1 = MapFields
         /\ m1.index = m.index /\ m1.begin = m.begin /\ m1.map = With(m.map, h, n)
         /\ IsSequence(m1.hash) /\ Len(m1.hash) = Len(m.hash) /\ Nodes(m1) = Nodes(m)
         /\ m1.hash[n] = h /\ (\A o \in Nodes(m) : o # n => m1.hash[o] = m.hash[o])
         /\ m1.content = m.content
         /\ m1.vacants = m.vacants \ {n}
         /\ m1.rings \in [Rings -> SUBSET Nodes(m)]
         /\ \A i \in Rings : \A o : o \in m1.rings[i] <=>
              IF o = n THEN o \in m.rings[i] \/ i = m.index ELSE o \in m.rings[i]
<1> DEFINE n == CHOOSE v \in m.vacants : TRUE
<1>1. n \in m.vacants OBVIOUS
<1>2. m1 = [m EXCEPT !.vacants = @ \ {n}, !.hash[n] = h, !.map = With(@, h, n),
                     !.rings[m.index] = @ \cup {n}]
  BY DEF RequestVacant
<1> HIDE DEF n
<1>3. /\ DOMAIN m1 = MapFields
      /\ m1.index = m.index /\ m1.begin = m.begin /\ m1.map = With(m.map, h, n)
      /\ m1.hash = [m.hash EXCEPT ![n] = h] /\ m1.content = m.content
      /\ m1.vacants = m.vacants \ {n}
      /\ m1.rings = [m.rings EXCEPT ![m.index] = @ \cup {n}]
  BY <1>2, MapFacts DEF MapFields
<1>4. /\ m.index \in Rings /\ m.rings \in [Rings -> SUBSET Nodes(m)] /\ n \in Nodes(m)
      /\ n \in DOMAIN m.hash
  BY <1>1, MapFacts
<1>5. /\ m1.rings \in [Rings -> SUBSET Nodes(m)]
      /\ \A i \in Rings : \A o : o \in m1.rings[i] <=>
           IF o = n THEN o \in m.rings[i] \/ i = m.index ELSE o \in m.rings[i]
  BY <1>3, <1>4
<1>6. /\ IsSequence(m1.hash) /\ Len(m1.hash) = Len(m.hash) /\ DOMAIN m1.hash = DOMAIN m.hash
      /\ m1.hash[n] = h /\ (\A o \in Nodes(m) : o # n => m1.hash[o] = m.hash[o])
  <2> DEFINE S == {m.hash[o] : o \in DOMAIN m.hash} \cup {h}
  <2>1. IsSequence(m.hash) /\ DOMAIN m.hash = 1 .. Len(m.hash)
    BY SequenceIs DEF MapInv, MapTyped
  <2>2. m.hash \in Seq({m.hash[o] : o \in DOMAIN m.hash}) BY <2>1 DEF IsSequence
  <2>3. m.hash \in Seq(S) /\ h \in S
    <3>1. {m.hash[o] : o \in DOMAIN m.hash} \subseteq S /\ h \in S OBVIOUS
    <3> HIDE DEF S
    <3> QED BY <2>2, <3>1, SeqMonotonic
  <2> HIDE DEF S
  <2>4. [m.hash EXCEPT ![n] = h] \in Seq(S) /\ Len([m.hash EXCEPT ![n] = h]) = Len(m.hash)
    BY <1>4, <2>1, <2>3, ExceptSeq
  <2>5. IsSequence(m1.hash) /\ Len(m1.hash) = Len(m.hash) BY <1>3, <2>4, SequenceFrom
  <2> QED BY <1>3, <1>4, <2>5 DEF Nodes
<1> QED BY <1>1, <1>3, <1>5, <1>6 DEF Nodes

LEMMA RequestVacantKeeps ==
  ASSUME NEW m, MapInv(m), NEW h, h \notin DOMAIN m.map, m.vacants # {},
         NEW m1, m1 = RequestVacant(m, h)
  PROVE  MapInv(m1)
<1>1. PICK n \in m.vacants :
         /\ DOMAIN m1 = MapFields
         /\ m1.index = m.index /\ m1.begin = m.begin /\ m1.map = With(m.map, h, n)
         /\ IsSequence(m1.hash) /\ Len(m1.hash) = Len(m.hash) /\ Nodes(m1) = Nodes(m)
         /\ m1.hash[n] = h /\ (\A o \in Nodes(m) : o # n => m1.hash[o] = m.hash[o])
         /\ m1.content = m.content
         /\ m1.vacants = m.vacants \ {n}
         /\ m1.rings \in [Rings -> SUBSET Nodes(m)]
         /\ \A i \in Rings : \A o : o \in m1.rings[i] <=>
              IF o = n THEN o \in m.rings[i] \/ i = m.index ELSE o \in m.rings[i]
  BY RequestVacantIs
<1>2. /\ n \in Nodes(m) /\ m.index \in Rings /\ \A i \in Rings : n \notin m.rings[i]
      /\ DOMAIN m1.map = {h} \cup DOMAIN m.map /\ m1.map[h] = n
      /\ \A g \in DOMAIN m.map : g # h => m1.map[g] = m.map[g]
  <2>1. n \in Nodes(m) /\ m.index \in Rings /\ \A i \in Rings : n \notin m.rings[i]
    BY <1>1, MapFacts
  <2>2. m1.map = With(m.map, h, n) BY <1>1
  <2>3. /\ DOMAIN m1.map = {h} \cup DOMAIN m.map /\ m1.map[h] = n
        /\ \A g \in DOMAIN m.map : g # h => m1.map[g] = m.map[g]
    BY <2>2 DEF With
  <2> QED BY <2>1, <2>3
<1>3. MapTyped(m1)
  <2>1. IsSequence(m.content) /\ Len(m.content) = Len(m.hash) BY DEF MapInv, MapTyped
  <2>2. m1.vacants \subseteq Nodes(m) BY <1>1, MapFacts
  <2> QED BY <1>1, <2>1, <2>2, MapFacts DEF MapTyped
<1>4. NodesShared(m1)
  <2>1. SUFFICES ASSUME NEW o \in Nodes(m)
                 PROVE  /\ o \in m1.vacants <=> \A i \in Rings : o \notin m1.rings[i]
                        /\ \A i, j \in Rings : o \in m1.rings[i] /\ o \in m1.rings[j] => i = j
    BY <1>1 DEF NodesShared
  <2>2. CASE o = n
    BY <1>1, <1>2, <2>2
  <2>3. CASE o # n
    <3>1. /\ o \in m.vacants <=> \A i \in Rings : o \notin m.rings[i]
          /\ \A i, j \in Rings : o \in m.rings[i] /\ o \in m.rings[j] => i = j
      BY MapFacts
    <3> QED BY <1>1, <2>3, <3>1
  <2> QED BY <2>2, <2>3
<1>5. MapInverse(m1)
  <2>1. ASSUME NEW g \in DOMAIN m1.map
        PROVE  m1.map[g] \in Nodes(m) \ m1.vacants /\ m1.hash[m1.map[g]] = g
    <3>1. CASE g = h BY <1>1, <1>2, <3>1
    <3>2. CASE g # h
      <4>1. m.map[g] \in Nodes(m) \ m.vacants /\ m.hash[m.map[g]] = g /\ m1.map[g] = m.map[g]
        BY <1>2, <2>1, <3>2, MapFacts
      <4> QED BY <1>1, <4>1
    <3> QED BY <3>1, <3>2
  <2>2. ASSUME NEW o \in Nodes(m) \ m1.vacants
        PROVE  m1.hash[o] \in DOMAIN m1.map /\ m1.map[m1.hash[o]] = o
    <3>1. CASE o = n BY <1>1, <1>2, <3>1
    <3>2. CASE o # n
      <4>1. o \notin m.vacants BY <1>1, <2>2, <3>2
      <4>2. m.hash[o] \in DOMAIN m.map /\ m.map[m.hash[o]] = o BY <4>1, MapFacts
      <4> QED BY <1>1, <1>2, <3>2, <4>2
    <3> QED BY <3>1, <3>2
  <2> QED BY <1>1, <2>1, <2>2 DEF MapInverse
<1> QED BY <1>3, <1>4, <1>5 DEF MapInv

(* How long a node of ring i has gone unused, counting the frame that a    *)
(* map still has to begin.                                                 *)
Age(m, i) == RingAge(m, i) + (IF m.begin THEN 1 ELSE 0)
(* Nodes that are not about to expire stay in a ring, no older, and are    *)
(* not written.                                                            *)
Kept(m, m1) ==
  \A i \in Rings : \A n \in m.rings[i] : Age(m, i) < RingSize =>
    /\ \E j \in Rings : n \in m1.rings[j] /\ Age(m1, j) <= Age(m, i)
    /\ m1.content[n] = m.content[n]

LEMMA RingAgeType ==
  ASSUME NEW m, m.index \in Rings, NEW i \in Rings
  PROVE  RingAge(m, i) \in 0 .. RingSize - 1 /\ Age(m, i) \in Nat /\ (i = m.index => RingAge(m, i) = 0)
<1>1. RingSize \in Nat /\ RingSize > 0 BY RingAssumption
<1>2. RingAge(m, i) \in 0 .. RingSize - 1 /\ (i = m.index => RingAge(m, i) = 0)
  BY <1>1 DEF Rings, RingAge
<1> QED BY <1>1, <1>2 DEF Age

LEMMA RingAgeNext ==
  ASSUME NEW m, m.index \in Rings, NEW m1, m1.index = (m.index + 1) % RingSize,
         NEW i \in Rings
  PROVE  IF i = m1.index THEN RingAge(m, i) = RingSize - 1
                         ELSE RingAge(m1, i) = RingAge(m, i) + 1
<1>1. RingSize \in Nat /\ RingSize > 0 BY RingAssumption
<1>2. m1.index = (IF m.index + 1 = RingSize THEN 0 ELSE m.index + 1) BY NextRing
<1> QED BY <1>1, <1>2 DEF Rings, RingAge

LEMMA KeptTransitive ==
  ASSUME NEW m, MapInv(m), NEW m1, MapInv(m1), NEW m2, MapInv(m2), Kept(m, m1), Kept(m1, m2)
  PROVE  Kept(m, m2)
<1>1. SUFFICES ASSUME NEW i \in Rings, NEW n \in m.rings[i], Age(m, i) < RingSize
               PROVE  /\ \E j \in Rings : n \in m2.rings[j] /\ Age(m2, j) <= Age(m, i)
                      /\ m2.content[n] = m.content[n]
  BY DEF Kept
<1>2. PICK j \in Rings : n \in m1.rings[j] /\ Age(m1, j) <= Age(m, i) BY <1>1 DEF Kept
<1>3. m1.content[n] = m.content[n] BY <1>1 DEF Kept
<1>4. Age(m, i) \in Nat /\ Age(m1, j) \in Nat /\ RingSize \in Nat
  BY RingAgeType, RingAssumption DEF MapInv, MapTyped
<1>5. Age(m1, j) < RingSize BY <1>1, <1>2, <1>4
<1>6. PICK k \in Rings : n \in m2.rings[k] /\ Age(m2, k) <= Age(m1, j) BY <1>2, <1>5 DEF Kept
<1>7. m2.content[n] = m1.content[n] BY <1>2, <1>5 DEF Kept
<1>8. Age(m2, k) <= Age(m, i)
  <2>1. Age(m2, k) \in Nat BY RingAgeType DEF MapInv, MapTyped
  <2> QED BY <1>2, <1>4, <1>6, <2>1
<1> QED BY <1>3, <1>6, <1>7, <1>8

LEMMA BeginFrameFlush ==
  ASSUME NEW m, MapInv(m), m.begin, NEW m1, m1 = BeginFrame(m)
  PROVE  ~m1.begin /\ Kept(m, m1) /\ (Keyed(m) => Keyed(m1))
<1>1. PICK k \in Rings : BegunFrom(m, m1, k) BY BeginFrameIs
<1>2. /\ m1.index = k /\ k = (m.index + 1) % RingSize /\ m1.begin = FALSE
      /\ \A i \in Rings : m1.rings[i] = IF i = k THEN {} ELSE m.rings[i]
      /\ m1.content = m.content
  BY <1>1 DEF BegunFrom
<1>3. ASSUME NEW i \in Rings, NEW n \in m.rings[i], Age(m, i) < RingSize
      PROVE  n \in m1.rings[i] /\ Age(m1, i) <= Age(m, i) /\ m1.content[n] = m.content[n]
  <2>1. m.index \in Rings /\ RingSize \in Nat BY MapFacts, RingAssumption
  <2>2. RingAge(m, i) \in 0 .. RingSize - 1 /\ Age(m, i) = RingAge(m, i) + 1
    BY <2>1, RingAgeType DEF Age
  <2>3. IF i = m1.index THEN RingAge(m, i) = RingSize - 1
                        ELSE RingAge(m1, i) = RingAge(m, i) + 1
    BY <1>2, <2>1, RingAgeNext
  <2>4. i # k /\ RingAge(m1, i) = RingAge(m, i) + 1 BY <1>2, <1>3, <2>1, <2>2, <2>3
  <2>5. Age(m1, i) = Age(m, i) BY <1>2, <2>2, <2>4 DEF Age
  <2> QED BY <1>2, <2>1, <2>2, <2>4, <2>5
<1>4. Kept(m, m1) BY <1>3 DEF Kept
<1>5. ASSUME Keyed(m) PROVE Keyed(m1)
  <2>1. SUFFICES ASSUME NEW h \in DOMAIN m1.map PROVE m1.content[m1.map[h]] = h BY DEF Keyed
  <2>2. h \in DOMAIN m.map /\ m1.map[h] = m.map[h] BY <1>1 DEF BegunFrom
  <2> QED BY <1>2, <1>5, <2>2 DEF Keyed
<1> QED BY <1>2, <1>4, <1>5

LEMMA RequestFlush ==
  ASSUME NEW m, MapInv(m), NEW h \in DOMAIN m.map, NEW m1, m1 = Request(m, h)
  PROVE  /\ m1.begin = m.begin /\ m1.map = m.map
         /\ m1.map[h] \in m1.rings[m1.index]
         /\ Kept(m, m1) /\ (Keyed(m) => Keyed(m1))
<1>1. /\ m1.index = m.index /\ m1.begin = m.begin /\ m1.map = m.map /\ m1.content = m.content
      /\ \A i \in Rings : \A n : n \in m1.rings[i] <=>
           IF n = m.map[h] THEN i = m.index ELSE n \in m.rings[i]
  BY RequestIs
<1>2. m.index \in Rings /\ RingSize \in Nat BY MapFacts, RingAssumption
<1>3. m1.map[h] \in m1.rings[m1.index] BY <1>1, <1>2
<1>4. \A i \in Rings : Age(m1, i) = Age(m, i) BY <1>1 DEF Age, RingAge
<1>5. Kept(m, m1)
  <2>1. SUFFICES ASSUME NEW i \in Rings, NEW n \in m.rings[i]
                 PROVE  /\ \E j \in Rings : n \in m1.rings[j] /\ Age(m1, j) <= Age(m, i)
                        /\ m1.content[n] = m.content[n]
    BY DEF Kept
  <2>2. Age(m, i) \in Nat /\ RingAge(m, i) \in 0 .. RingSize - 1 BY <1>2, RingAgeType
  <2>3. CASE n = m.map[h]
    <3>1. RingAge(m, m.index) = 0 BY <1>2, RingAgeType
    <3>2. Age(m, m.index) <= Age(m, i) BY <1>2, <2>2, <3>1 DEF Age
    <3>3. n \in m1.rings[m.index] /\ Age(m1, m.index) <= Age(m, i)
      BY <1>1, <1>2, <1>4, <2>3, <3>2
    <3> QED BY <1>1, <1>2, <3>3
  <2>4. CASE n # m.map[h]
    <3>1. n \in m1.rings[i] /\ Age(m1, i) <= Age(m, i) BY <1>1, <1>4, <2>2, <2>4
    <3> QED BY <1>1, <3>1
  <2> QED BY <2>3, <2>4
<1>6. Keyed(m) => Keyed(m1) BY <1>1 DEF Keyed
<1> QED BY <1>1, <1>3, <1>5, <1>6

LEMMA MakeVacantFlush ==
  ASSUME NEW m, MapInv(m), NEW m1, m1 = MakeVacant(m)
  PROVE  m1.begin = m.begin /\ m1.map = m.map /\ Kept(m, m1) /\ (Keyed(m) => Keyed(m1))
<1>1. /\ m1.index = m.index /\ m1.begin = m.begin /\ m1.map = m.map /\ m1.rings = m.rings
      /\ \A n \in Nodes(m) : m1.content[n] = m.content[n]
  BY MakeVacantIs
<1>2. \A i \in Rings : Age(m1, i) = Age(m, i) BY <1>1 DEF Age, RingAge
<1>3. \A i \in Rings : m.rings[i] \subseteq Nodes(m) /\ Age(m, i) \in Nat BY MapFacts, RingAgeType
<1>4. Kept(m, m1) BY <1>1, <1>2, <1>3 DEF Kept
<1>5. ASSUME Keyed(m) PROVE Keyed(m1)
  <2>1. \A h \in DOMAIN m.map : m.map[h] \in Nodes(m) BY MapFacts
  <2> QED BY <1>1, <1>5, <2>1 DEF Keyed
<1> QED BY <1>1, <1>4, <1>5

Written(v, h, content) == [v EXCEPT !.content[v.map[h]] = content]

LEMMA RequestVacantFlush ==
  ASSUME NEW m, MapInv(m), NEW h, h \notin DOMAIN m.map, m.vacants # {}, NEW content,
         NEW v, v = RequestVacant(m, h), NEW m1, m1 = Written(v, h, content)
  PROVE  /\ MapInv(m1) /\ m1.begin = m.begin /\ h \in DOMAIN m1.map
         /\ m1.map[h] \in m1.rings[m1.index]
         /\ Kept(m, m1) /\ (Keyed(m) /\ content = h => Keyed(m1))
<1>1. PICK n \in m.vacants :
         /\ DOMAIN v = MapFields
         /\ v.index = m.index /\ v.begin = m.begin /\ v.map = With(m.map, h, n)
         /\ IsSequence(v.hash) /\ Len(v.hash) = Len(m.hash) /\ Nodes(v) = Nodes(m)
         /\ v.hash[n] = h /\ (\A o \in Nodes(m) : o # n => v.hash[o] = m.hash[o])
         /\ v.content = m.content
         /\ v.vacants = m.vacants \ {n}
         /\ v.rings \in [Rings -> SUBSET Nodes(m)]
         /\ \A i \in Rings : \A o : o \in v.rings[i] <=>
              IF o = n THEN o \in m.rings[i] \/ i = m.index ELSE o \in m.rings[i]
  BY RequestVacantIs
<1>2. MapInv(v) BY RequestVacantKeeps
<1>3. /\ DOMAIN v.map = {h} \cup DOMAIN m.map /\ v.map[h] = n
      /\ \A g \in DOMAIN m.map : v.map[g] = m.map[g]
  BY <1>1 DEF With
<1>4. /\ n \in Nodes(m) /\ m.index \in Rings /\ DOMAIN m.content = Nodes(m)
      /\ \A i \in Rings : n \notin m.rings[i]
      /\ \A g \in DOMAIN m.map : m.map[g] \in Nodes(m) /\ m.map[g] # n
  BY <1>1, MapFacts
<1>5. /\ DOMAIN m1 = MapFields /\ m1.index = m.index /\ m1.begin = m.begin
      /\ m1.map = v.map /\ m1.rings = v.rings /\ m1.hash = v.hash /\ m1.vacants = v.vacants
      /\ m1.content = [m.content EXCEPT ![n] = content]
  BY <1>1, <1>3 DEF MapFields, Written
<1>6. /\ IsSequence(m1.content) /\ Len(m1.content) = Len(m.hash)
      /\ \A o \in Nodes(m) : m1.content[o] = IF o = n THEN content ELSE m.content[o]
  <2> DEFINE S == {m.content[o] : o \in DOMAIN m.content} \cup {content}
  <2>1. IsSequence(m.content) /\ Len(m.content) = Len(m.hash)
    BY DEF MapInv, MapTyped
  <2>2. m.content \in Seq({m.content[o] : o \in DOMAIN m.content}) BY <2>1 DEF IsSequence
  <2>3. m.content \in Seq(S) /\ content \in S
    <3>1. {m.content[o] : o \in DOMAIN m.content} \subseteq S /\ content \in S OBVIOUS
    <3> HIDE DEF S
    <3> QED BY <2>2, <3>1, SeqMonotonic
  <2> HIDE DEF S
  <2>4. DOMAIN m.content = 1 .. Len(m.content) BY <2>1, SequenceIs
  <2>5. [m.content EXCEPT ![n] = content] \in Seq(S)
        /\ Len([m.content EXCEPT ![n] = content]) = Len(m.content)
    BY <1>4, <2>3, <2>4, ExceptSeq
  <2>6. IsSequence(m1.content) /\ Len(m1.content) = Len(m.hash)
    BY <1>5, <2>1, <2>5, SequenceFrom
  <2> QED BY <1>4, <1>5, <2>6
<1>7. MapInv(m1)
  <2>1. Nodes(m1) = Nodes(v) BY <1>5 DEF Nodes
  <2>2. MapTyped(m1)
    <3>1. MapTyped(v) BY <1>2 DEF MapInv
    <3>2. m1.index \in Rings /\ m1.begin \in BOOLEAN BY <1>4, <1>5, MapFacts
    <3> QED BY <1>1, <1>5, <1>6, <2>1, <3>1, <3>2 DEF MapTyped
  <2>3. NodesShared(m1) BY <1>2, <1>5, <2>1 DEF MapInv, NodesShared
  <2>4. MapInverse(m1) BY <1>2, <1>5, <2>1 DEF MapInv, MapInverse
  <2> QED BY <2>2, <2>3, <2>4 DEF MapInv
<1>8. h \in DOMAIN m1.map /\ m1.map[h] \in m1.rings[m1.index] BY <1>1, <1>3, <1>4, <1>5
<1>9. \A i \in Rings : Age(m1, i) = Age(m, i) BY <1>5 DEF Age, RingAge
<1>10. Kept(m, m1)
  <2>1. SUFFICES ASSUME NEW i \in Rings, NEW o \in m.rings[i]
                 PROVE  /\ o \in m1.rings[i] /\ Age(m1, i) <= Age(m, i)
                        /\ m1.content[o] = m.content[o]
    BY DEF Kept
  <2>2. o # n /\ o \in Nodes(m) /\ Age(m, i) \in Nat BY <1>4, MapFacts, RingAgeType
  <2>3. o \in v.rings[i] BY <1>1, <2>2
  <2>4. m1.rings = v.rings BY <1>5
  <2>5. Age(m1, i) <= Age(m, i) BY <1>9, <2>2
  <2> QED BY <1>6, <2>2, <2>3, <2>4, <2>5
<1>11. ASSUME Keyed(m), content = h PROVE Keyed(m1)
  <2>1. SUFFICES ASSUME NEW g \in DOMAIN m1.map PROVE m1.content[m1.map[g]] = g BY DEF Keyed
  <2>2. CASE g = h BY <1>3, <1>4, <1>5, <1>6, <1>11, <2>2
  <2>3. CASE g # h
    <3>1. g \in DOMAIN m.map /\ m1.map[g] = m.map[g] BY <1>3, <1>5, <2>3
    <3>2. m.content[m.map[g]] = g BY <1>11, <3>1 DEF Keyed
    <3> QED BY <1>4, <1>6, <3>1, <3>2
  <2> QED BY <2>2, <2>3
<1> QED BY <1>5, <1>7, <1>8, <1>10, <1>11

(* What FlushDescriptorSet promises of the map it leaves: the set it hands *)
(* out is in the ring of this frame, and no set still in use is written.   *)
FlushedTo(m0, m, h, content) ==
  /\ MapInv(m) /\ ~m.begin /\ h \in DOMAIN m.map /\ m.map[h] \in m.rings[m.index]
  /\ Kept(m0, m) /\ (Keyed(m0) /\ content = h => Keyed(m))

LEMMA KeptItself ==
  ASSUME NEW m, MapInv(m)
  PROVE  Kept(m, m)
<1>1. SUFFICES ASSUME NEW i \in Rings PROVE Age(m, i) <= Age(m, i) BY DEF Kept
<1> QED BY RingAgeType DEF MapInv, MapTyped

LEMMA FlushKeeps ==
  ASSUME NEW m0, MapInv(m0), NEW h, NEW content
  PROVE  FlushedTo(m0, Flush(m0, h, content), h, content)
<1> DEFINE m == IF m0.begin THEN BeginFrame(m0) ELSE m0
           w == IF m.vacants = {} THEN MakeVacant(m) ELSE m
           v == RequestVacant(w, h)
<1>1. MapInv(m) /\ ~m.begin /\ Kept(m0, m) /\ (Keyed(m0) => Keyed(m))
  <2>1. CASE m0.begin BY <2>1, BeginFrameKeeps, BeginFrameFlush
  <2>2. CASE ~m0.begin BY <2>2, KeptItself
  <2> QED BY <2>1, <2>2
<1>2. Flush(m0, h, content) = IF h \in DOMAIN m.map THEN Request(m, h)
                              ELSE Written(v, h, content)
  BY DEF Flush, Written
<1>3. /\ MapInv(w) /\ w.vacants # {} /\ w.begin = m.begin /\ w.map = m.map
      /\ Kept(m, w) /\ (Keyed(m) => Keyed(w))
  <2> HIDE DEF m
  <2>1. CASE m.vacants = {} BY <1>1, <2>1, MakeVacantKeeps, MakeVacantFlush
  <2>2. CASE m.vacants # {} BY <1>1, <2>2, KeptItself
  <2> QED BY <2>1, <2>2
<1> HIDE DEF m, w
<1>4. CASE h \in DOMAIN m.map
  <2> DEFINE m1 == Request(m, h)
  <2>1. /\ MapInv(m1) /\ m1.begin = m.begin /\ m1.map = m.map
        /\ m1.map[h] \in m1.rings[m1.index]
        /\ Kept(m, m1) /\ (Keyed(m) => Keyed(m1))
    BY <1>1, <1>4, RequestKeeps, RequestFlush
  <2>2. Flush(m0, h, content) = m1 BY <1>2, <1>4
  <2> HIDE DEF m1
  <2>3. Kept(m0, m1) BY <1>1, <2>1, KeptTransitive
  <2> QED BY <1>1, <1>4, <2>1, <2>2, <2>3 DEF FlushedTo
<1>5. CASE h \notin DOMAIN m.map
  <2> DEFINE m1 == Written(v, h, content)
  <2>1. h \notin DOMAIN w.map BY <1>3, <1>5
  <2>2. /\ MapInv(m1) /\ m1.begin = w.begin /\ h \in DOMAIN m1.map
        /\ m1.map[h] \in m1.rings[m1.index]
        /\ Kept(w, m1) /\ (Keyed(w) /\ content = h => Keyed(m1))
    BY <1>3, <2>1, RequestVacantFlush
  <2>3. Flush(m0, h, content) = m1 BY <1>2, <1>5
  <2> HIDE DEF m1
  <2>4. Kept(m, m1) BY <1>1, <1>3, <2>2, KeptTransitive
  <2>5. Kept(m0, m1) BY <1>1, <2>2, <2>4, KeptTransitive
  <2> QED BY <1>1, <1>3, <2>2, <2>3, <2>5 DEF FlushedTo
<1> QED BY <1>4, <1>5

LEMMA EmptyMapInv ==
  ASSUME NEW m, DOMAIN m = MapFields, m.index \in Rings, m.begin \in BOOLEAN,
         m.rings = [j \in 0 .. RingSize - 1 |-> {}],
         m.map = <<>>, m.hash = <<>>, m.vacants = {}, m.content = <<>>
  PROVE  MapInv(m) /\ Keyed(m)
<1>1. DOMAIN m.map = {} /\ DOMAIN m.hash = {} /\ Len(m.hash) = 0 /\ Len(m.content) = 0
  OBVIOUS
<1>2. Nodes(m) = {} BY <1>1 DEF Nodes
<1>3. IsSequence(m.hash) /\ IsSequence(m.content)
  <2>1. <<>> \in Seq({}) OBVIOUS
  <2> QED BY <2>1, SequenceFrom
<1>4. MapTyped(m) BY <1>1, <1>2, <1>3 DEF MapTyped, Rings
<1>5. NodesShared(m) /\ MapInverse(m) /\ Keyed(m)
  BY <1>1, <1>2 DEF NodesShared, MapInverse, Keyed
<1> QED BY <1>4, <1>5 DEF MapInv

LEMMA ClearKeeps ==
  ASSUME NEW m, MapInv(m), NEW m1, m1 = ClearMap(m)
  PROVE  MapInv(m1) /\ Keyed(m1)
<1>1. m.index \in Rings /\ m.begin \in BOOLEAN BY MapFacts
<1>2. /\ DOMAIN m1 = MapFields /\ m1.index = m.index /\ m1.begin = m.begin
      /\ m1.rings = [j \in 0 .. RingSize - 1 |-> {}]
      /\ m1.map = <<>> /\ m1.hash = <<>> /\ m1.vacants = {} /\ m1.content = <<>>
  BY DEF ClearMap, EmptyMap, MapFields
<1> QED BY <1>1, <1>2, EmptyMapInv

LEMMA EmptyMapKeeps ==
  ASSUME NEW m, m = EmptyMap
  PROVE  MapInv(m) /\ Keyed(m)
<1>1. 0 \in Rings BY RingAssumption DEF Rings
<1>2. /\ DOMAIN m = MapFields /\ m.index = 0 /\ m.begin = TRUE
      /\ m.rings = [j \in 0 .. RingSize - 1 |-> {}]
      /\ m.map = <<>> /\ m.hash = <<>> /\ m.vacants = {} /\ m.content = <<>>
  BY DEF EmptyMap, MapFields
<1> QED BY <1>1, <1>2, EmptyMapInv

LEMMA MarkKeeps ==
  ASSUME NEW m, MapInv(m), NEW m1, m1 = [m EXCEPT !.begin = TRUE]
  PROVE  /\ MapInv(m1) /\ m1.begin = TRUE /\ m1.index = m.index /\ m1.rings = m.rings
         /\ m1.content = m.content /\ (Keyed(m) => Keyed(m1))
<1>1. /\ DOMAIN m1 = MapFields /\ m1.begin = TRUE /\ m1.index = m.index /\ m1.rings = m.rings
      /\ m1.map = m.map /\ m1.hash = m.hash /\ m1.vacants = m.vacants /\ m1.content = m.content
  BY MapFacts DEF MapFields
<1>2. Nodes(m1) = Nodes(m) BY <1>1 DEF Nodes
<1>3. MapTyped(m1)
  <2>1. MapTyped(m) BY DEF MapInv
  <2> QED BY <1>1, <1>2, <2>1 DEF MapTyped
<1>4. NodesShared(m1) /\ MapInverse(m1)
  <2>1. NodesShared(m) /\ MapInverse(m) BY DEF MapInv
  <2>2. NodesShared(m1) BY <1>1, <1>2, <2>1 DEF NodesShared
  <2>3. m1.map = m.map /\ m1.hash = m.hash /\ m1.vacants = m.vacants BY <1>1
  <2>4. MapInverse(m1) BY <1>2, <2>1, <2>3 DEF MapInverse
  <2> QED BY <2>2, <2>4
<1>5. Keyed(m) => Keyed(m1) BY <1>1 DEF Keyed
<1> QED BY <1>1, <1>3, <1>4, <1>5 DEF MapInv

-----------------------------------------------------------------------------
(* Steps that leave the objects shared by the command buffers alone.       *)

LEMMA CmdBufsAre == Primary \in CmdBufs /\ Secondary \in CmdBufs /\ None \notin CmdBufs
BY ValueAssumption DEF CmdBufs

LEMMA IdleTracked ==
  ASSUME NEW r \in CmdType, Idle(r), NEW g
  PROVE  Tracked(r, g) /\ SetsTracked(r, g)
<1>1. r.pipeline = None /\ r.program = None /\ r.index = None /\ r.dirtyVbos = Vbos BY DEF Idle
<1>2. Stale(r) BY <1>1 DEF Stale
<1> QED BY <1>1, <1>2 DEF Tracked, SetsTracked

LEMMA ObjectsKept ==
  ASSUME TrackInv, UNCHANGED <<client, objects>>, CmdTyped', GpuTyped', calls' \in 0 .. MaxCalls,
         drew' = None, Contexts', \A c \in CmdBufs : (Tracked(cmd[c], gpu[c]) /\ SetsTracked(cmd[c], gpu[c]))'
  PROVE  TrackInv'
<1>1. TypeOK' BY DEF TrackInv, TypeOK, ObjectsTyped, objects
<1>2. \A c \in CmdBufs : drew' # c BY CmdBufsAre
<1>3. (\A p \in Programs : \A d \in SetsOf(p) : MapInv(maps[p][d]))' BY DEF TrackInv, objects
<1>4. Stored' BY DEF TrackInv, objects, Stored
<1>5. UsedKept' BY DEF TrackInv, objects, UsedKept, FrameAge
<1> QED BY <1>1, <1>2, <1>3, <1>4, <1>5 DEF TrackInv

LEMMA TrackedKept ==
  ASSUME NEW r, NEW g, UNCHANGED <<array, maps, pipelines>>, NEW c \in CmdBufs,
         cmd'[c] = r, gpu'[c] = g, Tracked(r, g), SetsTracked(r, g)
  PROVE  (Tracked(cmd[c], gpu[c]) /\ SetsTracked(cmd[c], gpu[c]))'
<1>1. Tracked(cmd[c], gpu[c])' BY DEF Tracked
<1>2. SetsTracked(cmd[c], gpu[c])' BY DEF SetsTracked, HashOf
<1> QED BY <1>1, <1>2

LEMMA BeginContextIs ==
  ASSUME NEW r \in CmdType, NEW r1, r1 = BeginContext(r)
  PROVE  /\ r1 \in CmdType /\ Idle(r1)
         /\ r1.open = r.open /\ r1.pass = r.pass /\ r1.contents = r.contents /\ r1.static = r.static
<1>1. r1 = [r EXCEPT !.dirty = Bits, !.dirtySets = Sets, !.dirtyVbos = Vbos,
                     !.pipeline = None, !.program = None, !.index = None,
                     !.vbo = [b \in Vbos |-> None]]
  BY DEF BeginContext
<1>2. [b \in Vbos |-> None] \in [Vbos -> Values \cup {None}] OBVIOUS
<1>3. r1 \in CmdType
  <2> DEFINE v == [b \in Vbos |-> None]
             r2 == [r EXCEPT !.dirty = Bits, !.dirtySets = Sets, !.dirtyVbos = Vbos]
             r3 == [r2 EXCEPT !.pipeline = None, !.program = None, !.index = None]
             r4 == [r3 EXCEPT !.vbo = v]
  <2>1. v \in [Vbos -> Values \cup {None}] OBVIOUS
  <2> HIDE DEF v
  <2>2. r2 \in CmdType BY DEF CmdType
  <2> HIDE DEF r2
  <2>3. r3 \in CmdType BY <2>2 DEF CmdType
  <2> HIDE DEF r3
  <2>4. r4 \in CmdType BY <2>1, <2>3 DEF CmdType
  <2> QED BY <1>1, <2>4 DEF r2, r3, r4, v
<1>4. Idle(r1) BY <1>1 DEF CmdType, Idle
<1> QED BY <1>1, <1>3, <1>4 DEF CmdType

LEMMA NewCommandBufferIs ==
  ASSUME NEW r, r = NewCommandBuffer
  PROVE  /\ r \in CmdType /\ Idle(r) /\ r.open = TRUE /\ r.pass = None /\ r.contents = "inline"
         /\ r.static = ClearStatic
<1> DEFINE a == CHOOSE b \in Vbos : TRUE
           base == [open |-> TRUE, pass |-> None, subpass |-> 0, contents |-> "inline",
             program |-> None, pipeline |-> None, sets |-> [d \in Sets |-> None],
             static |-> ClearStatic, spec |-> [on |-> FALSE, value |-> 0], blend |-> 0,
             dyn |-> [g \in Dynamic |-> 0], push |-> 0,
             attrib |-> a, stride |-> [b \in Vbos |-> 0],
             vbo |-> [b \in Vbos |-> None], index |-> None,
             dirty |-> {}, dirtySets |-> {}, dirtyDynamic |-> {}, dirtyVbos |-> {}, active |-> {}]
<1>1. a \in Vbos BY ValueAssumption
<1>2. r = BeginContext(base) BY DEF NewCommandBuffer
<1> HIDE DEF a
<1>3. ClearStatic \in StaticType BY DEF ClearStatic, StaticType, Words, Factors
<1>4. /\ [d \in Sets |-> None] \in [Sets -> {None} \cup Nat]
      /\ [on |-> FALSE, value |-> 0] \in [on : BOOLEAN, value : Values]
      /\ [g \in Dynamic |-> 0] \in [Dynamic -> Values] /\ [b \in Vbos |-> 0] \in [Vbos -> Values]
      /\ [b \in Vbos |-> None] \in [Vbos -> Values \cup {None}]
  BY ValueAssumption
<1>5. base \in CmdType BY <1>1, <1>3, <1>4, ValueAssumption DEF CmdType
<1>6. base.open = TRUE /\ base.pass = None /\ base.contents = "inline" /\ base.static = ClearStatic
  OBVIOUS
<1> HIDE DEF base
<1> QED BY <1>2, <1>5, <1>6, BeginContextIs

LEMMA ClosedIs ==
  ASSUME NEW r, r = Closed
  PROVE  /\ r \in CmdType /\ Idle(r) /\ r.open = FALSE /\ r.pass = None /\ r.contents = "inline"
         /\ r.static = ClearStatic
<1>1. PICK n : n = NewCommandBuffer OBVIOUS
<1>2. r = [n EXCEPT !.open = FALSE] BY <1>1 DEF Closed
<1>3. /\ n \in CmdType /\ Idle(n) /\ n.pass = None /\ n.contents = "inline"
      /\ n.static = ClearStatic
  BY <1>1, NewCommandBufferIs
<1>4. r \in CmdType BY <1>2, <1>3 DEF CmdType
<1>5. Idle(r) BY <1>2, <1>3 DEF CmdType, Idle
<1> QED BY <1>2, <1>3, <1>4, <1>5 DEF CmdType

LEMMA NothingBoundIs ==
  ASSUME NEW g, g = NothingBound
  PROVE  BoundType(g)
BY DEF NothingBound, BoundType, GpuFields, Points

(* Steps that only begin, end or switch contexts: what records afterwards  *)
(* starts with everything dirty.                                           *)
LEMMA ContextKeeps ==
  ASSUME TrackInv, UNCHANGED <<client, objects>>, calls' \in 0 .. MaxCalls, drew' = None,
         GpuTyped', cmd' \in [CmdBufs -> CmdType],
         \A c \in CmdBufs : Idle(cmd'[c]) \/ (cmd'[c] = cmd[c] /\ gpu'[c] = gpu[c]), Contexts'
  PROVE  TrackInv'
<1>1. pipelines' = pipelines /\ array' = array /\ maps' = maps BY DEF objects
<1>2. ASSUME NEW c \in CmdBufs
      PROVE  /\ (Tracked(cmd[c], gpu[c]) /\ SetsTracked(cmd[c], gpu[c]))'
             /\ cmd'[c].pipeline \in DOMAIN pipelines' \cup {None}
  <2>1. CASE Idle(cmd'[c])
    <3>1. Tracked(cmd'[c], gpu'[c]) /\ SetsTracked(cmd'[c], gpu'[c]) BY <2>1, IdleTracked
    <3>2. cmd'[c].pipeline = None BY <2>1 DEF Idle
    <3> QED BY <1>1, <3>1, <3>2, TrackedKept
  <2>2. CASE cmd'[c] = cmd[c] /\ gpu'[c] = gpu[c]
    <3>1. /\ Tracked(cmd[c], gpu[c]) /\ SetsTracked(cmd[c], gpu[c])
          /\ cmd[c].pipeline \in DOMAIN pipelines \cup {None}
      BY DEF TrackInv, TypeOK, CmdTyped
    <3>2. Tracked(cmd'[c], gpu'[c]) /\ SetsTracked(cmd'[c], gpu'[c]) BY <2>2, <3>1
    <3> QED BY <1>1, <2>2, <3>1, <3>2, TrackedKept
  <2> QED BY <2>1, <2>2
<1>3. CmdTyped' BY <1>2 DEF CmdTyped
<1> QED BY <1>2, <1>3, ObjectsKept

LEMMA CallsTyped ==
  ASSUME TrackInv
  PROVE  /\ 0 \in 0 .. MaxCalls /\ calls \in 0 .. MaxCalls
         /\ (calls < MaxCalls => calls + 1 \in 0 .. MaxCalls)
BY CallAssumption DEF TrackInv, TypeOK

LEMMA GpuReset ==
  ASSUME TrackInv, NEW c \in CmdBufs, gpu' = [gpu EXCEPT ![c] = NothingBound]
  PROVE  GpuTyped' /\ \A d \in CmdBufs : d # c => gpu'[d] = gpu[d]
<1>1. PICK n : n = NothingBound OBVIOUS
<1>2. BoundType(n) BY <1>1, NothingBoundIs
<1>3. DOMAIN gpu = CmdBufs /\ \A d \in CmdBufs : BoundType(gpu[d])
  BY DEF TrackInv, TypeOK, GpuTyped
<1>4. gpu' = [gpu EXCEPT ![c] = n] BY <1>1
<1>5. DOMAIN gpu' = CmdBufs /\ \A d \in CmdBufs : BoundType(gpu'[d]) BY <1>2, <1>3, <1>4
<1> QED BY <1>3, <1>4, <1>5 DEF GpuTyped

LEMMA StepRequest ==
  ASSUME TrackInv, RequestCommandBuffer
  PROVE  TrackInv'
<1>1. PICK n : n = NewCommandBuffer OBVIOUS
<1>2. /\ n \in CmdType /\ Idle(n) /\ n.open = TRUE /\ n.pass = None /\ n.contents = "inline"
  BY <1>1, NewCommandBufferIs
<1>3. /\ ~cmd[Primary].open /\ cmd' = [cmd EXCEPT ![Primary] = n]
      /\ gpu' = [gpu EXCEPT ![Primary] = NothingBound]
      /\ drew' = None /\ calls' = 0 /\ UNCHANGED <<client, objects>>
  BY <1>1 DEF RequestCommandBuffer, Set
<1>4. cmd \in [CmdBufs -> CmdType] /\ Contexts BY DEF TrackInv, TypeOK, CmdTyped
<1>5. GpuTyped' /\ \A d \in CmdBufs : d # Primary => gpu'[d] = gpu[d] BY <1>3, CmdBufsAre, GpuReset
<1>6. cmd' \in [CmdBufs -> CmdType] /\ cmd'[Primary] = n /\ cmd'[Secondary] = cmd[Secondary]
  BY <1>2, <1>3, <1>4, CmdBufsAre, ValueAssumption
<1>7. \A c \in CmdBufs : Idle(cmd'[c]) \/ (cmd'[c] = cmd[c] /\ gpu'[c] = gpu[c])
  BY <1>2, <1>5, <1>6 DEF CmdBufs
<1>8. Contexts'
  BY <1>2, <1>3, <1>4, <1>6 DEF Contexts, CmdBufs, Recording
<1> QED BY <1>3, <1>5, <1>6, <1>7, <1>8, CallsTyped, ContextKeeps

LEMMA StepEnd ==
  ASSUME TrackInv, EndCommandBuffer
  PROVE  TrackInv'
<1>1. PICK n : n = Closed OBVIOUS
<1>2. /\ n \in CmdType /\ Idle(n) /\ n.open = FALSE /\ n.pass = None /\ n.contents = "inline"
  BY <1>1, ClosedIs
<1>3. /\ cmd[Primary].open /\ IsCompute(cmd[Primary]) /\ cmd' = [cmd EXCEPT ![Primary] = n]
      /\ gpu' = [gpu EXCEPT ![Primary] = NothingBound]
      /\ drew' = None /\ calls' = 0 /\ UNCHANGED <<client, objects>>
  BY <1>1 DEF EndCommandBuffer, Set
<1>4. cmd \in [CmdBufs -> CmdType] /\ Contexts BY DEF TrackInv, TypeOK, CmdTyped
<1>5. GpuTyped' /\ \A d \in CmdBufs : d # Primary => gpu'[d] = gpu[d] BY <1>3, CmdBufsAre, GpuReset
<1>6. cmd' \in [CmdBufs -> CmdType] /\ cmd'[Primary] = n /\ cmd'[Secondary] = cmd[Secondary]
  BY <1>2, <1>3, <1>4, CmdBufsAre, ValueAssumption
<1>7. \A c \in CmdBufs : Idle(cmd'[c]) \/ (cmd'[c] = cmd[c] /\ gpu'[c] = gpu[c])
  BY <1>2, <1>5, <1>6 DEF CmdBufs
<1>8. Contexts'
  BY <1>2, <1>3, <1>4, <1>6 DEF Contexts, CmdBufs, Recording
<1> QED BY <1>3, <1>5, <1>6, <1>7, <1>8, CallsTyped, ContextKeeps

(* The primary command buffer begins a context of its own.                 *)
LEMMA PrimaryContext ==
  ASSUME TrackInv, UNCHANGED <<client, gpu, objects>>, calls' = calls, drew' = None,
         NEW r \in CmdType, cmd' = [cmd EXCEPT ![Primary] = BeginContext(r)],
         cmd[Primary].open, ~cmd[Secondary].open,
         r.open = cmd[Primary].open, r.contents = "secondary" => ~IsCompute(r)
  PROVE  TrackInv'
<1>1. PICK n : n = BeginContext(r) OBVIOUS
<1>2. n \in CmdType /\ Idle(n) /\ n.open = r.open /\ n.pass = r.pass /\ n.contents = r.contents
  BY <1>1, BeginContextIs
<1>3. cmd' = [cmd EXCEPT ![Primary] = n] BY <1>1
<1>4. cmd \in [CmdBufs -> CmdType] /\ Contexts /\ GpuTyped BY DEF TrackInv, TypeOK, CmdTyped
<1>5. cmd' \in [CmdBufs -> CmdType] /\ cmd'[Primary] = n /\ cmd'[Secondary] = cmd[Secondary]
  BY <1>2, <1>3, <1>4, CmdBufsAre, ValueAssumption
<1>6. \A c \in CmdBufs : Idle(cmd'[c]) \/ (cmd'[c] = cmd[c] /\ gpu'[c] = gpu[c])
  BY <1>2, <1>5 DEF CmdBufs
<1>7. Contexts'
  BY <1>2, <1>4, <1>5 DEF Contexts, CmdBufs, Recording, IsCompute
<1>8. GpuTyped' BY <1>4 DEF GpuTyped
<1> QED BY <1>5, <1>6, <1>7, <1>8, CallsTyped, ContextKeeps

LEMMA StepBeginRenderPass ==
  ASSUME TrackInv, NEW pass \in client.passes, NEW contents \in {"inline", "secondary"},
         BeginRenderPass(pass, contents)
  PROVE  TrackInv'
<1> DEFINE q == cmd[Primary]
           v == [g \in Dynamic |-> IF g \in {"viewport", "scissor"} THEN 0 ELSE q.dyn[g]]
           r == [q EXCEPT !.pass = pass, !.subpass = 0, !.contents = contents, !.dyn = v]
<1>1. cmd \in [CmdBufs -> CmdType] /\ Contexts /\ client \in Clients /\ q \in CmdType
  BY CmdBufsAre DEF TrackInv, TypeOK, CmdTyped
<1>2. pass \in DOMAIN Passes /\ pass # None BY <1>1, ClientAssumption, ValueAssumption
<1>3. cmd' = [cmd EXCEPT ![Primary] = BeginContext(r)] BY DEF BeginRenderPass, Set
<1>4. /\ q.open /\ q.contents = "inline" /\ drew' = None /\ calls' = calls
      /\ UNCHANGED <<client, gpu, objects>>
  BY DEF BeginRenderPass, Call, Recording
<1>5. v \in [Dynamic -> Values]
  <2>1. q.dyn \in [Dynamic -> Values] BY <1>1 DEF CmdType
  <2> QED BY <2>1, ValueAssumption
<1> HIDE DEF v
<1>6. r \in CmdType BY <1>1, <1>2, <1>5 DEF CmdType
<1>7. r.open = q.open /\ r.pass = pass BY <1>1 DEF CmdType
<1>8. ~cmd[Secondary].open BY <1>1, <1>4 DEF Contexts
<1> HIDE DEF r
<1> QED BY <1>2, <1>3, <1>4, <1>6, <1>7, <1>8, PrimaryContext DEF IsCompute

LEMMA StepNextSubpass ==
  ASSUME TrackInv, NEW contents \in {"inline", "secondary"}, NextSubpass(contents)
  PROVE  TrackInv'
<1> DEFINE q == cmd[Primary]
           s == q.subpass + 1
           r == [q EXCEPT !.subpass = s, !.contents = contents]
<1>1. q \in CmdType BY CmdBufsAre DEF TrackInv, TypeOK, CmdTyped
<1>2. cmd' = [cmd EXCEPT ![Primary] = BeginContext(r)] BY DEF NextSubpass, Set
<1>3. /\ q.open /\ ~IsCompute(q) /\ ~cmd[Secondary].open /\ drew' = None /\ calls' = calls
      /\ UNCHANGED <<client, gpu, objects>>
  BY DEF NextSubpass
<1>4. r \in CmdType
  <2>1. s \in Nat BY <1>1 DEF CmdType
  <2> HIDE DEF q, s
  <2> QED BY <1>1, <2>1 DEF CmdType
<1>5. r.open = q.open /\ r.pass = q.pass BY <1>1 DEF CmdType
<1> HIDE DEF r
<1> QED BY <1>2, <1>3, <1>4, <1>5, PrimaryContext DEF IsCompute

LEMMA StepEndRenderPass ==
  ASSUME TrackInv, EndRenderPass
  PROVE  TrackInv'
<1> DEFINE q == cmd[Primary]
           r == [q EXCEPT !.pass = None, !.contents = "inline"]
<1>1. q \in CmdType BY CmdBufsAre DEF TrackInv, TypeOK, CmdTyped
<1>2. cmd' = [cmd EXCEPT ![Primary] = BeginContext(r)] BY DEF EndRenderPass, Set
<1>3. /\ q.open /\ ~cmd[Secondary].open /\ drew' = None /\ calls' = calls
      /\ UNCHANGED <<client, gpu, objects>>
  BY DEF EndRenderPass
<1>4. r \in CmdType BY <1>1 DEF CmdType
<1>5. r.open = q.open /\ r.contents = "inline" BY <1>1 DEF CmdType
<1> HIDE DEF r
<1> QED BY <1>2, <1>3, <1>4, <1>5, PrimaryContext

LEMMA StepRequestSecondary ==
  ASSUME TrackInv, RequestSecondaryCommandBuffer
  PROVE  TrackInv'
<1> DEFINE q == cmd[Primary]
<1>1. PICK o : o = NewCommandBuffer OBVIOUS
<1> DEFINE v == [g \in Dynamic |-> IF g \in {"viewport", "scissor"} THEN q.dyn[g] ELSE o.dyn[g]]
           r == [o EXCEPT !.pass = q.pass, !.subpass = q.subpass, !.dyn = v]
<1>2. /\ o \in CmdType /\ o.open = TRUE /\ o.contents = "inline" BY <1>1, NewCommandBufferIs
<1>3. cmd \in [CmdBufs -> CmdType] /\ Contexts /\ q \in CmdType
  BY CmdBufsAre DEF TrackInv, TypeOK, CmdTyped
<1>4. cmd' = [cmd EXCEPT ![Secondary] = BeginContext(r)]
  BY <1>1 DEF RequestSecondaryCommandBuffer, Set
<1>5. /\ q.open /\ q.contents = "secondary" /\ gpu' = [gpu EXCEPT ![Secondary] = NothingBound]
      /\ drew' = None /\ calls' = 0 /\ UNCHANGED <<client, objects>>
  BY DEF RequestSecondaryCommandBuffer
<1>6. v \in [Dynamic -> Values]
  <2>1. q.dyn \in [Dynamic -> Values] /\ o.dyn \in [Dynamic -> Values] BY <1>2, <1>3 DEF CmdType
  <2> QED BY <2>1
<1> HIDE DEF v
<1>7. r \in CmdType
  <2>1. q.pass \in DOMAIN Passes \cup {None} /\ q.subpass \in Nat BY <1>3 DEF CmdType
  <2> HIDE DEF q
  <2> QED BY <1>2, <1>6, <2>1 DEF CmdType
<1>8. r.open = TRUE /\ r.contents = "inline" BY <1>2 DEF CmdType
<1> HIDE DEF r, q
<1>9. PICK n : n = BeginContext(r) OBVIOUS
<1>10. n \in CmdType /\ Idle(n) /\ n.open = r.open /\ n.contents = r.contents
  BY <1>7, <1>9, BeginContextIs
<1>11. cmd' \in [CmdBufs -> CmdType] /\ cmd'[Secondary] = n /\ cmd'[Primary] = cmd[Primary]
  BY <1>3, <1>4, <1>9, <1>10, CmdBufsAre, ValueAssumption
<1>12. GpuTyped' /\ \A d \in CmdBufs : d # Secondary => gpu'[d] = gpu[d]
  BY <1>5, CmdBufsAre, GpuReset
<1>13. \A c \in CmdBufs : Idle(cmd'[c]) \/ (cmd'[c] = cmd[c] /\ gpu'[c] = gpu[c])
  BY <1>10, <1>11, <1>12 DEF CmdBufs
<1>14. Contexts'
  BY <1>3, <1>5, <1>8, <1>10, <1>11 DEF Contexts, CmdBufs, Recording, q
<1> QED BY <1>5, <1>11, <1>12, <1>13, <1>14, CallsTyped, ContextKeeps

LEMMA StepSubmitSecondary ==
  ASSUME TrackInv, SubmitSecondary
  PROVE  TrackInv'
<1>1. PICK n : n = Closed OBVIOUS
<1>2. n \in CmdType /\ Idle(n) /\ n.open = FALSE /\ n.contents = "inline" BY <1>1, ClosedIs
<1>3. PICK b : b = NothingBound OBVIOUS
<1>4. /\ cmd[Primary].contents = "secondary" /\ cmd' = [cmd EXCEPT ![Secondary] = n]
      /\ gpu' = [c \in CmdBufs |-> b]
      /\ drew' = None /\ UNCHANGED <<client, objects, calls>>
  BY <1>1, <1>3 DEF SubmitSecondary, Set
<1>5. cmd \in [CmdBufs -> CmdType] /\ Contexts BY DEF TrackInv, TypeOK, CmdTyped
<1>6. GpuTyped' BY <1>3, <1>4, NothingBoundIs DEF GpuTyped
<1>7. cmd' \in [CmdBufs -> CmdType] /\ cmd'[Secondary] = n /\ cmd'[Primary] = cmd[Primary]
  BY <1>2, <1>4, <1>5, CmdBufsAre, ValueAssumption
<1>8. Idle(cmd[Primary]) BY <1>4, <1>5, CmdBufsAre DEF Contexts, Recording
<1>9. \A c \in CmdBufs : Idle(cmd'[c]) BY <1>2, <1>7, <1>8 DEF CmdBufs
<1>10. Contexts' BY <1>2, <1>4, <1>5, <1>7, <1>9 DEF Contexts, CmdBufs, Recording
<1> QED BY <1>4, <1>6, <1>7, <1>9, <1>10, CallsTyped, ContextKeeps

-----------------------------------------------------------------------------
(* Setters.                                                                *)

(* While one command buffer records, nothing is recorded in the other.     *)
LEMMA OthersIdle ==
  ASSUME TrackInv, NEW c \in CmdBufs, Recording(c)
  PROVE  \A d \in CmdBufs : d # c => Idle(cmd[d])
BY DEF TrackInv, Contexts, Recording, CmdBufs

LEMMA StillRecording ==
  ASSUME TrackInv, NEW c \in CmdBufs, Recording(c), NEW r \in CmdType,
         cmd' = [cmd EXCEPT ![c] = r],
         r.open = cmd[c].open, r.contents = cmd[c].contents, r.pass = cmd[c].pass
  PROVE  Contexts' /\ cmd' \in [CmdBufs -> CmdType] /\ cmd'[c] = r
         /\ \A d \in CmdBufs : d # c => cmd'[d] = cmd[d]
<1>1. cmd \in [CmdBufs -> CmdType] /\ Contexts BY DEF TrackInv, TypeOK, CmdTyped
<1>2. /\ cmd' \in [CmdBufs -> CmdType] /\ cmd'[c] = r
      /\ \A d \in CmdBufs : d # c => cmd'[d] = cmd[d]
  BY <1>1
<1>3. Contexts' BY <1>1, <1>2 DEF Contexts, Recording, IsCompute, CmdBufs
<1> QED BY <1>2, <1>3

LEMMA Recorded ==
  ASSUME TrackInv, NEW c \in CmdBufs, Recording(c), UNCHANGED <<client, objects>>,
         calls' \in 0 .. MaxCalls, drew' = None,
         NEW r \in CmdType, cmd' = [cmd EXCEPT ![c] = r],
         r.open = cmd[c].open, r.contents = cmd[c].contents, r.pass = cmd[c].pass,
         r.pipeline \in DOMAIN pipelines \cup {None},
         GpuTyped', Tracked(r, gpu'[c]), SetsTracked(r, gpu'[c])
  PROVE  TrackInv'
<1>1. /\ Contexts' /\ cmd' \in [CmdBufs -> CmdType] /\ cmd'[c] = r
      /\ \A d \in CmdBufs : d # c => cmd'[d] = cmd[d]
  BY StillRecording
<1>2. pipelines' = pipelines /\ array' = array /\ maps' = maps BY DEF objects
<1>3. ASSUME NEW d \in CmdBufs
      PROVE  /\ (Tracked(cmd[d], gpu[d]) /\ SetsTracked(cmd[d], gpu[d]))'
             /\ cmd'[d].pipeline \in DOMAIN pipelines' \cup {None}
  <2>1. CASE d = c
    <3>1. Tracked(cmd'[d], gpu'[d]) /\ SetsTracked(cmd'[d], gpu'[d]) BY <1>1, <2>1
    <3> QED BY <1>1, <1>2, <2>1, <3>1, TrackedKept
  <2>2. CASE d # c
    <3>1. Idle(cmd'[d]) BY <1>1, <2>2, OthersIdle
    <3>2. Tracked(cmd'[d], gpu'[d]) /\ SetsTracked(cmd'[d], gpu'[d]) BY <1>1, <3>1, IdleTracked
    <3>3. cmd'[d].pipeline = None BY <3>1 DEF Idle
    <3> QED BY <1>1, <1>2, <3>2, <3>3, TrackedKept
  <2> QED BY <2>1, <2>2
<1>4. CmdTyped' BY <1>1, <1>3 DEF CmdTyped
<1> QED BY <1>1, <1>3, <1>4, ObjectsKept

(* r differs from o only in what it marks dirty.                           *)
Marked(o, r) ==
  /\ r.open = o.open /\ r.contents = o.contents /\ r.pass = o.pass /\ r.subpass = o.subpass
  /\ r.program = o.program /\ r.pipeline = o.pipeline /\ r.sets = o.sets /\ r.index = o.index
  /\ r.active = o.active /\ r.dirtySets = o.dirtySets
  /\ o.dirty \subseteq r.dirty /\ o.dirtyVbos \subseteq r.dirtyVbos
  /\ "static" \notin r.dirty =>
       /\ r.static = o.static /\ r.blend = o.blend
       /\ r.spec.on = o.spec.on /\ (o.spec.on => r.spec.value = o.spec.value)
  /\ "vertex" \notin r.dirty /\ ~IsCompute(o) => r.attrib = o.attrib /\ r.stride = o.stride
  /\ "push" \notin r.dirty => r.push = o.push
  /\ \A x \in Dynamic \ r.dirty : r.dyn[x] = o.dyn[x]
  /\ \A b \in Vbos \ r.dirtyVbos : r.vbo[b] = o.vbo[b]

LEMMA MarkedTracked ==
  ASSUME NEW o \in CmdType, NEW r \in CmdType, Marked(o, r), NEW g, Tracked(o, g), SetsTracked(o, g)
  PROVE  Tracked(r, g) /\ SetsTracked(r, g)
<1>1. IsCompute(r) = IsCompute(o) /\ Point(r) = Point(o) BY DEF Marked, IsCompute, Point
<1>2. PipelineBits(r) = PipelineBits(o) BY <1>1 DEF PipelineBits
<1>3. ASSUME ~Stale(r)
      PROVE  ~Stale(o) /\ PipelineHash(r) = PipelineHash(o) /\ (~IsCompute(r) => ActiveVbos(r) = ActiveVbos(o))
  <2>1. ~Stale(o) BY <1>2, <1>3 DEF Stale, Marked
  <2>2. "static" \notin r.dirty /\ (~IsCompute(r) => "vertex" \notin r.dirty)
    BY <1>3 DEF Stale, PipelineBits
  <2>3. /\ r.program = o.program /\ r.pass = o.pass /\ r.subpass = o.subpass
        /\ r.static = o.static /\ r.blend = o.blend
        /\ r.spec.on = o.spec.on /\ (o.spec.on => r.spec.value = o.spec.value)
        /\ (~IsCompute(r) => r.attrib = o.attrib /\ r.stride = o.stride)
    BY <1>1, <2>2 DEF Marked
  <2>4. SpecOf(r) = SpecOf(o) BY <2>3 DEF SpecOf
  <2>5. CASE IsCompute(r) BY <1>1, <2>1, <2>3, <2>4, <2>5 DEF PipelineHash, ComputeHash
  <2>6. CASE ~IsCompute(r)
    <3>1. ActiveVbos(r) = ActiveVbos(o) BY <2>3, <2>6 DEF ActiveVbos
    <3>2. GraphicsHash(r) = GraphicsHash(o) BY <2>3, <2>4, <2>6, <3>1 DEF GraphicsHash
    <3> QED BY <1>1, <2>1, <2>6, <3>1, <3>2 DEF PipelineHash
  <2> QED BY <2>5, <2>6
<1>4. ASSUME ~Stale(r)
      PROVE  r.pipeline = PipelineHash(r) /\ (~IsCompute(r) => r.active = ActiveVbos(r))
  <2>1. o.pipeline = PipelineHash(o) /\ (~IsCompute(o) => o.active = ActiveVbos(o))
    BY <1>3, <1>4 DEF Tracked
  <2> QED BY <1>1, <1>3, <1>4, <2>1 DEF Marked
<1>5. r.pipeline # None => g.pipeline[Point(r)] = pipelines[r.pipeline]
  BY <1>1 DEF Tracked, Marked
<1>6. r.program # None /\ Uses[r.program].push /\ "push" \notin r.dirty => g.push = r.push
  BY DEF Tracked, Marked
<1>7. ~IsCompute(r) /\ r.pipeline # None =>
        \A x \in DynamicOf(r.pipeline) \ r.dirty : g.dyn[x] = r.dyn[x]
  <2>1. DynamicOf(r.pipeline) \subseteq Dynamic BY DEF DynamicOf
  <2> QED BY <1>1, <2>1 DEF Tracked, Marked
<1>8. \A b \in Vbos \ r.dirtyVbos : g.vbo[b] = r.vbo[b] BY DEF Tracked, Marked
<1>9. r.index # None => g.index = r.index BY DEF Tracked, Marked
<1>10. Tracked(r, g) BY <1>4, <1>5, <1>6, <1>7, <1>8, <1>9 DEF Tracked
<1>11. SetsTracked(r, g) BY <1>1 DEF SetsTracked, Marked
<1> QED BY <1>10, <1>11

LEMMA StoreKeeps ==
  ASSUME TrackInv, NEW c \in CmdBufs, NEW group, NEW r \in CmdType, Store(c, group, r),
         Marked(cmd[c], r)
  PROVE  TrackInv'
<1>1. /\ Recording(c) /\ calls < MaxCalls /\ calls' = calls + 1 /\ drew' = None
      /\ cmd' = [cmd EXCEPT ![c] = r] /\ UNCHANGED <<client, gpu, objects>>
  BY DEF Store, Setter, Set
<1>2. /\ cmd[c] \in CmdType /\ Tracked(cmd[c], gpu[c]) /\ SetsTracked(cmd[c], gpu[c])
      /\ cmd[c].pipeline \in DOMAIN pipelines \cup {None} /\ GpuTyped
  BY DEF TrackInv, TypeOK, CmdTyped
<1>3. Tracked(r, gpu[c]) /\ SetsTracked(r, gpu[c]) BY <1>2, MarkedTracked
<1>4. GpuTyped' BY <1>1, <1>2 DEF GpuTyped
<1>5. calls' \in 0 .. MaxCalls BY <1>1, CallsTyped
<1>6. /\ r.open = cmd[c].open /\ r.contents = cmd[c].contents /\ r.pass = cmd[c].pass
      /\ r.pipeline \in DOMAIN pipelines \cup {None}
  BY <1>2 DEF Marked
<1> QED BY <1>1, <1>3, <1>4, <1>5, <1>6, Recorded

LEMMA DirtyIs ==
  ASSUME NEW r \in CmdType, NEW bits \in SUBSET Bits, NEW r1, r1 = Dirty(r, bits)
  PROVE  /\ r1 \in CmdType /\ r1 = [r EXCEPT !.dirty = r.dirty \cup bits]
         /\ r1.dirty = r.dirty \cup bits
<1>1. r1 = [r EXCEPT !.dirty = r.dirty \cup bits] BY DEF Dirty
<1>2. r.dirty \cup bits \in SUBSET Bits BY DEF CmdType
<1> QED BY <1>1, <1>2 DEF CmdType

LEMMA NothingMarked ==
  ASSUME NEW o
  PROVE  Marked(o, o)
BY DEF Marked

LEMMA BitsAre ==
  /\ "static" \in Bits /\ "pipeline" \in Bits /\ "vertex" \in Bits /\ "push" \in Bits
  /\ Dynamic \subseteq Bits
  /\ "static" \notin Dynamic /\ "pipeline" \notin Dynamic /\ "vertex" \notin Dynamic
  /\ "push" \notin Dynamic
BY ValueAssumption DEF Bits

LEMMA StepStaticState ==
  ASSUME TrackInv, NEW c \in CmdBufs, NEW t \in client.settings, SetStaticState(c, t[1], t[2])
  PROVE  TrackInv'
<1> DEFINE o == cmd[c]
           f == t[1]
           v == t[2]
<1>1. o \in CmdType /\ client \in Clients BY DEF TrackInv, TypeOK, CmdTyped
<1>2. CASE v = o.static[f]
  <2>1. Store(c, "static", o) BY <1>2 DEF SetStaticState
  <2> QED BY <1>1, <2>1, NothingMarked, StoreKeeps
<1>3. CASE v # o.static[f]
  <2> DEFINE s == [o.static EXCEPT ![f] = v]
             r == [o EXCEPT !.static = s]
  <2>1. o.static \in StaticType BY <1>1 DEF CmdType
  <2>2. s \in StaticType
    <3>1. \/ f \in {"bias", "stencil"} /\ v \in BOOLEAN
          \/ f = "factor" /\ v \in Factors
          \/ f = "mask" /\ v \in Nat
      BY <1>1, ClientAssumption
    <3> HIDE DEF f, v, o
    <3> QED BY <2>1, <3>1 DEF StaticType
  <2> HIDE DEF s
  <2>3. r \in CmdType
    <3> HIDE DEF o
    <3> QED BY <1>1, <2>2 DEF CmdType
  <2>4. Store(c, "static", Dirty(r, {"static"})) BY <1>3 DEF SetStaticState, s
  <2>5. PICK n : n = Dirty(r, {"static"}) OBVIOUS
  <2>6. n \in CmdType /\ n = [r EXCEPT !.dirty = r.dirty \cup {"static"}]
    BY <2>3, <2>5, BitsAre, DirtyIs
  <2>7. Marked(o, n)
    <3> HIDE DEF o
    <3> QED BY <1>1, <2>6 DEF Marked, CmdType
  <2> QED BY <2>4, <2>5, <2>6, <2>7, StoreKeeps
<1> QED BY <1>2, <1>3

LEMMA StepPreset ==
  ASSUME TrackInv, NEW c \in CmdBufs, NEW words \in client.presets, SetPresetState(c, words)
  PROVE  TrackInv'
<1> DEFINE o == cmd[c]
           s == Preset(words)
           r == [o EXCEPT !.static = s]
<1>1. o \in CmdType /\ client \in Clients BY DEF TrackInv, TypeOK, CmdTyped
<1>2. s \in StaticType
  <2>1. words \in Words BY <1>1 DEF Words
  <2> QED BY <2>1 DEF Preset, ClearStatic, StaticType, Words, Factors
<1> HIDE DEF s
<1>3. r \in CmdType
  <2> HIDE DEF o
  <2> QED BY <1>1, <1>2 DEF CmdType
<1>4. Store(c, "static", Dirty(r, {"static"})) BY DEF SetPresetState, s
<1>5. PICK n : n = Dirty(r, {"static"}) OBVIOUS
<1>6. n \in CmdType /\ n = [r EXCEPT !.dirty = r.dirty \cup {"static"}]
  BY <1>3, <1>5, BitsAre, DirtyIs
<1>7. Marked(o, n)
  <2> HIDE DEF o
  <2> QED BY <1>1, <1>6 DEF Marked, CmdType
<1> QED BY <1>4, <1>5, <1>6, <1>7, StoreKeeps

LEMMA StepBlendConstants ==
  ASSUME TrackInv, NEW c \in CmdBufs, NEW v \in Values, SetBlendConstants(c, v)
  PROVE  TrackInv'
<1> DEFINE o == cmd[c]
           r == [o EXCEPT !.blend = v]
<1>1. o \in CmdType BY DEF TrackInv, TypeOK, CmdTyped
<1>2. CASE v = o.blend
  <2>1. Store(c, "static", o) BY <1>2 DEF SetBlendConstants
  <2> QED BY <1>1, <2>1, NothingMarked, StoreKeeps
<1>3. CASE v # o.blend
  <2>1. r \in CmdType
    <3> HIDE DEF o
    <3> QED BY <1>1 DEF CmdType
  <2>2. Store(c, "static", Dirty(r, {"static"})) BY <1>3 DEF SetBlendConstants
  <2>3. PICK n : n = Dirty(r, {"static"}) OBVIOUS
  <2>4. n \in CmdType /\ n = [r EXCEPT !.dirty = r.dirty \cup {"static"}]
    BY <2>1, <2>3, BitsAre, DirtyIs
  <2>5. Marked(o, n)
    <3> HIDE DEF o
    <3> QED BY <1>1, <2>4 DEF Marked, CmdType
  <2> QED BY <2>2, <2>3, <2>4, <2>5, StoreKeeps
<1> QED BY <1>2, <1>3

LEMMA StepSpecMask ==
  ASSUME TrackInv, NEW c \in CmdBufs, NEW on \in BOOLEAN, SetSpecializationConstantMask(c, on)
  PROVE  TrackInv'
<1> DEFINE o == cmd[c]
           s == [o.spec EXCEPT !.on = on]
           r == [o EXCEPT !.spec = s]
<1>1. o \in CmdType BY DEF TrackInv, TypeOK, CmdTyped
<1>2. CASE on = o.spec.on
  <2>1. Store(c, "spec", o) BY <1>2 DEF SetSpecializationConstantMask
  <2> QED BY <1>1, <2>1, NothingMarked, StoreKeeps
<1>3. CASE on # o.spec.on
  <2>1. o.spec \in [on : BOOLEAN, value : Values] BY <1>1 DEF CmdType
  <2>2. s \in [on : BOOLEAN, value : Values]
    <3> HIDE DEF o
    <3> QED BY <2>1
  <2>3. Store(c, "spec", Dirty(r, {"static"})) BY <1>3 DEF SetSpecializationConstantMask
  <2> HIDE DEF s
  <2>4. r \in CmdType
    <3> HIDE DEF o
    <3> QED BY <1>1, <2>2 DEF CmdType
  <2>5. PICK n : n = Dirty(r, {"static"}) OBVIOUS
  <2>6. n \in CmdType /\ n = [r EXCEPT !.dirty = r.dirty \cup {"static"}]
    BY <2>4, <2>5, BitsAre, DirtyIs
  <2>7. Marked(o, n)
    <3> HIDE DEF o
    <3> QED BY <1>1, <2>6 DEF Marked, CmdType
  <2> QED BY <2>3, <2>5, <2>6, <2>7, StoreKeeps
<1> QED BY <1>2, <1>3

LEMMA StepSpecConstant ==
  ASSUME TrackInv, NEW c \in CmdBufs, NEW v \in Values, SetSpecializationConstant(c, v)
  PROVE  TrackInv'
<1> DEFINE o == cmd[c]
           s == [o.spec EXCEPT !.value = v]
           r == [o EXCEPT !.spec = s]
           bits == IF v # o.spec.value /\ o.spec.on THEN {"static"} ELSE {}
<1>1. o \in CmdType BY DEF TrackInv, TypeOK, CmdTyped
<1>2. o.spec \in [on : BOOLEAN, value : Values] BY <1>1 DEF CmdType
<1>3. s \in [on : BOOLEAN, value : Values] /\ s.on = o.spec.on /\ s.value = v
  <2> HIDE DEF o
  <2> QED BY <1>2
<1>4. Store(c, "spec", Dirty(r, bits)) BY DEF SetSpecializationConstant
<1>5. bits \in SUBSET Bits /\ (v # o.spec.value /\ o.spec.on => "static" \in bits) BY BitsAre
<1> HIDE DEF s, bits
<1>6. r \in CmdType
  <2> HIDE DEF o
  <2> QED BY <1>1, <1>3 DEF CmdType
<1>7. PICK n : n = Dirty(r, bits) OBVIOUS
<1>8. n \in CmdType /\ n = [r EXCEPT !.dirty = r.dirty \cup bits]
  BY <1>5, <1>6, <1>7, DirtyIs
<1>9. Marked(o, n)
  <2> HIDE DEF o
  <2> QED BY <1>1, <1>3, <1>5, <1>8 DEF Marked, CmdType
<1> QED BY <1>4, <1>7, <1>8, <1>9, StoreKeeps

LEMMA StepPushConstants ==
  ASSUME TrackInv, NEW c \in CmdBufs, NEW v \in Values, PushConstants(c, v)
  PROVE  TrackInv'
<1> DEFINE o == cmd[c]
           r == [o EXCEPT !.push = v]
<1>1. o \in CmdType BY DEF TrackInv, TypeOK, CmdTyped
<1>2. r \in CmdType
  <2> HIDE DEF o
  <2> QED BY <1>1 DEF CmdType
<1>3. Store(c, "push", Dirty(r, {"push"})) BY DEF PushConstants
<1>4. PICK n : n = Dirty(r, {"push"}) OBVIOUS
<1>5. n \in CmdType /\ n = [r EXCEPT !.dirty = r.dirty \cup {"push"}]
  BY <1>2, <1>4, BitsAre, DirtyIs
<1>6. Marked(o, n)
  <2> HIDE DEF o
  <2> QED BY <1>1, <1>5 DEF Marked, CmdType
<1> QED BY <1>3, <1>4, <1>5, <1>6, StoreKeeps

LEMMA StepDynamicState ==
  ASSUME TrackInv, NEW c \in CmdBufs, NEW g \in Dynamic, NEW v \in Values, SetDynamicState(c, g, v)
  PROVE  TrackInv'
<1> DEFINE o == cmd[c]
           d == [o.dyn EXCEPT ![g] = v]
           r == [o EXCEPT !.dyn = d]
           bits == IF g \in {"viewport", "scissor"} \/ v # o.dyn[g] THEN {g} ELSE {}
<1>1. o \in CmdType BY DEF TrackInv, TypeOK, CmdTyped
<1>2. o.dyn \in [Dynamic -> Values] BY <1>1 DEF CmdType
<1>3. d \in [Dynamic -> Values] /\ \A x \in Dynamic : d[x] = IF x = g THEN v ELSE o.dyn[x]
  <2> HIDE DEF o
  <2> QED BY <1>2
<1>4. Store(c, "dynamic", Dirty(r, bits)) BY DEF SetDynamicState
<1>5. bits \in SUBSET Bits /\ (v # o.dyn[g] => g \in bits) BY BitsAre
<1> HIDE DEF d, bits
<1>6. r \in CmdType
  <2> HIDE DEF o
  <2> QED BY <1>1, <1>3 DEF CmdType
<1>7. PICK n : n = Dirty(r, bits) OBVIOUS
<1>8. n \in CmdType /\ n = [r EXCEPT !.dirty = r.dirty \cup bits]
  BY <1>5, <1>6, <1>7, DirtyIs
<1>9. Marked(o, n)
  <2> HIDE DEF o
  <2> QED BY <1>1, <1>3, <1>5, <1>8 DEF Marked, CmdType
<1> QED BY <1>4, <1>7, <1>8, <1>9, StoreKeeps

LEMMA StepVertexAttrib ==
  ASSUME TrackInv, NEW c \in CmdBufs, NEW b \in Vbos, SetVertexAttrib(c, b)
  PROVE  TrackInv'
<1> DEFINE o == cmd[c]
           r == [o EXCEPT !.attrib = b]
           bits == IF b # o.attrib THEN {"vertex"} ELSE {}
<1>1. o \in CmdType BY DEF TrackInv, TypeOK, CmdTyped
<1>2. r \in CmdType
  <2> HIDE DEF o
  <2> QED BY <1>1 DEF CmdType
<1>3. Store(c, "vertex", Dirty(r, bits)) BY DEF SetVertexAttrib
<1>4. bits \in SUBSET Bits /\ (b # o.attrib => "vertex" \in bits) BY BitsAre
<1> HIDE DEF bits
<1>5. PICK n : n = Dirty(r, bits) OBVIOUS
<1>6. n \in CmdType /\ n = [r EXCEPT !.dirty = r.dirty \cup bits]
  BY <1>2, <1>4, <1>5, DirtyIs
<1>7. Marked(o, n)
  <2> HIDE DEF o
  <2> QED BY <1>1, <1>4, <1>6 DEF Marked, CmdType
<1> QED BY <1>3, <1>5, <1>6, <1>7, StoreKeeps

LEMMA StepVertexBinding ==
  ASSUME TrackInv, NEW c \in CmdBufs, NEW b \in Vbos, NEW v \in Values, SetVertexBinding(c, b, v)
  PROVE  TrackInv'
<1> DEFINE o == cmd[c]
           d == [o.stride EXCEPT ![b] = v]
           r == [o EXCEPT !.stride = d]
           bits == IF v # o.stride[b] THEN {"vertex"} ELSE {}
<1>1. o \in CmdType BY DEF TrackInv, TypeOK, CmdTyped
<1>2. o.stride \in [Vbos -> Values] BY <1>1 DEF CmdType
<1>3. d \in [Vbos -> Values] /\ (v = o.stride[b] => d = o.stride)
  <2> HIDE DEF o
  <2> QED BY <1>2
<1>4. Store(c, "vertex", Dirty(r, bits)) BY DEF SetVertexBinding
<1>5. bits \in SUBSET Bits /\ (v # o.stride[b] => "vertex" \in bits) BY BitsAre
<1> HIDE DEF d, bits
<1>6. r \in CmdType
  <2> HIDE DEF o
  <2> QED BY <1>1, <1>3 DEF CmdType
<1>7. PICK n : n = Dirty(r, bits) OBVIOUS
<1>8. n \in CmdType /\ n = [r EXCEPT !.dirty = r.dirty \cup bits]
  BY <1>5, <1>6, <1>7, DirtyIs
<1>9. Marked(o, n)
  <2> HIDE DEF o
  <2> QED BY <1>1, <1>3, <1>5, <1>8 DEF Marked, CmdType
<1> QED BY <1>4, <1>7, <1>8, <1>9, StoreKeeps

LEMMA StepBindVertexBuffer ==
  ASSUME TrackInv, NEW c \in CmdBufs, NEW b \in Vbos, NEW v \in Values, BindVertexBuffer(c, b, v)
  PROVE  TrackInv'
<1> DEFINE o == cmd[c]
           d == [o.vbo EXCEPT ![b] = v]
           e == IF v # o.vbo[b] THEN o.dirtyVbos \cup {b} ELSE o.dirtyVbos
           r == [o EXCEPT !.vbo = d, !.dirtyVbos = e]
<1>1. o \in CmdType BY DEF TrackInv, TypeOK, CmdTyped
<1>2. o.vbo \in [Vbos -> Values \cup {None}] /\ o.dirtyVbos \subseteq Vbos BY <1>1 DEF CmdType
<1>3. Store(c, "vertex", r) BY DEF BindVertexBuffer
<1>4. /\ d \in [Vbos -> Values \cup {None}] /\ e \in SUBSET Vbos /\ o.dirtyVbos \subseteq e
      /\ \A x \in Vbos \ e : d[x] = o.vbo[x]
  <2> HIDE DEF o
  <2> QED BY <1>2
<1> HIDE DEF d, e
<1>5. r \in CmdType
  <2> HIDE DEF o
  <2> QED BY <1>1, <1>4 DEF CmdType
<1>6. Marked(o, r)
  <2> HIDE DEF o
  <2> QED BY <1>1, <1>4 DEF Marked, CmdType
<1> HIDE DEF r
<1> QED BY <1>3, <1>5, <1>6, StoreKeeps

LEMMA StepSave ==
  ASSUME TrackInv, NEW c \in CmdBufs, SaveState(c)
  PROVE  TrackInv'
<1> DEFINE o == cmd[c]
<1>1. /\ saved' = [f \in SavedFields |-> o[f]] /\ drew' = None
      /\ UNCHANGED <<client, cmd, gpu, array, asked, maps, pipelines, frame, used, calls>>
  BY DEF SaveState, Call
<1>2. /\ TypeOK /\ Contexts /\ Stored /\ UsedKept /\ o \in CmdType
      /\ \A p \in Programs : \A d \in SetsOf(p) : MapInv(maps[p][d])
  BY DEF TrackInv, TypeOK, CmdTyped
<1>3. saved' \in [static : StaticType, spec : [on : BOOLEAN, value : Values],
                  blend : Values, dyn : [Dynamic -> Values], push : Values]
  <2>1. /\ o.static \in StaticType /\ o.spec \in [on : BOOLEAN, value : Values]
        /\ o.blend \in Values /\ o.dyn \in [Dynamic -> Values] /\ o.push \in Values
    BY <1>2 DEF CmdType
  <2> HIDE DEF o
  <2>2. /\ DOMAIN saved' = {"static", "spec", "blend", "dyn", "push"}
        /\ saved'.static = o.static /\ saved'.spec = o.spec /\ saved'.blend = o.blend
        /\ saved'.dyn = o.dyn /\ saved'.push = o.push
        /\ saved' = [f \in {"static", "spec", "blend", "dyn", "push"} |-> saved'[f]]
    BY <1>1 DEF SavedFields
  <2> QED BY <2>1, <2>2
<1>4. TypeOK'
  <2>1. ObjectsTyped' BY <1>1, <1>2, <1>3 DEF TypeOK, ObjectsTyped
  <2> QED BY <1>1, <1>2, <2>1, CmdBufsAre DEF TypeOK, CmdTyped, GpuTyped
<1>5. ASSUME NEW d \in CmdBufs PROVE (Tracked(cmd[d], gpu[d]) /\ SetsTracked(cmd[d], gpu[d]))'
  <2>1. Tracked(cmd'[d], gpu'[d]) /\ SetsTracked(cmd'[d], gpu'[d]) BY <1>1 DEF TrackInv
  <2> QED BY <1>1, <2>1, TrackedKept
<1>6. Contexts' BY <1>1, <1>2 DEF Contexts, Recording
<1>7. Stored' /\ UsedKept' BY <1>1, <1>2 DEF Stored, UsedKept, FrameAge
<1>8. \A d \in CmdBufs : drew' # d BY <1>1, CmdBufsAre
<1>9. (\A p \in Programs : \A d \in SetsOf(p) : MapInv(maps[p][d]))' BY <1>1, <1>2
<1> QED BY <1>4, <1>5, <1>6, <1>7, <1>8, <1>9 DEF TrackInv

LEMMA StepRestore ==
  ASSUME TrackInv, NEW c \in CmdBufs, RestoreState(c)
  PROVE  TrackInv'
<1> DEFINE o == cmd[c]
           r == [o EXCEPT !.static = saved.static, !.spec = saved.spec, !.blend = saved.blend,
                          !.dyn = saved.dyn, !.push = saved.push]
           bits == (IF o.push # saved.push THEN {"push"} ELSE {})
             \cup (IF <<o.static, o.spec, o.blend>> # <<saved.static, saved.spec, saved.blend>>
                   THEN {"static"} ELSE {})
             \cup {g \in Dynamic \cap {"viewport", "scissor"} : o.dyn[g] # saved.dyn[g]}
             \cup (IF \E g \in Dynamic \ {"viewport", "scissor"} : o.dyn[g] # saved.dyn[g]
                   THEN Dynamic \ {"viewport", "scissor"} ELSE {})
<1>1. /\ o \in CmdType
      /\ saved # None => saved \in [static : StaticType, spec : [on : BOOLEAN, value : Values],
                                    blend : Values, dyn : [Dynamic -> Values], push : Values]
  BY DEF TrackInv, TypeOK, CmdTyped, ObjectsTyped
<1>2. saved # None /\ Store(c, "save", Dirty(r, bits)) BY DEF RestoreState
<1>3. /\ saved.static \in StaticType /\ saved.spec \in [on : BOOLEAN, value : Values]
      /\ saved.blend \in Values /\ saved.dyn \in [Dynamic -> Values] /\ saved.push \in Values
  BY <1>1, <1>2
<1>4. bits \in SUBSET Bits BY BitsAre
<1>5. /\ "push" \notin bits => o.push = saved.push
      /\ "static" \notin bits => o.static = saved.static /\ o.spec = saved.spec /\ o.blend = saved.blend
  OBVIOUS
<1>6. \A g \in Dynamic \ bits : o.dyn[g] = saved.dyn[g] OBVIOUS
<1> HIDE DEF bits
<1>7. r \in CmdType
  <2> HIDE DEF o
  <2> DEFINE r2 == [o EXCEPT !.static = saved.static, !.spec = saved.spec, !.blend = saved.blend]
             r3 == [r2 EXCEPT !.dyn = saved.dyn, !.push = saved.push]
  <2>1. r2 \in CmdType BY <1>1, <1>3 DEF CmdType
  <2> HIDE DEF r2
  <2>2. r3 \in CmdType BY <1>3, <2>1 DEF CmdType
  <2> QED BY <2>2 DEF r2
<1>8. PICK n : n = Dirty(r, bits) OBVIOUS
<1>9. n \in CmdType /\ n = [r EXCEPT !.dirty = r.dirty \cup bits]
  BY <1>4, <1>7, <1>8, DirtyIs
<1>10. Marked(o, n)
  <2> HIDE DEF o
  <2>1. /\ n.open = o.open /\ n.contents = o.contents /\ n.pass = o.pass /\ n.subpass = o.subpass
        /\ n.program = o.program /\ n.pipeline = o.pipeline /\ n.sets = o.sets /\ n.index = o.index
        /\ n.active = o.active /\ n.dirtySets = o.dirtySets /\ n.dirtyVbos = o.dirtyVbos
        /\ n.attrib = o.attrib /\ n.stride = o.stride /\ n.vbo = o.vbo
    BY <1>1, <1>9 DEF CmdType
  <2>2. /\ n.static = saved.static /\ n.spec = saved.spec /\ n.blend = saved.blend
        /\ n.dyn = saved.dyn /\ n.push = saved.push /\ n.dirty = o.dirty \cup bits
    BY <1>1, <1>9 DEF CmdType
  <2> QED BY <1>5, <1>6, <2>1, <2>2 DEF Marked
<1> QED BY <1>2, <1>8, <1>9, <1>10, StoreKeeps

LEMMA StepBindIndexBuffer ==
  ASSUME TrackInv, NEW c \in CmdBufs, NEW v \in Values, BindIndexBuffer(c, v)
  PROVE  TrackInv'
<1> DEFINE o == cmd[c]
           r == [o EXCEPT !.index = v]
<1>1. /\ Recording(c) /\ calls < MaxCalls /\ calls' = calls + 1 /\ drew' = None
      /\ cmd' = [cmd EXCEPT ![c] = r] /\ UNCHANGED <<client, objects>>
      /\ gpu' = [gpu EXCEPT ![c].index = IF v = o.index THEN @ ELSE v]
  BY DEF BindIndexBuffer, Setter, Set
<1>2. /\ o \in CmdType /\ Tracked(o, gpu[c]) /\ SetsTracked(o, gpu[c])
      /\ o.pipeline \in DOMAIN pipelines \cup {None} /\ GpuTyped
  BY DEF TrackInv, TypeOK, CmdTyped
<1>3. /\ gpu'[c].index = (IF v = o.index THEN gpu[c].index ELSE v)
      /\ gpu'[c].pipeline = gpu[c].pipeline /\ gpu'[c].sets = gpu[c].sets
      /\ gpu'[c].offsets = gpu[c].offsets /\ gpu'[c].push = gpu[c].push
      /\ gpu'[c].dyn = gpu[c].dyn /\ gpu'[c].vbo = gpu[c].vbo
      /\ DOMAIN gpu'[c] = GpuFields /\ DOMAIN gpu' = CmdBufs
      /\ \A d \in CmdBufs : d # c => gpu'[d] = gpu[d]
  <2> HIDE DEF o
  <2> QED BY <1>1, <1>2 DEF GpuTyped, BoundType, GpuFields
<1>4. GpuTyped'
  <2>1. BoundType(gpu'[c]) BY <1>2, <1>3 DEF GpuTyped, BoundType
  <2> QED BY <1>2, <1>3, <2>1 DEF GpuTyped
<1>5. r \in CmdType
  <2> HIDE DEF o
  <2> QED BY <1>2 DEF CmdType
<1>6. /\ r.open = o.open /\ r.contents = o.contents /\ r.pass = o.pass /\ r.subpass = o.subpass
      /\ r.program = o.program /\ r.pipeline = o.pipeline /\ r.sets = o.sets /\ r.index = v
      /\ r.active = o.active /\ r.dirtySets = o.dirtySets /\ r.dirtyVbos = o.dirtyVbos
      /\ r.attrib = o.attrib /\ r.stride = o.stride /\ r.vbo = o.vbo
      /\ r.static = o.static /\ r.spec = o.spec /\ r.blend = o.blend
      /\ r.dyn = o.dyn /\ r.push = o.push /\ r.dirty = o.dirty
  BY <1>2 DEF CmdType
<1> HIDE DEF r
<1>7. IsCompute(r) = IsCompute(o) /\ Point(r) = Point(o) BY <1>6 DEF IsCompute, Point
<1>8. Stale(r) = Stale(o) BY <1>6, <1>7 DEF Stale, PipelineBits
<1>9. ActiveVbos(r) = ActiveVbos(o) /\ SpecOf(r) = SpecOf(o) BY <1>6 DEF ActiveVbos, SpecOf
<1>10. PipelineHash(r) = PipelineHash(o)
  BY <1>6, <1>7, <1>9 DEF PipelineHash, ComputeHash, GraphicsHash
<1>11. Tracked(r, gpu'[c]) BY <1>2, <1>3, <1>6, <1>7, <1>8, <1>9, <1>10 DEF Tracked
<1>12. SetsTracked(r, gpu'[c]) BY <1>2, <1>3, <1>6, <1>7 DEF SetsTracked
<1>13. calls' \in 0 .. MaxCalls BY <1>1, CallsTyped
<1> QED BY <1>1, <1>2, <1>4, <1>5, <1>6, <1>11, <1>12, <1>13, Recorded

LEMMA StepSetProgram ==
  ASSUME TrackInv, NEW c \in CmdBufs, NEW p \in client.programs, SetProgram(c, p)
  PROVE  TrackInv'
<1> DEFINE o == cmd[c]
           s == [o EXCEPT !.program = p, !.pipeline = None, !.dirtySets = Sets]
           bits == {"pipeline", "push"} \cup Dynamic
<1>1. /\ Recording(c) /\ calls' = calls /\ drew' = None
      /\ cmd' = [cmd EXCEPT ![c] = Dirty(s, bits)] /\ UNCHANGED <<client, gpu, objects>>
  BY DEF SetProgram, Call, Set
<1>2. /\ o \in CmdType /\ Tracked(o, gpu[c]) /\ GpuTyped /\ client \in Clients
  BY DEF TrackInv, TypeOK, CmdTyped
<1>3. p \in Programs BY <1>2, ClientAssumption
<1>4. s \in CmdType
  <2> HIDE DEF o
  <2> QED BY <1>2, <1>3 DEF CmdType
<1>5. bits \in SUBSET Bits BY BitsAre
<1> HIDE DEF bits
<1>6. PICK r : r = Dirty(s, bits) OBVIOUS
<1>7. r \in CmdType /\ r = [s EXCEPT !.dirty = s.dirty \cup bits]
  BY <1>4, <1>5, <1>6, DirtyIs
<1>8. /\ r.open = o.open /\ r.contents = o.contents /\ r.pass = o.pass
      /\ r.program = p /\ r.pipeline = None /\ r.index = o.index
      /\ r.dirtySets = Sets /\ r.dirtyVbos = o.dirtyVbos
      /\ r.vbo = o.vbo /\ "push" \in r.dirty
  <2> HIDE DEF o
  <2> QED BY <1>2, <1>7 DEF CmdType, bits
<1>9. Tracked(r, gpu[c])
  <2>1. Stale(r) BY <1>8 DEF Stale
  <2> QED BY <1>2, <1>8, <2>1 DEF Tracked
<1>10. SetsTracked(r, gpu[c])
  <2>1. SetsOf(p) \subseteq Sets BY <1>3, ValueAssumption DEF SetsOf, Sets
  <2> QED BY <1>8, <2>1 DEF SetsTracked
<1>11. GpuTyped' BY <1>1, <1>2 DEF GpuTyped
<1>12. calls' \in 0 .. MaxCalls BY <1>1, CallsTyped
<1> QED BY <1>1, <1>6, <1>7, <1>8, <1>9, <1>10, <1>11, <1>12, Recorded

-----------------------------------------------------------------------------
(* Setters of bindings.                                                    *)

LEMMA FieldsAre ==
  ASSUME NEW kind
  PROVE  /\ WrittenFields(kind) \subseteq {"cookie", "secondary", "detail"}
         /\ HashedFields(kind) \subseteq {"cookie", "secondary", "detail"}
BY DEF WrittenFields, HashedFields

LEMMA ProjectSame ==
  ASSUME NEW a, NEW b, NEW fields, \A f \in fields : a[f] = b[f]
  PROVE  Project(a, fields) = Project(b, fields)
BY DEF Project

(* What a setter may do to the command buffer, and what it then has to     *)
(* leave as it was.                                                        *)
Binds(c, s, stored, r) ==
  \/ r = DirtySet(cmd[c], s)
  \/ /\ r = cmd[c] \/ r = DirtyDynamic(cmd[c], s)
     /\ Project(stored, HashedFields(s.kind)) = Project(Old(c, s), HashedFields(s.kind))

LEMMA BindsTo ==
  ASSUME TrackInv, NEW c \in CmdBufs, NEW s \in Slots, NEW stored, NEW r, Binds(c, s, stored, r)
  PROVE  /\ r \in CmdType
         /\ r.open = cmd[c].open /\ r.contents = cmd[c].contents /\ r.pass = cmd[c].pass
         /\ r.program = cmd[c].program /\ r.pipeline = cmd[c].pipeline /\ r.sets = cmd[c].sets
         /\ cmd[c].dirtySets \subseteq r.dirtySets
         /\ cmd[c].dirtyDynamic \subseteq r.dirtyDynamic
         /\ \/ s.set \in r.dirtySets
            \/ Project(stored, HashedFields(s.kind)) = Project(Old(c, s), HashedFields(s.kind))
         /\ r.static = cmd[c].static
         /\ \A g : Tracked(cmd[c], g) => Tracked(r, g)
<1>1. PICK o : o = cmd[c] OBVIOUS
<1>2. o \in CmdType BY <1>1 DEF TrackInv, TypeOK, CmdTyped
<1>3. s.set \in Sets BY DEF Sets
<1>4. /\ r \in CmdType
      /\ r.open = o.open /\ r.contents = o.contents /\ r.pass = o.pass /\ r.subpass = o.subpass
      /\ r.program = o.program /\ r.pipeline = o.pipeline /\ r.sets = o.sets /\ r.index = o.index
      /\ r.active = o.active /\ r.dirty = o.dirty /\ r.dirtyVbos = o.dirtyVbos
      /\ r.attrib = o.attrib /\ r.stride = o.stride /\ r.vbo = o.vbo
      /\ r.static = o.static /\ r.spec = o.spec /\ r.blend = o.blend
      /\ r.dyn = o.dyn /\ r.push = o.push
      /\ o.dirtySets \subseteq r.dirtySets /\ o.dirtyDynamic \subseteq r.dirtyDynamic
      /\ \/ s.set \in r.dirtySets
         \/ Project(stored, HashedFields(s.kind)) = Project(Old(c, s), HashedFields(s.kind))
  <2>1. CASE r = DirtySet(o, s)
    BY <1>2, <1>3, <2>1 DEF DirtySet, CmdType
  <2>2. CASE r = DirtyDynamic(o, s)
             /\ Project(stored, HashedFields(s.kind)) = Project(Old(c, s), HashedFields(s.kind))
    <3>1. /\ r \in CmdType
          /\ r.open = o.open /\ r.contents = o.contents /\ r.pass = o.pass /\ r.subpass = o.subpass
          /\ r.program = o.program /\ r.pipeline = o.pipeline /\ r.sets = o.sets /\ r.index = o.index
          /\ r.active = o.active /\ r.dirty = o.dirty /\ r.dirtyVbos = o.dirtyVbos
          /\ r.attrib = o.attrib /\ r.stride = o.stride /\ r.vbo = o.vbo
          /\ r.static = o.static /\ r.spec = o.spec /\ r.blend = o.blend
          /\ r.dyn = o.dyn /\ r.push = o.push
          /\ o.dirtySets \subseteq r.dirtySets /\ o.dirtyDynamic \subseteq r.dirtyDynamic
      BY <1>2, <1>3, <2>2 DEF DirtyDynamic, CmdType
    <3> QED BY <2>2, <3>1
  <2>3. CASE r = o
             /\ Project(stored, HashedFields(s.kind)) = Project(Old(c, s), HashedFields(s.kind))
    BY <1>2, <2>3
  <2> QED BY <1>1, <2>1, <2>2, <2>3 DEF Binds
<1>5. IsCompute(r) = IsCompute(o) /\ Point(r) = Point(o) BY <1>4 DEF IsCompute, Point
<1>6. Stale(r) = Stale(o) BY <1>4, <1>5 DEF Stale, PipelineBits
<1>7. ActiveVbos(r) = ActiveVbos(o) /\ SpecOf(r) = SpecOf(o) BY <1>4 DEF ActiveVbos, SpecOf
<1>8. PipelineHash(r) = PipelineHash(o)
  BY <1>4, <1>5, <1>7 DEF PipelineHash, ComputeHash, GraphicsHash
<1>9. ASSUME NEW g, Tracked(o, g) PROVE Tracked(r, g)
  BY <1>4, <1>5, <1>6, <1>7, <1>8, <1>9 DEF Tracked
<1> QED BY <1>1, <1>4, <1>9

(* What Bind leaves in the arrays.                                         *)
BoundIn(q, s, request, stored) ==
  /\ DOMAIN array' = Programs /\ DOMAIN asked' = Programs
  /\ \A p \in Programs : {array'[p], asked'[p]} \subseteq [Uses[p].slots -> BindingType]
  /\ \A p \in Programs : \A t \in Uses[p].slots :
       IF p = q /\ t = s THEN array'[p][t] = stored /\ asked'[p][t] = request
       ELSE array'[p][t] = array[p][t] /\ asked'[p][t] = asked[p][t]

LEMMA ArraysAfter ==
  ASSUME TrackInv, NEW c \in CmdBufs, NEW s, NEW q, q = cmd[c].program, q # None,
         s \in Uses[q].slots,
         NEW request \in BindingType, NEW stored \in BindingType,
         asked' = [asked EXCEPT ![q][s] = request],
         array' = [array EXCEPT ![q][s] = stored]
  PROVE  /\ q \in Programs /\ s \in Slots
         /\ BoundIn(q, s, request, stored)
<1>1. q \in Programs
  <2>1. cmd[c] \in CmdType BY DEF TrackInv, TypeOK, CmdTyped
  <2> QED BY <2>1 DEF CmdType
<1>2. s \in Uses[q].slots /\ s \in Slots BY <1>1, ValueAssumption
<1>3. /\ DOMAIN array = Programs /\ DOMAIN asked = Programs
      /\ \A p \in Programs : array[p] \in [Uses[p].slots -> BindingType]
                             /\ asked[p] \in [Uses[p].slots -> BindingType]
  BY DEF TrackInv, TypeOK, ObjectsTyped
<1>4. /\ array' = [array EXCEPT ![q] = [array[q] EXCEPT ![s] = stored]]
      /\ asked' = [asked EXCEPT ![q] = [asked[q] EXCEPT ![s] = request]]
  OBVIOUS
<1>5. /\ DOMAIN array' = Programs /\ DOMAIN asked' = Programs
      /\ \A p \in Programs : IF p = q THEN array'[p] = [array[q] EXCEPT ![s] = stored]
                                           /\ asked'[p] = [asked[q] EXCEPT ![s] = request]
                             ELSE array'[p] = array[p] /\ asked'[p] = asked[p]
  BY <1>1, <1>3, <1>4
<1>6. ASSUME NEW p \in Programs
      PROVE  /\ {array'[p], asked'[p]} \subseteq [Uses[p].slots -> BindingType]
             /\ \A t \in Uses[p].slots :
                  IF p = q /\ t = s THEN array'[p][t] = stored /\ asked'[p][t] = request
                  ELSE array'[p][t] = array[p][t] /\ asked'[p][t] = asked[p][t]
  <2>1. CASE p = q
    <3>1. array'[p] = [array[p] EXCEPT ![s] = stored] /\ asked'[p] = [asked[p] EXCEPT ![s] = request]
      BY <1>5, <2>1
    <3>2. array[p] \in [Uses[p].slots -> BindingType] /\ asked[p] \in [Uses[p].slots -> BindingType]
      BY <1>3
    <3> QED BY <1>2, <2>1, <3>1, <3>2
  <2>2. CASE p # q BY <1>3, <1>5, <2>2
  <2> QED BY <2>1, <2>2
<1> QED BY <1>1, <1>2, <1>5, <1>6 DEF BoundIn

LEMMA BindKeeps ==
  ASSUME TrackInv, NEW c \in CmdBufs, NEW s, Binding(c, s),
         NEW request \in BindingType, NEW stored \in BindingType,
         NEW r, Bind(c, s, request, stored, r), Binds(c, s, stored, r),
         Project(stored, WrittenFields(s.kind)) = Project(request, WrittenFields(s.kind)),
         s.kind = "uniform" => stored.dynamic = request.dynamic
  PROVE  TrackInv'
<1>1. PICK q : q = cmd[c].program OBVIOUS
<1>2. /\ Recording(c) /\ calls < MaxCalls /\ calls' = calls + 1 /\ drew' = None
      /\ q # None /\ s \in Uses[q].slots
      /\ asked' = [asked EXCEPT ![q][s] = request] /\ array' = [array EXCEPT ![q][s] = stored]
      /\ cmd' = [cmd EXCEPT ![c] = r]
      /\ UNCHANGED <<client, gpu, maps, pipelines, saved, frame, used>>
  BY <1>1 DEF Binding, Bind, Setter, Set
<1>3. q \in Programs /\ s \in Slots /\ BoundIn(q, s, request, stored)
  BY <1>1, <1>2, ArraysAfter
<1>4. /\ DOMAIN array' = Programs /\ DOMAIN asked' = Programs
      /\ \A p \in Programs : {array'[p], asked'[p]} \subseteq [Uses[p].slots -> BindingType]
      /\ \A p \in Programs : \A t \in Uses[p].slots :
           IF p = q /\ t = s THEN array'[p][t] = stored /\ asked'[p][t] = request
           ELSE array'[p][t] = array[p][t] /\ asked'[p][t] = asked[p][t]
  BY <1>3 DEF BoundIn
<1>5. /\ r \in CmdType
      /\ r.open = cmd[c].open /\ r.contents = cmd[c].contents /\ r.pass = cmd[c].pass
      /\ r.program = cmd[c].program /\ r.pipeline = cmd[c].pipeline /\ r.sets = cmd[c].sets
      /\ cmd[c].dirtySets \subseteq r.dirtySets
      /\ \/ s.set \in r.dirtySets
         \/ Project(stored, HashedFields(s.kind)) = Project(Old(c, s), HashedFields(s.kind))
      /\ \A g : Tracked(cmd[c], g) => Tracked(r, g)
  BY <1>3, BindsTo
<1>6. /\ Contexts' /\ cmd' \in [CmdBufs -> CmdType] /\ cmd'[c] = r
      /\ \A d \in CmdBufs : d # c => cmd'[d] = cmd[d]
  BY <1>2, <1>5, StillRecording
<1>7. /\ Tracked(cmd[c], gpu[c]) /\ SetsTracked(cmd[c], gpu[c]) /\ ObjectsTyped /\ GpuTyped /\ Stored
      /\ cmd[c].pipeline \in DOMAIN pipelines \cup {None} /\ UsedKept /\ client \in Clients
      /\ \A p \in Programs : \A d \in SetsOf(p) : MapInv(maps[p][d])
  BY DEF TrackInv, TypeOK, CmdTyped
<1>8. ASSUME NEW d \in SetsOf(q), d \notin r.dirtySets
      PROVE  HashOf(q, d)' = HashOf(q, d)
  <2>1. ASSUME NEW t \in SlotsIn(q, d)
        PROVE  Project(array'[q][t], HashedFields(t.kind)) = Project(array[q][t], HashedFields(t.kind))
    <3>1. t \in Uses[q].slots /\ t.set = d BY DEF SlotsIn
    <3>2. CASE t = s
      <4>1. array'[q][t] = stored BY <1>3, <1>4, <3>1, <3>2
      <4>2. Old(c, s) = array[q][t] BY <1>1, <3>2 DEF Old
      <4>3. Project(stored, HashedFields(s.kind)) = Project(Old(c, s), HashedFields(s.kind))
        BY <1>5, <1>8, <3>1, <3>2
      <4> QED BY <3>2, <4>1, <4>2, <4>3
    <3>3. CASE t # s BY <1>3, <1>4, <3>1, <3>3
    <3> QED BY <3>2, <3>3
  <2> QED BY <2>1 DEF HashOf
<1>9. Tracked(cmd[c], gpu[c])'
  <2>1. Tracked(r, gpu[c]) BY <1>5, <1>7
  <2> QED BY <1>2, <1>6, <2>1 DEF Tracked
<1>10. SetsTracked(cmd[c], gpu[c])'
  <2>1. Point(r) = Point(cmd[c]) BY <1>5 DEF Point, IsCompute
  <2>2. r.program = q BY <1>1, <1>5
  <2>3. SUFFICES ASSUME NEW d \in SetsOf(q) \ r.dirtySets
                 PROVE  LET m == maps[q][d]
                        IN /\ ~m.begin /\ HashOf(q, d)' \in DOMAIN m.map
                           /\ m.map[HashOf(q, d)'] = r.sets[d] /\ r.sets[d] \in m.rings[m.index]
                           /\ gpu[c].sets[Point(r)][d] = <<q, d, r.sets[d]>>
    BY <1>2, <1>6, <2>2 DEF SetsTracked
  <2>4. HashOf(q, d)' = HashOf(q, d) BY <1>8
  <2>5. d \in SetsOf(q) \ cmd[c].dirtySets BY <1>5
  <2> QED BY <1>1, <1>2, <1>5, <1>7, <2>1, <2>4, <2>5 DEF SetsTracked
<1>11. ASSUME NEW d \in CmdBufs
       PROVE  /\ (Tracked(cmd[d], gpu[d]) /\ SetsTracked(cmd[d], gpu[d]))'
              /\ cmd'[d].pipeline \in DOMAIN pipelines' \cup {None}
  <2>1. CASE d = c BY <1>2, <1>5, <1>6, <1>7, <1>9, <1>10, <2>1
  <2>2. CASE d # c
    <3>1. Idle(cmd'[d]) BY <1>2, <1>6, <2>2, OthersIdle
    <3>2. cmd'[d].pipeline = None /\ cmd'[d].program = None /\ cmd'[d].index = None
          /\ cmd'[d].dirtyVbos = Vbos
      BY <3>1 DEF Idle
    <3>3. Tracked(cmd[d], gpu[d])' BY <3>2 DEF Tracked, Stale
    <3>4. SetsTracked(cmd[d], gpu[d])' BY <3>2 DEF SetsTracked
    <3> QED BY <3>2, <3>3, <3>4
  <2> QED BY <2>1, <2>2
<1>12. TypeOK'
  <2>1. CmdTyped' BY <1>6, <1>11 DEF CmdTyped
  <2>2. GpuTyped' BY <1>2, <1>7 DEF GpuTyped
  <2>3. ObjectsTyped' BY <1>2, <1>7, <1>4 DEF ObjectsTyped
  <2>4. calls' \in 0 .. MaxCalls BY <1>2, CallsTyped
  <2> QED BY <1>2, <1>7, <2>1, <2>2, <2>3, <2>4 DEF TypeOK
<1>13. Stored'
  <2>1. SUFFICES ASSUME NEW p \in Programs, NEW t \in Uses[p].slots
                 PROVE  /\ Project(array'[p][t], WrittenFields(t.kind))
                             = Project(asked'[p][t], WrittenFields(t.kind))
                        /\ t.kind = "uniform" => array'[p][t].dynamic = asked'[p][t].dynamic
    BY DEF Stored
  <2>2. CASE p = q /\ t = s BY <1>4, <2>2
  <2>3. CASE ~(p = q /\ t = s) BY <1>7, <1>4, <2>3 DEF Stored
  <2> QED BY <2>2, <2>3
<1>14. UsedKept' BY <1>2, <1>7 DEF UsedKept, FrameAge
<1>15. \A d \in CmdBufs : drew' # d BY <1>2, CmdBufsAre
<1>16. (\A p \in Programs : \A d \in SetsOf(p) : MapInv(maps[p][d]))' BY <1>2, <1>7
<1> QED BY <1>6, <1>11, <1>12, <1>13, <1>14, <1>15, <1>16 DEF TrackInv

LEMMA OldTyped ==
  ASSUME TrackInv, NEW c \in CmdBufs, NEW s, Binding(c, s)
  PROVE  Old(c, s) \in BindingType
<1>1. PICK q : q = cmd[c].program OBVIOUS
<1>2. q # None /\ s \in Uses[q].slots BY <1>1 DEF Binding
<1>3. q \in Programs
  <2>1. cmd[c] \in CmdType BY DEF TrackInv, TypeOK, CmdTyped
  <2> QED BY <1>1, <1>2, <2>1 DEF CmdType
<1>4. array[q] \in [Uses[q].slots -> BindingType] BY <1>3 DEF TrackInv, TypeOK, ObjectsTyped
<1> QED BY <1>1, <1>2, <1>4 DEF Old

LEMMA StepUniformBuffer ==
  ASSUME TrackInv, NEW c \in CmdBufs, NEW s \in Slots, NEW k \in Cookies, NEW d \in Details,
         NEW e \in Offsets, SetUniformBuffer(c, s, k, d, e)
  PROVE  TrackInv'
<1> DEFINE b == [cookie |-> k, secondary |-> None, detail |-> d, dynamic |-> e]
           o == Old(c, s)
           w == [o EXCEPT !.dynamic = e]
           r == IF o.dynamic # e THEN DirtyDynamic(cmd[c], s) ELSE cmd[c]
<1>1. Binding(c, s) /\ s.kind = "uniform" BY DEF SetUniformBuffer
<1>2. o \in BindingType BY <1>1, OldTyped
<1>3. b \in BindingType BY DEF BindingType
<1>4. CASE k = o.cookie /\ d = o.detail
  <2>1. Bind(c, s, b, w, r) BY <1>4 DEF SetUniformBuffer
  <2>2. /\ w \in BindingType /\ w.dynamic = e /\ w.cookie = k /\ w.detail = d
        /\ w.cookie = o.cookie /\ w.detail = o.detail
    <3> HIDE DEF o
    <3> QED BY <1>2, <1>4 DEF BindingType
  <2> HIDE DEF w, o
  <2>3. WrittenFields(s.kind) = {"cookie", "detail"} /\ HashedFields(s.kind) = {"cookie", "detail"}
    BY <1>1 DEF WrittenFields, HashedFields
  <2>4. Project(w, WrittenFields(s.kind)) = Project(b, WrittenFields(s.kind))
    BY <2>2, <2>3, ProjectSame
  <2>5. Project(w, HashedFields(s.kind)) = Project(o, HashedFields(s.kind))
    BY <2>2, <2>3, ProjectSame
  <2>6. Binds(c, s, w, r) BY <2>5 DEF Binds, o
  <2> QED BY <1>1, <1>3, <2>1, <2>2, <2>4, <2>6, BindKeeps
<1>5. CASE ~(k = o.cookie /\ d = o.detail)
  <2>1. Bind(c, s, b, b, DirtySet(cmd[c], s)) BY <1>5 DEF SetUniformBuffer
  <2>2. Binds(c, s, b, DirtySet(cmd[c], s)) BY DEF Binds
  <2> HIDE DEF b
  <2> QED BY <1>1, <1>3, <2>1, <2>2, BindKeeps
<1> QED BY <1>4, <1>5

LEMMA StepStorageBuffer ==
  ASSUME TrackInv, NEW c \in CmdBufs, NEW s \in Slots, NEW k \in Cookies, NEW d \in Details,
         SetStorageBuffer(c, s, k, d)
  PROVE  TrackInv'
<1> DEFINE b == [cookie |-> k, secondary |-> None, detail |-> d, dynamic |-> 0]
           o == Old(c, s)
<1>1. Binding(c, s) /\ s.kind = "storage" BY DEF SetStorageBuffer
<1>2. o \in BindingType BY <1>1, OldTyped
<1>3. b \in BindingType BY ValueAssumption DEF BindingType
<1>4. CASE k = o.cookie /\ d = o.detail
  <2>1. Bind(c, s, b, o, cmd[c]) BY <1>4 DEF SetStorageBuffer
  <2> HIDE DEF o
  <2>2. WrittenFields(s.kind) = {"cookie", "detail"} BY <1>1 DEF WrittenFields
  <2>3. Project(o, WrittenFields(s.kind)) = Project(b, WrittenFields(s.kind))
    BY <1>4, <2>2, ProjectSame
  <2>4. Binds(c, s, o, cmd[c]) BY DEF Binds, o
  <2> QED BY <1>1, <1>2, <1>3, <2>1, <2>3, <2>4, BindKeeps
<1>5. CASE ~(k = o.cookie /\ d = o.detail)
  <2>1. Bind(c, s, b, b, DirtySet(cmd[c], s)) BY <1>5 DEF SetStorageBuffer
  <2>2. Binds(c, s, b, DirtySet(cmd[c], s)) BY DEF Binds
  <2> HIDE DEF b
  <2> QED BY <1>1, <1>3, <2>1, <2>2, BindKeeps
<1> QED BY <1>4, <1>5

(* The setters that store what they are asked for.                         *)
LEMMA PlainBind ==
  ASSUME TrackInv, NEW c \in CmdBufs, NEW s, Binding(c, s), NEW b \in BindingType,
         NEW same \in BOOLEAN,
         Bind(c, s, b, b, IF same THEN cmd[c] ELSE DirtySet(cmd[c], s)),
         same => \A f \in HashedFields(s.kind) : b[f] = Old(c, s)[f]
  PROVE  TrackInv'
<1> DEFINE r == IF same THEN cmd[c] ELSE DirtySet(cmd[c], s)
<1>1. Bind(c, s, b, b, r) OBVIOUS
<1>2. Binds(c, s, b, r)
  <2>1. CASE same
    <3>1. Project(b, HashedFields(s.kind)) = Project(Old(c, s), HashedFields(s.kind))
      BY <2>1, ProjectSame
    <3> QED BY <2>1, <3>1 DEF Binds
  <2>2. CASE ~same BY <2>2 DEF Binds
  <2> QED BY <2>1, <2>2
<1> HIDE DEF r
<1> QED BY <1>1, <1>2, BindKeeps

LEMMA StepBufferView ==
  ASSUME TrackInv, NEW c \in CmdBufs, NEW s \in Slots, NEW k \in Cookies, SetBufferView(c, s, k)
  PROVE  TrackInv'
<1> DEFINE o == Old(c, s)
           b == [o EXCEPT !.cookie = k, !.secondary = None]
           same == k = o.cookie
<1>1. Binding(c, s) /\ s.kind = "bufferView" BY DEF SetBufferView
<1>2. o \in BindingType BY <1>1, OldTyped
<1>3. b \in BindingType /\ b.cookie = k
  <2> HIDE DEF o
  <2> QED BY <1>2 DEF BindingType
<1>4. Bind(c, s, b, b, IF same THEN cmd[c] ELSE DirtySet(cmd[c], s)) BY DEF SetBufferView
<1>5. same => \A f \in HashedFields(s.kind) : b[f] = o[f] BY <1>1, <1>3 DEF HashedFields
<1>6. same \in BOOLEAN OBVIOUS
<1> HIDE DEF b, same
<1> QED BY <1>1, <1>3, <1>4, <1>5, <1>6, PlainBind

LEMMA StepSampler ==
  ASSUME TrackInv, NEW c \in CmdBufs, NEW s \in Slots, NEW k \in Samplers, SetSampler(c, s, k)
  PROVE  TrackInv'
<1> DEFINE o == Old(c, s)
           b == [o EXCEPT !.secondary = k]
           same == k = o.secondary
<1>1. Binding(c, s) BY DEF SetSampler
<1>2. o \in BindingType BY <1>1, OldTyped
<1>3. b \in BindingType /\ (same => b = o)
  <2> HIDE DEF o
  <2> QED BY <1>2 DEF BindingType
<1>4. Bind(c, s, b, b, IF same THEN cmd[c] ELSE DirtySet(cmd[c], s)) BY DEF SetSampler
<1>5. same => \A f \in HashedFields(s.kind) : b[f] = o[f] BY <1>3
<1>6. same \in BOOLEAN OBVIOUS
<1> HIDE DEF b, same
<1> QED BY <1>1, <1>3, <1>4, <1>5, <1>6, PlainBind

LEMMA StepTexture ==
  ASSUME TrackInv, NEW c \in CmdBufs, NEW s \in Slots, NEW k \in Cookies, NEW d \in Details,
         SetTexture(c, s, k, d)
  PROVE  TrackInv'
<1> DEFINE o == Old(c, s)
           b == [o EXCEPT !.cookie = k, !.detail = d]
           same == k = o.cookie /\ d = o.detail
<1>1. Binding(c, s) BY DEF SetTexture
<1>2. o \in BindingType BY <1>1, OldTyped
<1>3. b \in BindingType /\ (same => b = o)
  <2> HIDE DEF o
  <2> QED BY <1>2 DEF BindingType
<1>4. Bind(c, s, b, b, IF same THEN cmd[c] ELSE DirtySet(cmd[c], s)) BY DEF SetTexture
<1>5. same => \A f \in HashedFields(s.kind) : b[f] = o[f] BY <1>3
<1>6. same \in BOOLEAN OBVIOUS
<1> HIDE DEF b, same
<1> QED BY <1>1, <1>3, <1>4, <1>5, <1>6, PlainBind

LEMMA StepInputAttachments ==
  ASSUME TrackInv, NEW c \in CmdBufs, NEW s \in Slots, SetInputAttachments(c, s)
  PROVE  TrackInv'
<1> DEFINE o == Old(c, s)
           k == Attachment[cmd[c].pass]
           b == [o EXCEPT !.cookie = k, !.detail = 0]
           same == b = o
<1>1. Binding(c, s) /\ ~IsCompute(cmd[c]) BY DEF SetInputAttachments
<1>2. o \in BindingType BY <1>1, OldTyped
<1>3. k \in Cookies
  <2>1. cmd[c] \in CmdType BY DEF TrackInv, TypeOK, CmdTyped
  <2>2. cmd[c].pass \in DOMAIN Passes BY <1>1, <2>1 DEF CmdType, IsCompute
  <2> QED BY <2>2, ValueAssumption
<1>4. Bind(c, s, b, b, IF same THEN cmd[c] ELSE DirtySet(cmd[c], s)) BY DEF SetInputAttachments
<1> HIDE DEF o, k
<1>5. b \in BindingType BY <1>2, <1>3, ValueAssumption DEF BindingType
<1>6. same => \A f \in HashedFields(s.kind) : b[f] = o[f] OBVIOUS
<1>7. same \in BOOLEAN OBVIOUS
<1> HIDE DEF b, same
<1> QED BY <1>1, <1>4, <1>5, <1>6, <1>7, PlainBind DEF o

-----------------------------------------------------------------------------
(* Frames.                                                                 *)

LEMMA NothingRecords ==
  ASSUME TrackInv, ~cmd[Primary].open
  PROVE  \A c \in CmdBufs : Idle(cmd[c])
BY DEF TrackInv, Contexts, Recording, CmdBufs

(* A step between frames: nothing is recorded, and the maps change.        *)
LEMMA BetweenFrames ==
  ASSUME TrackInv, ~cmd[Primary].open, drew' = None,
         UNCHANGED <<client, cmd, gpu, array, asked, pipelines, saved, calls>>,
         frame' \in 0 .. Frames - 1, DOMAIN used' = 0 .. Frames - 1,
         DOMAIN maps' = Programs, \A p \in Programs : DOMAIN maps'[p] = SetsOf(p),
         (\A p \in Programs : \A d \in SetsOf(p) : MapInv(maps[p][d]))',
         UsedKept'
  PROVE  TrackInv'
<1>1. TypeOK /\ Contexts /\ Stored BY DEF TrackInv
<1>2. TypeOK'
  <2>1. ObjectsTyped' BY <1>1 DEF TypeOK, ObjectsTyped
  <2> QED BY <1>1, <2>1, CmdBufsAre DEF TypeOK, CmdTyped, GpuTyped
<1>3. ASSUME NEW c \in CmdBufs PROVE (Tracked(cmd[c], gpu[c]) /\ SetsTracked(cmd[c], gpu[c]))'
  <2>1. Tracked(cmd[c], gpu[c])
    BY DEF TrackInv
  <2>2. cmd[c].program = None BY NothingRecords DEF Idle
  <2>3. Tracked(cmd[c], gpu[c])' BY <2>1 DEF Tracked
  <2> QED BY <2>2, <2>3 DEF SetsTracked
<1>4. Contexts' BY <1>1 DEF Contexts, Recording
<1>5. Stored' BY <1>1 DEF Stored
<1>6. \A d \in CmdBufs : drew' # d BY CmdBufsAre
<1> QED BY <1>2, <1>3, <1>4, <1>5, <1>6 DEF TrackInv

LEMMA NextFrame ==
  ASSUME NEW f \in 0 .. Frames - 1, NEW g, g = (f + 1) % Frames
  PROVE  g \in 0 .. Frames - 1 /\ g = (IF f + 1 = Frames THEN 0 ELSE f + 1)
<1>1. Frames \in Nat /\ Frames > 0 BY FrameAssumption, RingAssumption
<1>2. CASE f + 1 = Frames BY <1>1, <1>2
<1>3. CASE f + 1 # Frames
  <2>1. f + 1 < Frames BY <1>1, <1>3
  <2>2. (f + 1) % Frames = f + 1 BY <1>1, <2>1
  <2> QED BY <1>1, <1>3, <2>1, <2>2
<1> QED BY <1>2, <1>3

LEMMA StepNextFrame ==
  ASSUME TrackInv, NextFrameContext
  PROVE  TrackInv'
<1>1. /\ ~cmd[Primary].open /\ frame' = (frame + 1) % Frames
      /\ used' = [used EXCEPT ![frame'] = {}]
      /\ maps' = [p \in Programs |-> [d \in SetsOf(p) |-> [maps[p][d] EXCEPT !.begin = TRUE]]]
      /\ drew' = None /\ UNCHANGED <<client, cmd, gpu, array, asked, pipelines, saved, calls>>
  BY DEF NextFrameContext
<1>2. /\ frame \in 0 .. Frames - 1 /\ DOMAIN used = 0 .. Frames - 1 /\ UsedKept
      /\ \A p \in Programs : \A d \in SetsOf(p) : MapInv(maps[p][d])
  BY DEF TrackInv, TypeOK, ObjectsTyped
<1>3. frame' \in 0 .. Frames - 1 /\ frame' = (IF frame + 1 = Frames THEN 0 ELSE frame + 1)
  BY <1>1, <1>2, NextFrame
<1>4. DOMAIN used' = 0 .. Frames - 1 BY <1>1, <1>2
<1>5. ASSUME NEW p \in Programs, NEW d \in SetsOf(p)
      PROVE  /\ MapInv(maps'[p][d]) /\ maps'[p][d].begin = TRUE
             /\ maps'[p][d].index = maps[p][d].index /\ maps'[p][d].rings = maps[p][d].rings
  <2>1. maps'[p][d] = [maps[p][d] EXCEPT !.begin = TRUE] BY <1>1
  <2>2. MapInv(maps[p][d]) BY <1>2
  <2> QED BY <2>1, <2>2, MarkKeeps
<1>6. UsedKept'
  <2>1. SUFFICES ASSUME NEW f \in 0 .. Frames - 1, NEW b \in used'[f]
                 PROVE  /\ b[1] \in Programs /\ b[2] \in SetsOf(b[1])
                        /\ LET m == maps'[b[1]][b[2]]
                           IN \E i \in Rings : b[3] \in m.rings[i]
                                /\ RingAge(m, i) + (IF m.begin THEN 1 ELSE 0) <= FrameAge(f)'
    BY <1>4 DEF UsedKept
  <2>2. f # frame' /\ b \in used[f] BY <1>1, <1>2, <1>3
  <2>3. FrameAge(f)' = FrameAge(f) + 1 /\ FrameAge(f) \in Nat
    <3>1. Frames \in Nat /\ Frames > 0 BY FrameAssumption, RingAssumption
    <3> QED BY <1>2, <1>3, <2>2, <3>1 DEF FrameAge
  <2>4. PICK m : m = maps[b[1]][b[2]] OBVIOUS
  <2>5. PICK n : n = maps'[b[1]][b[2]] OBVIOUS
  <2>6. /\ b[1] \in Programs /\ b[2] \in SetsOf(b[1])
        /\ \E i \in Rings : b[3] \in m.rings[i]
             /\ RingAge(m, i) + (IF m.begin THEN 1 ELSE 0) <= FrameAge(f)
    BY <1>2, <2>2, <2>4 DEF UsedKept
  <2>7. PICK i \in Rings : b[3] \in m.rings[i]
                           /\ RingAge(m, i) + (IF m.begin THEN 1 ELSE 0) <= FrameAge(f)
    BY <2>6
  <2>8. n.begin = TRUE /\ n.index = m.index /\ n.rings = m.rings /\ m.index \in Rings
    <3>1. MapInv(m) BY <1>2, <2>4, <2>6
    <3>2. m.index \in Rings BY <3>1, MapFacts
    <3>3. n.begin = TRUE /\ n.index = m.index /\ n.rings = m.rings BY <1>5, <2>4, <2>5, <2>6
    <3> QED BY <3>2, <3>3
  <2>9. RingAge(n, i) = RingAge(m, i) /\ RingAge(m, i) \in Nat
    BY <2>8, RingAgeType, RingAssumption DEF RingAge
  <2>10. RingAge(n, i) + (IF n.begin THEN 1 ELSE 0) <= FrameAge(f)'
    BY <2>3, <2>7, <2>8, <2>9
  <2> QED BY <2>5, <2>6, <2>7, <2>8, <2>10
<1>7. DOMAIN maps' = Programs /\ \A p \in Programs : DOMAIN maps'[p] = SetsOf(p) BY <1>1
<1> QED BY <1>1, <1>3, <1>4, <1>5, <1>6, <1>7, BetweenFrames

LEMMA StepWaitIdle ==
  ASSUME TrackInv, WaitIdle
  PROVE  TrackInv'
<1>1. /\ ~cmd[Primary].open /\ used' = [f \in DOMAIN used |-> {}]
      /\ maps' = [p \in Programs |-> [d \in SetsOf(p) |-> ClearMap(maps[p][d])]]
      /\ drew' = None
      /\ UNCHANGED <<client, cmd, gpu, array, asked, pipelines, saved, frame, calls>>
  BY DEF WaitIdle
<1>2. /\ frame \in 0 .. Frames - 1 /\ DOMAIN used = 0 .. Frames - 1
      /\ \A p \in Programs : \A d \in SetsOf(p) : MapInv(maps[p][d])
  BY DEF TrackInv, TypeOK, ObjectsTyped
<1>3. ASSUME NEW p \in Programs, NEW d \in SetsOf(p)
      PROVE  MapInv(maps'[p][d])
  BY <1>1, <1>2, ClearKeeps
<1>4. UsedKept' BY <1>1 DEF UsedKept
<1>5. DOMAIN maps' = Programs /\ \A p \in Programs : DOMAIN maps'[p] = SetsOf(p) BY <1>1
<1>6. frame' \in 0 .. Frames - 1 /\ DOMAIN used' = 0 .. Frames - 1 BY <1>1, <1>2
<1> QED BY <1>1, <1>3, <1>4, <1>5, <1>6, BetweenFrames

-----------------------------------------------------------------------------
(* Draws and dispatches.                                                   *)

LEMMA HashTyped ==
  ASSUME NEW o \in CmdType, o.program \in Programs, NEW h, h = PipelineHash(o)
  PROVE  h \in Hashes /\ h # None
<1>1. SpecOf(o) \in Values \cup {None}
  <2>1. o.spec \in [on : BOOLEAN, value : Values] BY DEF CmdType
  <2> QED BY <2>1 DEF SpecOf
<1>2. CASE IsCompute(o)
  <2>1. h = [program |-> o.program, spec |-> SpecOf(o)] BY <1>2 DEF PipelineHash, ComputeHash
  <2> QED BY <1>1, <2>1, ValueAssumption DEF Hashes, ComputeHashes
<1>3. CASE ~IsCompute(o)
  <2> DEFINE in == [b \in ActiveVbos(o) |-> o.stride[b]]
             k == IF NeedsBlendConstant(o.static.factor) THEN o.blend ELSE None
  <2>1. /\ o.pass \in DOMAIN Passes /\ o.subpass \in Nat /\ o.static \in StaticType
        /\ o.blend \in Values /\ o.stride \in [Vbos -> Values] /\ o.attrib \in Vbos
    BY <1>3 DEF CmdType, IsCompute
  <2>2. ActiveVbos(o) \in SUBSET Vbos BY <2>1 DEF ActiveVbos
  <2>3. in \in [ActiveVbos(o) -> Values] BY <2>1, <2>2
  <2> HIDE DEF in
  <2>4. in \in UNION {[v -> Values] : v \in SUBSET Vbos} BY <2>2, <2>3
  <2>5. k \in Values \cup {None} BY <2>1
  <2>6. h = [program |-> o.program, spec |-> SpecOf(o), pass |-> o.pass, subpass |-> o.subpass,
             words |-> o.static.words, bias |-> o.static.bias, stencil |-> o.static.stencil,
             factor |-> o.static.factor, blend |-> k, input |-> in]
    BY <1>3 DEF PipelineHash, GraphicsHash, in
  <2> HIDE DEF k
  <2>7. /\ o.static.words \in Words /\ o.static.bias \in BOOLEAN /\ o.static.stencil \in BOOLEAN
        /\ o.static.factor \in Factors
    BY <2>1 DEF StaticType
  <2>8. h \in GraphicsHashes BY <1>1, <2>1, <2>4, <2>5, <2>6, <2>7 DEF GraphicsHashes
  <2> QED BY <2>8, ValueAssumption DEF Hashes
<1> QED BY <1>2, <1>3

LEMMA BuiltIs ==
  ASSUME NEW o, NEW h, h = PipelineHash(o), NEW table, table = Built(o)
  PROVE  /\ DOMAIN table = DOMAIN pipelines \cup {h}
         /\ \A x \in DOMAIN pipelines : table[x] = pipelines[x]
         /\ h \notin DOMAIN pipelines => table[h] = Inputs(o)
<1>1. CASE Found(o)
  <2>1. h \in DOMAIN pipelines /\ table = pipelines BY <1>1 DEF Found, Built
  <2> QED BY <2>1
<1>2. CASE ~Found(o)
  <2>1. h \notin DOMAIN pipelines /\ table = With(pipelines, h, Inputs(o)) BY <1>2 DEF Found, Built
  <2> QED BY <2>1 DEF With
<1> QED BY <1>1, <1>2

(* The command buffer o after a flush, field by field.                     *)
CmdAfter(o, r) ==
  /\ r \in CmdType
  /\ r.open = o.open /\ r.contents = o.contents /\ r.pass = o.pass /\ r.subpass = o.subpass
  /\ r.program = o.program /\ r.index = o.index /\ r.static = o.static /\ r.spec = o.spec
  /\ r.blend = o.blend /\ r.dyn = o.dyn /\ r.push = o.push
  /\ r.attrib = o.attrib /\ r.stride = o.stride /\ r.vbo = o.vbo
  /\ r.pipeline = (IF Stale(o) THEN PipelineHash(o) ELSE o.pipeline)
  /\ r.active = (IF Stale(o) /\ ~IsCompute(o) THEN ActiveVbos(o) ELSE o.active)
  /\ \A d \in Sets : r.sets[d] = IF d \in Updated(o) THEN SetFor(o, d) ELSE o.sets[d]
  /\ r.dirtySets = o.dirtySets \ Updated(o)
  /\ r.dirtyDynamic = (o.dirtyDynamic \ Updated(o)) \ OnlyRebound(o)
  /\ r.dirty = (Rebound(o) \ {"push"}) \ (IF IsCompute(o) THEN {} ELSE DynamicOf(o.static))
  /\ r.dirtyVbos = IF IsCompute(o) THEN o.dirtyVbos
                   ELSE o.dirtyVbos \ (IF Stale(o) THEN ActiveVbos(o) ELSE o.active)

LEMMA FlushedCmdIs ==
  ASSUME NEW o \in CmdType, o.program \in Programs,
         \A d \in Updated(o) : SetFor(o, d) \in Nat,
         NEW r, r = FlushedCmd(o)
  PROVE  CmdAfter(o, r)
<1> DEFINE h == IF Stale(o) THEN PipelineHash(o) ELSE o.pipeline
           a == IF Stale(o) /\ ~IsCompute(o) THEN ActiveVbos(o) ELSE o.active
           s == [d \in Sets |-> IF d \in Updated(o) THEN SetFor(o, d) ELSE o.sets[d]]
           ds == o.dirtySets \ Updated(o)
           dd == (o.dirtyDynamic \ Updated(o)) \ OnlyRebound(o)
           db == (Rebound(o) \ {"push"}) \ (IF IsCompute(o) THEN {} ELSE DynamicOf(o.static))
           dv == IF IsCompute(o) THEN o.dirtyVbos
                 ELSE o.dirtyVbos \ (IF Stale(o) THEN ActiveVbos(o) ELSE o.active)
<1>1. r = [o EXCEPT !.pipeline = h, !.active = a, !.sets = s, !.dirtySets = ds,
                    !.dirtyDynamic = dd, !.dirty = db, !.dirtyVbos = dv]
  BY DEF FlushedCmd
<1>2. h \in Hashes \cup {None}
  <2>1. o.pipeline \in Hashes \cup {None} BY DEF CmdType
  <2> QED BY <2>1, HashTyped
<1>3. a \in SUBSET Vbos
  <2>1. o.active \in SUBSET Vbos /\ o.attrib \in Vbos BY DEF CmdType
  <2> QED BY <2>1 DEF ActiveVbos
<1>4. s \in [Sets -> {None} \cup Nat]
  <2>1. o.sets \in [Sets -> {None} \cup Nat] BY DEF CmdType
  <2> QED BY <2>1
<1>5. ds \in SUBSET Sets /\ dd \in SUBSET Sets
  <2>1. o.dirtySets \subseteq Sets /\ o.dirtyDynamic \subseteq Sets BY DEF CmdType
  <2> QED BY <2>1
<1>6. db \in SUBSET Bits
  <2>1. o.dirty \subseteq Bits BY DEF CmdType
  <2> QED BY <2>1, BitsAre DEF Rebound
<1>7. dv \in SUBSET Vbos
  <2>1. o.dirtyVbos \subseteq Vbos BY DEF CmdType
  <2> QED BY <2>1
<1>8. \A d \in Sets : s[d] = IF d \in Updated(o) THEN SetFor(o, d) ELSE o.sets[d] OBVIOUS
<1>9. SUFFICES /\ r \in CmdType
         /\ r.open = o.open /\ r.contents = o.contents /\ r.pass = o.pass /\ r.subpass = o.subpass
         /\ r.program = o.program /\ r.index = o.index /\ r.static = o.static /\ r.spec = o.spec
         /\ r.blend = o.blend /\ r.dyn = o.dyn /\ r.push = o.push
         /\ r.attrib = o.attrib /\ r.stride = o.stride /\ r.vbo = o.vbo
         /\ r.pipeline = h /\ r.active = a /\ r.sets = s /\ r.dirtySets = ds
         /\ r.dirtyDynamic = dd /\ r.dirty = db /\ r.dirtyVbos = dv
  BY <1>8 DEF CmdAfter
<1> HIDE DEF h, a, s, ds, dd, db, dv
<1>10. r \in CmdType
  <2> DEFINE r2 == [o EXCEPT !.pipeline = h, !.active = a, !.sets = s]
             r3 == [r2 EXCEPT !.dirtySets = ds, !.dirtyDynamic = dd]
             r4 == [r3 EXCEPT !.dirty = db, !.dirtyVbos = dv]
  <2>1. r2 \in CmdType BY <1>2, <1>3, <1>4 DEF CmdType
  <2> HIDE DEF r2
  <2>2. r3 \in CmdType BY <1>5, <2>1 DEF CmdType
  <2> HIDE DEF r3
  <2>3. r4 \in CmdType BY <1>6, <1>7, <2>2 DEF CmdType
  <2> QED BY <1>1, <2>3 DEF r2, r3, r4
<1> QED BY <1>1, <1>10 DEF CmdType

(* What the recorded commands have bound after a flush.                    *)
GpuAfter(o, g, g1, pt, table) ==
  /\ BoundType(g1)
  /\ g1.pipeline[pt] = (IF Stale(o) /\ o.pipeline # PipelineHash(o)
                        THEN table[PipelineHash(o)] ELSE g.pipeline[pt])
  /\ \A d \in Sets : g1.sets[pt][d] = IF d \in Updated(o) \cup OnlyRebound(o)
                                      THEN BoundSet(o, d) ELSE g.sets[pt][d]
  /\ \A s \in Slots : g1.offsets[pt][s] =
       IF s \notin UniformSlots(o.program) \/ s.set \notin Updated(o) \cup OnlyRebound(o)
       THEN g.offsets[pt][s]
       ELSE IF s.set \in Updated(o) THEN array[o.program][s].dynamic
       ELSE array[o.program][[s EXCEPT !.index = 0]].dynamic
  /\ g1.push = (IF "push" \in o.dirty /\ Uses[o.program].push THEN o.push ELSE g.push)
  /\ ~IsCompute(o) => \A x \in Dynamic : g1.dyn[x] =
       IF x \notin DynamicOf(o.static) THEN None
       ELSE IF x \in Rebound(o) THEN o.dyn[x] ELSE g.dyn[x]
  /\ \A b \in Vbos : g1.vbo[b] =
       IF ~IsCompute(o) /\ b \in o.dirtyVbos \cap (IF Stale(o) THEN ActiveVbos(o) ELSE o.active)
       THEN o.vbo[b] ELSE g.vbo[b]
  /\ g1.index = g.index

LEMMA FlushedGpuIs ==
  ASSUME NEW o \in CmdType, NEW g, BoundType(g), NEW g1, g1 = FlushedGpu(o, g),
         NEW pt, pt = Point(o), NEW table, table = Built(o)
  PROVE  GpuAfter(o, g, g1, pt, table)
<1> DEFINE p == o.program
           bound == {s \in UniformSlots(p) : s.set \in Updated(o) \cup OnlyRebound(o)}
           vbos == IF Stale(o) THEN ActiveVbos(o) ELSE o.active
           h == IF Stale(o) /\ o.pipeline # PipelineHash(o) THEN table[PipelineHash(o)] ELSE g.pipeline[pt]
           ss == [d \in Sets |-> IF d \in Updated(o) \cup OnlyRebound(o)
                                 THEN BoundSet(o, d) ELSE g.sets[pt][d]]
           os == [s \in Slots |->
                   IF s \notin bound THEN g.offsets[pt][s]
                   ELSE IF s.set \in Updated(o) THEN array[p][s].dynamic
                   ELSE array[p][[s EXCEPT !.index = 0]].dynamic]
           u == IF "push" \in o.dirty /\ Uses[p].push THEN o.push ELSE g.push
           y == IF IsCompute(o) THEN g.dyn ELSE
                 [d \in Dynamic |-> IF d \notin DynamicOf(o.static) THEN None
                                    ELSE IF d \in Rebound(o) THEN o.dyn[d] ELSE g.dyn[d]]
           v == IF IsCompute(o) THEN g.vbo ELSE
                 [b \in Vbos |-> IF b \in o.dirtyVbos \cap vbos THEN o.vbo[b] ELSE g.vbo[b]]
<1>1. pt \in Points BY DEF Point, Points
<1>2. g1 = [g EXCEPT !.pipeline[pt] = h, !.sets[pt] = ss, !.offsets[pt] = os,
                     !.push = u, !.dyn = y, !.vbo = v]
  BY DEF FlushedGpu
<1>3. /\ DOMAIN ss = Sets /\ DOMAIN os = Slots
      /\ \A d \in Sets : ss[d] = IF d \in Updated(o) \cup OnlyRebound(o)
                                 THEN BoundSet(o, d) ELSE g.sets[pt][d]
      /\ \A s \in Slots : os[s] =
           IF s \notin UniformSlots(o.program) \/ s.set \notin Updated(o) \cup OnlyRebound(o)
           THEN g.offsets[pt][s]
           ELSE IF s.set \in Updated(o) THEN array[o.program][s].dynamic
           ELSE array[o.program][[s EXCEPT !.index = 0]].dynamic
  OBVIOUS
<1>4. /\ DOMAIN y = Dynamic
      /\ ~IsCompute(o) => \A x \in Dynamic : y[x] =
           IF x \notin DynamicOf(o.static) THEN None
           ELSE IF x \in Rebound(o) THEN o.dyn[x] ELSE g.dyn[x]
  BY DEF BoundType
<1>5. /\ DOMAIN v = Vbos
      /\ \A b \in Vbos : v[b] = IF ~IsCompute(o) /\ b \in o.dirtyVbos \cap vbos
                                THEN o.vbo[b] ELSE g.vbo[b]
  BY DEF BoundType
<1> HIDE DEF h, ss, os, u, y, v
<1>6. /\ DOMAIN g = GpuFields /\ DOMAIN g.pipeline = Points
      /\ DOMAIN g.sets = Points /\ DOMAIN g.offsets = Points
      /\ \A q \in Points : DOMAIN g.sets[q] = Sets /\ DOMAIN g.offsets[q] = Slots
  BY DEF BoundType
<1>7. /\ DOMAIN g1 = GpuFields
      /\ g1.pipeline = [g.pipeline EXCEPT ![pt] = h] /\ g1.sets = [g.sets EXCEPT ![pt] = ss]
      /\ g1.offsets = [g.offsets EXCEPT ![pt] = os]
      /\ g1.push = u /\ g1.dyn = y /\ g1.vbo = v /\ g1.index = g.index
  BY <1>2, <1>6 DEF GpuFields
<1>8. /\ DOMAIN g1.pipeline = Points /\ DOMAIN g1.sets = Points /\ DOMAIN g1.offsets = Points
      /\ g1.pipeline[pt] = h /\ g1.sets[pt] = ss /\ g1.offsets[pt] = os
      /\ \A q \in Points : DOMAIN g1.sets[q] = Sets /\ DOMAIN g1.offsets[q] = Slots
  BY <1>1, <1>3, <1>6, <1>7
<1>9. BoundType(g1) BY <1>4, <1>5, <1>7, <1>8 DEF BoundType
<1>10. /\ \A d \in Sets : g1.sets[pt][d] = IF d \in Updated(o) \cup OnlyRebound(o)
                                           THEN BoundSet(o, d) ELSE g.sets[pt][d]
       /\ ~IsCompute(o) => \A x \in Dynamic : g1.dyn[x] =
            IF x \notin DynamicOf(o.static) THEN None
            ELSE IF x \in Rebound(o) THEN o.dyn[x] ELSE g.dyn[x]
       /\ \A b \in Vbos : g1.vbo[b] =
            IF ~IsCompute(o) /\ b \in o.dirtyVbos \cap (IF Stale(o) THEN ActiveVbos(o) ELSE o.active)
            THEN o.vbo[b] ELSE g.vbo[b]
       /\ \A s \in Slots : g1.offsets[pt][s] =
            IF s \notin UniformSlots(o.program) \/ s.set \notin Updated(o) \cup OnlyRebound(o)
            THEN g.offsets[pt][s]
            ELSE IF s.set \in Updated(o) THEN array[o.program][s].dynamic
            ELSE array[o.program][[s EXCEPT !.index = 0]].dynamic
  BY <1>3, <1>4, <1>5, <1>7, <1>8
<1> QED BY <1>7, <1>8, <1>9, <1>10 DEF h, u, GpuAfter

(* Tracked, for the pipelines that a flush leaves.                         *)
TrackedBy(r, g, table) ==
  /\ r.pipeline # None => g.pipeline[Point(r)] = table[r.pipeline]
  /\ ~Stale(r) => r.pipeline = PipelineHash(r) /\ (~IsCompute(r) => r.active = ActiveVbos(r))
  /\ r.program # None /\ Uses[r.program].push /\ "push" \notin r.dirty => g.push = r.push
  /\ ~IsCompute(r) /\ r.pipeline # None =>
       \A x \in DynamicOf(r.pipeline) \ r.dirty : g.dyn[x] = r.dyn[x]
  /\ \A b \in Vbos \ r.dirtyVbos : g.vbo[b] = r.vbo[b]
  /\ r.index # None => g.index = r.index

LEMMA HashKept ==
  ASSUME NEW o, NEW r, CmdAfter(o, r)
  PROVE  /\ IsCompute(r) = IsCompute(o) /\ Point(r) = Point(o) /\ PipelineBits(r) = PipelineBits(o)
         /\ ActiveVbos(r) = ActiveVbos(o) /\ PipelineHash(r) = PipelineHash(o)
<1>1. /\ r.pass = o.pass /\ r.subpass = o.subpass /\ r.program = o.program
      /\ r.static = o.static /\ r.spec = o.spec /\ r.blend = o.blend
      /\ r.attrib = o.attrib /\ r.stride = o.stride
  BY DEF CmdAfter
<1>2. IsCompute(r) = IsCompute(o) /\ Point(r) = Point(o) /\ PipelineBits(r) = PipelineBits(o)
  BY <1>1 DEF IsCompute, Point, PipelineBits
<1>3. ActiveVbos(r) = ActiveVbos(o) /\ SpecOf(r) = SpecOf(o) BY <1>1 DEF ActiveVbos, SpecOf
<1>4. PipelineHash(r) = PipelineHash(o)
  BY <1>1, <1>2, <1>3 DEF PipelineHash, ComputeHash, GraphicsHash
<1> QED BY <1>2, <1>3, <1>4

LEMMA FlushedHash ==
  ASSUME NEW o \in CmdType, o.program \in Programs, NEW g, Tracked(o, g), NEW r, CmdAfter(o, r)
  PROVE  /\ r.pipeline = PipelineHash(o) /\ r.pipeline # None /\ ~Stale(r)
         /\ ~IsCompute(o) => /\ r.active = ActiveVbos(o)
                             /\ DynamicOf(r.pipeline) = DynamicOf(o.static)
                             /\ (IF Stale(o) THEN ActiveVbos(o) ELSE o.active) = ActiveVbos(o)
<1>1. r.pipeline = PipelineHash(o) /\ r.pipeline # None
  <2>1. PipelineHash(o) # None BY HashTyped
  <2>2. r.pipeline = (IF Stale(o) THEN PipelineHash(o) ELSE o.pipeline) BY DEF CmdAfter
  <2>3. ~Stale(o) => o.pipeline = PipelineHash(o) BY DEF Tracked
  <2> QED BY <2>1, <2>2, <2>3
<1>2. ~Stale(r)
  <2>1. r.dirty \subseteq Rebound(o) /\ PipelineBits(r) = PipelineBits(o)
    BY HashKept DEF CmdAfter
  <2>2. PipelineBits(o) \cap Dynamic = {} BY BitsAre DEF PipelineBits
  <2>3. ~Stale(o) => o.dirty \cap PipelineBits(o) = {} BY DEF Stale
  <2>4. Rebound(o) \cap PipelineBits(o) = {} BY <2>2, <2>3 DEF Rebound
  <2> QED BY <1>1, <2>1, <2>4 DEF Stale
<1>3. ASSUME ~IsCompute(o)
      PROVE  /\ r.active = ActiveVbos(o) /\ DynamicOf(r.pipeline) = DynamicOf(o.static)
             /\ (IF Stale(o) THEN ActiveVbos(o) ELSE o.active) = ActiveVbos(o)
  <2>1. ~Stale(o) => o.active = ActiveVbos(o) BY <1>3 DEF Tracked
  <2>2. r.active = (IF Stale(o) /\ ~IsCompute(o) THEN ActiveVbos(o) ELSE o.active) BY DEF CmdAfter
  <2>3. r.pipeline = GraphicsHash(o) BY <1>1, <1>3 DEF PipelineHash
  <2>4. r.pipeline.bias = o.static.bias /\ r.pipeline.stencil = o.static.stencil
    BY <2>3 DEF GraphicsHash
  <2>5. DynamicOf(r.pipeline) = DynamicOf(o.static) BY <2>4 DEF DynamicOf
  <2> QED BY <1>3, <2>1, <2>2, <2>5
<1> QED BY <1>1, <1>2, <1>3

LEMMA FlushTracked ==
  ASSUME NEW o \in CmdType, o.program \in Programs, NEW g, Tracked(o, g), NEW r, CmdAfter(o, r),
         NEW g1, NEW table, GpuAfter(o, g, g1, Point(o), table),
         NEW next, \A h \in DOMAIN pipelines : next[h] = pipelines[h],
         o.pipeline \in DOMAIN pipelines \cup {None}, Stale(o) => next = table
  PROVE  TrackedBy(r, g1, next)
<1>1. /\ r.pipeline = PipelineHash(o) /\ r.pipeline # None /\ ~Stale(r)
      /\ ~IsCompute(o) => /\ r.active = ActiveVbos(o)
                          /\ DynamicOf(r.pipeline) = DynamicOf(o.static)
                          /\ (IF Stale(o) THEN ActiveVbos(o) ELSE o.active) = ActiveVbos(o)
  BY FlushedHash
<1>2. /\ IsCompute(r) = IsCompute(o) /\ Point(r) = Point(o)
      /\ ActiveVbos(r) = ActiveVbos(o) /\ PipelineHash(r) = PipelineHash(o)
  BY HashKept
<1>3. /\ r.program = o.program /\ r.index = o.index /\ r.dyn = o.dyn /\ r.push = o.push /\ r.vbo = o.vbo
      /\ r.dirty = (Rebound(o) \ {"push"}) \ (IF IsCompute(o) THEN {} ELSE DynamicOf(o.static))
      /\ r.dirtyVbos = IF IsCompute(o) THEN o.dirtyVbos
                       ELSE o.dirtyVbos \ (IF Stale(o) THEN ActiveVbos(o) ELSE o.active)
  BY DEF CmdAfter
<1>4. g1.pipeline[Point(r)] = next[r.pipeline]
  <2>1. g1.pipeline[Point(o)] = (IF Stale(o) /\ o.pipeline # PipelineHash(o)
                                 THEN table[PipelineHash(o)] ELSE g.pipeline[Point(o)])
    BY DEF GpuAfter
  <2>2. CASE Stale(o) /\ o.pipeline # PipelineHash(o) BY <1>1, <1>2, <2>1, <2>2
  <2>3. CASE ~(Stale(o) /\ o.pipeline # PipelineHash(o))
    <3>1. o.pipeline = r.pipeline BY <1>1, <2>3 DEF Tracked
    <3>2. g.pipeline[Point(o)] = pipelines[o.pipeline] BY <1>1, <3>1 DEF Tracked
    <3>3. next[o.pipeline] = pipelines[o.pipeline] BY <1>1, <3>1
    <3> QED BY <1>2, <2>1, <2>3, <3>1, <3>2, <3>3
  <2> QED BY <2>2, <2>3
<1>5. r.program # None /\ Uses[r.program].push => g1.push = r.push
  <2>1. g1.push = (IF "push" \in o.dirty /\ Uses[o.program].push THEN o.push ELSE g.push)
    BY DEF GpuAfter
  <2> QED BY <1>3, <2>1 DEF Tracked
<1>6. ASSUME ~IsCompute(r), NEW x \in DynamicOf(r.pipeline) \ r.dirty PROVE g1.dyn[x] = r.dyn[x]
  <2>1. x \in DynamicOf(o.static) /\ x \in Dynamic BY <1>1, <1>2, <1>6 DEF DynamicOf
  <2>2. g1.dyn[x] = IF x \in Rebound(o) THEN o.dyn[x] ELSE g.dyn[x]
    BY <1>2, <1>6, <2>1 DEF GpuAfter
  <2>3. CASE x \in Rebound(o) BY <1>3, <2>2, <2>3
  <2>4. CASE x \notin Rebound(o)
    <3>1. ~(Stale(o) /\ o.pipeline # PipelineHash(o)) BY <1>2, <1>6, <2>1, <2>4 DEF Rebound
    <3>2. o.pipeline = r.pipeline BY <1>1, <3>1 DEF Tracked
    <3>3. x \notin o.dirty
      <4>1. x \notin PipelineBits(o) BY <2>1, BitsAre DEF PipelineBits
      <4> QED BY <2>4, <4>1 DEF Rebound
    <3>4. g.dyn[x] = o.dyn[x] BY <1>1, <1>2, <1>6, <3>2, <3>3 DEF Tracked
    <3> QED BY <1>3, <2>2, <2>4, <3>4
  <2> QED BY <2>3, <2>4
<1>7. ASSUME NEW b \in Vbos \ r.dirtyVbos PROVE g1.vbo[b] = r.vbo[b]
  <2>1. g1.vbo[b] = IF ~IsCompute(o)
                       /\ b \in o.dirtyVbos \cap (IF Stale(o) THEN ActiveVbos(o) ELSE o.active)
                    THEN o.vbo[b] ELSE g.vbo[b]
    BY DEF GpuAfter
  <2>2. b \notin o.dirtyVbos => g.vbo[b] = o.vbo[b] BY DEF Tracked
  <2> QED BY <1>3, <1>7, <2>1, <2>2
<1>8. r.index # None => g1.index = r.index
  <2>1. g1.index = g.index BY DEF GpuAfter
  <2> QED BY <1>3, <2>1 DEF Tracked
<1> QED BY <1>1, <1>2, <1>4, <1>5, <1>6, <1>7, <1>8 DEF TrackedBy

LEMMA FlushClears ==
  ASSUME NEW o \in CmdType, o.program \in Programs, NEW g, Tracked(o, g), NEW r, CmdAfter(o, r)
  PROVE  Flushed(r)
<1>1. /\ r.pipeline # None /\ ~Stale(r)
      /\ ~IsCompute(o) => (IF Stale(o) THEN ActiveVbos(o) ELSE o.active) = ActiveVbos(o)
  BY FlushedHash
<1>2. IsCompute(r) = IsCompute(o) /\ ActiveVbos(r) = ActiveVbos(o) BY HashKept
<1>3. /\ r.program = o.program /\ r.static = o.static
      /\ r.dirtySets = o.dirtySets \ Updated(o)
      /\ r.dirtyDynamic = (o.dirtyDynamic \ Updated(o)) \ OnlyRebound(o)
      /\ r.dirty = (Rebound(o) \ {"push"}) \ (IF IsCompute(o) THEN {} ELSE DynamicOf(o.static))
      /\ r.dirtyVbos = IF IsCompute(o) THEN o.dirtyVbos
                       ELSE o.dirtyVbos \ (IF Stale(o) THEN ActiveVbos(o) ELSE o.active)
  BY DEF CmdAfter
<1>4. r.program # None BY <1>3, ValueAssumption
<1>5. SetsOf(r.program) \cap (r.dirtySets \cup r.dirtyDynamic) = {}
  BY <1>3 DEF Updated, OnlyRebound
<1>6. "push" \notin r.dirty BY <1>3
<1>7. ~IsCompute(r) => DynamicOf(r.static) \cap r.dirty = {} /\ ActiveVbos(r) \cap r.dirtyVbos = {}
  BY <1>1, <1>2, <1>3
<1> QED BY <1>1, <1>4, <1>5, <1>6, <1>7 DEF Flushed

(* The maps after a flush of o.                                            *)
MapsAfter(o, p) ==
  /\ DOMAIN maps' = Programs /\ \A q \in Programs : DOMAIN maps'[q] = SetsOf(q)
  /\ \A q \in Programs : \A d \in SetsOf(q) :
       MapInv(maps'[q][d]) /\ Kept(maps[q][d], maps'[q][d])
  /\ \A q \in Programs : \A d \in SetsOf(q) :
       ~(q = p /\ d \in Updated(o)) => maps'[q][d] = maps[q][d]
  /\ \A d \in Updated(o) :
       /\ FlushedTo(maps[p][d], maps'[p][d], HashOf(p, d), ContentOf(p, d))
       /\ SetFor(o, d) = maps'[p][d].map[HashOf(p, d)] /\ SetFor(o, d) \in Nat

LEMMA FlushMaps ==
  ASSUME TrackInv, NEW o \in CmdType, NEW p \in Programs, p = o.program,
         maps' = [maps EXCEPT ![p] =
                   [d \in SetsOf(p) |-> IF d \in Updated(o) THEN FlushedMap(o, d) ELSE @[d]]]
  PROVE  MapsAfter(o, p)
<1>1. /\ DOMAIN maps = Programs /\ \A q \in Programs : DOMAIN maps[q] = SetsOf(q)
      /\ \A q \in Programs : \A d \in SetsOf(q) : MapInv(maps[q][d])
  BY DEF TrackInv, TypeOK, ObjectsTyped
<1>2. Updated(o) \subseteq SetsOf(p) BY DEF Updated
<1>3. /\ DOMAIN maps' = Programs /\ DOMAIN maps'[p] = SetsOf(p)
      /\ \A q \in Programs : q # p => maps'[q] = maps[q]
      /\ \A d \in SetsOf(p) : maps'[p][d] = IF d \in Updated(o) THEN FlushedMap(o, d) ELSE maps[p][d]
  BY <1>1
<1>4. ASSUME NEW d \in Updated(o)
      PROVE  /\ FlushedTo(maps[p][d], maps'[p][d], HashOf(p, d), ContentOf(p, d))
             /\ SetFor(o, d) = maps'[p][d].map[HashOf(p, d)] /\ SetFor(o, d) \in Nat
  <2>1. MapInv(maps[p][d]) BY <1>1, <1>2
  <2>2. maps'[p][d] = Flush(maps[p][d], HashOf(p, d), ContentOf(p, d))
    BY <1>2, <1>3 DEF FlushedMap
  <2>3. FlushedTo(maps[p][d], maps'[p][d], HashOf(p, d), ContentOf(p, d))
    BY <2>1, <2>2, FlushKeeps
  <2>4. SetFor(o, d) = maps'[p][d].map[HashOf(p, d)] BY <1>2, <1>3 DEF SetFor
  <2>5. PICK m : m = maps'[p][d] OBVIOUS
  <2>6. MapInv(m) /\ HashOf(p, d) \in DOMAIN m.map BY <2>3, <2>5 DEF FlushedTo
  <2>7. m.map[HashOf(p, d)] \in Nodes(m) /\ Nodes(m) \subseteq Nat BY <2>6, MapFacts
  <2> QED BY <2>3, <2>4, <2>5, <2>7
<1>5. ASSUME NEW q \in Programs, NEW d \in SetsOf(q)
      PROVE  /\ MapInv(maps'[q][d]) /\ Kept(maps[q][d], maps'[q][d])
             /\ ~(q = p /\ d \in Updated(o)) => maps'[q][d] = maps[q][d]
  <2>1. CASE q = p /\ d \in Updated(o)
    <3>1. FlushedTo(maps[p][d], maps'[p][d], HashOf(p, d), ContentOf(p, d)) BY <1>4, <2>1
    <3> QED BY <2>1, <3>1 DEF FlushedTo
  <2>2. CASE ~(q = p /\ d \in Updated(o))
    <3>1. maps'[q][d] = maps[q][d] BY <1>3, <2>2
    <3>2. MapInv(maps[q][d]) BY <1>1
    <3>3. Kept(maps[q][d], maps[q][d]) BY <3>2, KeptItself
    <3> QED BY <3>1, <3>2, <3>3
  <2> QED BY <2>1, <2>2
<1>6. \A q \in Programs : DOMAIN maps'[q] = SetsOf(q) BY <1>1, <1>3
<1> QED BY <1>3, <1>4, <1>5, <1>6 DEF MapsAfter

(* A set that a draw uses is in the ring of this frame.                    *)
LEMMA FlushSets ==
  ASSUME TrackInv, NEW o \in CmdType, NEW p \in Programs, p = o.program, MapsAfter(o, p),
         NEW g, SetsTracked(o, g), NEW r, CmdAfter(o, r),
         NEW g1, NEW table, GpuAfter(o, g, g1, Point(o), table),
         NEW d \in SetsOf(p), NEW h, h = HashOf(p, d), NEW m, m = maps'[p][d]
  PROVE  /\ ~m.begin /\ h \in DOMAIN m.map /\ m.map[h] = r.sets[d]
         /\ r.sets[d] \in m.rings[m.index] /\ g1.sets[Point(o)][d] = <<p, d, r.sets[d]>>
         /\ d \in Updated(o) \cup OnlyRebound(o) => BoundSet(o, d) = <<p, d, r.sets[d]>>
<1>1. d \in Sets BY ValueAssumption DEF SetsOf, Sets
<1>2. /\ r.sets[d] = IF d \in Updated(o) THEN SetFor(o, d) ELSE o.sets[d]
      /\ g1.sets[Point(o)][d] = IF d \in Updated(o) \cup OnlyRebound(o)
                                THEN BoundSet(o, d) ELSE g.sets[Point(o)][d]
  BY <1>1 DEF CmdAfter, GpuAfter
<1>3. BoundSet(o, d) = <<p, d, r.sets[d]>> BY <1>2 DEF BoundSet
<1>4. CASE d \in Updated(o)
  <2>1. FlushedTo(maps[p][d], m, h, ContentOf(p, d)) /\ SetFor(o, d) = m.map[h]
    BY <1>4 DEF MapsAfter
  <2>2. ~m.begin /\ h \in DOMAIN m.map /\ m.map[h] \in m.rings[m.index] BY <2>1 DEF FlushedTo
  <2> QED BY <1>2, <1>3, <1>4, <2>1, <2>2
<1>5. CASE d \notin Updated(o)
  <2>1. m = maps[p][d] BY <1>5 DEF MapsAfter
  <2>2. d \in SetsOf(p) \ o.dirtySets BY <1>5 DEF Updated
  <2>3. p # None BY ValueAssumption
  <2>4. /\ ~m.begin /\ h \in DOMAIN m.map /\ m.map[h] = o.sets[d]
        /\ o.sets[d] \in m.rings[m.index] /\ g.sets[Point(o)][d] = <<p, d, o.sets[d]>>
    BY <2>1, <2>2, <2>3 DEF SetsTracked
  <2> QED BY <1>2, <1>3, <1>5, <2>4
<1> QED BY <1>4, <1>5

LEMMA FlushUsed ==
  ASSUME TrackInv, NEW p \in Programs, NEW o \in CmdType, p = o.program, MapsAfter(o, p),
         NEW g, SetsTracked(o, g), NEW r, CmdAfter(o, r),
         NEW g1, NEW table, GpuAfter(o, g, g1, Point(o), table), frame' = frame,
         used' = [used EXCEPT ![frame] =
                   @ \cup {BoundSet(o, d) : d \in Updated(o) \cup OnlyRebound(o)}]
  PROVE  UsedKept' /\ DOMAIN used' = DOMAIN used
<1>1. /\ frame \in 0 .. Frames - 1 /\ DOMAIN used = 0 .. Frames - 1 /\ UsedKept
      /\ Frames \in Nat /\ RingSize \in Nat /\ Frames <= RingSize
      /\ \A q \in Programs : \A d \in SetsOf(q) : MapInv(maps[q][d])
  BY FrameAssumption, RingAssumption DEF TrackInv, TypeOK, ObjectsTyped
<1>2. SUFFICES ASSUME NEW f \in 0 .. Frames - 1, NEW b \in used'[f]
               PROVE  /\ b[1] \in Programs /\ b[2] \in SetsOf(b[1])
                      /\ LET m == maps'[b[1]][b[2]]
                         IN \E i \in Rings : b[3] \in m.rings[i]
                              /\ RingAge(m, i) + (IF m.begin THEN 1 ELSE 0) <= FrameAge(f)'
  BY <1>1 DEF UsedKept
<1>3. FrameAge(f)' = FrameAge(f) /\ FrameAge(f) \in 0 .. Frames - 1 /\ FrameAge(frame) = 0
  BY <1>1 DEF FrameAge
<1>4. PICK m1 : m1 = maps'[b[1]][b[2]] OBVIOUS
<1>5. CASE b \in used[f]
  <2>1. PICK m : m = maps[b[1]][b[2]] OBVIOUS
  <2>2. /\ b[1] \in Programs /\ b[2] \in SetsOf(b[1])
        /\ \E i \in Rings : b[3] \in m.rings[i]
             /\ RingAge(m, i) + (IF m.begin THEN 1 ELSE 0) <= FrameAge(f)
    BY <1>1, <1>5, <2>1 DEF UsedKept
  <2>3. PICK i \in Rings : b[3] \in m.rings[i] /\ Age(m, i) <= FrameAge(f) BY <2>2 DEF Age
  <2>4. MapInv(m) BY <1>1, <2>1, <2>2
  <2>5. Age(m, i) \in Nat BY <2>4, RingAgeType, MapFacts
  <2>6. Age(m, i) < RingSize BY <1>1, <1>3, <2>3, <2>5
  <2>7. Kept(m, m1) /\ MapInv(m1) BY <1>4, <2>1, <2>2 DEF MapsAfter
  <2>8. PICK j \in Rings : b[3] \in m1.rings[j] /\ Age(m1, j) <= Age(m, i)
    BY <2>3, <2>6, <2>7 DEF Kept
  <2>9. Age(m1, j) \in Nat BY <2>7, RingAgeType, MapFacts
  <2>10. Age(m1, j) <= FrameAge(f)' BY <1>1, <1>3, <2>3, <2>5, <2>8, <2>9
  <2> QED BY <1>4, <2>2, <2>8, <2>10 DEF Age
<1>6. CASE b \notin used[f]
  <2>1. PICK d \in Updated(o) \cup OnlyRebound(o) : f = frame /\ b = BoundSet(o, d)
    BY <1>1, <1>2, <1>6
  <2>2. d \in SetsOf(p) BY <2>1 DEF Updated, OnlyRebound
  <2>3. PICK n : n = maps'[p][d] OBVIOUS
  <2>4. /\ ~n.begin /\ r.sets[d] \in n.rings[n.index] /\ BoundSet(o, d) = <<p, d, r.sets[d]>>
    BY <2>1, <2>2, <2>3, FlushSets
  <2>5. b[1] = p /\ b[2] = d /\ b[3] = r.sets[d] BY <2>1, <2>4
  <2>6. MapInv(n) BY <2>2, <2>3 DEF MapsAfter
  <2>7. n.index \in Rings /\ RingAge(n, n.index) = 0 BY <2>6, RingAgeType, MapFacts
  <2>8. RingAge(n, n.index) + (IF n.begin THEN 1 ELSE 0) <= FrameAge(f)'
    BY <1>3, <2>1, <2>4, <2>7
  <2> QED BY <2>2, <2>3, <2>4, <2>5, <2>7, <2>8
<1> QED BY <1>5, <1>6

LEMMA StepFlushes ==
  ASSUME TrackInv, NEW c \in CmdBufs, CanFlush(c), Flushes(c), drew' \in {c, None}, calls' = 0
  PROVE  TrackInv' /\ Flushed(cmd'[c])
<1>1. PICK o : o = cmd[c] OBVIOUS
<1>2. PICK g : g = gpu[c] OBVIOUS
<1>3. PICK p : p = o.program OBVIOUS
<1>4. PICK r : r = FlushedCmd(o) OBVIOUS
<1>5. PICK g1 : g1 = FlushedGpu(o, g) OBVIOUS
<1>6. PICK table : table = Built(o) OBVIOUS
<1>7. /\ Recording(c) /\ p # None
      /\ cmd' = [cmd EXCEPT ![c] = r] /\ gpu' = [gpu EXCEPT ![c] = g1]
      /\ maps' = [maps EXCEPT ![p] =
           [d \in SetsOf(p) |-> IF d \in Updated(o) THEN FlushedMap(o, d) ELSE @[d]]]
      /\ pipelines' = (IF Stale(o) THEN table ELSE pipelines)
      /\ used' = [used EXCEPT ![frame] =
           @ \cup {BoundSet(o, d) : d \in Updated(o) \cup OnlyRebound(o)}]
      /\ UNCHANGED <<client, array, asked, saved, frame>>
  BY <1>1, <1>2, <1>3, <1>4, <1>5, <1>6 DEF CanFlush, Flushes
<1>8. /\ o \in CmdType /\ Tracked(o, g) /\ SetsTracked(o, g) /\ BoundType(g)
      /\ o.pipeline \in DOMAIN pipelines \cup {None} /\ ObjectsTyped /\ GpuTyped
      /\ client \in Clients /\ Stored
  BY <1>1, <1>2 DEF TrackInv, TypeOK, CmdTyped, GpuTyped
<1>9. p \in Programs BY <1>3, <1>7, <1>8 DEF CmdType
<1>10. MapsAfter(o, p) BY <1>3, <1>7, <1>8, <1>9, FlushMaps
<1>11. CmdAfter(o, r)
  <2>1. \A d \in Updated(o) : SetFor(o, d) \in Nat BY <1>10 DEF MapsAfter
  <2> QED BY <1>3, <1>4, <1>8, <1>9, <2>1, FlushedCmdIs
<1>12. GpuAfter(o, g, g1, Point(o), table) BY <1>5, <1>6, <1>8, FlushedGpuIs
<1>13. /\ DOMAIN pipelines \subseteq DOMAIN pipelines' /\ DOMAIN pipelines' \subseteq Hashes
       /\ \A h \in DOMAIN pipelines : pipelines'[h] = pipelines[h]
       /\ r.pipeline \in DOMAIN pipelines' \cup {None}
  <2>1. PICK h : h = PipelineHash(o) OBVIOUS
  <2>2. h \in Hashes BY <1>3, <1>8, <1>9, <2>1, HashTyped
  <2>3. DOMAIN table = DOMAIN pipelines \cup {h} /\ \A x \in DOMAIN pipelines : table[x] = pipelines[x]
    BY <1>6, <2>1, BuiltIs
  <2>4. DOMAIN pipelines \subseteq Hashes BY <1>8 DEF ObjectsTyped
  <2>5. r.pipeline = (IF Stale(o) THEN h ELSE o.pipeline) BY <1>11, <2>1 DEF CmdAfter
  <2> QED BY <1>7, <1>8, <2>2, <2>3, <2>4, <2>5
<1>14. /\ r \in CmdType /\ r.open = o.open /\ r.contents = o.contents /\ r.pass = o.pass
       /\ r.program = p /\ r.dirtySets = o.dirtySets \ Updated(o)
  BY <1>3, <1>11 DEF CmdAfter
<1>15. /\ Contexts' /\ cmd' \in [CmdBufs -> CmdType] /\ cmd'[c] = r
       /\ \A d \in CmdBufs : d # c => cmd'[d] = cmd[d]
  BY <1>1, <1>7, <1>14, StillRecording
<1>16. GpuTyped' /\ gpu'[c] = g1
  <2>1. BoundType(g1) BY <1>12 DEF GpuAfter
  <2>2. DOMAIN gpu = CmdBufs /\ \A d \in CmdBufs : BoundType(gpu[d]) BY <1>8 DEF GpuTyped
  <2>3. /\ DOMAIN gpu' = CmdBufs /\ gpu'[c] = g1
        /\ \A d \in CmdBufs : d # c => gpu'[d] = gpu[d]
    BY <1>7, <2>2
  <2>4. \A d \in CmdBufs : BoundType(gpu'[d]) BY <2>1, <2>2, <2>3
  <2> QED BY <2>3, <2>4 DEF GpuTyped
<1>17. Tracked(cmd[c], gpu[c])'
  <2>1. TrackedBy(r, g1, pipelines')
    BY <1>3, <1>7, <1>8, <1>9, <1>11, <1>12, <1>13, FlushTracked
  <2> QED BY <1>15, <1>16, <2>1 DEF Tracked, TrackedBy
<1>18. SetsTracked(cmd[c], gpu[c])'
  <2>1. Point(r) = Point(o) BY <1>11, HashKept
  <2>2. SUFFICES ASSUME NEW d \in SetsOf(p) \ r.dirtySets
                 PROVE  LET m == maps'[p][d]
                        IN /\ ~m.begin /\ HashOf(p, d)' \in DOMAIN m.map
                           /\ m.map[HashOf(p, d)'] = r.sets[d] /\ r.sets[d] \in m.rings[m.index]
                           /\ g1.sets[Point(r)][d] = <<p, d, r.sets[d]>>
    BY <1>14, <1>15, <1>16 DEF SetsTracked
  <2>3. HashOf(p, d)' = HashOf(p, d) BY <1>7 DEF HashOf
  <2>4. PICK m : m = maps'[p][d] OBVIOUS
  <2>5. PICK h : h = HashOf(p, d) OBVIOUS
  <2>6. /\ ~m.begin /\ h \in DOMAIN m.map /\ m.map[h] = r.sets[d]
        /\ r.sets[d] \in m.rings[m.index] /\ g1.sets[Point(o)][d] = <<p, d, r.sets[d]>>
    BY <1>3, <1>8, <1>9, <1>10, <1>11, <1>12, <2>4, <2>5, FlushSets
  <2> QED BY <2>1, <2>3, <2>4, <2>5, <2>6
<1>19. Flushed(r) BY <1>3, <1>8, <1>9, <1>11, FlushClears
<1>20. ASSUME NEW d \in CmdBufs
       PROVE  /\ (Tracked(cmd[d], gpu[d]) /\ SetsTracked(cmd[d], gpu[d]))'
              /\ cmd'[d].pipeline \in DOMAIN pipelines' \cup {None}
  <2>1. CASE d = c BY <1>13, <1>15, <1>17, <1>18, <2>1
  <2>2. CASE d # c
    <3>1. Idle(cmd'[d]) BY <1>7, <1>15, <2>2, OthersIdle
    <3>2. cmd'[d].pipeline = None /\ cmd'[d].program = None /\ cmd'[d].index = None
          /\ cmd'[d].dirtyVbos = Vbos
      BY <3>1 DEF Idle
    <3>3. Tracked(cmd[d], gpu[d])' BY <3>2 DEF Tracked, Stale
    <3>4. SetsTracked(cmd[d], gpu[d])' BY <3>2 DEF SetsTracked
    <3> QED BY <3>2, <3>3, <3>4
  <2> QED BY <2>1, <2>2
<1>21. UsedKept' /\ DOMAIN used' = DOMAIN used
  BY <1>3, <1>7, <1>8, <1>9, <1>10, <1>11, <1>12, FlushUsed
<1>22. TypeOK'
  <2>1. CmdTyped' BY <1>15, <1>20 DEF CmdTyped
  <2>2. DOMAIN maps' = Programs /\ \A q \in Programs : DOMAIN maps'[q] = SetsOf(q)
    BY <1>10 DEF MapsAfter
  <2>3. ObjectsTyped' BY <1>7, <1>8, <1>13, <1>21, <2>2 DEF ObjectsTyped
  <2>4. drew' \in CmdBufs \cup {None} /\ calls' \in 0 .. MaxCalls BY CallsTyped
  <2> QED BY <1>7, <1>8, <1>16, <2>1, <2>3, <2>4 DEF TypeOK
<1>23. \A d \in CmdBufs : drew' = d => Flushed(cmd'[d]) BY <1>15, <1>19, CmdBufsAre
<1>24. (\A q \in Programs : \A d \in SetsOf(q) : MapInv(maps[q][d]))' BY <1>10 DEF MapsAfter
<1>25. Stored' BY <1>7, <1>8 DEF Stored
<1> QED BY <1>15, <1>19, <1>20, <1>21, <1>22, <1>23, <1>24, <1>25 DEF TrackInv

LEMMA StepFail ==
  ASSUME TrackInv, NEW c \in CmdBufs, FailToFlush(c)
  PROVE  TrackInv'
<1> DEFINE o == cmd[c]
           d == o.dirty \ PipelineBits(o)
           a == IF IsCompute(o) THEN o.active ELSE ActiveVbos(o)
           r == [o EXCEPT !.pipeline = None, !.dirty = d, !.active = a]
<1>1. /\ Recording(c) /\ calls' = 0 /\ drew' = None
      /\ cmd' = [cmd EXCEPT ![c] = r] /\ UNCHANGED <<client, gpu, objects>>
  BY DEF FailToFlush, CanFlush, FailedCmd, Set
<1>2. /\ o \in CmdType /\ Tracked(o, gpu[c]) /\ SetsTracked(o, gpu[c]) /\ GpuTyped
  BY DEF TrackInv, TypeOK, CmdTyped
<1>3. d \in SUBSET Bits /\ a \in SUBSET Vbos /\ ("push" \notin d => "push" \notin o.dirty)
  <2>1. o.dirty \subseteq Bits /\ o.active \subseteq Vbos /\ o.attrib \in Vbos BY <1>2 DEF CmdType
  <2> QED BY <2>1 DEF PipelineBits, ActiveVbos
<1> HIDE DEF d, a
<1>4. r \in CmdType
  <2> HIDE DEF o
  <2> QED BY <1>2, <1>3 DEF CmdType
<1>5. /\ r.open = o.open /\ r.contents = o.contents /\ r.pass = o.pass
      /\ r.program = o.program /\ r.pipeline = None /\ r.index = o.index
      /\ r.sets = o.sets /\ r.dirtySets = o.dirtySets /\ r.dirtyVbos = o.dirtyVbos
      /\ r.vbo = o.vbo /\ r.push = o.push /\ r.dirty = d
  <2> HIDE DEF o
  <2> QED BY <1>2 DEF CmdType
<1> HIDE DEF r
<1>6. Tracked(r, gpu[c])
  <2>1. Stale(r) BY <1>5 DEF Stale
  <2> QED BY <1>2, <1>3, <1>5, <2>1 DEF Tracked
<1>7. SetsTracked(r, gpu[c])
  <2>1. Point(r) = Point(o) BY <1>5 DEF Point, IsCompute
  <2> QED BY <1>2, <1>5, <2>1 DEF SetsTracked
<1>8. GpuTyped' BY <1>1, <1>2 DEF GpuTyped
<1> QED BY <1>1, <1>4, <1>5, <1>6, <1>7, <1>8, CallsTyped, Recorded

LEMMA Stutter ==
  ASSUME TrackInv, UNCHANGED vars
  PROVE  TrackInv'
<1>1. /\ UNCHANGED <<client, cmd, gpu, array, asked, maps, pipelines>>
      /\ UNCHANGED <<saved, frame, used, drew, calls>>
  BY DEF vars
<1>2. TypeOK' BY <1>1 DEF TrackInv, TypeOK, CmdTyped, GpuTyped, ObjectsTyped
<1>3. ASSUME NEW c \in CmdBufs
      PROVE  (Tracked(cmd[c], gpu[c]) /\ SetsTracked(cmd[c], gpu[c]))'
  <2>1. Tracked(cmd'[c], gpu'[c]) /\ SetsTracked(cmd'[c], gpu'[c]) BY <1>1 DEF TrackInv
  <2> QED BY <1>1, <2>1, TrackedKept
<1>4. Contexts' /\ Stored' /\ UsedKept'
  BY <1>1 DEF TrackInv, Contexts, Recording, Stored, UsedKept, FrameAge
<1>5. \A c \in CmdBufs : drew' = c => Flushed(cmd'[c]) BY <1>1 DEF TrackInv
<1>6. (\A p \in Programs : \A d \in SetsOf(p) : MapInv(maps[p][d]))' BY <1>1 DEF TrackInv
<1> QED BY <1>2, <1>3, <1>4, <1>5, <1>6 DEF TrackInv

LEMMA TrackInit ==
  ASSUME Init
  PROVE  TrackInv
<1>1. PICK n : n = Closed OBVIOUS
<1>2. n \in CmdType /\ Idle(n) /\ n.open = FALSE /\ n.contents = "inline" BY <1>1, ClosedIs
<1>3. PICK b : b = NothingBound OBVIOUS
<1>4. BoundType(b) BY <1>3, NothingBoundIs
<1>5. /\ client \in Clients /\ cmd = [c \in CmdBufs |-> n] /\ gpu = [c \in CmdBufs |-> b]
      /\ array = [p \in Programs |-> [s \in Uses[p].slots |-> Unbound]] /\ asked = array
      /\ maps = [p \in Programs |-> [d \in SetsOf(p) |-> EmptyMap]]
      /\ pipelines = <<>> /\ saved = None /\ frame = 0
      /\ used = [f \in 0 .. Frames - 1 |-> {}] /\ drew = None /\ calls = 0
  BY <1>1, <1>3 DEF Init
<1>6. \A c \in CmdBufs : cmd[c] = n /\ gpu[c] = b BY <1>5
<1>7. CmdTyped
  <2>1. n.pipeline = None BY <1>2 DEF Idle
  <2> QED BY <1>2, <1>5, <2>1 DEF CmdTyped
<1>8. GpuTyped BY <1>4, <1>5 DEF GpuTyped
<1>9. ObjectsTyped
  <2>1. Unbound \in BindingType BY ValueAssumption DEF Unbound, BindingType
  <2>2. \A p \in Programs : {array[p], asked[p]} \subseteq [Uses[p].slots -> BindingType]
    BY <1>5, <2>1
  <2>3. DOMAIN pipelines \subseteq Hashes BY <1>5
  <2>4. frame \in 0 .. Frames - 1 BY <1>5, FrameAssumption, RingAssumption
  <2> QED BY <1>5, <2>2, <2>3, <2>4 DEF ObjectsTyped
<1>10. TypeOK
  <2>1. calls \in 0 .. MaxCalls BY <1>5, CallAssumption
  <2> QED BY <1>5, <1>7, <1>8, <1>9, <2>1 DEF TypeOK
<1>11. Contexts BY <1>2, <1>6, CmdBufsAre DEF Contexts
<1>12. \A c \in CmdBufs : Tracked(cmd[c], gpu[c]) /\ SetsTracked(cmd[c], gpu[c])
  BY <1>2, <1>6, IdleTracked
<1>13. \A c \in CmdBufs : drew # c BY <1>5, CmdBufsAre
<1>14. \A p \in Programs : \A d \in SetsOf(p) : MapInv(maps[p][d])
  BY <1>5, EmptyMapKeeps
<1>15. Stored BY <1>5 DEF Stored
<1>16. UsedKept BY <1>5 DEF UsedKept
<1> QED BY <1>10, <1>11, <1>12, <1>13, <1>14, <1>15, <1>16 DEF TrackInv

LEMMA StepSetBinding ==
  ASSUME TrackInv, NEW c \in CmdBufs, NEW s \in Slots, SetBinding(c, s)
  PROVE  TrackInv'
BY StepUniformBuffer, StepStorageBuffer, StepTexture, StepBufferView, StepSampler,
   StepInputAttachments DEF SetBinding

LEMMA StepSetState ==
  ASSUME TrackInv, NEW c \in CmdBufs, SetState(c)
  PROVE  TrackInv'
BY StepStaticState, StepPreset, StepSpecMask, StepBlendConstants, StepSpecConstant,
   StepPushConstants, StepBindIndexBuffer, StepDynamicState, StepVertexAttrib,
   StepVertexBinding, StepBindVertexBuffer, StepSave, StepRestore DEF SetState

LEMMA StepDraw ==
  ASSUME TrackInv, NEW c \in CmdBufs, Draw(c) \/ FlushWithoutBlocking(c)
  PROVE  TrackInv'
<1>1. CanFlush(c) /\ Flushes(c) /\ drew' \in {c, None} /\ calls' = 0
  BY DEF Draw, FlushWithoutBlocking
<1> QED BY <1>1, StepFlushes

LEMMA TrackNext ==
  ASSUME TrackInv, [Next]_vars
  PROVE  TrackInv'
<1>1. CASE RequestCommandBuffer BY <1>1, StepRequest
<1>2. CASE EndCommandBuffer BY <1>2, StepEnd
<1>3. CASE NextFrameContext BY <1>3, StepNextFrame
<1>4. CASE WaitIdle BY <1>4, StepWaitIdle
<1>5. CASE \E pass \in client.passes, contents \in {"inline", "secondary"} :
             BeginRenderPass(pass, contents)
  BY <1>5, StepBeginRenderPass
<1>6. CASE \E contents \in {"inline", "secondary"} : NextSubpass(contents)
  BY <1>6, StepNextSubpass
<1>7. CASE EndRenderPass BY <1>7, StepEndRenderPass
<1>8. CASE RequestSecondaryCommandBuffer BY <1>8, StepRequestSecondary
<1>9. CASE SubmitSecondary BY <1>9, StepSubmitSecondary
<1>10. ASSUME NEW c \in CmdBufs, \E p \in client.programs : SetProgram(c, p) PROVE TrackInv'
  BY <1>10, StepSetProgram
<1>11. ASSUME NEW c \in CmdBufs, \E s \in Slots : SetBinding(c, s) PROVE TrackInv'
  BY <1>11, StepSetBinding
<1>12. ASSUME NEW c \in CmdBufs, SetState(c) PROVE TrackInv' BY <1>12, StepSetState
<1>13. ASSUME NEW c \in CmdBufs, Draw(c) \/ FlushWithoutBlocking(c) PROVE TrackInv'
  BY <1>13, StepDraw
<1>14. ASSUME NEW c \in CmdBufs, FailToFlush(c) PROVE TrackInv' BY <1>14, StepFail
<1>15. CASE UNCHANGED vars BY <1>15, Stutter
<1> QED
  BY <1>1, <1>2, <1>3, <1>4, <1>5, <1>6, <1>7, <1>8, <1>9, <1>10, <1>11, <1>12, <1>13,
     <1>14, <1>15 DEF Next

(* What is not dirty is what the recorded commands have bound, in every    *)
(* command buffer; the sets in use are in rings that have not expired; the *)
(* maps of sets keep their accounts.  This is for any programs, clients,   *)
(* passes, states and numbers of calls.                                    *)
THEOREM TrackingInvariant == Spec => []TrackInv
<1>1. Init => TrackInv BY TrackInit
<1>2. TrackInv /\ [Next]_vars => TrackInv' BY TrackNext
<1> QED BY <1>1, <1>2, PTL DEF Spec

(* After a draw the push constants, the dynamic state and the vertex and   *)
(* index buffers in force are those of the command buffer.                 *)
THEOREM DrawSeesStateHolds == Spec => []DrawSeesState
<1>1. TrackInv => DrawSeesState
  <2>1. SUFFICES ASSUME TrackInv, NEW c \in CmdBufs, drew = c
                 PROVE  LET r == cmd[c] IN
                        /\ Uses[r.program].push => gpu[c].push = r.push
                        /\ ~IsCompute(r) =>
                             /\ \A g \in DynamicOf(r.static) : gpu[c].dyn[g] = r.dyn[g]
                             /\ \A b \in ActiveVbos(r) : gpu[c].vbo[b] = r.vbo[b]
                        /\ r.index # None => gpu[c].index = r.index
    BY DEF DrawSeesState
  <2>2. PICK r : r = cmd[c] OBVIOUS
  <2>3. r \in CmdType /\ Tracked(r, gpu[c]) /\ Flushed(r)
    BY <2>1, <2>2 DEF TrackInv, TypeOK, CmdTyped
  <2>4. r.pipeline # None /\ r.pipeline = PipelineHash(r) BY <2>3 DEF Flushed, Stale, Tracked
  <2>5. Uses[r.program].push => gpu[c].push = r.push BY <2>3 DEF Flushed, Tracked
  <2>6. ASSUME ~IsCompute(r), NEW g \in DynamicOf(r.static) PROVE gpu[c].dyn[g] = r.dyn[g]
    <3>1. r.pipeline = GraphicsHash(r) BY <2>4, <2>6 DEF PipelineHash
    <3>2. r.pipeline.bias = r.static.bias /\ r.pipeline.stencil = r.static.stencil
      BY <3>1 DEF GraphicsHash
    <3>3. g \in DynamicOf(r.pipeline) BY <2>6, <3>2 DEF DynamicOf
    <3>4. g \notin r.dirty BY <2>3, <2>6 DEF Flushed
    <3> QED BY <2>3, <2>4, <2>6, <3>3, <3>4 DEF Tracked
  <2>7. ASSUME ~IsCompute(r), NEW b \in ActiveVbos(r) PROVE gpu[c].vbo[b] = r.vbo[b]
    <3>1. b \in Vbos BY <2>3, <2>7 DEF ActiveVbos, CmdType
    <3>2. b \notin r.dirtyVbos BY <2>3, <2>7 DEF Flushed
    <3> QED BY <2>3, <3>1, <3>2 DEF Tracked
  <2>8. r.index # None => gpu[c].index = r.index BY <2>3 DEF Tracked
  <2> QED BY <2>2, <2>5, <2>6, <2>7, <2>8
<1> QED BY <1>1, TrackingInvariant, PTL

(* A map with MapInv keeps its accounts.                                   *)
LEMMA Accounted ==
  ASSUME NEW m, MapInv(m)
  PROVE  NodesAccounted(m)
<1>1. ASSUME NEW n \in Nodes(m)
      PROVE  Cardinality({i \in DOMAIN m.rings : n \in m.rings[i]})
               = (IF n \in m.vacants THEN 0 ELSE 1)
  <2>1. DOMAIN m.rings = Rings BY MapFacts
  <2>2. CASE n \in m.vacants
    <3>1. \A i \in Rings : n \notin m.rings[i] BY <1>1, <2>2, MapFacts
    <3>2. {i \in DOMAIN m.rings : n \in m.rings[i]} = {} BY <2>1, <3>1
    <3> QED BY <2>2, <3>2, FS_EmptySet
  <2>3. CASE n \notin m.vacants
    <3>1. PICK j \in Rings : n \in m.rings[j] BY <1>1, <2>3, MapFacts
    <3>2. \A i \in Rings : n \in m.rings[i] => i = j BY <1>1, <3>1, MapFacts
    <3>3. {i \in DOMAIN m.rings : n \in m.rings[i]} = {j} BY <2>1, <3>1, <3>2
    <3> QED BY <2>3, <3>3, FS_Singleton
  <2> QED BY <2>2, <2>3
<1>2. \A h \in DOMAIN m.map : m.hash[m.map[h]] = h BY MapFacts
<1>3. ASSUME NEW n
      PROVE  (\E h \in DOMAIN m.map : n = m.map[h]) <=> (\E i \in DOMAIN m.rings : n \in m.rings[i])
  <2>1. DOMAIN m.rings = Rings /\ \A i \in Rings : m.rings[i] \subseteq Nodes(m) BY MapFacts
  <2>2. ASSUME NEW h \in DOMAIN m.map, n = m.map[h]
        PROVE  \E i \in DOMAIN m.rings : n \in m.rings[i]
    <3>1. n \in Nodes(m) /\ n \notin m.vacants BY <2>2, MapFacts
    <3> QED BY <2>1, <3>1, MapFacts
  <2>3. ASSUME NEW i \in Rings, n \in m.rings[i]
        PROVE  \E h \in DOMAIN m.map : n = m.map[h]
    <3>1. n \in Nodes(m) /\ n \notin m.vacants BY <2>1, <2>3, MapFacts
    <3> QED BY <3>1, MapFacts
  <2> QED BY <2>1, <2>2, <2>3
<1>4. {m.map[h] : h \in DOMAIN m.map} = UNION {m.rings[i] : i \in DOMAIN m.rings} BY <1>3
<1> QED BY <1>1, <1>2, <1>4 DEF NodesAccounted

(* The vacant list and the rings share out the sets of every layout, and   *)
(* the map finds those in the rings, each under its own hash.              *)
THEOREM MapsAccountedHolds == Spec => []MapsAccounted
<1>1. TrackInv => MapsAccounted BY Accounted DEF TrackInv, MapsAccounted
<1> QED BY <1>1, TrackingInvariant, PTL

-----------------------------------------------------------------------------
(* What the keys of pipelines and sets cover.                              *)

(* A setter of the command buffer's own fields touches neither the program *)
(* nor its sets, and the static state only as the client says.             *)
Plain(o, r) ==
  /\ r.program = o.program /\ r.pass = o.pass
  /\ r.dirtySets = o.dirtySets /\ r.dirtyDynamic = o.dirtyDynamic
  /\ \/ r.static = o.static
     \/ \E t \in client.settings : r.static = [o.static EXCEPT ![t[1]] = t[2]]
     \/ \E words \in client.presets : r.static = Preset(words)
     \/ saved # None /\ r.static = saved.static

LEMMA FieldsOf ==
  ASSUME NEW o \in CmdType
  PROVE  {"program", "pass", "static", "pipeline", "dirty", "dirtySets", "dirtyDynamic"} \subseteq DOMAIN o
BY DEF CmdType

LEMMA SetterPlain ==
  ASSUME TrackInv, NEW c \in CmdBufs, SetState(c)
  PROVE  /\ \E r : cmd' = [cmd EXCEPT ![c] = r] /\ Plain(cmd[c], r)
         /\ UNCHANGED <<client, array, maps, pipelines>>
         /\ DOMAIN gpu' = DOMAIN gpu /\ \A d \in CmdBufs : gpu'[d].offsets = gpu[d].offsets
         /\ saved' = saved \/ saved'.static = cmd[c].static
<1> DEFINE Goal == /\ \E r : cmd' = [cmd EXCEPT ![c] = r] /\ Plain(cmd[c], r)
                   /\ UNCHANGED <<client, array, maps, pipelines>>
                   /\ DOMAIN gpu' = DOMAIN gpu /\ \A d \in CmdBufs : gpu'[d].offsets = gpu[d].offsets
                   /\ saved' = saved \/ saved'.static = cmd[c].static
<1>1. cmd[c] \in CmdType /\ cmd \in [CmdBufs -> CmdType] BY DEF TrackInv, TypeOK, CmdTyped
<1>2. PICK o : o = cmd[c] OBVIOUS
<1>3. {"program", "pass", "static", "dirty", "dirtySets", "dirtyDynamic"} \subseteq DOMAIN o
  BY <1>1, <1>2, FieldsOf
<1>4. Plain(o, o) BY DEF Plain
<1>5. ASSUME NEW group, NEW r, Store(c, group, r), Plain(o, r) PROVE Goal
  BY <1>2, <1>5 DEF Store, Set, objects
<1> HIDE DEF Goal
<1>6. ASSUME NEW r, Plain(o, r), {"program", "pass", "static", "dirty", "dirtySets", "dirtyDynamic"} \subseteq DOMAIN r,
             NEW bits
      PROVE  Plain(o, Dirty(r, bits))
  BY <1>6 DEF Plain, Dirty
<1>7. ASSUME \E t \in client.settings : SetStaticState(c, t[1], t[2]) PROVE Goal
  <2>1. PICK t \in client.settings : SetStaticState(c, t[1], t[2]) BY <1>7
  <2>2. Plain(o, Dirty([o EXCEPT !.static[t[1]] = t[2]], {"static"}))
    BY <1>3, <2>1 DEF Plain, Dirty
  <2> QED BY <1>2, <1>4, <1>5, <2>1, <2>2 DEF SetStaticState
<1>8. ASSUME \E words \in client.presets : SetPresetState(c, words) PROVE Goal
  <2>1. PICK words \in client.presets : SetPresetState(c, words) BY <1>8
  <2>2. Plain(o, Dirty([o EXCEPT !.static = Preset(words)], {"static"}))
    BY <1>3, <2>1 DEF Plain, Dirty
  <2> QED BY <1>2, <1>5, <2>1, <2>2 DEF SetPresetState
<1>9. ASSUME \E on \in BOOLEAN : SetSpecializationConstantMask(c, on) PROVE Goal
  <2>1. PICK on \in BOOLEAN : SetSpecializationConstantMask(c, on) BY <1>9
  <2>2. Plain(o, Dirty([o EXCEPT !.spec.on = on], {"static"})) BY <1>3 DEF Plain, Dirty
  <2> QED BY <1>2, <1>4, <1>5, <2>1, <2>2 DEF SetSpecializationConstantMask
<1>10. ASSUME NEW v \in Values, SetBlendConstants(c, v) PROVE Goal
  <2>1. Plain(o, Dirty([o EXCEPT !.blend = v], {"static"})) BY <1>3 DEF Plain, Dirty
  <2> QED BY <1>2, <1>4, <1>5, <1>10, <2>1 DEF SetBlendConstants
<1>11. ASSUME NEW v \in Values, SetSpecializationConstant(c, v) PROVE Goal
  <2>1. \A bits : Plain(o, Dirty([o EXCEPT !.spec.value = v], bits)) BY <1>3 DEF Plain, Dirty
  <2> QED BY <1>2, <1>5, <1>11, <2>1 DEF SetSpecializationConstant
<1>12. ASSUME NEW v \in Values, PushConstants(c, v) PROVE Goal
  <2>1. Plain(o, Dirty([o EXCEPT !.push = v], {"push"})) BY <1>3 DEF Plain, Dirty
  <2> QED BY <1>2, <1>5, <1>12, <2>1 DEF PushConstants
<1>13. ASSUME NEW v \in Values, BindIndexBuffer(c, v) PROVE Goal
  <2>1. Plain(o, [o EXCEPT !.index = v]) BY <1>3 DEF Plain
  <2>2. DOMAIN gpu = CmdBufs /\ "offsets" \in DOMAIN gpu[c]
    BY DEF TrackInv, TypeOK, GpuTyped, BoundType, GpuFields
  <2>3. cmd' = [cmd EXCEPT ![c] = [o EXCEPT !.index = v]] BY <1>2, <1>13 DEF BindIndexBuffer, Set
  <2>4. DOMAIN gpu' = DOMAIN gpu /\ \A d \in CmdBufs : gpu'[d].offsets = gpu[d].offsets
    BY <1>13, <2>2 DEF BindIndexBuffer
  <2>5. UNCHANGED <<client, array, maps, pipelines, saved>> BY <1>13 DEF BindIndexBuffer, objects
  <2> QED BY <1>2, <2>1, <2>3, <2>4, <2>5 DEF Goal
<1>14. ASSUME NEW g \in Dynamic, NEW v \in Values, SetDynamicState(c, g, v) PROVE Goal
  <2>1. \A bits : Plain(o, Dirty([o EXCEPT !.dyn[g] = v], bits)) BY <1>3 DEF Plain, Dirty
  <2> QED BY <1>2, <1>5, <1>14, <2>1 DEF SetDynamicState
<1>15. ASSUME NEW b \in Vbos, SetVertexAttrib(c, b) PROVE Goal
  <2>1. \A bits : Plain(o, Dirty([o EXCEPT !.attrib = b], bits)) BY <1>3 DEF Plain, Dirty
  <2> QED BY <1>2, <1>5, <1>15, <2>1 DEF SetVertexAttrib
<1>16. ASSUME NEW b \in Vbos, NEW v \in Values, SetVertexBinding(c, b, v) PROVE Goal
  <2>1. \A bits : Plain(o, Dirty([o EXCEPT !.stride[b] = v], bits)) BY <1>3 DEF Plain, Dirty
  <2> QED BY <1>2, <1>5, <1>16, <2>1 DEF SetVertexBinding
<1>17. ASSUME NEW b \in Vbos, NEW v \in Values, BindVertexBuffer(c, b, v) PROVE Goal
  <2> DEFINE r == [o EXCEPT !.vbo[b] = v, !.dirtyVbos = IF v # o.vbo[b] THEN @ \cup {b} ELSE @]
  <2>1. Plain(o, r) BY <1>3 DEF Plain
  <2>2. Store(c, "vertex", r) BY <1>2, <1>17 DEF BindVertexBuffer
  <2> QED BY <1>5, <2>1, <2>2
<1>18. ASSUME SaveState(c) PROVE Goal
  <2>1. cmd' = [cmd EXCEPT ![c] = o] BY <1>1, <1>2, <1>18 DEF SaveState
  <2>2. saved'.static = cmd[c].static BY <1>18 DEF SaveState, SavedFields
  <2> QED BY <1>2, <1>4, <1>18, <2>1, <2>2 DEF SaveState, Goal
<1>19. ASSUME RestoreState(c) PROVE Goal
  <2> DEFINE r == [o EXCEPT !.static = saved.static, !.spec = saved.spec, !.blend = saved.blend,
                            !.dyn = saved.dyn, !.push = saved.push]
  <2>1. \A bits : saved # None => Plain(o, Dirty(r, bits)) BY <1>3 DEF Plain, Dirty
  <2>2. saved # None /\ \E bits : Store(c, "save", Dirty(r, bits)) BY <1>2, <1>19 DEF RestoreState
  <2> QED BY <1>5, <2>1, <2>2
<1>20. Goal
  BY <1>7, <1>8, <1>9, <1>10, <1>11, <1>12, <1>13, <1>14, <1>15, <1>16, <1>17, <1>18, <1>19 DEF SetState
<1> QED BY <1>20 DEF Goal

LEMMA ContextFields ==
  ASSUME NEW r, {"program", "static"} \subseteq DOMAIN r, NEW n, n = BeginContext(r)
  PROVE  n.program = None /\ n.static = r.static
BY DEF BeginContext

(* A step to another context starts it without a program.                  *)
ContextSteps ==
  \/ RequestCommandBuffer \/ EndCommandBuffer \/ EndRenderPass
  \/ RequestSecondaryCommandBuffer \/ SubmitSecondary
  \/ \E pass \in client.passes, contents \in {"inline", "secondary"} :
       BeginRenderPass(pass, contents)
  \/ \E contents \in {"inline", "secondary"} : NextSubpass(contents)

LEMMA ContextPlain ==
  ASSUME TrackInv, ContextSteps
  PROVE  /\ \A c \in CmdBufs :
              \/ cmd'[c] = cmd[c] /\ gpu'[c] = gpu[c]
              \/ cmd'[c].program = None /\ cmd'[c].static \in {cmd[c].static, ClearStatic}
         /\ UNCHANGED <<saved, array, maps, pipelines>>
<1> DEFINE Goal == \A c \in CmdBufs :
              \/ cmd'[c] = cmd[c] /\ gpu'[c] = gpu[c]
              \/ cmd'[c].program = None /\ cmd'[c].static \in {cmd[c].static, ClearStatic}
<1>1. /\ cmd \in [CmdBufs -> CmdType] /\ DOMAIN gpu = CmdBufs /\ Contexts
      /\ cmd[Primary] \in CmdType /\ cmd[Secondary] \in CmdType
  BY CmdBufsAre DEF TrackInv, TypeOK, CmdTyped, GpuTyped
<1>2. PICK o : o = cmd[Primary] OBVIOUS
<1>3. {"program", "static"} \subseteq DOMAIN o BY <1>1, <1>2, FieldsOf
<1>4. ASSUME NEW c \in CmdBufs, NEW n, cmd' = [cmd EXCEPT ![c] = n], n.program = None,
             n.static \in {cmd[c].static, ClearStatic},
             \A d \in CmdBufs : d # c => gpu'[d] = gpu[d]
      PROVE  Goal
  BY <1>1, <1>4
<1> HIDE DEF Goal
<1>5. PICK new : new = NewCommandBuffer OBVIOUS
<1>6. PICK closed : closed = Closed OBVIOUS
<1>7. new.program = None /\ new.static = ClearStatic /\ new \in CmdType
  BY <1>5, NewCommandBufferIs DEF Idle
<1>8. closed.program = None /\ closed.static = ClearStatic BY <1>6, ClosedIs DEF Idle
<1>9. ASSUME RequestCommandBuffer PROVE Goal
  BY <1>1, <1>4, <1>5, <1>7, <1>9, CmdBufsAre DEF RequestCommandBuffer, Set
<1>10. ASSUME EndCommandBuffer PROVE Goal
  BY <1>1, <1>4, <1>6, <1>8, <1>10, CmdBufsAre DEF EndCommandBuffer, Set
<1>11. ASSUME NEW r, {"program", "static"} \subseteq DOMAIN r, r.static = o.static,
              cmd' = [cmd EXCEPT ![Primary] = BeginContext(r)], gpu' = gpu
       PROVE  Goal
  <2>1. PICK n : n = BeginContext(r) OBVIOUS
  <2>2. n.program = None /\ n.static = o.static BY <1>11, <2>1, ContextFields
  <2> QED BY <1>2, <1>4, <1>11, <2>1, <2>2, CmdBufsAre
<1>12. ASSUME EndRenderPass PROVE Goal
  <2> DEFINE r == [o EXCEPT !.pass = None, !.contents = "inline"]
  <2>1. {"program", "static"} \subseteq DOMAIN r /\ r.static = o.static BY <1>3
  <2>2. cmd' = [cmd EXCEPT ![Primary] = BeginContext(r)] /\ gpu' = gpu
    BY <1>2, <1>12 DEF EndRenderPass, Set
  <2> QED BY <1>11, <2>1, <2>2
<1>13. ASSUME NEW contents, NextSubpass(contents) PROVE Goal
  <2> DEFINE r == [o EXCEPT !.subpass = o.subpass + 1, !.contents = contents]
  <2>1. {"program", "static"} \subseteq DOMAIN r /\ r.static = o.static BY <1>3
  <2>2. cmd' = [cmd EXCEPT ![Primary] = BeginContext(r)] /\ gpu' = gpu
    BY <1>2, <1>13 DEF NextSubpass, Set
  <2> QED BY <1>11, <2>1, <2>2
<1>14. ASSUME NEW pass, NEW contents, BeginRenderPass(pass, contents) PROVE Goal
  <2> DEFINE r == [o EXCEPT !.pass = pass, !.subpass = 0, !.contents = contents,
                     !.dyn = [g \in Dynamic |-> IF g \in {"viewport", "scissor"} THEN 0 ELSE o.dyn[g]]]
  <2>1. {"program", "static"} \subseteq DOMAIN r /\ r.static = o.static BY <1>3
  <2>2. cmd' = [cmd EXCEPT ![Primary] = BeginContext(r)] /\ gpu' = gpu
    BY <1>2, <1>14 DEF BeginRenderPass, Set
  <2> QED BY <1>11, <2>1, <2>2
<1>15. ASSUME RequestSecondaryCommandBuffer PROVE Goal
  <2> DEFINE r == [new EXCEPT !.pass = o.pass, !.subpass = o.subpass,
                     !.dyn = [g \in Dynamic |-> IF g \in {"viewport", "scissor"} THEN o.dyn[g]
                                                ELSE new.dyn[g]]]
  <2>1. {"program", "static"} \subseteq DOMAIN new BY <1>7, FieldsOf
  <2>2. {"program", "static"} \subseteq DOMAIN r /\ r.static = ClearStatic BY <1>7, <2>1
  <2>3. cmd' = [cmd EXCEPT ![Secondary] = BeginContext(r)] /\ gpu' = [gpu EXCEPT ![Secondary] = NothingBound]
    BY <1>2, <1>5, <1>15 DEF RequestSecondaryCommandBuffer, Set
  <2> HIDE DEF r
  <2>4. PICK n : n = BeginContext(r) OBVIOUS
  <2>5. n.program = None /\ n.static = ClearStatic BY <2>2, <2>4, ContextFields
  <2> QED BY <1>1, <1>4, <2>3, <2>4, <2>5, CmdBufsAre
<1>16. ASSUME SubmitSecondary PROVE Goal
  <2>1. /\ cmd[Primary].contents = "secondary" /\ cmd' = [cmd EXCEPT ![Secondary] = closed]
    BY <1>6, <1>16 DEF SubmitSecondary, Set
  <2>2. cmd[Primary].program = None
    BY <1>1, <2>1, CmdBufsAre DEF Contexts, Recording, Idle
  <2>3. cmd'[Primary] = cmd[Primary] /\ cmd'[Secondary] = closed
    BY <1>1, <2>1, ValueAssumption, CmdBufsAre
  <2> QED BY <1>8, <2>2, <2>3 DEF Goal, CmdBufs
<1>17. Goal BY <1>9, <1>10, <1>12, <1>13, <1>14, <1>15, <1>16 DEF ContextSteps
<1>18. UNCHANGED <<saved, array, maps, pipelines>>
  BY DEF ContextSteps, RequestCommandBuffer, EndCommandBuffer, EndRenderPass,
     RequestSecondaryCommandBuffer, SubmitSecondary, BeginRenderPass, NextSubpass, objects
<1> QED BY <1>17, <1>18 DEF Goal

LEMMA ProgramPlain ==
  ASSUME TrackInv, NEW c \in CmdBufs, NEW p, SetProgram(c, p)
  PROVE  /\ \E r : /\ cmd' = [cmd EXCEPT ![c] = r]
                   /\ r.static = cmd[c].static /\ r.program = p /\ r.dirtySets = Sets
         /\ UNCHANGED <<gpu, saved, array, maps, pipelines>>
<1>1. cmd[c] \in CmdType BY DEF TrackInv, TypeOK, CmdTyped
<1>2. PICK o : o = cmd[c] OBVIOUS
<1>3. {"program", "pass", "static", "pipeline", "dirty", "dirtySets"} \subseteq DOMAIN o BY <1>1, <1>2, FieldsOf
<1> DEFINE r == Dirty([o EXCEPT !.program = p, !.pipeline = None, !.dirtySets = Sets],
                      {"pipeline", "push"} \cup Dynamic)
<1>4. r.static = o.static /\ r.program = p /\ r.dirtySets = Sets BY <1>3 DEF Dirty
<1>5. cmd' = [cmd EXCEPT ![c] = r] BY <1>2 DEF SetProgram, Set
<1>6. UNCHANGED <<gpu, saved, array, maps, pipelines>> BY DEF SetProgram, objects
<1> HIDE DEF r
<1> QED BY <1>2, <1>4, <1>5, <1>6

(* A setter of a binding that changes its dynamic offset makes it dirty.   *)
BoundPlain(c, s, stored, r) ==
  /\ r.program = cmd[c].program /\ r.pass = cmd[c].pass /\ r.static = cmd[c].static
  /\ cmd[c].dirtySets \subseteq r.dirtySets /\ cmd[c].dirtyDynamic \subseteq r.dirtyDynamic
  /\ s.kind = "uniform" => \/ s.set \in r.dirtySets \cup r.dirtyDynamic
                           \/ stored.dynamic = Old(c, s).dynamic

LEMMA BindingPlain ==
  ASSUME TrackInv, NEW c \in CmdBufs, NEW s \in Slots, SetBinding(c, s)
  PROVE  /\ Binding(c, s)
         /\ \E request, stored, r : /\ Bind(c, s, request, stored, r)
                                    /\ BoundPlain(c, s, stored, r)
<1> DEFINE Goal == /\ Binding(c, s)
                   /\ \E request, stored, r : /\ Bind(c, s, request, stored, r)
                                              /\ BoundPlain(c, s, stored, r)
<1>1. cmd[c] \in CmdType BY DEF TrackInv, TypeOK, CmdTyped
<1>2. {"program", "pass", "static", "dirtySets", "dirtyDynamic"} \subseteq DOMAIN cmd[c]
  BY <1>1, FieldsOf
<1>3. \A stored : BoundPlain(c, s, stored, DirtySet(cmd[c], s))
  BY <1>2 DEF BoundPlain, DirtySet
<1>4. \A stored : BoundPlain(c, s, stored, DirtyDynamic(cmd[c], s))
  BY <1>2 DEF BoundPlain, DirtyDynamic
<1>5. ASSUME NEW stored, s.kind = "uniform" => stored.dynamic = Old(c, s).dynamic
      PROVE  BoundPlain(c, s, stored, cmd[c])
  BY <1>5 DEF BoundPlain
<1>6. ASSUME NEW k \in Cookies, NEW d \in Details, NEW e \in Offsets, SetUniformBuffer(c, s, k, d, e)
      PROVE  Goal
  <2> DEFINE b == [cookie |-> k, secondary |-> None, detail |-> d, dynamic |-> e]
             old == Old(c, s)
             t == [old EXCEPT !.dynamic = e]
  <2>1. Binding(c, s) BY <1>6 DEF SetUniformBuffer
  <2>2. old \in BindingType BY <2>1, OldTyped
  <2>3. t.dynamic = e BY <2>2 DEF BindingType
  <2>4. CASE k = old.cookie /\ d = old.detail /\ old.dynamic # e
    <3>1. Bind(c, s, b, t, DirtyDynamic(cmd[c], s)) BY <1>6, <2>4 DEF SetUniformBuffer
    <3> QED BY <1>4, <2>1, <3>1
  <2>5. CASE k = old.cookie /\ d = old.detail /\ old.dynamic = e
    <3>1. Bind(c, s, b, t, cmd[c]) BY <1>6, <2>5 DEF SetUniformBuffer
    <3>2. BoundPlain(c, s, t, cmd[c]) BY <1>5, <2>3, <2>5
    <3> QED BY <2>1, <3>1, <3>2
  <2>6. CASE ~(k = old.cookie /\ d = old.detail)
    <3>1. Bind(c, s, b, b, DirtySet(cmd[c], s)) BY <1>6, <2>6 DEF SetUniformBuffer
    <3> QED BY <1>3, <2>1, <3>1
  <2> QED BY <2>4, <2>5, <2>6
<1> HIDE DEF Goal
<1>7. ASSUME Binding(c, s), s.kind # "uniform", NEW request, NEW stored, NEW r \in {cmd[c], DirtySet(cmd[c], s)},
             Bind(c, s, request, stored, r)
      PROVE  Goal
  <2>1. BoundPlain(c, s, stored, r) BY <1>3, <1>5, <1>7
  <2> QED BY <1>7, <2>1 DEF Goal
<1>8. ASSUME NEW k \in Cookies, NEW d \in Details, SetStorageBuffer(c, s, k, d) PROVE Goal
  <2>1. Binding(c, s) /\ s.kind # "uniform" BY <1>8 DEF SetStorageBuffer
  <2> QED BY <1>7, <1>8, <2>1 DEF SetStorageBuffer
<1>9. ASSUME NEW k \in Cookies, NEW d \in Details, SetTexture(c, s, k, d) PROVE Goal
  <2>1. Binding(c, s) /\ s.kind # "uniform" BY <1>9 DEF SetTexture, ImageKinds
  <2> QED BY <1>7, <1>9, <2>1 DEF SetTexture
<1>10. ASSUME NEW k \in Cookies, SetBufferView(c, s, k) PROVE Goal
  <2>1. Binding(c, s) /\ s.kind # "uniform" BY <1>10 DEF SetBufferView
  <2> QED BY <1>7, <1>10, <2>1 DEF SetBufferView
<1>11. ASSUME NEW k \in Samplers, SetSampler(c, s, k) PROVE Goal
  <2>1. Binding(c, s) /\ s.kind # "uniform" BY <1>11 DEF SetSampler
  <2> QED BY <1>7, <1>11, <2>1 DEF SetSampler
<1>12. ASSUME SetInputAttachments(c, s) PROVE Goal
  <2>1. Binding(c, s) /\ s.kind # "uniform" BY <1>12 DEF SetInputAttachments
  <2> QED BY <1>7, <1>12, <2>1 DEF SetInputAttachments
<1>13. Goal BY <1>6, <1>8, <1>9, <1>10, <1>11, <1>12 DEF SetBinding
<1> QED BY <1>13 DEF Goal

(* A failed flush of r.                                                    *)
LEMMA FailPlain ==
  ASSUME TrackInv, NEW c \in CmdBufs, FailToFlush(c)
  PROVE  /\ \E r : /\ cmd' = [cmd EXCEPT ![c] = r] /\ Plain(cmd[c], r)
         /\ UNCHANGED <<gpu, saved, array, maps, pipelines>>
<1>1. cmd[c] \in CmdType BY DEF TrackInv, TypeOK, CmdTyped
<1>2. PICK o : o = cmd[c] OBVIOUS
<1>3. {"program", "pass", "static", "pipeline", "dirty", "dirtySets", "dirtyDynamic"} \subseteq DOMAIN o
  BY <1>1, <1>2, FieldsOf
<1>4. Plain(o, FailedCmd(o)) BY <1>3 DEF FailedCmd, Plain
<1>5. cmd' = [cmd EXCEPT ![c] = FailedCmd(o)] BY <1>2 DEF FailToFlush, Set
<1>6. UNCHANGED <<gpu, saved, array, maps, pipelines>> BY DEF FailToFlush, objects
<1> QED BY <1>2, <1>4, <1>5, <1>6

LEMMA StepKinds ==
  ASSUME [Next]_vars
  PROVE  \/ ContextSteps \/ NextFrameContext \/ WaitIdle
         \/ \E c \in CmdBufs : \/ \E p \in client.programs : SetProgram(c, p)
                               \/ \E s \in Slots : SetBinding(c, s)
                               \/ SetState(c) \/ FailToFlush(c)
                               \/ CanFlush(c) /\ Flushes(c)
         \/ UNCHANGED vars
<1>1. ASSUME NEW c \in CmdBufs, Draw(c) \/ FlushWithoutBlocking(c) PROVE CanFlush(c) /\ Flushes(c)
  BY <1>1 DEF Draw, FlushWithoutBlocking
<1> QED BY <1>1 DEF Next, ContextSteps

(* Only a flush and the turn of a frame touch the maps.                    *)
LEMMA WhoseMaps ==
  ASSUME TrackInv, [Next]_vars
  PROVE  \/ NextFrameContext \/ WaitIdle
         \/ \E c \in CmdBufs : CanFlush(c) /\ Flushes(c)
         \/ UNCHANGED maps
<1>1. CASE ContextSteps BY <1>1, ContextPlain
<1>2. ASSUME NEW c \in CmdBufs, NEW s \in Slots, SetBinding(c, s) PROVE UNCHANGED maps
  BY <1>2, BindingPlain DEF Bind
<1>3. ASSUME NEW c \in CmdBufs, NEW p, SetProgram(c, p) PROVE UNCHANGED maps
  BY <1>3, ProgramPlain
<1>4. ASSUME NEW c \in CmdBufs, SetState(c) PROVE UNCHANGED maps BY <1>4, SetterPlain
<1>5. ASSUME NEW c \in CmdBufs, FailToFlush(c) PROVE UNCHANGED maps BY <1>5, FailPlain
<1>6. CASE UNCHANGED vars BY <1>6 DEF vars
<1> QED BY <1>1, <1>2, <1>3, <1>4, <1>5, <1>6, StepKinds

(* A set that a command buffer of a frame context uses is not written      *)
(* before the context comes round again, for it was asked for too recently *)
(* to have expired.                                                        *)
THEOREM SetsNotRewrittenHolds == Spec => SetsNotRewritten
<1> DEFINE Rewrite(b) == maps'[b[1]][b[2]].content[b[3]] = maps[b[1]][b[2]].content[b[3]]
           NoRewrite == \A f \in DOMAIN used, b \in UNION {used[g] : g \in DOMAIN used} :
                          b \in used[f] /\ b \in used'[f] => Rewrite(b)
<1>1. TrackInv /\ [Next]_vars => NoRewrite
  <2>1. SUFFICES ASSUME TrackInv, [Next]_vars, NEW f \in DOMAIN used, NEW b \in used[f],
                        b \in used'[f]
                 PROVE  Rewrite(b)
    OBVIOUS
  <2>2. /\ DOMAIN used = 0 .. Frames - 1 /\ frame \in 0 .. Frames - 1
        /\ Frames \in Nat /\ RingSize \in Nat /\ Frames <= RingSize
    BY <2>1, FrameAssumption, RingAssumption DEF TrackInv, TypeOK, ObjectsTyped
  <2>3. PICK m : m = maps[b[1]][b[2]] OBVIOUS
  <2>4. PICK m1 : m1 = maps'[b[1]][b[2]] OBVIOUS
  <2>5. /\ b[1] \in Programs /\ b[2] \in SetsOf(b[1]) /\ MapInv(m)
        /\ \E i \in Rings : b[3] \in m.rings[i] /\ Age(m, i) <= FrameAge(f)
    BY <2>1, <2>3 DEF TrackInv, UsedKept, Age
  <2>6. CASE NextFrameContext
    <3>1. m1 = [m EXCEPT !.begin = TRUE] BY <2>3, <2>4, <2>5, <2>6 DEF NextFrameContext
    <3>2. m1.content = m.content BY <2>5, <3>1, MarkKeeps
    <3> QED BY <2>3, <2>4, <3>2
  <2>7. CASE WaitIdle BY <2>1, <2>7 DEF WaitIdle
  <2>8. ASSUME NEW c \in CmdBufs, CanFlush(c), Flushes(c) PROVE Rewrite(b)
    <3>1. PICK o : o = cmd[c] OBVIOUS
    <3>2. PICK p : p = o.program OBVIOUS
    <3>3. o \in CmdType /\ p \in Programs
      BY <2>1, <2>8, <3>1, <3>2 DEF TrackInv, TypeOK, CmdTyped, CanFlush, CmdType
    <3>4. maps' = [maps EXCEPT ![p] =
            [d \in SetsOf(p) |-> IF d \in Updated(o) THEN FlushedMap(o, d) ELSE @[d]]]
      BY <2>8, <3>1, <3>2 DEF Flushes
    <3>5. MapsAfter(o, p) BY <2>1, <3>2, <3>3, <3>4, FlushMaps
    <3>6. Kept(m, m1) BY <2>3, <2>4, <2>5, <3>5 DEF MapsAfter
    <3>7. PICK i \in Rings : b[3] \in m.rings[i] /\ Age(m, i) <= FrameAge(f) BY <2>5
    <3>8. Age(m, i) \in Nat BY <2>5, RingAgeType, MapFacts
    <3>9. FrameAge(f) \in 0 .. Frames - 1 BY <2>2 DEF FrameAge
    <3>10. Age(m, i) < RingSize BY <2>2, <3>7, <3>8, <3>9
    <3>11. m1.content[b[3]] = m.content[b[3]] BY <3>6, <3>7, <3>10 DEF Kept
    <3> QED BY <2>3, <2>4, <3>11
  <2>9. CASE UNCHANGED maps BY <2>9
  <2> QED BY <2>1, <2>6, <2>7, <2>8, <2>9, WhoseMaps
<1>2. TrackInv /\ [Next]_vars => [NoRewrite]_vars BY <1>1
<1> QED BY <1>2, TrackingInvariant, PTL DEF Spec, SetsNotRewritten

(* What the client sets is known from what is hashed.                      *)
LEMMA PlainKnown ==
  ASSUME TrackInv, PipelineHashCovers, NEW c \in CmdBufs, NEW r, Plain(cmd[c], r),
         StaticKnown(cmd[c].static), saved # None => StaticKnown(saved.static)
  PROVE  StaticKnown(r.static)
<1>1. client \in Clients /\ cmd[c] \in CmdType BY DEF TrackInv, TypeOK, CmdTyped
<1>2. PICK x : x = cmd[c].static OBVIOUS
<1>3. x \in StaticType BY <1>1, <1>2 DEF CmdType
<1>4. ASSUME NEW t \in client.settings, r.static = [x EXCEPT ![t[1]] = t[2]]
      PROVE  StaticKnown(r.static)
  <2>1. t[1] # "mask" /\ t # <<"factor", "oneMinusConstant">>
    BY <1>1 DEF PipelineHashCovers
  <2>2. t \in ({"bias", "stencil"} \X BOOLEAN) \cup ({"factor"} \X Factors) \cup ({"mask"} \X Nat)
    BY <1>1, ClientAssumption
  <2>3. CASE t[1] \in {"bias", "stencil"}
    <3>1. r.static.mask = x.mask /\ r.static.words = x.words /\ r.static.factor = x.factor
      BY <1>3, <1>4, <2>3 DEF StaticType
    <3> QED BY <1>2, <3>1 DEF StaticKnown
  <2>4. CASE t[1] = "factor"
    <3>1. r.static.mask = x.mask /\ r.static.words = x.words /\ r.static.factor = t[2]
      BY <1>3, <1>4, <2>4 DEF StaticType
    <3>2. t = <<t[1], t[2]>> BY <2>2
    <3>3. t[2] # "oneMinusConstant" BY <2>1, <2>4, <3>2
    <3> QED BY <1>2, <3>1, <3>3 DEF StaticKnown
  <2> QED BY <2>1, <2>2, <2>3, <2>4
<1>5. ASSUME NEW words \in client.presets, r.static = Preset(words)
      PROVE  StaticKnown(r.static)
  <2>1. words # "cleared" BY <1>1 DEF PipelineHashCovers
  <2> QED BY <1>5, <2>1 DEF Preset, ClearStatic, StaticKnown
<1> QED BY <1>2, <1>4, <1>5 DEF Plain

LEMMA ClearedKnown == StaticKnown(ClearStatic)
BY DEF StaticKnown, ClearStatic

LEMMA InputsKeyed ==
  ASSUME NEW o \in CmdType, o.program \in Programs, StaticKnown(o.static),
         NEW h, h = PipelineHash(o)
  PROVE  Inputs(o) = InputsOf(h)
<1>1. h \in Hashes BY HashTyped
<1>2. CASE IsCompute(o)
  <2>1. h = ComputeHash(o) /\ Inputs(o) = h
    BY <1>2 DEF PipelineHash, Inputs, ComputeInputs, ComputeHash
  <2>2. DOMAIN h = {"program", "spec"} BY <2>1 DEF ComputeHash
  <2>3. h \notin GraphicsHashes BY <2>2 DEF GraphicsHashes
  <2>4. h \in ComputeHashes BY <1>1, <2>3 DEF Hashes
  <2> QED BY <2>1, <2>4 DEF InputsOf
<1>3. CASE ~IsCompute(o)
  <2>1. h = GraphicsHash(o) /\ Inputs(o) = GraphicsInputs(o)
    BY <1>3 DEF PipelineHash, Inputs
  <2>2. "pass" \in DOMAIN h BY <2>1 DEF GraphicsHash
  <2>3. h \notin ComputeHashes BY <2>2 DEF ComputeHashes
  <2>4. PICK x : x = o.static OBVIOUS
  <2>5. x \in StaticType BY <2>4 DEF CmdType
  <2>6. x = [words |-> x.words, bias |-> x.bias, stencil |-> x.stencil, factor |-> x.factor,
             mask |-> x.mask]
    BY <2>5 DEF StaticType
  <2>7. x.mask = (IF x.words = "cleared" THEN 0 ELSE 1) /\ x.factor # "oneMinusConstant"
    BY <2>4 DEF StaticKnown
  <2>8. x = [words |-> x.words, bias |-> x.bias, stencil |-> x.stencil, factor |-> x.factor,
             mask |-> IF x.words = "cleared" THEN 0 ELSE 1]
    BY <2>6, <2>7
  <2>9. UsesBlendConstant(x.factor) <=> NeedsBlendConstant(x.factor)
    BY <2>7 DEF UsesBlendConstant, NeedsBlendConstant
  <2>10. PICK blend : blend = IF NeedsBlendConstant(x.factor) THEN o.blend ELSE None OBVIOUS
  <2>11. PICK input : input = [b \in ActiveVbos(o) |-> o.stride[b]] OBVIOUS
  <2>12. GraphicsInputs(o) = [program |-> o.program, spec |-> SpecOf(o), pass |-> o.pass,
            subpass |-> o.subpass, static |-> x, blend |-> blend, input |-> input]
    BY <2>4, <2>9, <2>10, <2>11 DEF GraphicsInputs
  <2>13. h = [program |-> o.program, spec |-> SpecOf(o), pass |-> o.pass, subpass |-> o.subpass,
              words |-> x.words, bias |-> x.bias, stencil |-> x.stencil, factor |-> x.factor,
              blend |-> blend, input |-> input]
    BY <2>1, <2>4, <2>10, <2>11 DEF GraphicsHash
  <2>14. /\ h.program = o.program /\ h.spec = SpecOf(o) /\ h.pass = o.pass /\ h.subpass = o.subpass
         /\ h.words = x.words /\ h.bias = x.bias /\ h.stencil = x.stencil /\ h.factor = x.factor
         /\ h.blend = blend /\ h.input = input
    BY <2>13
  <2>15. InputsOf(h) = [program |-> o.program, spec |-> SpecOf(o), pass |-> o.pass,
            subpass |-> o.subpass, static |-> x, blend |-> blend, input |-> input]
    BY <2>3, <2>8, <2>14 DEF InputsOf
  <2> QED BY <2>1, <2>12, <2>15
<1> QED BY <1>2, <1>3

LEMMA PipelinesNext ==
  ASSUME TrackInv, PipelineHashCovers, PipelinesKeyed, [Next]_vars
  PROVE  PipelinesKeyed'
<1>1. /\ cmd \in [CmdBufs -> CmdType] /\ \A c \in CmdBufs : StaticKnown(cmd[c].static)
      /\ saved # None => StaticKnown(saved.static)
      /\ \A h \in DOMAIN pipelines : pipelines[h] = InputsOf(h)
  BY DEF TrackInv, TypeOK, CmdTyped, PipelinesKeyed
<1>2. ASSUME NEW c \in CmdBufs, NEW r, cmd' = [cmd EXCEPT ![c] = r], StaticKnown(r.static)
      PROVE  \A d \in CmdBufs : StaticKnown(cmd'[d].static)
  BY <1>1, <1>2
<1>3. ASSUME UNCHANGED pipelines, \A c \in CmdBufs : StaticKnown(cmd'[c].static),
             saved' = saved \/ StaticKnown(saved'.static)
      PROVE  PipelinesKeyed'
  BY <1>1, <1>3 DEF PipelinesKeyed
<1>4. CASE ContextSteps
  <2>1. /\ \A c \in CmdBufs : cmd'[c] = cmd[c] \/ cmd'[c].static \in {cmd[c].static, ClearStatic}
        /\ UNCHANGED <<saved, pipelines>>
    BY <1>4, ContextPlain
  <2>2. \A c \in CmdBufs : StaticKnown(cmd'[c].static) BY <1>1, <2>1, ClearedKnown
  <2> QED BY <1>3, <2>1, <2>2
<1>5. ASSUME NEW c \in CmdBufs, NEW p, SetProgram(c, p) PROVE PipelinesKeyed'
  <2>1. PICK r : cmd' = [cmd EXCEPT ![c] = r] /\ r.static = cmd[c].static
    BY <1>5, ProgramPlain
  <2>2. UNCHANGED <<saved, pipelines>> BY <1>5, ProgramPlain
  <2> QED BY <1>1, <1>2, <1>3, <2>1, <2>2
<1>6. ASSUME NEW c \in CmdBufs, NEW s \in Slots, SetBinding(c, s) PROVE PipelinesKeyed'
  <2>1. PICK request, stored, r : Bind(c, s, request, stored, r) /\ BoundPlain(c, s, stored, r)
    BY <1>6, BindingPlain
  <2>2. cmd' = [cmd EXCEPT ![c] = r] /\ UNCHANGED <<saved, pipelines>> BY <2>1 DEF Bind, Set
  <2>3. r.static = cmd[c].static BY <2>1 DEF BoundPlain
  <2> QED BY <1>1, <1>2, <1>3, <2>2, <2>3
<1>7. ASSUME NEW c \in CmdBufs, SetState(c) PROVE PipelinesKeyed'
  <2>1. PICK r : cmd' = [cmd EXCEPT ![c] = r] /\ Plain(cmd[c], r) BY <1>7, SetterPlain
  <2>2. UNCHANGED pipelines /\ (saved' = saved \/ saved'.static = cmd[c].static)
    BY <1>7, SetterPlain
  <2>3. StaticKnown(r.static) BY <1>1, <2>1, PlainKnown
  <2>4. \A d \in CmdBufs : StaticKnown(cmd'[d].static) BY <1>2, <2>1, <2>3
  <2> QED BY <1>1, <1>3, <2>2, <2>4
<1>8. ASSUME NEW c \in CmdBufs, FailToFlush(c) PROVE PipelinesKeyed'
  <2>1. PICK r : cmd' = [cmd EXCEPT ![c] = r] /\ Plain(cmd[c], r) BY <1>8, FailPlain
  <2>2. UNCHANGED <<saved, pipelines>> BY <1>8, FailPlain
  <2>3. StaticKnown(r.static) BY <1>1, <2>1, PlainKnown
  <2> QED BY <1>2, <1>3, <2>1, <2>2, <2>3
<1>9. ASSUME NEW c \in CmdBufs, CanFlush(c), Flushes(c) PROVE PipelinesKeyed'
  <2>1. PICK o : o = cmd[c] OBVIOUS
  <2>2. PICK table : table = Built(o) OBVIOUS
  <2>3. PICK h : h = PipelineHash(o) OBVIOUS
  <2>4. /\ cmd' = [cmd EXCEPT ![c] = FlushedCmd(o)] /\ saved' = saved
        /\ pipelines' = IF Stale(o) THEN table ELSE pipelines
    BY <1>9, <2>1, <2>2 DEF Flushes
  <2>5. o \in CmdType /\ o.program \in Programs /\ StaticKnown(o.static)
    BY <1>1, <1>9, <2>1 DEF CanFlush, CmdType
  <2>6. /\ DOMAIN table = DOMAIN pipelines \cup {h}
        /\ \A x \in DOMAIN pipelines : table[x] = pipelines[x]
        /\ h \notin DOMAIN pipelines => table[h] = Inputs(o)
    BY <2>2, <2>3, BuiltIs
  <2>7. Inputs(o) = InputsOf(h) BY <2>3, <2>5, InputsKeyed
  <2>8. \A x \in DOMAIN pipelines' : pipelines'[x] = InputsOf(x) BY <1>1, <2>4, <2>6, <2>7
  <2>9. FlushedCmd(o).static = o.static BY <2>5, FieldsOf DEF FlushedCmd
  <2>10. \A d \in CmdBufs : StaticKnown(cmd'[d].static) BY <1>2, <2>4, <2>5, <2>9
  <2> QED BY <1>1, <2>4, <2>8, <2>10 DEF PipelinesKeyed
<1>10. CASE NextFrameContext BY <1>1, <1>3, <1>10 DEF NextFrameContext
<1>11. CASE WaitIdle BY <1>1, <1>3, <1>11 DEF WaitIdle
<1>12. CASE UNCHANGED vars BY <1>1, <1>3, <1>12 DEF vars
<1> QED
  BY <1>4, <1>5, <1>6, <1>7, <1>8, <1>9, <1>10, <1>11, <1>12, StepKinds

(* Pipelines are built from what they are kept under.                      *)
LEMMA PipelinesInvariant ==
  ASSUME PipelineHashCovers
  PROVE  Spec => [](TrackInv /\ PipelinesKeyed)
<1>1. Init => PipelinesKeyed
  <2>1. SUFFICES ASSUME Init PROVE PipelinesKeyed OBVIOUS
  <2>2. PICK n : n = Closed OBVIOUS
  <2>3. \A c \in CmdBufs : cmd[c] = n BY <2>1, <2>2 DEF Init
  <2>4. n.static = ClearStatic BY <2>2, ClosedIs
  <2>5. DOMAIN pipelines = {} /\ saved = None BY <2>1 DEF Init
  <2> QED BY <2>3, <2>4, <2>5, ClearedKnown DEF PipelinesKeyed
<1>2. TrackInv /\ PipelinesKeyed /\ [Next]_vars => PipelinesKeyed' BY PipelinesNext
<1> QED BY <1>1, <1>2, TrackingInvariant, PTL DEF Spec

(* A draw runs with a pipeline that was built from the state in force: the *)
(* bits that a setter marks lead to the hash being taken anew, and the hash*)
(* covers what the pipeline is built from - where the client keeps to what *)
(* it covers, for the write mask and a blend factor of one minus the       *)
(* constant are built in and not hashed.                                   *)
THEOREM DrawSeesPipelineHolds ==
  ASSUME PipelineHashCovers
  PROVE  Spec => []DrawSeesPipeline
<1>1. TrackInv /\ PipelinesKeyed => DrawSeesPipeline
  <2>1. SUFFICES ASSUME TrackInv, PipelinesKeyed, NEW c \in CmdBufs, drew = c
                 PROVE  gpu[c].pipeline[Point(cmd[c])] = Inputs(cmd[c])
    BY DEF DrawSeesPipeline
  <2>2. PICK r : r = cmd[c] OBVIOUS
  <2>3. /\ r \in CmdType /\ Tracked(r, gpu[c]) /\ Flushed(r) /\ StaticKnown(r.static)
        /\ r.pipeline \in DOMAIN pipelines \cup {None}
    BY <2>1, <2>2 DEF TrackInv, TypeOK, CmdTyped, PipelinesKeyed
  <2>4. r.program \in Programs BY <2>3 DEF Flushed, CmdType
  <2>5. PICK h : h = PipelineHash(r) OBVIOUS
  <2>6. r.pipeline = h /\ h # None BY <2>3, <2>5 DEF Flushed, Stale, Tracked
  <2>7. gpu[c].pipeline[Point(r)] = pipelines[h] BY <2>3, <2>6 DEF Tracked
  <2>8. pipelines[h] = InputsOf(h) BY <2>1, <2>3, <2>6 DEF PipelinesKeyed
  <2>9. Inputs(r) = InputsOf(h) BY <2>3, <2>4, <2>5, InputsKeyed
  <2> QED BY <2>2, <2>7, <2>8, <2>9
<1> QED BY <1>1, PipelinesInvariant, PTL

(* What is hashed of a binding is what is written into its set.            *)
LEMMA HashIsContent ==
  ASSUME TrackInv, SetHashCovers, NEW p \in Programs, NEW d
  PROVE  HashOf(p, d) = ContentOf(p, d)
<1>1. \A s \in SlotsIn(p, d) : s \in Slots BY ValueAssumption DEF SlotsIn
<1>2. \A s \in SlotsIn(p, d) : HashedFields(s.kind) = WrittenFields(s.kind)
  BY <1>1 DEF SetHashCovers, HashedFields, WrittenFields
<1> QED BY <1>2 DEF HashOf, ContentOf

LEMMA NoProgramNoOffsets ==
  ASSUME NEW r, r.program = None, NEW g
  PROVE  OffsetsTracked(r, g)
BY DEF OffsetsTracked

(* The offsets stay bound while no more becomes clean.                     *)
LEMMA OffsetsKept ==
  ASSUME UNCHANGED array, NEW c \in CmdBufs, OffsetsTracked(cmd[c], gpu[c]),
         gpu'[c].offsets = gpu[c].offsets, Plain(cmd[c], cmd'[c])
  PROVE  OffsetsTracked(cmd[c], gpu[c])'
BY DEF OffsetsTracked, Plain, Point, IsCompute

LEMMA OffsetsNext ==
  ASSUME TrackInv, SetHashCovers, \A c \in CmdBufs : OffsetsTracked(cmd[c], gpu[c]), [Next]_vars
  PROVE  \A c \in CmdBufs : OffsetsTracked(cmd[c], gpu[c])'
<1> DEFINE Goal == \A c \in CmdBufs : OffsetsTracked(cmd[c], gpu[c])'
<1>1. /\ cmd \in [CmdBufs -> CmdType] /\ DOMAIN gpu = CmdBufs
      /\ \A c \in CmdBufs : BoundType(gpu[c])
  BY DEF TrackInv, TypeOK, CmdTyped, GpuTyped
<1>2. \A c \in CmdBufs : Plain(cmd[c], cmd[c]) BY DEF Plain
<1>3. ASSUME NEW c \in CmdBufs, UNCHANGED array, cmd'[c] = cmd[c], gpu'[c].offsets = gpu[c].offsets
      PROVE  OffsetsTracked(cmd[c], gpu[c])'
  BY <1>2, <1>3, OffsetsKept
<1>4. ASSUME NEW c \in CmdBufs, NEW r, cmd' = [cmd EXCEPT ![c] = r]
      PROVE  cmd'[c] = r /\ \A d \in CmdBufs : d # c => cmd'[d] = cmd[d]
  BY <1>1, <1>4
<1>5. CASE ContextSteps
  <2>1. /\ \A c \in CmdBufs : \/ cmd'[c] = cmd[c] /\ gpu'[c] = gpu[c]
                              \/ cmd'[c].program = None
        /\ UNCHANGED array
    BY <1>5, ContextPlain
  <2>2. \A c \in CmdBufs : cmd'[c].program = None => OffsetsTracked(cmd[c], gpu[c])'
    BY DEF OffsetsTracked
  <2> QED BY <1>3, <2>1, <2>2
<1>6. ASSUME NEW c \in CmdBufs, NEW p, SetProgram(c, p) PROVE Goal
  <2>1. PICK r : cmd' = [cmd EXCEPT ![c] = r] /\ r.program = p /\ r.dirtySets = Sets
    BY <1>6, ProgramPlain
  <2>2. UNCHANGED <<gpu, array>> BY <1>6, ProgramPlain
  <2>3. cmd'[c] = r /\ \A d \in CmdBufs : d # c => cmd'[d] = cmd[d] BY <1>4, <2>1
  <2>4. OffsetsTracked(cmd[c], gpu[c])'
    <3>1. cmd'[c].program \in Programs \cup {None}
      <4>1. TrackInv' BY TrackNext
      <4>2. cmd'[c] \in CmdType BY <4>1 DEF TrackInv, TypeOK, CmdTyped
      <4> QED BY <4>2 DEF CmdType
    <3>2. \A q \in Programs : \A s \in UniformSlots(q) : s.set \in Sets
      BY ValueAssumption DEF UniformSlots, Sets
    <3>3. cmd'[c].dirtySets = Sets BY <2>1, <2>3
    <3> QED BY <3>1, <3>2, <3>3 DEF OffsetsTracked
  <2> QED BY <1>3, <2>2, <2>3, <2>4
<1>7. ASSUME NEW c \in CmdBufs, NEW s \in Slots, SetBinding(c, s) PROVE Goal
  <2>1. PICK request, stored, r : Bind(c, s, request, stored, r) /\ BoundPlain(c, s, stored, r)
    BY <1>7, BindingPlain
  <2>2. PICK o : o = cmd[c] OBVIOUS
  <2>3. PICK p : p = o.program OBVIOUS
  <2>4. /\ cmd' = [cmd EXCEPT ![c] = r] /\ array' = [array EXCEPT ![p][s] = stored] /\ gpu' = gpu
    BY <2>1, <2>2, <2>3 DEF Bind, Set
  <2>5. Recording(c) /\ p # None /\ s \in Uses[p].slots
    BY <1>7, <2>2, <2>3, BindingPlain DEF Binding, Setter
  <2>6. p \in Programs BY <1>1, <2>2, <2>3, <2>5 DEF CmdType
  <2>7. cmd'[c] = r /\ \A d \in CmdBufs : d # c => cmd'[d] = cmd[d] BY <1>4, <2>4
  <2>8. OffsetsTracked(cmd[c], gpu[c])'
    <3>1. /\ r.program = p /\ r.pass = o.pass
          /\ o.dirtySets \subseteq r.dirtySets /\ o.dirtyDynamic \subseteq r.dirtyDynamic
          /\ s.kind = "uniform" => \/ s.set \in r.dirtySets \cup r.dirtyDynamic
                                   \/ stored.dynamic = array[p][s].dynamic
      BY <2>1, <2>2, <2>3 DEF BoundPlain, Old
    <3>2. DOMAIN array = Programs /\ DOMAIN array[p] = Uses[p].slots
      BY <2>6 DEF TrackInv, TypeOK, ObjectsTyped
    <3>3. \A t \in Uses[p].slots : array'[p][t] = IF t = s THEN stored ELSE array[p][t]
      BY <2>4, <2>6, <3>2
    <3>4. SUFFICES ASSUME NEW t \in UniformSlots(p), t.set \notin r.dirtySets \cup r.dirtyDynamic
                   PROVE  gpu[c].offsets[Point(r)][t] = array'[p][t].dynamic
      BY <2>4, <2>7, <3>1 DEF OffsetsTracked
    <3>5. t \in Uses[p].slots /\ t.kind = "uniform" BY <3>4 DEF UniformSlots
    <3>6. array'[p][t].dynamic = array[p][t].dynamic BY <3>1, <3>3, <3>4, <3>5
    <3>7. Point(r) = Point(o) BY <3>1 DEF Point, IsCompute
    <3>8. t.set \notin o.dirtySets \cup o.dirtyDynamic BY <3>1, <3>4
    <3>9. gpu[c].offsets[Point(o)][t] = array[p][t].dynamic
      BY <2>2, <2>3, <2>5, <3>4, <3>8 DEF OffsetsTracked
    <3> QED BY <3>6, <3>7, <3>9
  <2>9. ASSUME NEW d \in CmdBufs, d # c PROVE OffsetsTracked(cmd[d], gpu[d])'
    <3>1. cmd'[d].program = None BY <2>5, <2>7, <2>9, OthersIdle DEF Idle
    <3> QED BY <3>1 DEF OffsetsTracked
  <2> QED BY <2>8, <2>9
<1>8. ASSUME NEW c \in CmdBufs, NEW r, cmd' = [cmd EXCEPT ![c] = r], Plain(cmd[c], r),
             UNCHANGED array, \A d \in CmdBufs : gpu'[d].offsets = gpu[d].offsets
      PROVE  Goal
  <2>1. cmd'[c] = r /\ \A d \in CmdBufs : d # c => cmd'[d] = cmd[d] BY <1>4, <1>8
  <2>2. OffsetsTracked(cmd[c], gpu[c])' BY <1>8, <2>1, OffsetsKept
  <2> QED BY <1>3, <1>8, <2>1, <2>2
<1>9. ASSUME NEW c \in CmdBufs, SetState(c) PROVE Goal
  BY <1>8, <1>9, SetterPlain
<1>10. ASSUME NEW c \in CmdBufs, FailToFlush(c) PROVE Goal
  BY <1>8, <1>10, FailPlain
<1>11. ASSUME NEW c \in CmdBufs, CanFlush(c), Flushes(c) PROVE Goal
  <2>1. PICK o : o = cmd[c] OBVIOUS
  <2>2. PICK g : g = gpu[c] OBVIOUS
  <2>3. PICK r : r = FlushedCmd(o) OBVIOUS
  <2>4. PICK g1 : g1 = FlushedGpu(o, g) OBVIOUS
  <2>5. PICK table : table = Built(o) OBVIOUS
  <2>6. PICK p : p = o.program OBVIOUS
  <2>7. /\ Recording(c) /\ p # None /\ cmd' = [cmd EXCEPT ![c] = r] /\ gpu' = [gpu EXCEPT ![c] = g1]
        /\ array' = array
        /\ maps' = [maps EXCEPT ![p] =
             [d \in SetsOf(p) |-> IF d \in Updated(o) THEN FlushedMap(o, d) ELSE @[d]]]
    BY <1>11, <2>1, <2>2, <2>3, <2>4, <2>6 DEF CanFlush, Flushes
  <2>8. o \in CmdType /\ BoundType(g) /\ OffsetsTracked(o, g) /\ p \in Programs
    BY <1>1, <2>1, <2>2, <2>6, <2>7 DEF CmdType
  <2>9. MapsAfter(o, p) BY <2>6, <2>7, <2>8, FlushMaps
  <2>10. \A d \in Updated(o) : SetFor(o, d) \in Nat BY <2>9 DEF MapsAfter
  <2>11. CmdAfter(o, r) BY <2>3, <2>6, <2>8, <2>10, FlushedCmdIs
  <2>12. GpuAfter(o, g, g1, Point(o), table) BY <2>4, <2>5, <2>8, FlushedGpuIs
  <2>13. cmd'[c] = r /\ gpu'[c] = g1 /\ \A d \in CmdBufs : d # c => cmd'[d] = cmd[d]
    BY <1>1, <2>7
  <2>14. OffsetsTracked(cmd[c], gpu[c])'
    <3>1. /\ r.program = p /\ r.dirtySets = o.dirtySets \ Updated(o)
          /\ r.dirtyDynamic = (o.dirtyDynamic \ Updated(o)) \ OnlyRebound(o)
      BY <2>6, <2>11 DEF CmdAfter
    <3>2. Point(r) = Point(o) BY <2>11, HashKept
    <3>3. SUFFICES ASSUME NEW t \in UniformSlots(p), t.set \notin r.dirtySets \cup r.dirtyDynamic
                   PROVE  g1.offsets[Point(o)][t] = array[p][t].dynamic
      BY <2>7, <2>13, <3>1, <3>2 DEF OffsetsTracked
    <3>4. t \in Slots /\ [t EXCEPT !.index = 0] = t
      BY <2>8, <3>3, ValueAssumption DEF UniformSlots, SetHashCovers
    <3>5. g1.offsets[Point(o)][t] =
            IF t.set \notin Updated(o) \cup OnlyRebound(o) THEN g.offsets[Point(o)][t]
            ELSE array[p][t].dynamic
      BY <2>6, <2>12, <3>3, <3>4 DEF GpuAfter
    <3>6. CASE t.set \in Updated(o) \cup OnlyRebound(o) BY <3>5, <3>6
    <3>7. CASE t.set \notin Updated(o) \cup OnlyRebound(o)
      <4>1. t.set \notin o.dirtySets \cup o.dirtyDynamic BY <3>1, <3>3, <3>7
      <4>2. g.offsets[Point(o)][t] = array[p][t].dynamic
        BY <2>6, <2>7, <2>8, <3>3, <4>1 DEF OffsetsTracked
      <4> QED BY <3>5, <3>7, <4>2
    <3> QED BY <3>6, <3>7
  <2>15. ASSUME NEW d \in CmdBufs, d # c PROVE OffsetsTracked(cmd[d], gpu[d])'
    <3>1. cmd'[d].program = None BY <2>7, <2>13, <2>15, OthersIdle DEF Idle
    <3> QED BY <3>1 DEF OffsetsTracked
  <2> QED BY <2>14, <2>15
<1>12. CASE NextFrameContext BY <1>3, <1>12 DEF NextFrameContext
<1>13. CASE WaitIdle BY <1>3, <1>13 DEF WaitIdle
<1>14. CASE UNCHANGED vars BY <1>3, <1>14 DEF vars
<1> QED
  BY <1>5, <1>6, <1>7, <1>9, <1>10, <1>11, <1>12, <1>13, <1>14, StepKinds

LEMMA MapsNext ==
  ASSUME TrackInv, SetHashCovers, \A p \in Programs : \A d \in SetsOf(p) : Keyed(maps[p][d]),
         [Next]_vars
  PROVE  \A p \in Programs : \A d \in SetsOf(p) : Keyed(maps'[p][d])
<1> DEFINE Goal == \A p \in Programs : \A d \in SetsOf(p) : Keyed(maps'[p][d])
<1>1. \A p \in Programs : \A d \in SetsOf(p) : MapInv(maps[p][d]) BY DEF TrackInv
<1>2. CASE UNCHANGED maps BY <1>2
<1>3. CASE NextFrameContext
  <2>1. ASSUME NEW p \in Programs, NEW d \in SetsOf(p)
        PROVE  Keyed(maps'[p][d])
    <3>1. maps'[p][d] = [maps[p][d] EXCEPT !.begin = TRUE] BY <1>3 DEF NextFrameContext
    <3> QED BY <1>1, <3>1, MarkKeeps
  <2> QED BY <2>1
<1>4. CASE WaitIdle
  <2>1. ASSUME NEW p \in Programs, NEW d \in SetsOf(p)
        PROVE  Keyed(maps'[p][d])
    <3>1. maps'[p][d] = ClearMap(maps[p][d]) BY <1>4 DEF WaitIdle
    <3> QED BY <1>1, <3>1, ClearKeeps
  <2> QED BY <2>1
<1>5. ASSUME NEW c \in CmdBufs, CanFlush(c), Flushes(c) PROVE Goal
  <2>1. PICK o : o = cmd[c] OBVIOUS
  <2>2. PICK p : p = o.program OBVIOUS
  <2>3. o \in CmdType /\ p \in Programs
    BY <1>5, <2>1, <2>2 DEF TrackInv, TypeOK, CmdTyped, CanFlush, CmdType
  <2>4. maps' = [maps EXCEPT ![p] =
          [d \in SetsOf(p) |-> IF d \in Updated(o) THEN FlushedMap(o, d) ELSE @[d]]]
    BY <1>5, <2>1, <2>2 DEF Flushes
  <2>5. MapsAfter(o, p) BY <2>2, <2>3, <2>4, FlushMaps
  <2>6. ASSUME NEW q \in Programs, NEW d \in SetsOf(q) PROVE Keyed(maps'[q][d])
    <3>1. CASE q = p /\ d \in Updated(o)
      <4>1. FlushedTo(maps[p][d], maps'[p][d], HashOf(p, d), ContentOf(p, d))
        BY <2>5, <3>1 DEF MapsAfter
      <4>2. ContentOf(p, d) = HashOf(p, d) BY <2>3, HashIsContent
      <4> QED BY <2>6, <3>1, <4>1, <4>2 DEF FlushedTo
    <3>2. CASE ~(q = p /\ d \in Updated(o)) BY <2>5, <2>6, <3>2 DEF MapsAfter
    <3> QED BY <3>1, <3>2
  <2> QED BY <2>6
<1> QED BY <1>2, <1>3, <1>4, <1>5, WhoseMaps

(* Sets hold what they are kept under, and offsets are bound as given.     *)
LEMMA SetsInvariant ==
  ASSUME SetHashCovers
  PROVE  Spec => [](TrackInv /\ SetsKeyed)
<1>1. Init => SetsKeyed
  <2>1. SUFFICES ASSUME Init PROVE SetsKeyed OBVIOUS
  <2>2. PICK n : n = Closed OBVIOUS
  <2>3. \A c \in CmdBufs : cmd[c] = n BY <2>1, <2>2 DEF Init
  <2>4. n.program = None BY <2>2, ClosedIs DEF Idle
  <2>5. PICK e : e = EmptyMap OBVIOUS
  <2>6. \A p \in Programs : \A d \in SetsOf(p) : maps[p][d] = e BY <2>1, <2>5 DEF Init
  <2>7. Keyed(e) BY <2>5, EmptyMapKeeps
  <2> QED BY <2>3, <2>4, <2>6, <2>7, NoProgramNoOffsets DEF SetsKeyed
<1>2. TrackInv /\ SetsKeyed /\ [Next]_vars => SetsKeyed'
  BY MapsNext, OffsetsNext DEF SetsKeyed
<1> QED BY <1>1, <1>2, TrackingInvariant, PTL DEF Spec

(* A draw reads through the bound sets and offsets the resources last given*)
(* to the program - where the hash covers what is written into a set, that *)
(* is, without samplers apart from their image and without arrays of       *)
(* uniform buffers.                                                        *)
THEOREM DrawSeesBindingsHolds ==
  ASSUME SetHashCovers
  PROVE  Spec => []DrawSeesBindings
<1>1. TrackInv /\ SetsKeyed => DrawSeesBindings
  <2>1. SUFFICES ASSUME TrackInv, SetsKeyed, NEW c \in CmdBufs, drew = c,
                        NEW s \in Uses[cmd[c].program].slots
                 PROVE  LET b == asked[cmd[c].program][s]
                        IN /\ BoundContent(c, s) = Project(b, WrittenFields(s.kind))
                           /\ s.kind = "uniform" => gpu[c].offsets[Point(cmd[c])][s] = b.dynamic
    BY DEF DrawSeesBindings
  <2>2. PICK r : r = cmd[c] OBVIOUS
  <2>3. PICK p : p = r.program OBVIOUS
  <2>4. PICK d : d = s.set OBVIOUS
  <2>5. /\ r \in CmdType /\ SetsTracked(r, gpu[c]) /\ Flushed(r) /\ OffsetsTracked(r, gpu[c]) /\ Stored
    BY <2>1, <2>2 DEF TrackInv, TypeOK, CmdTyped, SetsKeyed
  <2>6. p \in Programs /\ p # None BY <2>3, <2>5, ValueAssumption DEF Flushed, CmdType
  <2>7. s \in Slots /\ s \in SlotsIn(p, d) /\ d \in SetsOf(p)
    BY <2>1, <2>2, <2>3, <2>4, <2>6, ValueAssumption DEF SlotsIn, SetsOf
  <2>8. d \notin r.dirtySets /\ d \notin r.dirtyDynamic BY <2>3, <2>5, <2>7 DEF Flushed
  <2>9. PICK m : m = maps[p][d] OBVIOUS
  <2>10. PICK h : h = HashOf(p, d) OBVIOUS
  <2>11. h \in DOMAIN m.map /\ m.map[h] = r.sets[d]
         /\ gpu[c].sets[Point(r)][d] = <<p, d, r.sets[d]>>
    BY <2>3, <2>5, <2>6, <2>7, <2>8, <2>9, <2>10 DEF SetsTracked
  <2>12. m.content[r.sets[d]] = h BY <2>1, <2>6, <2>7, <2>9, <2>11 DEF SetsKeyed, Keyed
  <2>13. BoundContent(c, s) = h[s] BY <2>2, <2>4, <2>9, <2>11, <2>12 DEF BoundContent
  <2>14. h = ContentOf(p, d) BY <2>1, <2>6, <2>10, HashIsContent
  <2>15. h[s] = Project(array[p][s], WrittenFields(s.kind)) BY <2>7, <2>14 DEF ContentOf
  <2>16. /\ Project(array[p][s], WrittenFields(s.kind)) = Project(asked[p][s], WrittenFields(s.kind))
         /\ s.kind = "uniform" => array[p][s].dynamic = asked[p][s].dynamic
    BY <2>1, <2>2, <2>3, <2>5, <2>6 DEF Stored
  <2>17. ASSUME s.kind = "uniform"
         PROVE  gpu[c].offsets[Point(r)][s] = array[p][s].dynamic
    <3>1. s \in UniformSlots(p) BY <2>1, <2>2, <2>3, <2>17 DEF UniformSlots
    <3> QED BY <2>3, <2>4, <2>5, <2>6, <2>8, <3>1 DEF OffsetsTracked
  <2> QED BY <2>2, <2>3, <2>13, <2>15, <2>16, <2>17
<1> QED BY <1>1, SetsInvariant, PTL

(* The invariant that the run checks, where both hashes cover what they    *)
(* stand for.                                                              *)
THEOREM CommandInvariant ==
  ASSUME PipelineHashCovers, SetHashCovers
  PROVE  Spec => []CommandInv
<1>1. TrackInv /\ PipelinesKeyed /\ SetsKeyed => CommandInv BY DEF CommandInv
<1> QED BY <1>1, PipelinesInvariant, SetsInvariant, PTL
=============================================================================
