--------------------------- MODULE DescriptorSets ---------------------------
(***************************************************************************)
(* Descriptor sets: which of a binding's fields name the set that holds it *)
(* and which are written into it, and the TemporaryHashmap of one set      *)
(* layout and one thread, which hands out sets by hash and reuses those    *)
(* that RingSize frames have not asked for.                                *)
(***************************************************************************)
EXTENDS Naturals, Sequences, FiniteSets

CONSTANTS
  RingSize,     (* VULKAN_DESCRIPTOR_RING_SIZE                               *)
  SetsPerPool,  (* VULKAN_NUM_SETS_PER_POOL                                  *)
  None

ASSUME RingAssumption == RingSize \in Nat \ {0} /\ SetsPerPool \in Nat \ {0}

(* A ResourceBinding.  cookie names the buffer, view or image, secondary   *)
(* the sampler; detail stands for the range, offset or image layout and    *)
(* dynamic is the dynamic offset.                                          *)
Unbound == [cookie |-> None, secondary |-> None, detail |-> 0, dynamic |-> 0]

Kinds == {"uniform", "storage", "bufferView", "sampledImage", "immutableSampler",
          "separateImage", "sampler", "storageImage", "inputAttachment"}

(* Mutant: the sampler of a combined image is not hashed.                  *)
BugHashedFields(kind) ==
  CASE kind \in {"bufferView", "sampler"} -> {"cookie"}
    [] OTHER -> {"cookie", "detail"}
(* The fields FindDescriptorSet hashes.                                    *)
HashedFields(kind) ==
  CASE kind \in {"bufferView", "sampler"} -> {"cookie"}
    [] kind = "sampledImage" -> {"cookie", "detail", "secondary"}
    [] OTHER -> {"cookie", "detail"}

(* The fields UpdateDescriptorSetLegacy, or the update template, writes.   *)
WrittenFields(kind) ==
  CASE kind = "bufferView" -> {"cookie"}
    [] kind = "sampler" -> {"secondary"}
    [] kind = "sampledImage" -> {"cookie", "detail", "secondary"}
    [] OTHER -> {"cookie", "detail"}

(* FindDescriptorSet asserts that a binding was given before it is used.   *)
IsBound(kind, b) ==
  CASE kind = "sampler" -> b.secondary # None
    [] kind = "sampledImage" -> b.cookie # None /\ b.secondary # None
    [] OTHER -> b.cookie # None

Project(b, fields) == [f \in fields |-> b[f]]

(* An entry put into a hash map.                                           *)
With(f, key, value) == [k \in DOMAIN f \cup {key} |-> IF k = key THEN value ELSE f[k]]

-----------------------------------------------------------------------------
(* TemporaryHashmap<DescriptorSetNode, RingSize, true>.  The nodes, the    *)
(* descriptor sets, are numbered as they are allocated; a ring is a set,   *)
(* for the order of its list decides only which vacant set is taken.       *)

EmptyMap == [index |-> 0, begin |-> TRUE, rings |-> [i \in 0 .. RingSize - 1 |-> {}],
             map |-> <<>>, hash |-> <<>>, vacants |-> {}, content |-> <<>>]

Nodes(m) == DOMAIN m.hash

(* Mutant: the expired ring is not the oldest one.                         *)
BugBeginFrame(m) ==
  LET i == (m.index + 1) % RingSize
      expired == m.rings[m.index]
  IN [m EXCEPT !.index = i, !.begin = FALSE, !.rings[m.index] = {},
               !.map = [h \in DOMAIN m.map \ {m.hash[n] : n \in expired} |-> m.map[h]],
               !.vacants = @ \cup expired]
(* begin_frame: the nodes of the oldest ring become vacant.                *)
BeginFrame(m) ==
  LET i == (m.index + 1) % RingSize
      expired == m.rings[i]
  IN [m EXCEPT !.index = i, !.begin = FALSE, !.rings[i] = {},
               !.map = [h \in DOMAIN m.map \ {m.hash[n] : n \in expired} |-> m.map[h]],
               !.vacants = @ \cup expired]

(* request: a hit moves the node to the ring of this frame.                *)
Request(m, h) ==
  [m EXCEPT !.rings = [i \in DOMAIN m.rings |->
     IF i = m.index THEN m.rings[i] \cup {m.map[h]} ELSE m.rings[i] \ {m.map[h]}]]

(* A new pool of descriptor sets, each made vacant.                        *)
MakeVacant(m) ==
  LET new == Len(m.hash) + 1 .. Len(m.hash) + SetsPerPool
      blank == [i \in 1 .. SetsPerPool |-> None]
  IN [m EXCEPT !.hash = @ \o blank, !.content = @ \o blank,
               !.vacants = @ \cup new]

(* request_vacant, which takes the last vacant node.                       *)
RequestVacant(m, h) ==
  LET n == CHOOSE v \in m.vacants : TRUE
  IN [m EXCEPT !.vacants = @ \ {n}, !.hash[n] = h, !.map = With(@, h, n),
               !.rings[m.index] = @ \cup {n}]

(* UniformManager::FlushDescriptorSet with FindDescriptorSet: the set with *)
(* this hash, or a vacant one, which is then written.  It is the node that *)
(* the resulting map has for h.  A pool is created without failing.        *)
Flush(m0, h, content) ==
  LET m == IF m0.begin THEN BeginFrame(m0) ELSE m0
  IN IF h \in DOMAIN m.map
     THEN Request(m, h)
     ELSE LET v == RequestVacant(IF m.vacants = {} THEN MakeVacant(m) ELSE m, h)
          IN [v EXCEPT !.content[v.map[h]] = content]

(* UniformManager::Clear: clear, and the pools are destroyed.              *)
ClearMap(m) == [EmptyMap EXCEPT !.index = m.index, !.begin = m.begin]

(* Every node is in exactly one ring or vacant, and the map finds exactly  *)
(* the nodes of the rings, each under its own hash: none is lost or handed *)
(* out twice.                                                              *)
NodesAccounted(m) ==
  /\ \A n \in Nodes(m) :
       Cardinality({i \in DOMAIN m.rings : n \in m.rings[i]}) = (IF n \in m.vacants THEN 0 ELSE 1)
  /\ \A h \in DOMAIN m.map : m.hash[m.map[h]] = h
  /\ {m.map[h] : h \in DOMAIN m.map} = UNION {m.rings[i] : i \in DOMAIN m.rings}

(* What request, request_vacant, begin_frame and clear keep of a map: the  *)
(* free list and the rings share out the nodes, and the map and the hashes *)
(* of the nodes in the rings are inverse to each other.                    *)
Rings == 0 .. RingSize - 1
MapFields == {"index", "begin", "rings", "map", "hash", "vacants", "content"}
IsSequence(s) == s \in Seq({s[n] : n \in DOMAIN s})

(* A map with its rings, hashes and contents in range.                     *)
MapTyped(m) ==
  /\ DOMAIN m = MapFields
  /\ m.index \in Rings /\ m.begin \in BOOLEAN
  /\ IsSequence(m.hash) /\ IsSequence(m.content) /\ Len(m.content) = Len(m.hash)
  /\ m.rings \in [Rings -> SUBSET Nodes(m)] /\ m.vacants \subseteq Nodes(m)
(* A node is vacant or in one ring.                                        *)
NodesShared(m) ==
  \A n \in Nodes(m) :
    /\ n \in m.vacants <=> \A i \in Rings : n \notin m.rings[i]
    /\ \A i, j \in Rings : n \in m.rings[i] /\ n \in m.rings[j] => i = j
(* The map and the hashes are inverse to each other.                       *)
MapInverse(m) ==
  /\ \A h \in DOMAIN m.map : m.map[h] \in Nodes(m) \ m.vacants /\ m.hash[m.map[h]] = h
  /\ \A n \in Nodes(m) \ m.vacants : m.hash[n] \in DOMAIN m.map /\ m.map[m.hash[n]] = n
(* Together.                                                               *)
MapInv(m) == MapTyped(m) /\ NodesShared(m) /\ MapInverse(m)

(* A set holds what it is kept under.                                      *)
Keyed(m) == \A h \in DOMAIN m.map : m.content[m.map[h]] = h

(* How long ago the ring was the current one.                              *)
RingAge(m, i) == IF i <= m.index THEN m.index - i ELSE m.index + RingSize - i
=============================================================================
