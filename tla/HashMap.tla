------------------------------ MODULE HashMap ------------------------------
(***************************************************************************)
(* The hash maps of src/quantumvk/utils: IntrusiveHashMap (open addressing *)
(* with a bounded number of probes, which grows until every element fits)  *)
(* and TemporaryHashmap on top of it (objects live for a ring of frames).  *)
(*                                                                         *)
(* A map is [size, load, slots, list]: slots from 0 to size - 1 holding    *)
(* hashes, `load' the number of probes, `list' every hash, newest first.   *)
(* An object is identified with its hash.                                  *)
(***************************************************************************)
EXTENDS Integers, Sequences, FiniteSets, FiniteSetsExt, SequencesExt

CONSTANTS InitialSize, InitialLoadCount,
          MaxDoublings,  \* bound: doublings of one growth, and of all together
          RingSize       \* RingSize of TemporaryHashmap, a power of two
ASSUME SizesAssumption ==
    /\ InitialSize \in Nat \ {0} /\ InitialLoadCount \in Nat \ {0}
    /\ MaxDoublings \in Nat \ {0} /\ RingSize \in Nat \ {0}

\* How much larger a table is after n doublings.
Factor[n \in 0..MaxDoublings] == IF n = 0 THEN 1 ELSE 2 * Factor[n - 1]

\* Bound: the largest table has a slot for every hash, so that growth ends.
HashValues == 0..InitialSize * Factor[MaxDoublings - 1] - 1

Vacant == -1   \* a null pointer in the table

EmptyMap == [size |-> 0, load |-> 0, slots |-> <<>>, list |-> <<>>]

Probe(map, hash, i) == (hash + i) % map.size
Probes(map) == 0..map.load - 1

Found(map, hash) == \E i \in Probes(map) : map.slots[Probe(map, hash, i)] = hash

\* The probes at which an insertion stops: a vacant slot, or its own hash.
Stops(map, hash) == {i \in Probes(map) : map.slots[Probe(map, hash, i)] \in {Vacant, hash}}
StopAt(map, hash) == Probe(map, hash, Min(Stops(map, hash)))

\* insert_inner: vacant slots only; a map of no slots stands for a failure.
InsertInner(map, hash) ==
    LET room == {i \in Probes(map) : map.slots[Probe(map, hash, i)] = Vacant}
    IN IF map.size = 0 \/ room = {} THEN EmptyMap
       ELSE [map EXCEPT !.slots[Probe(map, hash, Min(room))] = hash]

\* One round of grow: the table doubled n times since, every slot cleared.
Doubled(map, n) ==
    LET fresh == map.size = 0
        size == IF fresh THEN InitialSize * Factor[n - 1] ELSE map.size * Factor[n]
    IN [size |-> size,
        load |-> IF fresh THEN InitialLoadCount + n - 1 ELSE map.load + n,
        slots |-> [i \in 0..size - 1 |-> Vacant],
        list |-> map.list]

\* A slip: the slots keep their old contents when the table is resized.
BugReinserted(map, n) ==
    LET larger == Doubled(map, n)
        kept == [larger EXCEPT !.slots =
                   [i \in DOMAIN @ |-> IF i < map.size THEN map.slots[i] ELSE Vacant]]
    IN FoldLeft(InsertInner, kept, map.list)

Reinserted(map, n) == FoldLeft(InsertInner, Doubled(map, n), map.list)

\* An insertion grows the table until the list and the new hash both fit.
Roomy(map, hash) ==
    IF map.size > 0 /\ Stops(map, hash) # {} THEN map
    ELSE LET fits(n) == /\ Reinserted(map, n).size > 0
                        /\ Stops(Reinserted(map, n), hash) # {}
         IN Reinserted(map, Min({n \in 1..MaxDoublings : fits(n)}))

\* insert_yield: the element that is already there stays.
InsertYield(map, hash) ==
    LET roomy == Roomy(map, hash)
        slot == StopAt(roomy, hash)
    IN IF roomy.slots[slot] = hash THEN roomy
       ELSE [roomy EXCEPT !.slots[slot] = hash, !.list = <<hash>> \o @]

\* insert_replace: the new element takes the place of the old one, in front.
InsertReplace(map, hash) ==
    LET roomy == Roomy(map, hash)
        slot == StopAt(roomy, hash)
    IN [roomy EXCEPT !.slots[slot] = hash,
                     !.list = <<hash>> \o (IF roomy.slots[slot] = hash
                                           THEN RemoveFirst(@, hash) ELSE @)]

Erase(map, hash) ==
    IF ~Found(map, hash) THEN map
    ELSE LET at == Min({i \in Probes(map) : map.slots[Probe(map, hash, i)] = hash})
         IN [map EXCEPT !.slots[Probe(map, hash, at)] = Vacant,
                        !.list = RemoveFirst(@, hash)]

\* Every element is found, once, and the table holds nothing else.
MapSound(map) ==
    LET held == {i \in DOMAIN map.slots : map.slots[i] # Vacant}
    IN /\ \A h \in ToSet(map.list) : Found(map, h)
       /\ {map.slots[i] : i \in held} = ToSet(map.list)
       /\ Cardinality(held) = Len(map.list)

\* The same, as it is preserved: what a table is, ...
MapFields == {"size", "load", "slots", "list"}
Shaped(map) ==
    /\ DOMAIN map = MapFields
    /\ map.size \in Nat /\ map.load \in Nat /\ map.list \in Seq(HashValues)
    /\ IF map.size = 0
       THEN map.load = 0 /\ map.list = <<>> /\ map.slots = <<>>
       ELSE /\ map.size >= InitialSize /\ map.load > 0
            /\ map.slots \in [0..map.size - 1 -> HashValues \cup {Vacant}]

\* ... that its slots keep a set of hashes, each once and where it is found, ...
Keeps(map, held) ==
    /\ \A i \in 0..map.size - 1 : map.slots[i] \in held \cup {Vacant}
    /\ \A i, j \in 0..map.size - 1 :
         map.slots[i] = map.slots[j] /\ map.slots[i] # Vacant => i = j
    /\ \A h \in held : Found(map, h)

\* ... and, while nothing is erased, that no vacant slot comes before a hash.
Unbroken(map, held) ==
    \A h \in held : \E i \in Probes(map) :
        /\ map.slots[Probe(map, h, i)] = h
        /\ \A j \in 0..i - 1 : map.slots[Probe(map, h, j)] # Vacant

MapInv(map) ==
    Shaped(map) /\ IsInjective(map.list) /\ Keeps(map, ToSet(map.list))

-----------------------------------------------------------------------------
(* TemporaryHashmap, ReuseObjects = false: [map, rings, index, made].      *)
(* `made' is what each live object was constructed from.                   *)

EmptyCache == [map |-> EmptyMap, rings |-> [i \in 0..RingSize - 1 |-> <<>>],
               index |-> 0, made |-> <<>>]

RingOf(cache, hash) == CHOOSE i \in DOMAIN cache.rings : Contains(cache.rings[i], hash)

\* request, when it finds the hash: the object moves to the ring of this frame.
Refreshed(cache, hash) ==
    LET old == RingOf(cache, hash)
    IN IF old = cache.index THEN cache
       ELSE [cache EXCEPT !.rings[old] = RemoveFirst(@, hash),
                          !.rings[cache.index] = <<hash>> \o @]

Emplaced(cache, hash, args) ==
    [cache EXCEPT !.map = InsertReplace(@, hash),
                  !.rings[cache.index] = <<hash>> \o @,
                  !.made = [h \in DOMAIN @ \cup {hash} |-> IF h = hash THEN args ELSE @[h]]]

\* Request, or emplace what the request did not find.
Requested(cache, hash, args) ==
    IF Found(cache.map, hash) THEN Refreshed(cache, hash) ELSE Emplaced(cache, hash, args)

ErasedAll(map, hashes) == FoldLeft(Erase, map, hashes)

\* begin_frame: the objects of the ring that comes round again are freed.
NextFrame(cache) ==
    LET index == (cache.index + 1) % RingSize
        old == cache.rings[index]
    IN [map |-> ErasedAll(cache.map, old),
        rings |-> [cache.rings EXCEPT ![index] = <<>>],
        index |-> index,
        made |-> [h \in DOMAIN cache.made \ ToSet(old) |-> cache.made[h]]]

\* clear: the position in the ring stays.
Cleared(cache) == [EmptyCache EXCEPT !.index = cache.index]

\* The rings hold exactly the live objects, each once, and the map finds them.
CacheSound(cache) ==
    LET held(i) == ToSet(cache.rings[i])
        all == UNION {held(i) : i \in DOMAIN cache.rings}
    IN /\ MapSound(cache.map)
       /\ all = ToSet(cache.map.list) /\ all = DOMAIN cache.made
       /\ \A i, j \in DOMAIN cache.rings : i # j => held(i) \cap held(j) = {}
       /\ \A i \in DOMAIN cache.rings : Cardinality(held(i)) = Len(cache.rings[i])

\* The same, as it is preserved.
CacheFields == {"map", "rings", "index", "made"}
CacheInv(cache) ==
    /\ DOMAIN cache = CacheFields
    /\ MapInv(cache.map)
    /\ cache.index \in 0..RingSize - 1
    /\ cache.rings \in [0..RingSize - 1 -> Seq(HashValues)]
    /\ \A i \in 0..RingSize - 1 : IsInjective(cache.rings[i])
    /\ \A i, j \in 0..RingSize - 1 : i # j => ToSet(cache.rings[i]) \cap ToSet(cache.rings[j]) = {}
    /\ ToSet(cache.map.list) = UNION {ToSet(cache.rings[i]) : i \in 0..RingSize - 1}
    /\ DOMAIN cache.made = ToSet(cache.map.list)
=============================================================================
