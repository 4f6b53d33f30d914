----------------------------- MODULE WSI_proofs -----------------------------
(***************************************************************************)
(* The properties of WSI for any number of semaphore handles, images and   *)
(* frame contexts, where the driver answers neither "suboptimal" nor       *)
(* "query".                                                                *)
(***************************************************************************)
EXTENDS WSI, TLAPS, FiniteSetTheorems

\* The two answers that the code does not survive (README, "Findings").
Survivable == "suboptimal" \notin AcquireResults /\ "query" \notin InitResults

-----------------------------------------------------------------------------
(* Sequences, records and frames.                                          *)

LEMMA QueueType ==
  ASSUME queue \in Seq(BatchType)
  PROVE  /\ DOMAIN queue = 1..Len(queue) /\ Len(queue) \in Nat
         /\ \A k \in DOMAIN queue :
              /\ queue[k].waits \subseteq Handles /\ queue[k].signals \subseteq Handles
              /\ queue[k].draws \subseteq Images /\ queue[k].frame \in FrameIds
<1>1. DOMAIN queue = 1..Len(queue) /\ Len(queue) \in Nat OBVIOUS
<1>2. \A k \in DOMAIN queue : queue[k] \in BatchType OBVIOUS
<1> QED BY <1>1, <1>2 DEF BatchType

LEMMA AppendBatch ==
  ASSUME queue \in Seq(BatchType), NEW b \in BatchType, queue' = Append(queue, b)
  PROVE  /\ queue' \in Seq(BatchType) /\ Len(queue') = Len(queue) + 1
         /\ DOMAIN queue' = 1..(Len(queue) + 1) /\ DOMAIN queue = 1..Len(queue) /\ Len(queue) \in Nat
         /\ \A k \in DOMAIN queue : k \in DOMAIN queue' /\ queue'[k] = queue[k]
         /\ queue'[Len(queue) + 1] = b /\ Len(queue) + 1 \in DOMAIN queue'
         /\ Len(queue) + 1 \notin DOMAIN queue
         /\ \A k \in DOMAIN queue' : k \in DOMAIN queue \/ k = Len(queue) + 1
OBVIOUS

LEMMA TailBatch ==
  ASSUME queue \in Seq(BatchType), queue # <<>>, queue' = Tail(queue)
  PROVE  /\ queue' \in Seq(BatchType) /\ Len(queue') = Len(queue) - 1 /\ Head(queue) = queue[1]
         /\ Len(queue) \in Nat /\ DOMAIN queue = 1..Len(queue) /\ DOMAIN queue' = 1..(Len(queue) - 1)
         /\ 1 \in DOMAIN queue
         /\ \A k \in DOMAIN queue' : k + 1 \in DOMAIN queue /\ queue'[k] = queue[k + 1]
         /\ \A k \in DOMAIN queue : k = 1 \/ (k - 1 \in DOMAIN queue' /\ queue'[k - 1] = queue[k])
<1>1. PICK t \in Seq(BatchType) : t = Tail(queue)
  <2>1. Tail(queue) \in Seq(BatchType) OBVIOUS
  <2> QED BY <2>1
<1>2. /\ Len(t) = Len(queue) - 1 /\ Head(queue) = queue[1] /\ Len(queue) \in Nat /\ Len(queue) > 0
      /\ \A k \in 1..(Len(queue) - 1) : t[k] = queue[k + 1]
  BY <1>1
<1>3. DOMAIN t = 1..(Len(queue) - 1) /\ DOMAIN queue = 1..Len(queue) BY <1>1, <1>2
<1>4. ASSUME NEW k \in DOMAIN t PROVE k + 1 \in DOMAIN queue /\ t[k] = queue[k + 1]
  BY <1>2, <1>3
<1>5. ASSUME NEW k \in DOMAIN queue, k # 1 PROVE k - 1 \in DOMAIN t /\ t[k - 1] = queue[k]
  <2>1. k - 1 \in 1..(Len(queue) - 1) BY <1>2, <1>3, <1>5
  <2>2. t[k - 1] = queue[(k - 1) + 1] BY <1>2, <2>1
  <2>3. (k - 1) + 1 = k BY <1>3
  <2> QED BY <1>3, <2>1, <2>2, <2>3
<1> QED BY <1>1, <1>2, <1>3, <1>4, <1>5

\* The fields of wsi.
WsiType == [acquire : Slot, release : Slot, touched : BOOLEAN, consumed : BOOLEAN]

LEMMA WsiFields ==
  ASSUME NEW w \in WsiType
  PROVE  /\ w.acquire \in Slot /\ w.release \in Slot /\ w.touched \in BOOLEAN /\ w.consumed \in BOOLEAN
         /\ w.acquire # None => w.acquire \in Object
         /\ w.release # None => w.release \in Object
BY DEF WsiType, Slot

LEMMA ObjectFields ==
  /\ \A o \in Object : o.sem \in Handles /\ o.signalled \in BOOLEAN /\ o # None
  /\ \A s \in Handles, b \in BOOLEAN : LET o == [sem |-> s, signalled |-> b]
                                       IN o \in Object /\ o.sem = s /\ o.signalled = b /\ o # None
BY WSIAssumption DEF Object

LEMMA DroppedIn ==
  ASSUME NEW slots, slots \subseteq Slot, NEW flag
  PROVE  /\ Dropped(slots, flag) \subseteq Handles
         /\ \A s : s \in Dropped(slots, flag) <=> \E o \in slots : IsOf(o, s) /\ o.signalled = flag
BY ObjectFields DEF Dropped, Slot, IsOf

LEMMA FrameIn ==
  /\ \A f \in FrameIds : (f + 1) % Frames \in FrameIds
  /\ 0 \in FrameIds
<1>1. Frames \in Nat /\ Frames > 0 BY WSIAssumption
<1>2. ASSUME NEW f \in FrameIds PROVE (f + 1) % Frames \in FrameIds
  BY <1>1 DEF FrameIds
<1> QED BY <1>1, <1>2 DEF FrameIds

LEMMA ClearedIn ==
  ASSUME vacant \subseteq created, created \subseteq Handles, NEW s \in Cleared
  PROVE  s \in Handles /\ (s \in vacant \/ s \notin created)
BY DEF Cleared

LEMMA BatchIn ==
  ASSUME frame \in FrameIds, NEW w \in SUBSET Handles, NEW s \in SUBSET Handles, NEW d \in SUBSET Images
  PROVE  /\ Batch(w, s, d) \in BatchType
         /\ Batch(w, s, d).waits = w /\ Batch(w, s, d).signals = s /\ Batch(w, s, d).draws = d
         /\ Batch(w, s, d).frame = frame
BY DEF Batch, BatchType

LEMMA ResetIs ==
  ASSUME wsi \in WsiType, NEW o \in Slot
  PROVE  /\ Reset(o) \in WsiType /\ Reset(o).acquire = o /\ Reset(o).release = wsi.release
         /\ Reset(o).touched = FALSE /\ Reset(o).consumed = FALSE
BY DEF Reset, WsiType

\* What the driver and DrainSwapchain do to an image and to wsi.
LEMMA RecordsKept ==
  /\ \A w \in WsiType, o \in Slot :
       LET v == [w EXCEPT !.acquire = None, !.touched = TRUE, !.consumed = TRUE, !.release = o]
       IN v \in WsiType /\ v.acquire = None /\ v.release = o /\ v.touched = TRUE /\ v.consumed = TRUE
  /\ \A w \in WsiType :
       LET v == [w EXCEPT !.release = None]
       IN /\ v \in WsiType /\ v.acquire = w.acquire /\ v.release = None /\ v.touched = w.touched
          /\ v.consumed = w.consumed
  /\ \A x \in ImageType :
       /\ [x EXCEPT !.sem = None] \in ImageType
       /\ [x EXCEPT !.sem = None].state = x.state /\ [x EXCEPT !.sem = None].sem = None
       /\ [x EXCEPT !.state = "presenting"] \in ImageType
       /\ [x EXCEPT !.state = "presenting"].state = "presenting"
       /\ [x EXCEPT !.state = "presenting"].sem = x.sem
  /\ NoImage \in ImageType /\ Free \in ImageType
  /\ NoImage.state = "gone" /\ Free.state = "engine" /\ NoImage.sem = None /\ Free.sem = None
<1>1. ASSUME NEW w \in WsiType, NEW o \in Slot,
             NEW v, v = [w EXCEPT !.acquire = None, !.touched = TRUE, !.consumed = TRUE, !.release = o]
      PROVE  v \in WsiType /\ v.acquire = None /\ v.release = o /\ v.touched = TRUE /\ v.consumed = TRUE
  BY <1>1 DEF WsiType, Slot
<1>2. ASSUME NEW w \in WsiType, NEW v, v = [w EXCEPT !.release = None]
      PROVE  /\ v \in WsiType /\ v.acquire = w.acquire /\ v.release = None /\ v.touched = w.touched
             /\ v.consumed = w.consumed
  BY <1>2 DEF WsiType, Slot
<1>3. ASSUME NEW x \in ImageType
      PROVE  /\ [x EXCEPT !.sem = None] \in ImageType
             /\ [x EXCEPT !.sem = None].state = x.state /\ [x EXCEPT !.sem = None].sem = None
             /\ [x EXCEPT !.state = "presenting"] \in ImageType
             /\ [x EXCEPT !.state = "presenting"].state = "presenting"
             /\ [x EXCEPT !.state = "presenting"].sem = x.sem
  BY <1>3 DEF ImageType
<1>4. /\ NoImage \in ImageType /\ Free \in ImageType
      /\ NoImage.state = "gone" /\ Free.state = "engine" /\ NoImage.sem = None /\ Free.sem = None
  BY DEF NoImage, Free, ImageType
<1> QED BY <1>1, <1>2, <1>3, <1>4

\* The places of a handle, one by one.
LEMMA SpotIs ==
  ASSUME NEW s, NEW x
  PROVE  x \in Spots(s) <=>
           \/ x = <<"vacant", 0>> /\ s \in vacant
           \/ \E f \in FrameIds : x = <<"recycled", f>> /\ s \in recycled[f]
           \/ \E f \in FrameIds : x = <<"destroyed", f>> /\ s \in destroyed[f]
           \/ \E i \in DOMAIN release_semaphores :
                x = <<"held", i>> /\ IsOf(release_semaphores[i], s)
           \/ x = <<"acquire", 0>> /\ IsOf(wsi.acquire, s)
           \/ x = <<"release", 0>> /\ IsOf(wsi.release, s)
           \/ x = <<"local", 0>> /\ IsOf(local, s) /\ local \notin Held
BY DEF Spots

LEMMA SpotIsNext ==
  ASSUME NEW s, NEW x
  PROVE  x \in Spots(s)' <=>
           \/ x = <<"vacant", 0>> /\ s \in vacant'
           \/ \E f \in FrameIds : x = <<"recycled", f>> /\ s \in recycled'[f]
           \/ \E f \in FrameIds : x = <<"destroyed", f>> /\ s \in destroyed'[f]
           \/ \E i \in DOMAIN release_semaphores' :
                x = <<"held", i>> /\ IsOf(release_semaphores'[i], s)
           \/ x = <<"acquire", 0>> /\ IsOf(wsi'.acquire, s)
           \/ x = <<"release", 0>> /\ IsOf(wsi'.release, s)
           \/ x = <<"local", 0>> /\ IsOf(local', s) /\ local' \notin Held'
BY DEF Spots, IsOf

-----------------------------------------------------------------------------
(* One handle: its signal, its wait and the place where it is kept.        *)

NoBatchWaits(s) == \A k \in DOMAIN queue : s \notin queue[k].waits
NoBatchSignals(s) == \A k \in DOMAIN queue : s \notin queue[k].signals

\* What a step must not do to the signal and the wait of a handle that stays
\* where it is.
Keeps(s) ==
    /\ SignalledOnce(s)' /\ AwaitedOnce(s)' /\ (Awaited(s)' => Promised(s)')
    /\ ~Promised(s) => ~Promised(s)'
    /\ ~Awaited(s) => ~Awaited(s)'
    /\ Balanced(s) => Balanced(s)'
    /\ Armed(s) => Armed(s)'
    /\ \A f \in FrameIds : AwaitedIn(s, f) => AwaitedIn(s, f)'
    /\ NoBatchWaits(s) => NoBatchWaits(s)'
    /\ NoBatchSignals(s) => NoBatchSignals(s)'
    /\ \A p \in presents' : p.sem = s => p \in presents

StaysIn(s) ==
    /\ s \in vacant' => s \in vacant
    /\ s \in created => s \in created'
    /\ \A f \in FrameIds :
         /\ s \in recycled'[f] => s \in recycled[f] /\ (Draining => Draining')
         /\ s \in destroyed'[f] => s \in destroyed[f] /\ (Draining => Draining')
    /\ \A i \in DOMAIN release_semaphores' : IsOf(release_semaphores'[i], s) =>
         i \in DOMAIN release_semaphores /\ release_semaphores[i] = release_semaphores'[i]
    /\ IsOf(wsi'.acquire, s) => IsOf(wsi.acquire, s)
    /\ IsOf(wsi'.release, s) => IsOf(wsi.release, s)
    /\ IsOf(local', s) => IsOf(local, s)
    /\ IsOf(local', s) /\ local' \notin Held' => local \notin Held

LEMMA StaysPut ==
  ASSUME NEW s \in Handles, HandleInv(s), Keeps(s), StaysIn(s)
  PROVE  HandleInv(s)'
<1>1. \A x : x \in Spots(s)' => x \in Spots(s)
  BY SpotIs, SpotIsNext DEF StaysIn
<1>2. KeptOnce(s)'
  <2>1. KeptOnce(s) /\ (s \in created => s \in created') BY DEF HandleInv, StaysIn
  <2> QED BY <1>1, <2>1 DEF KeptOnce
<1>3. Meaning(s) BY DEF HandleInv
<1>4. s \in vacant' \/ s \notin created' => ~Promised(s)' BY <1>3 DEF Meaning, StaysIn, Keeps
<1>5. ASSUME NEW f \in FrameIds
      PROVE  /\ s \in recycled'[f] => Balanced(s)' /\ (Draining' \/ AwaitedIn(s, f)')
             /\ s \in destroyed'[f] => ~Awaited(s)' /\ (Draining' \/ NoBatchSignals(s)')
  <2>1. /\ s \in recycled[f] => Balanced(s) /\ (Draining \/ AwaitedIn(s, f))
        /\ s \in destroyed[f] => ~Awaited(s) /\ (Draining \/ NoBatchSignals(s))
    BY <1>3 DEF Meaning, NoBatchSignals
  <2> QED BY <2>1 DEF StaysIn, Keeps
<1>6. ASSUME NEW i \in DOMAIN release_semaphores', IsOf(release_semaphores'[i], s)
      PROVE  /\ ~release_semaphores'[i].signalled /\ Balanced(s)' /\ NoBatchWaits(s)'
             /\ \A p \in presents' : p.sem = s => p.image = i
  <2>1. i \in DOMAIN release_semaphores /\ release_semaphores[i] = release_semaphores'[i]
    BY <1>6 DEF StaysIn
  <2>2. /\ ~release_semaphores[i].signalled /\ Balanced(s) /\ NoBatchWaits(s)
        /\ \A p \in presents : p.sem = s => p.image = i
    BY <1>3, <1>6, <2>1 DEF Meaning, NoBatchWaits
  <2> QED BY <2>1, <2>2 DEF Keeps
<1>7. IsOf(wsi'.acquire, s) \/ IsOf(wsi'.release, s) => Armed(s)'
  BY <1>3 DEF Meaning, StaysIn, Keeps
<1>8. IsOf(local', s) => Balanced(s)' BY <1>3 DEF Meaning, StaysIn, Keeps
<1>9. Meaning(s)'
  BY <1>4, <1>5, <1>6, <1>7, <1>8 DEF Meaning, NoBatchSignals, NoBatchWaits, IsOf
<1> QED BY <1>2, <1>9 DEF HandleInv, Keeps

\* The handle is kept at x or nowhere.
LivesAt(s, x) ==
    /\ s \in vacant => x = <<"vacant", 0>>
    /\ \A f \in FrameIds : /\ s \in recycled[f] => x = <<"recycled", f>>
                           /\ s \in destroyed[f] => x = <<"destroyed", f>>
    /\ \A i \in DOMAIN release_semaphores : IsOf(release_semaphores[i], s) => x = <<"held", i>>
    /\ IsOf(wsi.acquire, s) => x = <<"acquire", 0>>
    /\ IsOf(wsi.release, s) => x = <<"release", 0>>
    /\ IsOf(local, s) /\ local \notin Held => x = <<"local", 0>>

LEMMA LivesAtSpot ==
  ASSUME NEW s, KeptOnce(s), NEW x
  PROVE  x \in Spots(s) => LivesAt(s, x) /\ s \in created
<1>1. \A y, z \in Spots(s) : y = z BY DEF KeptOnce
<1>2. SUFFICES ASSUME x \in Spots(s) PROVE LivesAt(s, x)
  BY DEF KeptOnce
<1>3. \A y : y \in Spots(s) => x = y BY <1>1, <1>2
<1> QED BY <1>3, SpotIs DEF LivesAt

\* The same for a handle that can be given out.
LEMMA FreshHandle ==
  ASSUME NEW s, HandleInv(s), s \in vacant \/ s \notin created
  PROVE  LivesAt(s, <<"vacant", 0>>) /\ ~Promised(s) /\ ~Awaited(s)
<1>1. ~Promised(s) /\ ~Awaited(s) BY DEF HandleInv, Meaning
<1>2. KeptOnce(s) BY DEF HandleInv
<1>3. CASE s \in vacant
  <2>1. <<"vacant", 0>> \in Spots(s) BY <1>3, SpotIs
  <2> QED BY <1>1, <1>2, <2>1, LivesAtSpot
<1>4. CASE s \notin created
  <2>1. Spots(s) = {} BY <1>2, <1>4 DEF KeptOnce
  <2>2. \A x : x \notin Spots(s) BY <2>1
  <2>3. LivesAt(s, <<"vacant", 0>>) BY <2>2, SpotIs DEF LivesAt
  <2> QED BY <1>1, <2>3
<1> QED BY <1>1, <1>3, <1>4

\* A handle that is now kept at x, or nowhere.
LEMMA MovesTo ==
  ASSUME NEW s \in Handles, NEW x, LivesAt(s, x)',
         s \in created' \/ (x = <<"nowhere", 0>> /\ ~Promised(s)'),
         SignalledOnce(s)', AwaitedOnce(s)', Awaited(s)' => Promised(s)',
         x = <<"vacant", 0>> => ~Promised(s)',
         \A f \in FrameIds :
           /\ x = <<"recycled", f>> => Balanced(s)' /\ (Draining' \/ AwaitedIn(s, f)')
           /\ x = <<"destroyed", f>> => ~Awaited(s)' /\ (Draining' \/ NoBatchSignals(s)'),
         \A i \in DOMAIN release_semaphores' :
           x = <<"held", i>> /\ IsOf(release_semaphores'[i], s) =>
             /\ ~release_semaphores'[i].signalled /\ Balanced(s)' /\ NoBatchWaits(s)'
             /\ \A p \in presents' : p.sem = s => p.image = i,
         x \in {<<"acquire", 0>>, <<"release", 0>>} => Armed(s)',
         IsOf(local', s) => Balanced(s)'
  PROVE  HandleInv(s)'
<1>1. \A y : y \in Spots(s)' => y = x
  BY SpotIsNext DEF LivesAt, IsOf
<1>2. KeptOnce(s)'
  <2>1. x = <<"nowhere", 0>> => Spots(s)' = {} BY <1>1, SpotIsNext
  <2> QED BY <1>1, <2>1 DEF KeptOnce
<1>3. /\ s \in vacant' => x = <<"vacant", 0>>
      /\ \A f \in FrameIds : /\ s \in recycled'[f] => x = <<"recycled", f>>
                             /\ s \in destroyed'[f] => x = <<"destroyed", f>>
      /\ \A i \in DOMAIN release_semaphores' : IsOf(release_semaphores'[i], s) => x = <<"held", i>>
      /\ IsOf(wsi'.acquire, s) => x = <<"acquire", 0>>
      /\ IsOf(wsi'.release, s) => x = <<"release", 0>>
  BY DEF LivesAt, IsOf
<1>4. s \in vacant' \/ s \notin created' => ~Promised(s)' BY <1>3
<1>5. ASSUME NEW f \in FrameIds
      PROVE  /\ s \in recycled'[f] => Balanced(s)' /\ (Draining' \/ AwaitedIn(s, f)')
             /\ s \in destroyed'[f] => ~Awaited(s)' /\ (Draining' \/ NoBatchSignals(s)')
  BY <1>3
<1>6. ASSUME NEW i \in DOMAIN release_semaphores', IsOf(release_semaphores'[i], s)
      PROVE  /\ ~release_semaphores'[i].signalled /\ Balanced(s)' /\ NoBatchWaits(s)'
             /\ \A p \in presents' : p.sem = s => p.image = i
  BY <1>3, <1>6
<1>7. IsOf(wsi'.acquire, s) \/ IsOf(wsi'.release, s) => Armed(s)' BY <1>3
<1>8. Meaning(s)'
  BY <1>4, <1>5, <1>6, <1>7 DEF Meaning, NoBatchSignals, NoBatchWaits, IsOf
<1> QED BY <1>2, <1>8 DEF HandleInv

\* The batches stay, and the new ones do not use the handle.
Grown(s) ==
    /\ \A k \in DOMAIN queue : k \in DOMAIN queue' /\ queue'[k] = queue[k]
    /\ \A k \in DOMAIN queue' :
         k \in DOMAIN queue \/ (s \notin queue'[k].waits /\ s \notin queue'[k].signals)

\* The other facts about the use of a handle.
SameElsewhere(s) ==
    /\ s \in signals' <=> s \in signals
    /\ s \in acquiring' <=> s \in acquiring
    /\ \A p : p.sem = s => (p \in presents' <=> p \in presents)

LEMMA KeepsFrom ==
  ASSUME NEW s \in Handles, HandleInv(s), Grown(s), SameElsewhere(s)
  PROVE  Keeps(s) /\ (Promised(s)' <=> Promised(s)) /\ (Awaited(s)' <=> Awaited(s))
<1>1. Promised(s)' <=> Promised(s) BY DEF Promised, Grown, SameElsewhere
<1>2. Awaited(s)' <=> Awaited(s) BY DEF Awaited, Grown, SameElsewhere
<1>3. SignalledOnce(s)'
  <2>1. SignalledOnce(s) BY DEF HandleInv
  <2> QED BY <2>1 DEF SignalledOnce, Grown, SameElsewhere
<1>4. AwaitedOnce(s)'
  <2>1. AwaitedOnce(s) BY DEF HandleInv
  <2> QED BY <2>1 DEF AwaitedOnce, Grown, SameElsewhere
<1>5. \A f \in FrameIds : AwaitedIn(s, f) => AwaitedIn(s, f)'
  BY DEF AwaitedIn, Grown, SameElsewhere
<1>6. NoBatchWaits(s) => NoBatchWaits(s)' BY DEF NoBatchWaits, Grown
<1>7. NoBatchSignals(s) => NoBatchSignals(s)' BY DEF NoBatchSignals, Grown
<1>8. \A p \in presents' : p.sem = s => p \in presents BY DEF SameElsewhere
<1>9. Awaited(s) => Promised(s) BY DEF HandleInv
<1> QED BY <1>1, <1>2, <1>3, <1>4, <1>5, <1>6, <1>7, <1>8, <1>9 DEF Keeps, Balanced, Armed

LEMMA StaysFrom ==
  ASSUME NEW s \in Handles, HandleInv(s), Grown(s), SameElsewhere(s), StaysIn(s)
  PROVE  HandleInv(s)'
BY KeepsFrom, StaysPut

-----------------------------------------------------------------------------
(* What a submission does.                                                 *)

\* New batches, if any, neither wait nor signal nor draw.
Longer ==
    /\ queue' \in Seq(BatchType) /\ Len(queue) <= Len(queue')
    /\ \A k \in DOMAIN queue : k \in DOMAIN queue' /\ queue'[k] = queue[k]
    /\ \A k \in DOMAIN queue' : k \in DOMAIN queue \/ queue'[k] = Batch({}, {}, {})

\* The last batch opens the frame: it waits for the acquire semaphore and signals
\* `release'; the other new one is empty.
Opened(release, n) ==
    /\ queue' \in Seq(BatchType) /\ n \in Nat /\ DOMAIN queue' = 1..n /\ n > Len(queue)
    /\ \A k \in DOMAIN queue : k \in DOMAIN queue' /\ queue'[k] = queue[k]
    /\ \A k \in DOMAIN queue' : k \in DOMAIN queue \/ k = n \/ queue'[k] = Batch({}, {}, {})
    /\ queue'[n] = Batch({wsi.acquire.sem}, {release}, {swapchain_index})
    /\ recycled' = [recycled EXCEPT ![frame] = @ \cup {wsi.acquire.sem}]
    /\ wsi' \in WsiType /\ wsi'.acquire = None /\ wsi'.touched = TRUE /\ wsi'.consumed = TRUE
    /\ wsi'.release = [sem |-> release, signalled |-> TRUE]
    /\ Take({release})

LEMMA LongerQueue ==
  ASSUME queue \in Seq(BatchType), frame \in FrameIds,
         queue' = queue \/ queue' = Append(queue, Batch({}, {}, {}))
  PROVE  Longer
<1>1. CASE queue' = queue BY <1>1 DEF Longer
<1>2. CASE queue' = Append(queue, Batch({}, {}, {}))
  <2>1. PICK b \in BatchType : b = Batch({}, {}, {}) BY BatchIn
  <2>2. queue' = Append(queue, b) BY <1>2, <2>1
  <2> QED BY <2>1, <2>2, AppendBatch DEF Longer
<1> QED BY <1>1, <1>2

\* The new last batch is b, any other new one is z.
Extended(b, z, n) ==
    /\ DOMAIN queue' = 1..n /\ n > Len(queue) /\ queue'[n] = b
    /\ \A k \in DOMAIN queue : k \in DOMAIN queue' /\ queue'[k] = queue[k]
    /\ \A k \in DOMAIN queue' : k \in DOMAIN queue \/ k = n \/ queue'[k] = z

LEMMA OpenedQueue ==
  ASSUME queue \in Seq(BatchType), NEW b \in BatchType, NEW e \in Seq(BatchType),
         NEW z \in BatchType, e = <<>> \/ e = <<z>>, queue' = queue \o e \o <<b>>
  PROVE  queue' \in Seq(BatchType) /\ \E n \in Nat : Extended(b, z, n)
<1>1. PICK u \in Seq(BatchType) : u = queue \o e
  <2>1. queue \o e \in Seq(BatchType) OBVIOUS
  <2> QED BY <2>1
<1>2. /\ Len(u) \in Nat /\ Len(queue) \in Nat /\ Len(u) >= Len(queue)
      /\ DOMAIN u = 1..Len(u) /\ DOMAIN queue = 1..Len(queue)
      /\ \A k \in 1..Len(queue) : u[k] = queue[k]
      /\ \A k \in 1..Len(u) : k \in 1..Len(queue) \/ u[k] = z
  BY <1>1
<1>3. PICK n \in Nat : n = Len(u) + 1 BY <1>2
<1>4. /\ queue' \in Seq(BatchType) /\ DOMAIN queue' = 1..n /\ queue'[n] = b
      /\ \A k \in 1..Len(u) : queue'[k] = u[k]
  BY <1>1, <1>3
<1>5. n > Len(queue) BY <1>2, <1>3
<1>6. \A k \in DOMAIN queue : k \in 1..Len(u) /\ k \in 1..n BY <1>2, <1>3
<1>7. \A k \in 1..n : k \in 1..Len(u) \/ k = n BY <1>2, <1>3
<1>8. \A k \in DOMAIN queue : k \in DOMAIN queue' /\ queue'[k] = queue[k]
  BY <1>2, <1>4, <1>6
<1>9. \A k \in DOMAIN queue' : k \in DOMAIN queue \/ k = n \/ queue'[k] = z
  BY <1>2, <1>4, <1>7
<1>10. Extended(b, z, n) BY <1>4, <1>5, <1>8, <1>9 DEF Extended
<1> QED BY <1>4, <1>10

LEMMA EndsFrame ==
  ASSUME TypeOK, Control, FrameSemaphores, EndFrameNolock
  PROVE  /\ pending' = <<>>
         /\ \/ ~Touches /\ UNCHANGED <<wsi, recycled, vacant, created>> /\ Longer
            \/ /\ Touches /\ pc = "frame" /\ has_acquired /\ ~wsi.touched
               /\ wsi.acquire \in Object /\ wsi.acquire.signalled /\ wsi.release = None
               /\ \E release \in Cleared, n \in Nat : Opened(release, n)
<1>1. /\ queue \in Seq(BatchType) /\ frame \in FrameIds /\ wsi \in WsiType
      /\ swapchain_index \in Images /\ created \subseteq Handles /\ vacant \subseteq created
  BY DEF TypeOK, WsiType
<1>2. OpensFrame <=> Touches BY DEF FrameSemaphores, OpensFrame
<1>3. CASE SubmitPlain
  <2>1. ~Touches BY <1>2, <1>3 DEF SubmitPlain
  <2>2. queue' = queue \/ queue' = Append(queue, Batch({}, {}, {}))
    BY <1>3, <2>1 DEF SubmitPlain
  <2>3. Longer BY <1>1, <2>2, LongerQueue
  <2> QED BY <1>3, <2>1, <2>3 DEF SubmitPlain, EndFrameNolock
<1>4. CASE SubmitTouching
  <2>1. Touches BY <1>2, <1>4 DEF SubmitTouching
  <2>2. pc = "frame" /\ has_acquired /\ ~wsi.touched /\ wsi.acquire # None /\ wsi.release = None
    BY <2>1 DEF FrameSemaphores, Control, Running
  <2>3. wsi.acquire \in Object /\ wsi.acquire.signalled /\ wsi.acquire.sem \in Handles
    BY <1>1, <2>2, WsiFields, ObjectFields DEF FrameSemaphores
  <2>4. PICK release \in Cleared, early \in {<<>>, <<Batch({}, {}, {})>>} :
          LET waits == Dropped({wsi.acquire}, TRUE)
          IN /\ queue' = queue \o early \o <<Batch(waits, {release}, {swapchain_index})>>
             /\ recycled' = [recycled EXCEPT ![frame] = @ \cup waits]
             /\ wsi' = [wsi EXCEPT !.acquire = None, !.touched = TRUE, !.consumed = TRUE,
                                   !.release = [sem |-> release, signalled |-> TRUE]]
             /\ Take({release})
    BY <1>4 DEF SubmitTouching
  <2>5. Dropped({wsi.acquire}, TRUE) = {wsi.acquire.sem}
    BY <2>2, <2>3 DEF Dropped
  <2>6. release \in Handles BY <1>1, ClearedIn
  <2>7. PICK r \in Object : r = [sem |-> release, signalled |-> TRUE] BY <2>6, ObjectFields
  <2>8. /\ wsi' \in WsiType /\ wsi'.acquire = None /\ wsi'.release = r
        /\ wsi'.touched = TRUE /\ wsi'.consumed = TRUE
    <3>1. wsi' = [wsi EXCEPT !.acquire = None, !.touched = TRUE, !.consumed = TRUE, !.release = r]
      BY <2>4, <2>7
    <3> QED BY <1>1, <3>1, RecordsKept DEF Slot
  <2>9. PICK b \in BatchType : b = Batch({wsi.acquire.sem}, {release}, {swapchain_index})
    BY <1>1, <2>3, <2>6, BatchIn
  <2>10. PICK z \in BatchType : z = Batch({}, {}, {}) BY <1>1, BatchIn
  <2>11. PICK e \in Seq(BatchType) : e = early /\ (e = <<>> \/ e = <<z>>)
    <3>1. <<>> \in Seq(BatchType) /\ <<z>> \in Seq(BatchType) OBVIOUS
    <3> QED BY <2>4, <2>10, <3>1
  <2>12. queue' = queue \o e \o <<b>> BY <2>4, <2>5, <2>9, <2>11
  <2>13. PICK n \in Nat : Extended(b, z, n)
    BY <1>1, <2>11, <2>12, OpenedQueue
  <2>14. queue' \in Seq(BatchType) BY <1>1, <2>11, <2>12, OpenedQueue
  <2>15. Opened(release, n)
    BY <2>4, <2>5, <2>7, <2>8, <2>9, <2>10, <2>13, <2>14 DEF Opened, Extended
  <2> QED BY <2>1, <2>2, <2>3, <2>15 DEF EndFrameNolock
<1> QED BY <1>3, <1>4 DEF EndFrameNolock

-----------------------------------------------------------------------------
(* Types.                                                                  *)

FrameLists == [FrameIds -> SUBSET Handles]

LEMMA Collects ==
  ASSUME NEW r \in FrameLists, NEW f \in FrameIds, NEW X \in SUBSET Handles
  PROVE  LET q == [r EXCEPT ![f] = @ \cup X]
         IN /\ q \in FrameLists /\ q[f] = r[f] \cup X
            /\ \A g \in FrameIds : g # f => q[g] = r[g]
BY DEF FrameLists

\* A handle on a list of some frame is known and on no other list.
LEMMA ListsApart ==
  ASSUME NEW s, KeptOnce(s), NEW f \in FrameIds
  PROVE  /\ s \in recycled[f] \/ s \in vacant \/ s \in destroyed[f] => s \in created
         /\ s \in recycled[f] \/ s \in vacant => \A g \in FrameIds : s \notin destroyed[g]
         /\ s \in vacant => s \notin recycled[f]
<1>1. /\ s \in vacant => <<"vacant", 0>> \in Spots(s)
      /\ \A g \in FrameIds : s \in recycled[g] => <<"recycled", g>> \in Spots(s)
      /\ \A g \in FrameIds : s \in destroyed[g] => <<"destroyed", g>> \in Spots(s)
  BY SpotIs
<1>2. \A x, y \in Spots(s) : x = y BY DEF KeptOnce
<1>3. \A g, h : /\ <<"vacant", 0>> # <<"destroyed", g>> /\ <<"recycled", h>> # <<"destroyed", g>>
                /\ <<"vacant", 0>> # <<"recycled", h>>
  OBVIOUS
<1>4. Spots(s) # {} => s \in created BY DEF KeptOnce
<1> QED BY <1>1, <1>2, <1>3, <1>4

LEMMA TypeStep ==
  ASSUME WSIInv, [Next]_vars, Survivable
  PROVE  TypeOK'
<1> USE DEF FrameLists
<1>t. /\ pc \in {"ready", "begin", "acquire", "frame", "present",
                 "update", "updating", "teardown", "tearing", "init"}
      /\ caller \in {"nobody", "begin", "acquire", "update", "present", "deinit"}
      /\ surface \in BOOLEAN /\ swapchain \in BOOLEAN /\ has_acquired \in BOOLEAN
      /\ swapchain_index \in Images
      /\ release_semaphores = <<>> \/ release_semaphores \in [Images -> Slot]
      /\ local \in Slot /\ retries \in 0..3
      /\ settings \in [wanted : BOOLEAN, current : BOOLEAN] /\ expensive \in BOOLEAN
      /\ wsi \in WsiType /\ frame \in FrameIds
      /\ recycled \in FrameLists /\ destroyed \in FrameLists
      /\ vacant \subseteq created /\ created \subseteq Handles
      /\ pending \in Seq(BOOLEAN) /\ Len(pending) <= MaxCommands
      /\ queue \in Seq(BatchType) /\ presents \subseteq PresentType
      /\ signals \subseteq Handles /\ acquiring \subseteq Handles
      /\ image \in [Images -> ImageType]
  BY DEF WSIInv, TypeOK, WsiType
<1>k. TypeOK /\ Control /\ FrameSemaphores /\ \A s \in Handles : KeptOnce(s)
  BY DEF WSIInv, HandleInv
<1>e. ASSUME EndFrameNolock
      PROVE  /\ pending' \in Seq(BOOLEAN) /\ Len(pending') <= MaxCommands
             /\ queue' \in Seq(BatchType) /\ wsi' \in WsiType /\ recycled' \in FrameLists
             /\ vacant' \subseteq created' /\ created' \subseteq Handles
  <2>1. pending' = <<>> /\ <<>> \in Seq(BOOLEAN) /\ Len(<<>>) = 0 /\ MaxCommands \in Nat
    BY <1>e, WSIAssumption DEF EndFrameNolock
  <2>2. CASE UNCHANGED <<wsi, recycled, vacant, created>> /\ Longer
    BY <1>t, <2>1, <2>2 DEF Longer
  <2>3. CASE wsi.acquire \in Object /\ \E release \in Cleared, n \in Nat : Opened(release, n)
    <3>1. PICK release \in Cleared, n \in Nat : Opened(release, n) BY <2>3
    <3>2. release \in Handles /\ {wsi.acquire.sem} \in SUBSET Handles
      BY <1>t, <2>3, ClearedIn, ObjectFields
    <3>3. recycled' \in FrameLists BY <1>t, <3>1, <3>2, Collects DEF Opened
    <3> QED BY <1>t, <2>1, <3>1, <3>2, <3>3 DEF Opened, Take
  <2> QED BY <1>k, <1>e, <2>2, <2>3, EndsFrame
<1>b. ASSUME NEW fs \in SUBSET FrameIds, Begin(fs)
      PROVE  /\ vacant' \subseteq created' /\ created' \subseteq Handles
             /\ signals' \subseteq Handles /\ acquiring' \subseteq Handles
  <2>1. ASSUME NEW s \in vacant' PROVE s \in created'
    <3>1. s \in vacant \/ \E f \in fs : s \in recycled[f] BY <1>b, <2>1 DEF Begin
    <3>2. s \in Handles /\ KeptOnce(s) BY <1>k, <1>t, <3>1
    <3>3. 0 \in FrameIds BY FrameIn
    <3>4. s \in created BY <3>1, <3>2, <3>3, ListsApart
    <3>5. \A g \in FrameIds : s \notin destroyed[g] BY <3>1, <3>2, <3>3, ListsApart
    <3> QED BY <1>b, <3>4, <3>5 DEF Begin
  <2> QED BY <1>b, <1>t, <2>1 DEF Begin
<1>d. ASSUME NEW slots, slots \subseteq Slot, Drop(slots)
      PROVE  recycled' \in FrameLists /\ destroyed' \in FrameLists
  <2>1. Dropped(slots, FALSE) \subseteq Handles /\ Dropped(slots, TRUE) \subseteq Handles
    BY <1>d, DroppedIn
  <2> QED BY <1>d, <1>t, <2>1, Collects DEF Drop
<1>h. Held \subseteq Slot BY <1>t DEF Held
<1>n. None \in Slot BY DEF Slot
<1> HIDE DEF FrameLists
<1>s. /\ wsi.acquire \in Slot /\ wsi.release \in Slot
  BY <1>t, WsiFields
<1>w. WsiType = [acquire : Slot, release : Slot, touched : BOOLEAN, consumed : BOOLEAN]
  BY DEF WsiType
<1>l. FrameLists = [FrameIds -> SUBSET Handles] BY DEF FrameLists
<1>1. ASSUME NEW uses \in BOOLEAN, Record(uses) PROVE TypeOK'
  <2>1. pending' \in Seq(BOOLEAN) /\ Len(pending') <= MaxCommands
    BY <1>1, <1>t, WSIAssumption DEF Record
  <2> QED BY <1>1, <2>1, <1>t, <1>w, <1>l DEF Record, TypeOK, wsiVars, frameVars, gpuVars
<1>2. CASE FlushFrame
  BY <1>2, <1>e, <1>t, <1>w, <1>l DEF FlushFrame, TypeOK, wsiVars
<1>3. ASSUME NEW mode \in BOOLEAN, SetPresentMode(mode) PROVE TypeOK'
  <2>1. settings' \in [wanted : BOOLEAN, current : BOOLEAN] BY <1>3, <1>t DEF SetPresentMode
  <2> QED BY <1>3, <2>1, <1>t, <1>w, <1>l DEF SetPresentMode, TypeOK, frameVars, gpuVars
<1>4. CASE DeinitSurfaceAndSwapchain \/ InitSurfaceAndSwapchain
  BY <1>4, <1>t, <1>w, <1>l DEF DeinitSurfaceAndSwapchain, InitSurfaceAndSwapchain, TypeOK, wsiVars,
     frameVars, gpuVars
<1>5. CASE BeginFrame
  BY <1>5, <1>e, <1>t, <1>w, <1>l, FrameIn DEF BeginFrame, TypeOK, wsiVars
<1>6. CASE FrameBegins
  <2>1. /\ vacant' \subseteq created' /\ created' \subseteq Handles
        /\ signals' \subseteq Handles /\ acquiring' \subseteq Handles
    BY <1>6, <1>b, <1>t DEF FrameBegins
  <2>2. recycled' \in FrameLists /\ destroyed' \in FrameLists
    BY <1>6, <1>t, <1>l DEF FrameBegins
  <2>3. /\ pc' \in {"ready", "begin", "acquire", "frame", "present",
                    "update", "updating", "teardown", "tearing", "init"}
        /\ caller' \in {"nobody", "begin", "acquire", "update", "present", "deinit"}
    BY <1>6, <1>t DEF FrameBegins
  <2> QED BY <1>6, <2>1, <2>2, <2>3, <1>t, <1>w, <1>l DEF FrameBegins, TypeOK, wsiVars
<1>7. CASE AcquireSucceeds
  <2>1. PICK i \in Images, s \in Cleared :
          /\ image[i].state = "engine"
          /\ image' = [image EXCEPT ![i] = [state |-> "acquired", sem |-> s]]
          /\ acquiring' = acquiring \cup {s}
          /\ swapchain_index' = i
          /\ destroyed' = [destroyed EXCEPT ![frame] = @ \cup Dropped({wsi.acquire}, TRUE)]
          /\ IF expensive
             THEN \E t \in (IF vacant \ {s} # {} THEN vacant ELSE Handles \ created) \ {s} :
                    /\ queue' = Append(queue, Batch({s}, {t}, {i}))
                    /\ recycled' = [recycled EXCEPT ![frame] = @ \cup {s}]
                    /\ wsi' = Reset([sem |-> t, signalled |-> TRUE])
                    /\ Take({s, t})
             ELSE /\ wsi' = Reset([sem |-> s, signalled |-> TRUE])
                  /\ Take({s})
                  /\ UNCHANGED <<queue, recycled>>
    BY <1>7 DEF AcquireSucceeds
  <2>2. s \in Handles /\ {s} \in SUBSET Handles
    <3>1. s \in Handles BY <1>t, ClearedIn
    <3> QED BY <3>1
  <2>3. destroyed' \in FrameLists
    <3>1. Dropped({wsi.acquire}, TRUE) \subseteq Handles BY <1>s, DroppedIn
    <3> QED BY <2>1, <3>1, <1>t, Collects
  <2>4. image' \in [Images -> ImageType]
    <3>1. [state |-> "acquired", sem |-> s] \in ImageType BY <2>2 DEF ImageType
    <3> QED BY <2>1, <3>1, <1>t
  <2>5. /\ queue' \in Seq(BatchType) /\ recycled' \in FrameLists /\ wsi' \in WsiType
        /\ vacant' \subseteq created' /\ created' \subseteq Handles
    <3>1. CASE expensive
      <4>1. PICK t \in Handles :
               /\ queue' = Append(queue, Batch({s}, {t}, {i}))
               /\ recycled' = [recycled EXCEPT ![frame] = @ \cup {s}]
               /\ wsi' = Reset([sem |-> t, signalled |-> TRUE])
               /\ Take({s, t})
        BY <2>1, <3>1, <1>t
      <4>2. Batch({s}, {t}, {i}) \in BatchType
        <5>1. {t} \in SUBSET Handles /\ {i} \in SUBSET Images BY <2>1, <4>1
        <5> QED BY <2>2, <5>1, <1>t, BatchIn
      <4>3. queue' \in Seq(BatchType) BY <4>1, <4>2, <1>t
      <4>4. recycled' \in FrameLists BY <2>2, <4>1, <1>t, Collects
      <4>5. wsi' \in WsiType
        <5>1. [sem |-> t, signalled |-> TRUE] \in Slot BY ObjectFields DEF Slot
        <5> QED BY <4>1, <5>1, <1>t, ResetIs
      <4> QED BY <2>2, <4>1, <4>3, <4>4, <4>5, <1>t DEF Take
    <3>2. CASE ~expensive
      <4>1. [sem |-> s, signalled |-> TRUE] \in Slot BY <2>2, ObjectFields DEF Slot
      <4>2. wsi' \in WsiType BY <2>1, <3>2, <4>1, <1>t, ResetIs
      <4> QED BY <2>1, <2>2, <3>2, <4>2, <1>t DEF Take
    <3> QED BY <3>1, <3>2
  <2> QED
    BY <1>7, <2>1, <2>2, <2>3, <2>4, <2>5, <1>t, <1>w, <1>l DEF AcquireSucceeds, TypeOK
<1>8. CASE AcquireRejected
  <2>1. PICK s \in Cleared : Take({s}) /\ local' = [sem |-> s, signalled |-> FALSE]
                             /\ UNCHANGED <<acquiring, image>>
    BY <1>8 DEF AcquireRejected, Survivable
  <2>2. s \in Handles /\ local' \in Slot
    <3>1. s \in Handles BY <1>t, ClearedIn
    <3> QED BY <2>1, <3>1, ObjectFields DEF Slot
  <2>3. vacant' \subseteq created' /\ created' \subseteq Handles BY <2>1, <2>2, <1>t DEF Take
  <2> QED BY <1>8, <2>1, <2>2, <2>3, <1>t, <1>w, <1>l DEF AcquireRejected, TypeOK
<1>9. CASE AcquireFails
  <2>1. PICK s \in Cleared : Take({s}) /\ recycled' = [recycled EXCEPT ![frame] = @ \cup {s}]
    BY <1>9 DEF AcquireFails
  <2>2. s \in Handles /\ {s} \in SUBSET Handles
    <3>1. s \in Handles BY <1>t, ClearedIn
    <3> QED BY <3>1
  <2>3. vacant' \subseteq created' /\ created' \subseteq Handles BY <2>1, <2>2, <1>t DEF Take
  <2>4. recycled' \in FrameLists BY <2>1, <2>2, <1>t, Collects
  <2> QED BY <1>9, <2>3, <2>4, <1>t, <1>w, <1>l DEF AcquireFails, TypeOK, wsiVars, gpuVars
<1>10. CASE EndFrame
  BY <1>10, <1>e, <1>t, <1>w, <1>l DEF EndFrame, TypeOK, wsiVars
<1>11. CASE NothingToPresent
  BY <1>11, <1>t, <1>w, <1>l DEF NothingToPresent, TypeOK, wsiVars, frameVars, gpuVars
<1>q. ASSUME wsi.touched, pc = "present", Present
      PROVE  /\ wsi.release \in Object /\ wsi.release.signalled /\ wsi.release.sem \in Handles
             /\ swapchain_index \in DOMAIN release_semaphores /\ has_acquired
             /\ presents' \subseteq PresentType /\ image' \in [Images -> ImageType] /\ wsi' \in WsiType
  <2>1. /\ has_acquired /\ wsi.release # None /\ swapchain_index \in DOMAIN release_semaphores
    BY <1>q, <1>k, <1>t DEF Control, FrameSemaphores, Running
  <2>2. wsi.release \in Object /\ wsi.release.signalled /\ wsi.release.sem \in Handles
    BY <2>1, <1>k, <1>t, WsiFields, ObjectFields DEF FrameSemaphores
  <2>3. presents' \subseteq PresentType
    <3>1. [sem |-> wsi.release.sem, image |-> swapchain_index] \in PresentType
      BY <2>2, <1>t DEF PresentType
    <3> QED BY <1>q, <3>1, <1>t DEF Present
  <2>4. image' \in [Images -> ImageType]
    <3>1. [image[swapchain_index] EXCEPT !.state = "presenting"] \in ImageType
      BY <1>t, RecordsKept
    <3> QED BY <1>q, <3>1, <1>t DEF Present
  <2>5. wsi' \in WsiType
    <3>1. wsi' = [wsi EXCEPT !.release = None] BY <1>q DEF Present
    <3> QED BY <3>1, <1>t, RecordsKept
  <2> QED BY <2>1, <2>2, <2>3, <2>4, <2>5
<1>12. CASE PresentSucceeds
  <2>1. Present /\ pc = "present" /\ wsi.touched BY <1>12 DEF PresentSucceeds
  <2>2. PICK release \in Slot : release = [sem |-> wsi.release.sem, signalled |-> FALSE]
    BY <2>1, <1>q, ObjectFields DEF Slot
  <2>3. /\ release_semaphores' = [release_semaphores EXCEPT ![swapchain_index] = release]
        /\ Drop({release_semaphores[swapchain_index]})
        /\ \/ pc' = "update" /\ caller' = "update" /\ local' = release
           \/ pc' = "ready" /\ UNCHANGED <<caller, local>>
    BY <1>12, <2>2 DEF PresentSucceeds
  <2>4. release_semaphores \in [Images -> Slot] BY <2>1, <1>q, <1>t
  <2>5. release_semaphores' \in [Images -> Slot] BY <2>3, <2>4
  <2>6. recycled' \in FrameLists /\ destroyed' \in FrameLists BY <2>3, <2>4, <1>d, <1>t
  <2>7. settings' \in [wanted : BOOLEAN, current : BOOLEAN] BY <1>12, <1>t DEF PresentSucceeds
  <2> QED
    BY <1>12, <2>1, <2>3, <2>5, <2>6, <2>7, <1>q, <1>t, <1>w, <1>l DEF PresentSucceeds, Present, TypeOK
<1>13. CASE PresentFails
  <2>1. Present /\ pc = "present" /\ wsi.touched BY <1>13 DEF PresentFails
  <2> QED BY <1>13, <2>1, <1>q, <1>s, <1>t, <1>w, <1>l DEF PresentFails, Present, TypeOK
<1>14. CASE DrainSwapchain
  <2>1. Drop((Held \cup {wsi.acquire, wsi.release}) \ {local}) BY <1>14 DEF DrainSwapchain
  <2>2. recycled' \in FrameLists /\ destroyed' \in FrameLists BY <2>1, <1>d, <1>h, <1>s
  <2>3. wsi' \in WsiType
    <3>1. Reset(None) \in WsiType BY <1>t, <1>n, ResetIs
    <3>2. wsi' = [Reset(None) EXCEPT !.release = None] BY <1>14 DEF DrainSwapchain
    <3> QED BY <3>1, <3>2, RecordsKept
  <2>4. queue' \in Seq(BatchType)
    <3>1. queue' = queue \/ queue' = Append(queue, Batch({}, {}, {})) BY <1>14 DEF DrainSwapchain
    <3> QED BY <3>1, <1>t, LongerQueue DEF Longer
  <2>5. pending' \in Seq(BOOLEAN) /\ Len(pending') <= MaxCommands
    BY <1>14, WSIAssumption DEF DrainSwapchain
  <2> QED BY <1>14, <2>2, <2>3, <2>4, <2>5, <1>t, <1>w, <1>l DEF DrainSwapchain, TypeOK
<1>a. ASSUME NEW slots, slots \subseteq Slot, BeginAll(slots)
      PROVE  /\ recycled' \in FrameLists /\ destroyed' \in FrameLists
             /\ vacant' \subseteq created' /\ created' \subseteq Handles
             /\ signals' \subseteq Handles /\ acquiring' \subseteq Handles
  <2>1. DOMAIN recycled = FrameIds /\ DOMAIN destroyed = FrameIds BY <1>t, <1>l
  <2>2. Begin(FrameIds) BY <1>a, <2>1 DEF BeginAll
  <2>3. Dropped(slots, FALSE) \subseteq Handles /\ Dropped(slots, TRUE) \subseteq Handles
    BY <1>a, DroppedIn
  <2>4. recycled' \in FrameLists /\ destroyed' \in FrameLists
    BY <1>a, <2>1, <2>3, <1>l DEF BeginAll
  <2> QED BY <2>2, <2>4, <1>b
<1>15. CASE Updated
  BY <1>15, <1>a, <1>t, <1>w, <1>l DEF Updated, TypeOK
<1>16. CASE TornDown
  <2>1. BeginAll({local}) \/ BeginAll({}) BY <1>16 DEF TornDown
  <2>2. image' \in [Images -> ImageType] BY <1>16, RecordsKept DEF TornDown
  <2>3. local' \in Slot BY <1>16, <1>t, <1>n DEF TornDown
  <2> QED BY <1>16, <2>1, <2>2, <2>3, <1>a, <1>t, <1>w, <1>l DEF TornDown, TypeOK
<1>i. ASSUME NEW success \in BOOLEAN, InitReturns(success)
      PROVE  /\ pc' \in {"acquire", "ready"} /\ caller' = "nobody" /\ local' \in Slot /\ retries' \in 0..3
             /\ recycled' \in FrameLists /\ destroyed' \in FrameLists
  BY <1>i, <1>d, <1>t, <1>n DEF InitReturns
<1>17. CASE InitSucceeds
  <2>1. image' \in [Images -> ImageType] /\ release_semaphores' \in [Images -> Slot]
    BY <1>17, <1>n, RecordsKept DEF InitSucceeds
  <2>2. wsi' \in WsiType BY <1>17, <1>s, <1>t, ResetIs DEF InitSucceeds
  <2>3. InitReturns(TRUE) BY <1>17 DEF InitSucceeds
  <2> QED BY <1>17, <2>1, <2>2, <2>3, <1>i, <1>t, <1>w, <1>l DEF InitSucceeds, TypeOK
<1>18. CASE InitFails
  <2>1. swapchain' \in BOOLEAN /\ has_acquired' \in BOOLEAN /\ image' \in [Images -> ImageType]
    <3>1. FailsEarly \/ FailsToCreate BY <1>18 DEF InitFails, FailsToQuery, Survivable
    <3>2. CASE FailsEarly BY <3>2, <1>t DEF FailsEarly
    <3>3. CASE FailsToCreate BY <3>3, RecordsKept DEF FailsToCreate
    <3> QED BY <3>1, <3>2, <3>3
  <2>2. /\ pc' \in {"acquire", "ready", "teardown"} /\ local' \in Slot /\ retries' \in 0..3
        /\ caller' \in {"nobody", "begin", "acquire", "update", "present", "deinit"}
        /\ recycled' \in FrameLists /\ destroyed' \in FrameLists
    <3>1. CASE RetriesLeft
      <4>1. retries' = retries + 1 /\ retries + 1 <= 3 BY <1>18, <3>1 DEF InitFails, RetriesLeft
      <4>2. retries' \in 0..3 BY <4>1, <1>t
      <4> QED BY <1>18, <3>1, <4>2, <1>t DEF InitFails
    <3>2. CASE ~RetriesLeft
      <4>1. InitReturns(FALSE) BY <1>18, <3>2 DEF InitFails
      <4> QED BY <4>1, <1>i
    <3> QED BY <3>1, <3>2
  <2> QED BY <1>18, <2>1, <2>2, <1>t, <1>w, <1>l DEF InitFails, TypeOK
<1>19. CASE ExecuteBatch
  <2>1. queue' \in Seq(BatchType) BY <1>19, <1>t, TailBatch DEF ExecuteBatch
  <2>2. Head(queue).signals \subseteq Handles BY <1>19, <1>t, TailBatch, QueueType DEF ExecuteBatch
  <2>3. signals' \subseteq Handles BY <1>19, <2>2, <1>t DEF ExecuteBatch
  <2>4. image' \in [Images -> ImageType]
    <3>1. \A i \in Images : [image[i] EXCEPT !.sem = None] \in ImageType BY <1>t, RecordsKept
    <3> QED BY <1>19, <3>1, <1>t DEF ExecuteBatch
  <2> QED
    BY <1>19, <2>1, <2>3, <2>4, <1>t, <1>w, <1>l DEF ExecuteBatch, TypeOK, wsiVars, frameVars
<1>20. CASE ExecutePresent
  <2>1. image' \in [Images -> ImageType]
    <3>1. PICK p \in presents : image' = [image EXCEPT ![p.image] = Free] BY <1>20 DEF ExecutePresent
    <3>2. p.image \in Images BY <1>t DEF PresentType
    <3> QED BY <3>1, <3>2, <1>t, RecordsKept
  <2>2. signals' \subseteq Handles /\ presents' \subseteq PresentType BY <1>20, <1>t DEF ExecutePresent
  <2> QED BY <1>20, <2>1, <2>2, <1>t, <1>w, <1>l DEF ExecutePresent, TypeOK, wsiVars, frameVars
<1>21. CASE SignalAcquire
  BY <1>21, <1>t, <1>w, <1>l DEF SignalAcquire, TypeOK, wsiVars, frameVars
<1>22. CASE UNCHANGED vars
  BY <1>22, <1>t, <1>w, <1>l DEF vars, TypeOK, wsiVars, frameVars, gpuVars
<1>23. CASE \E uses \in BOOLEAN : Record(uses) BY <1>1, <1>23
<1>24. CASE \E mode \in BOOLEAN : SetPresentMode(mode) BY <1>3, <1>24
<1> QED
  BY <1>2, <1>4, <1>5, <1>6, <1>7, <1>8, <1>9, <1>10, <1>11, <1>12, <1>13, <1>14, <1>15,
     <1>16, <1>17, <1>18, <1>19, <1>20, <1>21, <1>22, <1>23, <1>24 DEF Next

-----------------------------------------------------------------------------
(* Control and the semaphores of the frame.                                *)

LEMMA ControlStep ==
  ASSUME WSIInv, TypeOK', [Next]_vars, Survivable
  PROVE  Control' /\ FrameSemaphores'
<1>t. /\ swapchain_index \in Images /\ local \in Slot /\ retries \in 0..3
      /\ wsi \in WsiType /\ wsi' \in WsiType /\ frame \in FrameIds
      /\ swapchain \in BOOLEAN /\ has_acquired \in BOOLEAN /\ surface \in BOOLEAN
      /\ created \subseteq Handles /\ vacant \subseteq created
      /\ pending \in Seq(BOOLEAN) /\ queue \in Seq(BatchType) /\ image \in [Images -> ImageType]
      /\ presents \subseteq PresentType
      /\ release_semaphores = <<>> \/ release_semaphores \in [Images -> Slot]
  BY DEF WSIInv, TypeOK, WsiType
<1>c. TypeOK /\ Control /\ FrameSemaphores BY DEF WSIInv
<1>o. \A s \in Handles, b \in BOOLEAN : [sem |-> s, signalled |-> b] # None
                                        /\ [sem |-> s, signalled |-> b].signalled = b
  BY ObjectFields
<1>p. pending' = <<>> => ~Touches'
  BY DEF Touches
<1>1. ASSUME NEW uses \in BOOLEAN, Record(uses) PROVE Control' /\ FrameSemaphores'
  <2>1. /\ pending' = Append(pending, uses) /\ (uses => pc = "frame" /\ ~wsi.touched)
        /\ pc \in {"ready", "frame"}
        /\ UNCHANGED <<pc, caller, wsiVars, local, expensive, wsi, frameVars, gpuVars>>
    BY <1>1 DEF Record
  <2>2. Touches' => pc = "frame" /\ ~wsi.touched
    <3>1. Touches' => Touches \/ uses BY <2>1, <1>t DEF Touches
    <3> QED BY <2>1, <3>1, <1>c DEF FrameSemaphores
  <2>3. Control' BY <2>1, <1>c DEF Control, Running, wsiVars, gpuVars
  <2> QED BY <2>1, <2>2, <2>3, <1>c DEF FrameSemaphores, wsiVars, Running
<1>e. ASSUME EndFrameNolock, pc \in Running, pc' \in Running \ {"acquire"},
             pc = "frame" => pc' \in {"frame", "present"}, pc \notin {"frame", "present"} => pc' \in {pc, "begin"},
             pc = "present" => pc' = "present", UNCHANGED <<caller, wsiVars, local, image>>
      PROVE  Control' /\ FrameSemaphores'
  <2>1. pending' = <<>> BY <1>e DEF EndFrameNolock
  <2>2. Control' BY <1>e, <1>c DEF Control, Running, wsiVars
  <2>3. CASE ~Touches /\ UNCHANGED <<wsi, recycled, vacant, created>> /\ Longer
    <3>1. ~Touches' BY <2>1, <1>p
    <3>2. wsi' = wsi /\ has_acquired' = has_acquired BY <1>e, <2>3 DEF wsiVars
    <3>3. pc \in {"frame", "present"} => pc' \in {"frame", "present"}
      BY <1>e
    <3>4. FrameSemaphores' BY <1>e, <3>1, <3>2, <3>3, <1>c DEF FrameSemaphores
    <3> QED BY <2>2, <3>4
  <2>4. CASE /\ Touches /\ pc = "frame" /\ has_acquired /\ ~wsi.touched
             /\ \E release \in Cleared, n \in Nat : Opened(release, n)
    <3>1. PICK release \in Cleared, n \in Nat : Opened(release, n) BY <2>4
    <3>2. release \in Handles BY <1>t, ClearedIn
    <3>3. wsi'.release # None /\ wsi'.release.signalled = TRUE BY <3>1, <3>2, <1>o DEF Opened
    <3>4. wsi'.acquire = None /\ wsi'.touched = TRUE /\ wsi'.consumed = TRUE BY <3>1 DEF Opened
    <3>5. FrameSemaphores'
      BY <1>e, <2>1, <2>4, <3>3, <3>4, <1>p DEF FrameSemaphores, wsiVars
    <3> QED BY <2>2, <3>5
  <2> QED BY <1>e, <2>2, <2>3, <2>4, <1>c, EndsFrame
<1>2. CASE FlushFrame BY <1>2, <1>e DEF FlushFrame, Running
<1>3. ASSUME NEW mode \in BOOLEAN, SetPresentMode(mode) PROVE Control' /\ FrameSemaphores'
  BY <1>3, <1>c DEF SetPresentMode, Control, FrameSemaphores, Running, frameVars, gpuVars, Touches
<1>4. CASE DeinitSurfaceAndSwapchain \/ InitSurfaceAndSwapchain
  BY <1>4, <1>c DEF DeinitSurfaceAndSwapchain, InitSurfaceAndSwapchain, Control, FrameSemaphores,
     Running, wsiVars, frameVars, gpuVars, Touches
<1>5. CASE BeginFrame BY <1>5, <1>e DEF BeginFrame, Running
<1>6. CASE FrameBegins
  BY <1>6, <1>c DEF FrameBegins, Control, FrameSemaphores, Running, wsiVars, Touches
<1>7. CASE AcquireSucceeds
  <2>1. PICK i \in Images, s \in Cleared, t \in Handles :
          /\ image' = [image EXCEPT ![i] = [state |-> "acquired", sem |-> s]]
          /\ swapchain_index' = i
          /\ wsi' = Reset([sem |-> t, signalled |-> TRUE])
    BY <1>7, <1>t, ClearedIn DEF AcquireSucceeds
  <2>2. [sem |-> t, signalled |-> TRUE] \in Slot BY ObjectFields DEF Slot
  <2>3. /\ wsi'.acquire # None /\ wsi'.acquire.signalled = TRUE /\ wsi'.release = wsi.release
        /\ wsi'.touched = FALSE /\ wsi'.consumed = FALSE
    BY <2>1, <2>2, <1>o, <1>t, ResetIs
  <2>4. image'[swapchain_index'].state = "acquired" BY <2>1, <1>t
  <2>5. wsi.release = None /\ ~Touches BY <1>7, <1>c DEF AcquireSucceeds, FrameSemaphores
  <2>6. Control' BY <1>7, <2>4, <1>c DEF AcquireSucceeds, Control, Running
  <2> QED
    BY <1>7, <2>3, <2>5, <2>6, <1>c DEF AcquireSucceeds, FrameSemaphores, Running, Touches
<1>8. CASE AcquireRejected
  <2>1. PICK s \in Cleared : local' = [sem |-> s, signalled |-> FALSE] /\ UNCHANGED image
    BY <1>8 DEF AcquireRejected, Survivable
  <2>2. s \in Handles BY <1>t, ClearedIn
  <2>3. local'.signalled = FALSE BY <2>1, <2>2, <1>o
  <2> QED
    BY <1>8, <2>1, <2>3, <1>c DEF AcquireRejected, Control, FrameSemaphores, Running, Touches
<1>9. CASE AcquireFails
  BY <1>9, <1>c DEF AcquireFails, Control, FrameSemaphores, Running, wsiVars, gpuVars, Touches
<1>10. CASE EndFrame BY <1>10, <1>e DEF EndFrame, Running
<1>11. CASE NothingToPresent
  BY <1>11, <1>c DEF NothingToPresent, Control, FrameSemaphores, Running, wsiVars, gpuVars, Touches
<1>q. ASSUME pc = "present", wsi.touched, Present
      PROVE  /\ wsi.acquire = None /\ wsi.release # None /\ wsi.release.signalled /\ ~Touches
             /\ wsi'.acquire = None /\ wsi'.release = None /\ wsi'.touched = wsi.touched
             /\ wsi'.consumed = wsi.consumed /\ ~Touches' /\ ~has_acquired'
             /\ DOMAIN release_semaphores = Images /\ wsi.release \in Object
  <2>1. wsi' = [wsi EXCEPT !.release = None] BY <1>q DEF Present
  <2>2. /\ wsi'.acquire = wsi.acquire /\ wsi'.release = None /\ wsi'.touched = wsi.touched
        /\ wsi'.consumed = wsi.consumed
    BY <2>1, <1>t, RecordsKept
  <2>3. wsi.release # None => wsi.release \in Object BY <1>t, WsiFields
  <2> QED
    BY <1>q, <2>2, <2>3, <1>c DEF Present, Control, FrameSemaphores, Running, Touches
<1>12. CASE PresentSucceeds
  <2>1. Present /\ pc = "present" /\ wsi.touched BY <1>12 DEF PresentSucceeds
  <2>2. [sem |-> wsi.release.sem, signalled |-> FALSE].signalled = FALSE OBVIOUS
  <2>3. FrameSemaphores' BY <1>12, <2>1, <1>q, <1>c DEF PresentSucceeds, FrameSemaphores
  <2>4. DOMAIN release_semaphores' = Images BY <1>12, <2>1, <1>q DEF PresentSucceeds
  <2>5. Control'
    BY <1>12, <2>1, <2>2, <2>4, <1>q, <1>c DEF PresentSucceeds, Present, Control, Running
  <2> QED BY <2>3, <2>5
<1>13. CASE PresentFails
  <2>1. Present /\ pc = "present" /\ wsi.touched BY <1>13 DEF PresentFails
  <2>3. FrameSemaphores' BY <1>13, <2>1, <1>q, <1>c DEF PresentFails, FrameSemaphores, Running
  <2>5. Control' BY <1>13, <2>1, <1>q, <1>c DEF PresentFails, Present, Control, Running
  <2> QED BY <2>3, <2>5
<1>14. CASE DrainSwapchain
  <2>1. /\ wsi'.acquire = None /\ wsi'.release = None /\ wsi'.touched = FALSE /\ wsi'.consumed = FALSE
    <3>1. None \in Slot BY DEF Slot
    <3>2. /\ Reset(None) \in WsiType /\ Reset(None).acquire = None
          /\ Reset(None).touched = FALSE /\ Reset(None).consumed = FALSE
      BY <3>1, <1>t, ResetIs
    <3>3. wsi' = [Reset(None) EXCEPT !.release = None] BY <1>14 DEF DrainSwapchain
    <3> QED BY <3>2, <3>3, RecordsKept
  <2>2. ~Touches' BY <1>14, <1>p DEF DrainSwapchain
  <2>3. FrameSemaphores' BY <1>14, <2>1, <2>2 DEF DrainSwapchain, FrameSemaphores, Running
  <2>4. Control' BY <1>14, <2>1, <1>c DEF DrainSwapchain, Control, Running
  <2> QED BY <2>3, <2>4
<1>15. CASE Updated
  BY <1>15, <1>c DEF Updated, Idle, Control, FrameSemaphores, Running, Touches
<1>16. CASE TornDown
  BY <1>16, <1>c DEF TornDown, Idle, Control, FrameSemaphores, Running, Touches
<1>17. CASE InitSucceeds
  <2>1. wsi.acquire = None /\ wsi.release = None /\ pending = <<>>
    BY <1>17, <1>c DEF InitSucceeds, Control, Running
  <2>2. None \in Slot BY DEF Slot
  <2>3. /\ wsi'.acquire = None /\ wsi'.release = None /\ wsi'.touched = FALSE /\ wsi'.consumed = FALSE
    BY <1>17, <2>1, <2>2, <1>t, ResetIs DEF InitSucceeds
  <2>4. DOMAIN release_semaphores' = Images BY <1>17 DEF InitSucceeds
  <2>5. FrameSemaphores'
    BY <1>17, <2>1, <2>3, <1>p DEF InitSucceeds, FrameSemaphores
  <2>6. Control' BY <1>17, <2>4 DEF InitSucceeds, InitReturns, Control, Running
  <2> QED BY <2>5, <2>6
<1>18. CASE InitFails
  <2>1. ~RetriesLeft => ~swapchain'
    <3>1. ~RetriesLeft => retries > 0 BY <1>t DEF RetriesLeft
    <3>2. ~RetriesLeft => ~swapchain BY <1>18, <3>1, <1>c DEF InitFails, Control
    <3> QED BY <1>18, <3>2 DEF InitFails, FailsEarly, FailsToCreate, FailsToQuery, Survivable
  <2>2. has_acquired' => has_acquired /\ swapchain' = swapchain /\ image' = image
    BY <1>18 DEF InitFails, FailsEarly, FailsToCreate, FailsToQuery
  <2>3. FrameSemaphores'
    BY <1>18, <2>1, <2>2, <1>c DEF InitFails, InitReturns, FrameSemaphores, Control, Running, Touches
  <2>4. Control'
    <3>1. CASE RetriesLeft
      BY <1>18, <2>2, <3>1, <1>c DEF InitFails, Control, Running
    <3>2. CASE ~RetriesLeft
      <4>1. InitReturns(FALSE) BY <1>18, <3>2 DEF InitFails
      <4>2. ~swapchain' /\ ~has_acquired' BY <2>1, <2>2, <3>2, <1>c DEF Control
      <4>3. pc' = "ready" /\ caller' = "nobody" /\ local' = None BY <4>1, <4>2 DEF InitReturns
      <4> QED BY <4>2, <4>3 DEF Control, Running
    <3> QED BY <3>1, <3>2
  <2> QED BY <2>3, <2>4
<1>19. CASE ExecuteBatch
  <2>1. \A i \in Images : image'[i].state = image[i].state
    BY <1>19, <1>t, RecordsKept DEF ExecuteBatch
  <2> QED
    BY <1>19, <2>1, <1>c, <1>t DEF ExecuteBatch, Control, FrameSemaphores, Running, Touches, wsiVars
<1>20. CASE ExecutePresent
  <2>1. PICK p \in presents : image' = [image EXCEPT ![p.image] = Free] BY <1>20 DEF ExecutePresent
  <2>2. p.image \in Images /\ image[p.image].state = "presenting"
    BY <1>t DEF WSIInv, Presented, PresentType
  <2>3. has_acquired => image'[swapchain_index] = image[swapchain_index]
    BY <2>1, <2>2, <1>t, <1>c DEF Control
  <2> QED
    BY <1>20, <2>3, <1>c DEF ExecutePresent, Control, FrameSemaphores, Running, Touches, wsiVars
<1>21. CASE SignalAcquire
  BY <1>21, <1>c DEF SignalAcquire, Control, FrameSemaphores, Running, Touches, wsiVars
<1>22. CASE UNCHANGED vars
  BY <1>22, <1>c DEF vars, Control, FrameSemaphores, Running, Touches, wsiVars, gpuVars
<1>23. CASE \E uses \in BOOLEAN : Record(uses) BY <1>1, <1>23
<1>24. CASE \E mode \in BOOLEAN : SetPresentMode(mode) BY <1>3, <1>24
<1> QED
  BY <1>2, <1>4, <1>5, <1>6, <1>7, <1>8, <1>9, <1>10, <1>11, <1>12, <1>13, <1>14, <1>15,
     <1>16, <1>17, <1>18, <1>19, <1>20, <1>21, <1>22, <1>23, <1>24 DEF Next

-----------------------------------------------------------------------------
(* The handles.                                                            *)

LEMMA LongerGrown ==
  ASSUME Longer, queue \in Seq(BatchType), frame \in FrameIds, NEW s \in Handles
  PROVE  Grown(s)
<1>1. Batch({}, {}, {}).waits = {} /\ Batch({}, {}, {}).signals = {} BY DEF Batch
<1> QED BY <1>1 DEF Longer, Grown

\* FlushFrame, BeginFrame and EndFrame.
LEMMA HandlesEndFrame ==
  ASSUME WSIInv, EndFrameNolock, pc \in Running, ~Draining',
         UNCHANGED <<wsiVars, local, destroyed, presents, signals, acquiring>>,
         NEW s \in Handles
  PROVE  HandleInv(s)'
<1>t. /\ wsi \in WsiType /\ frame \in FrameIds /\ created \subseteq Handles /\ vacant \subseteq created
      /\ queue \in Seq(BatchType) /\ recycled \in FrameLists /\ swapchain_index \in Images
  BY DEF WSIInv, TypeOK, WsiType, FrameLists
<1>h. \A x \in Handles : HandleInv(x) BY DEF WSIInv
<1>c. TypeOK /\ Control /\ FrameSemaphores /\ local = None /\ ~Draining
  BY DEF WSIInv, Control, Running, Draining
<1>u. /\ release_semaphores' = release_semaphores /\ local' = local /\ destroyed' = destroyed
      /\ presents' = presents /\ signals' = signals /\ acquiring' = acquiring /\ Held' = Held
  BY DEF wsiVars, Held
<1>e. SameElsewhere(s) BY <1>u DEF SameElsewhere
<1>f. PICK f \in FrameIds : f = frame BY <1>t
<1>1. CASE UNCHANGED <<wsi, recycled, vacant, created>> /\ Longer
  <2>1. Grown(s) BY <1>1, <1>t, LongerGrown
  <2>2. StaysIn(s) BY <1>1, <1>u, <1>c DEF StaysIn
  <2> QED BY <2>1, <2>2, <1>e, <1>h, StaysFrom
<1>2. CASE /\ wsi.acquire \in Object /\ wsi.release = None
           /\ \E release \in Cleared, n \in Nat : Opened(release, n)
  <2>1. PICK r \in Cleared, n \in Nat : Opened(r, n) BY <1>2
  <2>2. r \in Handles /\ (r \in vacant \/ r \notin created) BY <1>t, ClearedIn
  <2>3. PICK a \in Handles : a = wsi.acquire.sem BY <1>2, ObjectFields
  <2>4. IsOf(wsi.acquire, a) BY <1>2, <2>3, ObjectFields DEF IsOf
  <2>5. LivesAt(a, <<"acquire", 0>>) /\ a \in created /\ Armed(a) /\ a # r
    <3>1. <<"acquire", 0>> \in Spots(a) BY <2>4, SpotIs
    <3>2. HandleInv(a) BY <1>h
    <3>3. LivesAt(a, <<"acquire", 0>>) /\ a \in created BY <3>1, <3>2, LivesAtSpot DEF HandleInv
    <3>4. Armed(a) BY <2>4, <3>2 DEF HandleInv, Meaning
    <3>5. a \notin vacant BY <3>3 DEF LivesAt
    <3> QED BY <2>2, <3>3, <3>4, <3>5
  <2>6. LivesAt(r, <<"vacant", 0>>) /\ ~Promised(r) /\ ~Awaited(r) BY <2>2, <1>h, FreshHandle
  <2>7. /\ wsi'.acquire = None /\ wsi'.release = [sem |-> r, signalled |-> TRUE]
        /\ wsi'.release # None /\ wsi'.release.sem = r
    <3>1. [sem |-> r, signalled |-> TRUE] # None BY <2>2, ObjectFields
    <3>2. [sem |-> r, signalled |-> TRUE].sem = r OBVIOUS
    <3> QED BY <2>1, <3>1, <3>2 DEF Opened
  <2>8. /\ \A x : ~IsOf(wsi'.acquire, x) /\ ~IsOf(local', x)
        /\ \A x : IsOf(wsi'.release, x) <=> x = r
    BY <2>7, <1>u, <1>c DEF IsOf
  <2>9. /\ recycled'[f] = recycled[f] \cup {a}
        /\ \A g \in FrameIds : g # f => recycled'[g] = recycled[g]
    <3>1. recycled' = [recycled EXCEPT ![frame] = @ \cup {a}] BY <2>1, <2>3 DEF Opened
    <3> QED BY <3>1, <1>f, <1>t, Collects
  <2>10. vacant' = vacant \ {r} /\ created' = created \cup {r} BY <2>1 DEF Opened, Take
  <2>11. /\ \A k \in DOMAIN queue : k \in DOMAIN queue' /\ queue'[k] = queue[k]
         /\ \A k \in DOMAIN queue' : k \in DOMAIN queue \/ k = n
              \/ (queue'[k].waits = {} /\ queue'[k].signals = {})
         /\ n \in DOMAIN queue' /\ n \notin DOMAIN queue
         /\ queue'[n].waits = {a} /\ queue'[n].signals = {r} /\ queue'[n].frame = f
    <3>1. Batch({}, {}, {}).waits = {} /\ Batch({}, {}, {}).signals = {} BY DEF Batch
    <3>2. /\ Batch({a}, {r}, {swapchain_index}).waits = {a}
          /\ Batch({a}, {r}, {swapchain_index}).signals = {r}
          /\ Batch({a}, {r}, {swapchain_index}).frame = frame
      BY DEF Batch
    <3>3. queue'[n] = Batch({a}, {r}, {swapchain_index}) BY <2>1, <2>3 DEF Opened
    <3>4. /\ \A k \in DOMAIN queue : k \in DOMAIN queue' /\ queue'[k] = queue[k]
          /\ \A k \in DOMAIN queue' : k \in DOMAIN queue \/ k = n \/ queue'[k] = Batch({}, {}, {})
          /\ DOMAIN queue' = 1..n /\ n > Len(queue) /\ n \in Nat
      BY <2>1 DEF Opened
    <3>5. n \in DOMAIN queue' /\ n \notin DOMAIN queue BY <3>4, <1>t, QueueType
    <3> QED BY <3>1, <3>2, <3>3, <3>4, <3>5, <1>f
  <2>12. CASE s = a
    <3>1. HandleInv(a) /\ Promised(a) /\ ~Awaited(a) BY <2>5, <1>h DEF Armed
    <3>2. LivesAt(a, <<"recycled", f>>)'
      BY <2>5, <2>8, <2>9, <2>10, <1>u DEF LivesAt
    <3>3. Promised(a)' BY <3>1, <2>11, <1>u DEF Promised
    <3>4. Awaited(a)' BY <2>11 DEF Awaited
    <3>5. SignalledOnce(a)'
      BY <3>1, <2>5, <2>11, <1>u DEF SignalledOnce, HandleInv
    <3>6. AwaitedOnce(a)' BY <3>1, <2>11, <1>u DEF AwaitedOnce, Awaited
    <3>7. AwaitedIn(a, f)' BY <3>1, <2>11, <1>u DEF AwaitedIn, Awaited
    <3>8. a \in created' BY <2>5, <2>10
    <3>9. \A g : <<"recycled", f>> = <<"recycled", g>> => g = f OBVIOUS
    <3> QED
      BY <2>8, <2>12, <3>2, <3>3, <3>4, <3>5, <3>6, <3>7, <3>8, <3>9, MovesTo DEF Balanced
  <2>13. CASE s = r
    <3>1. HandleInv(r) /\ ~Promised(r) /\ ~Awaited(r) BY <2>2, <2>6, <1>h
    <3>2. LivesAt(r, <<"release", 0>>)'
      BY <2>5, <2>6, <2>8, <2>9, <2>10, <1>u DEF LivesAt
    <3>3. Promised(r)' BY <2>11 DEF Promised
    <3>4. ~Awaited(r)' BY <3>1, <2>5, <2>11, <1>u DEF Awaited
    <3>5. SignalledOnce(r)'
      BY <3>1, <2>11, <1>u DEF SignalledOnce, Promised
    <3>6. AwaitedOnce(r)' BY <3>1, <2>5, <2>11, <1>u DEF AwaitedOnce, Awaited
    <3>7. r \in created' BY <2>10
    <3> QED
      BY <2>8, <2>13, <3>2, <3>3, <3>4, <3>5, <3>6, <3>7, MovesTo DEF Armed
  <2>14. CASE s # a /\ s # r
    <3>1. Grown(s) BY <2>11, <2>14 DEF Grown
    <3>2. StaysIn(s) BY <2>8, <2>9, <2>10, <2>14, <1>u, <1>c DEF StaysIn
    <3> QED BY <3>1, <3>2, <1>e, <1>h, StaysFrom
  <2> QED BY <2>12, <2>13, <2>14
<1> QED BY <1>1, <1>2, <1>c, EndsFrame

LEMMA HandlesSame ==
  ASSUME WSIInv, Draining => Draining', frameVars' = frameVars,
         UNCHANGED <<queue, presents, signals, acquiring, release_semaphores, wsi, local>>,
         NEW s \in Handles
  PROVE  HandleInv(s)'
<1>1. Grown(s) /\ SameElsewhere(s) BY DEF Grown, SameElsewhere
<1>2. StaysIn(s) BY DEF StaysIn, frameVars, Held
<1> QED BY <1>1, <1>2, StaysFrom DEF WSIInv

LEMMA HandlesFrameBegins ==
  ASSUME WSIInv, FrameBegins, NEW s \in Handles
  PROVE  HandleInv(s)'
<1>t. /\ frame \in FrameIds /\ recycled \in FrameLists /\ destroyed \in FrameLists
      /\ vacant \subseteq created /\ queue \in Seq(BatchType)
  BY DEF WSIInv, TypeOK, FrameLists
<1>h. HandleInv(s) /\ KeptOnce(s) /\ Meaning(s) BY DEF WSIInv, HandleInv
<1>c. ~Draining /\ local = None /\ local' = None /\ wsi' = wsi /\ queue' = queue
      /\ presents' = presents /\ release_semaphores' = release_semaphores /\ frame' = frame
  BY DEF WSIInv, FrameBegins, Control, Running, Draining, wsiVars
<1>i. ~IsOf(local', s) /\ ~Draining' BY <1>c DEF IsOf, FrameBegins, Draining
<1>f. PICK f \in FrameIds : f = frame BY <1>t
<1>g. /\ vacant' = vacant \cup recycled[f] /\ created' = created \ destroyed[f]
      /\ signals' = signals \ destroyed[f] /\ acquiring' = acquiring \ destroyed[f]
      /\ recycled'[f] = {} /\ destroyed'[f] = {}
      /\ \A g \in FrameIds : g # f => recycled'[g] = recycled[g] /\ destroyed'[g] = destroyed[g]
  <2>1. UNION {recycled[g] : g \in {f}} = recycled[f] /\ UNION {destroyed[g] : g \in {f}} = destroyed[f]
    OBVIOUS
  <2>2. Begin({f}) BY <1>f DEF FrameBegins
  <2>3. recycled' = [recycled EXCEPT ![f] = {}] /\ destroyed' = [destroyed EXCEPT ![f] = {}]
    BY <1>f DEF FrameBegins
  <2> QED BY <2>1, <2>2, <2>3, <1>t DEF Begin, FrameLists
<1>1. CASE s \in recycled[f]
  <2>1. LivesAt(s, <<"recycled", f>>) /\ s \in created
    BY <1>1, <1>h, SpotIs, LivesAtSpot
  <2>2. Balanced(s) /\ AwaitedIn(s, f) BY <1>1, <1>h, <1>c DEF Meaning
  <2>3. ~Awaited(s)
    <3>1. \A k \in DOMAIN queue : queue[k].frame # f BY <1>f DEF FrameBegins
    <3> QED BY <2>2, <3>1 DEF AwaitedIn, Awaited
  <2>4. s \notin destroyed[f] BY <2>1 DEF LivesAt
  <2>5. Grown(s) /\ SameElsewhere(s) BY <1>c, <1>g, <2>4 DEF Grown, SameElsewhere
  <2>6. ~Promised(s)' /\ ~Awaited(s)' /\ SignalledOnce(s)' /\ AwaitedOnce(s)'
    BY <2>2, <2>3, <2>5, <1>h, KeepsFrom DEF Balanced, Keeps
  <2>7. LivesAt(s, <<"vacant", 0>>)'
    BY <2>1, <1>g, <1>c, <1>i DEF LivesAt
  <2>8. s \in created' BY <2>1, <2>4, <1>g
  <2> QED BY <2>6, <2>7, <2>8, <1>i, MovesTo
<1>2. CASE s \in destroyed[f]
  <2>1. LivesAt(s, <<"destroyed", f>>) /\ s \in created
    BY <1>2, <1>h, SpotIs, LivesAtSpot
  <2>2. ~Awaited(s) /\ NoBatchSignals(s) BY <1>2, <1>h, <1>c DEF Meaning, NoBatchSignals
  <2>3. ~Promised(s)' BY <1>2, <1>c, <1>g, <2>2 DEF Promised, NoBatchSignals
  <2>4. ~Awaited(s)' BY <1>c, <2>2 DEF Awaited
  <2>5. SignalledOnce(s)' BY <1>2, <1>c, <1>g, <2>2 DEF SignalledOnce, NoBatchSignals
  <2>6. AwaitedOnce(s)' BY <1>h, <1>c DEF AwaitedOnce, HandleInv
  <2>7. LivesAt(s, <<"nowhere", 0>>)'
    BY <2>1, <1>g, <1>c, <1>i DEF LivesAt
  <2> QED BY <2>3, <2>4, <2>5, <2>6, <2>7, <1>i, MovesTo
<1>3. CASE s \notin recycled[f] /\ s \notin destroyed[f]
  <2>1. Grown(s) /\ SameElsewhere(s) BY <1>c, <1>g, <1>3 DEF Grown, SameElsewhere
  <2>2. StaysIn(s) BY <1>c, <1>g, <1>i, <1>3 DEF StaysIn
  <2> QED BY <2>1, <2>2, <1>h, StaysFrom
<1> QED BY <1>1, <1>2, <1>3

LEMMA HandlesAcquireRejected ==
  ASSUME WSIInv, AcquireRejected, Survivable, NEW s \in Handles
  PROVE  HandleInv(s)'
<1>t. vacant \subseteq created /\ created \subseteq Handles BY DEF WSIInv, TypeOK
<1>h. HandleInv(s) BY DEF WSIInv
<1>c. ~Draining /\ local = None BY DEF WSIInv, AcquireRejected, Control, Running, Draining
<1>1. PICK r \in Cleared : /\ Take({r}) /\ local' = [sem |-> r, signalled |-> FALSE]
                           /\ UNCHANGED acquiring
  BY DEF AcquireRejected, Survivable
<1>2. r \in Handles /\ (r \in vacant \/ r \notin created) BY <1>t, ClearedIn
<1>u. /\ UNCHANGED <<queue, presents, signals, acquiring, release_semaphores, wsi, recycled, destroyed>>
      /\ vacant' = vacant \ {r} /\ created' = created \cup {r} /\ Held' = Held
  BY <1>1 DEF AcquireRejected, Take, Held
<1>3. IsOf(local', s) <=> s = r
  <2>1. [sem |-> r, signalled |-> FALSE] # None BY <1>2, ObjectFields
  <2> QED BY <1>1, <2>1 DEF IsOf
<1>4. Grown(s) /\ SameElsewhere(s) BY <1>u DEF Grown, SameElsewhere
<1>5. CASE s = r
  <2>1. LivesAt(s, <<"vacant", 0>>) /\ ~Promised(s) /\ ~Awaited(s) BY <1>2, <1>5, <1>h, FreshHandle
  <2>2. /\ ~Promised(s)' /\ ~Awaited(s)' /\ SignalledOnce(s)' /\ AwaitedOnce(s)'
    BY <2>1, <1>4, <1>h, KeepsFrom DEF Keeps
  <2>3. LivesAt(s, <<"local", 0>>)' BY <2>1, <1>5, <1>u DEF LivesAt
  <2> QED BY <2>2, <2>3, <1>5, <1>u, MovesTo DEF Balanced
<1>6. CASE s # r
  <2>1. StaysIn(s) BY <1>3, <1>6, <1>u, <1>c DEF StaysIn
  <2> QED BY <2>1, <1>4, <1>h, StaysFrom
<1> QED BY <1>5, <1>6

LEMMA HandlesAcquireFails ==
  ASSUME WSIInv, AcquireFails, NEW s \in Handles
  PROVE  HandleInv(s)'
<1>t. /\ vacant \subseteq created /\ created \subseteq Handles /\ recycled \in FrameLists
      /\ frame \in FrameIds
  BY DEF WSIInv, TypeOK, FrameLists
<1>h. HandleInv(s) BY DEF WSIInv
<1>c. ~Draining /\ ~Draining' /\ local = None /\ local' = None
  BY DEF WSIInv, AcquireFails, Control, Running, Draining
<1>f. PICK f \in FrameIds : f = frame BY <1>t
<1>1. PICK r \in Cleared : Take({r}) /\ recycled' = [recycled EXCEPT ![f] = @ \cup {r}]
  BY <1>f DEF AcquireFails
<1>2. r \in Handles /\ (r \in vacant \/ r \notin created) BY <1>t, ClearedIn
<1>u. /\ UNCHANGED <<queue, presents, signals, acquiring, release_semaphores, wsi, destroyed>>
      /\ vacant' = vacant \ {r} /\ created' = created \cup {r}
      /\ recycled'[f] = recycled[f] \cup {r}
      /\ \A g \in FrameIds : g # f => recycled'[g] = recycled[g]
  <2>1. {r} \in SUBSET Handles BY <1>2
  <2>2. recycled'[f] = recycled[f] \cup {r} /\ \A g \in FrameIds : g # f => recycled'[g] = recycled[g]
    BY <1>1, <2>1, <1>t, Collects
  <2> QED BY <1>1, <2>2 DEF AcquireFails, Take, wsiVars, gpuVars
<1>3. ~IsOf(local', s) BY <1>c DEF IsOf
<1>4. Grown(s) /\ SameElsewhere(s) BY <1>u DEF Grown, SameElsewhere
<1>5. CASE s = r
  <2>1. LivesAt(s, <<"vacant", 0>>) /\ ~Promised(s) /\ ~Awaited(s) BY <1>2, <1>5, <1>h, FreshHandle
  <2>2. /\ ~Promised(s)' /\ ~Awaited(s)' /\ SignalledOnce(s)' /\ AwaitedOnce(s)'
    BY <2>1, <1>4, <1>h, KeepsFrom DEF Keeps
  <2>3. LivesAt(s, <<"recycled", f>>)' BY <2>1, <1>3, <1>5, <1>u DEF LivesAt
  <2>4. \A g \in FrameIds : AwaitedIn(s, g)' BY <2>2 DEF Awaited, AwaitedIn
  <2> QED BY <2>2, <2>3, <2>4, <1>3, <1>5, <1>u, MovesTo DEF Balanced
<1>6. CASE s # r
  <2>1. StaysIn(s) BY <1>3, <1>6, <1>u, <1>c DEF StaysIn
  <2> QED BY <2>1, <1>4, <1>h, StaysFrom
<1> QED BY <1>5, <1>6

LEMMA HandlesAcquireSucceeds ==
  ASSUME WSIInv, AcquireSucceeds, NEW s \in Handles
  PROVE  HandleInv(s)'
<1>t. /\ vacant \subseteq created /\ created \subseteq Handles /\ recycled \in FrameLists
      /\ destroyed \in FrameLists /\ frame \in FrameIds /\ queue \in Seq(BatchType) /\ wsi \in WsiType
  BY DEF WSIInv, TypeOK, FrameLists, WsiType
<1>h. HandleInv(s) BY DEF WSIInv
<1>c. /\ ~Draining /\ ~Draining' /\ local = None /\ local' = None
      /\ wsi.acquire = None /\ wsi.release = None
  BY DEF WSIInv, AcquireSucceeds, Control, FrameSemaphores, Running, Draining
<1>f. PICK f \in FrameIds : f = frame BY <1>t
<1>1. PICK i \in Images, r \in Cleared :
        /\ acquiring' = acquiring \cup {r}
        /\ destroyed' = [destroyed EXCEPT ![f] = @ \cup Dropped({wsi.acquire}, TRUE)]
        /\ IF expensive
           THEN \E t \in (IF vacant \ {r} # {} THEN vacant ELSE Handles \ created) \ {r} :
                  /\ queue' = Append(queue, Batch({r}, {t}, {i}))
                  /\ recycled' = [recycled EXCEPT ![f] = @ \cup {r}]
                  /\ wsi' = Reset([sem |-> t, signalled |-> TRUE])
                  /\ Take({r, t})
           ELSE /\ wsi' = Reset([sem |-> r, signalled |-> TRUE])
                /\ Take({r})
                /\ UNCHANGED <<queue, recycled>>
  BY <1>f DEF AcquireSucceeds
<1>2. r \in Handles /\ (r \in vacant \/ r \notin created) BY <1>t, ClearedIn
<1>3. \A g \in FrameIds : destroyed'[g] = destroyed[g]
  <2>1. Dropped({wsi.acquire}, TRUE) = {} BY <1>c DEF Dropped
  <2>2. {} \in SUBSET Handles OBVIOUS
  <2>3. destroyed' = [destroyed EXCEPT ![f] = @ \cup {}] BY <1>1, <2>1
  <2>4. /\ destroyed'[f] = destroyed[f] \cup {}
        /\ \A g \in FrameIds : g # f => destroyed'[g] = destroyed[g]
    BY <2>2, <2>3, <1>t, Collects
  <2> QED BY <2>4
<1>u. UNCHANGED <<presents, signals, release_semaphores>> /\ Held' = Held
  BY DEF AcquireSucceeds, Held
<1>l. ~IsOf(local', s) BY <1>c DEF IsOf
<1>w. ASSUME NEW t \in Handles, wsi' = Reset([sem |-> t, signalled |-> TRUE])
      PROVE  \A x : (IsOf(wsi'.acquire, x) <=> x = t) /\ ~IsOf(wsi'.release, x)
  <2>1. /\ [sem |-> t, signalled |-> TRUE] \in Slot /\ [sem |-> t, signalled |-> TRUE] # None
    BY ObjectFields DEF Slot
  <2>2. wsi'.acquire = [sem |-> t, signalled |-> TRUE] /\ wsi'.release = None
    BY <1>w, <2>1, <1>t, <1>c, ResetIs
  <2> QED BY <2>1, <2>2 DEF IsOf
<1>4. CASE ~expensive
  <2>1. /\ wsi' = Reset([sem |-> r, signalled |-> TRUE])
        /\ vacant' = vacant \ {r} /\ created' = created \cup {r} /\ UNCHANGED <<queue, recycled>>
    BY <1>1, <1>4 DEF Take
  <2>2. \A x : (IsOf(wsi'.acquire, x) <=> x = r) /\ ~IsOf(wsi'.release, x) BY <2>1, <1>2, <1>w
  <2>3. CASE s = r
    <3>1. LivesAt(s, <<"vacant", 0>>) /\ ~Promised(s) /\ ~Awaited(s) BY <1>2, <2>3, <1>h, FreshHandle
    <3>2. Promised(s)' BY <1>1, <2>3 DEF Promised
    <3>3. ~Awaited(s)' BY <3>1, <2>1, <1>u DEF Awaited
    <3>4. SignalledOnce(s)' BY <3>1, <2>1, <1>u DEF SignalledOnce, Promised
    <3>5. AwaitedOnce(s)' BY <3>1, <2>1, <1>u DEF AwaitedOnce, Awaited
    <3>6. LivesAt(s, <<"acquire", 0>>)' BY <3>1, <2>1, <2>2, <2>3, <1>3, <1>u, <1>l DEF LivesAt
    <3>7. s \in created' BY <2>1, <2>3
    <3> QED BY <3>2, <3>3, <3>4, <3>5, <3>6, <3>7, <1>l, MovesTo DEF Armed
  <2>4. CASE s # r
    <3>1. Grown(s) /\ SameElsewhere(s) BY <1>1, <2>1, <2>4, <1>u DEF Grown, SameElsewhere
    <3>2. StaysIn(s) BY <2>1, <2>2, <2>4, <1>3, <1>u, <1>l, <1>c DEF StaysIn
    <3> QED BY <3>1, <3>2, <1>h, StaysFrom
  <2> QED BY <2>3, <2>4
<1>5. CASE expensive
  <2>1. PICK t \in (IF vacant \ {r} # {} THEN vacant ELSE Handles \ created) \ {r} :
             /\ queue' = Append(queue, Batch({r}, {t}, {i}))
             /\ recycled' = [recycled EXCEPT ![f] = @ \cup {r}]
             /\ wsi' = Reset([sem |-> t, signalled |-> TRUE])
             /\ Take({r, t})
    BY <1>1, <1>5
  <2>2. t \in Handles /\ t # r /\ (t \in vacant \/ t \notin created) BY <2>1, <1>t
  <2>3. \A x : (IsOf(wsi'.acquire, x) <=> x = t) /\ ~IsOf(wsi'.release, x) BY <2>1, <2>2, <1>w
  <2>4. /\ vacant' = vacant \ {r, t} /\ created' = created \cup {r, t} BY <2>1 DEF Take
  <2>5. /\ recycled'[f] = recycled[f] \cup {r}
        /\ \A g \in FrameIds : g # f => recycled'[g] = recycled[g]
    <3>1. {r} \in SUBSET Handles BY <1>2
    <3> QED BY <2>1, <3>1, <1>t, Collects
  <2>6. PICK n \in Nat :
          /\ \A k \in DOMAIN queue : k \in DOMAIN queue' /\ queue'[k] = queue[k]
          /\ \A k \in DOMAIN queue' : k \in DOMAIN queue \/ k = n
          /\ n \in DOMAIN queue' /\ n \notin DOMAIN queue
          /\ queue'[n].waits = {r} /\ queue'[n].signals = {t} /\ queue'[n].frame = f
    <3>1. PICK b \in BatchType : /\ b = Batch({r}, {t}, {i})
                                 /\ b.waits = {r} /\ b.signals = {t} /\ b.frame = f
      <4>1. {r} \in SUBSET Handles /\ {t} \in SUBSET Handles /\ {i} \in SUBSET Images
        BY <1>1, <1>2, <2>2
      <4> QED BY <4>1, <1>f, <1>t, BatchIn
    <3>2. queue' = Append(queue, b) BY <2>1, <3>1
    <3>3. PICK n \in Nat : n = Len(queue) + 1 BY <1>t
    <3> QED BY <3>1, <3>2, <3>3, <1>t, AppendBatch
  <2>7. CASE s = r
    <3>1. LivesAt(s, <<"vacant", 0>>) /\ ~Promised(s) /\ ~Awaited(s) BY <1>2, <2>7, <1>h, FreshHandle
    <3>2. Promised(s)' BY <1>1, <2>7 DEF Promised
    <3>3. Awaited(s)' BY <2>6, <2>7 DEF Awaited
    <3>4. SignalledOnce(s)' BY <3>1, <2>2, <2>6, <2>7, <1>u DEF SignalledOnce, Promised
    <3>5. AwaitedOnce(s)' BY <3>1, <2>6, <1>u DEF AwaitedOnce, Awaited
    <3>6. AwaitedIn(s, f)' BY <3>1, <2>6, <1>u DEF AwaitedIn, Awaited
    <3>7. LivesAt(s, <<"recycled", f>>)'
      BY <3>1, <2>2, <2>3, <2>4, <2>5, <2>7, <1>3, <1>u, <1>l DEF LivesAt
    <3>8. s \in created' BY <2>4, <2>7
    <3>9. \A g : <<"recycled", f>> = <<"recycled", g>> => g = f OBVIOUS
    <3> QED BY <3>2, <3>3, <3>4, <3>5, <3>6, <3>7, <3>8, <3>9, <1>l, MovesTo DEF Balanced
  <2>8. CASE s = t
    <3>1. LivesAt(s, <<"vacant", 0>>) /\ ~Promised(s) /\ ~Awaited(s) BY <2>2, <2>8, <1>h, FreshHandle
    <3>2. Promised(s)' BY <2>6, <2>8 DEF Promised
    <3>3. ~Awaited(s)' BY <3>1, <2>2, <2>6, <2>8, <1>u DEF Awaited
    <3>4. SignalledOnce(s)' BY <3>1, <1>1, <2>2, <2>6, <2>8, <1>u DEF SignalledOnce, Promised
    <3>5. AwaitedOnce(s)' BY <3>1, <2>2, <2>6, <2>8, <1>u DEF AwaitedOnce, Awaited
    <3>6. LivesAt(s, <<"acquire", 0>>)'
      BY <3>1, <2>2, <2>3, <2>4, <2>5, <2>8, <1>3, <1>u, <1>l DEF LivesAt
    <3>7. s \in created' BY <2>4, <2>8
    <3> QED BY <3>2, <3>3, <3>4, <3>5, <3>6, <3>7, <1>l, MovesTo DEF Armed
  <2>9. CASE s # r /\ s # t
    <3>1. Grown(s) /\ SameElsewhere(s) BY <1>1, <2>6, <2>9, <1>u DEF Grown, SameElsewhere
    <3>2. StaysIn(s) BY <2>3, <2>4, <2>5, <2>9, <1>3, <1>u, <1>l, <1>c DEF StaysIn
    <3> QED BY <3>1, <3>2, <1>h, StaysFrom
  <2> QED BY <2>7, <2>8, <2>9
<1> QED BY <1>4, <1>5

\* The objects of `slots' are on the lists of frame f as well.
DropsTo(slots, f) ==
    /\ \A x : /\ x \in recycled'[f] <=>
                   x \in recycled[f] \/ \E o \in slots : IsOf(o, x) /\ o.signalled = FALSE
              /\ x \in destroyed'[f] <=>
                   x \in destroyed[f] \/ \E o \in slots : IsOf(o, x) /\ o.signalled = TRUE
    /\ \A g \in FrameIds : g # f => recycled'[g] = recycled[g] /\ destroyed'[g] = destroyed[g]

LEMMA DropIs ==
  ASSUME recycled \in FrameLists, destroyed \in FrameLists, NEW slots, slots \subseteq Slot,
         NEW f \in FrameIds, f = frame, Drop(slots)
  PROVE  DropsTo(slots, f)
<1>1. /\ Dropped(slots, FALSE) \in SUBSET Handles /\ Dropped(slots, TRUE) \in SUBSET Handles
      /\ \A x : x \in Dropped(slots, FALSE) <=> \E o \in slots : IsOf(o, x) /\ o.signalled = FALSE
      /\ \A x : x \in Dropped(slots, TRUE) <=> \E o \in slots : IsOf(o, x) /\ o.signalled = TRUE
  BY DroppedIn
<1>2. /\ recycled' = [recycled EXCEPT ![f] = @ \cup Dropped(slots, FALSE)]
      /\ destroyed' = [destroyed EXCEPT ![f] = @ \cup Dropped(slots, TRUE)]
  BY DEF Drop
<1>3. /\ recycled'[f] = recycled[f] \cup Dropped(slots, FALSE)
      /\ destroyed'[f] = destroyed[f] \cup Dropped(slots, TRUE)
      /\ \A g \in FrameIds : g # f => recycled'[g] = recycled[g] /\ destroyed'[g] = destroyed[g]
  <2>1. PICK X \in SUBSET Handles : X = Dropped(slots, FALSE) BY <1>1
  <2>2. PICK Y \in SUBSET Handles : Y = Dropped(slots, TRUE) BY <1>1
  <2>3. /\ recycled' = [recycled EXCEPT ![f] = @ \cup X]
        /\ destroyed' = [destroyed EXCEPT ![f] = @ \cup Y]
    BY <1>2, <2>1, <2>2
  <2>4. recycled'[f] = recycled[f] \cup X /\ \A g \in FrameIds : g # f => recycled'[g] = recycled[g]
    BY <2>3, Collects
  <2>5. destroyed'[f] = destroyed[f] \cup Y /\ \A g \in FrameIds : g # f => destroyed'[g] = destroyed[g]
    BY <2>3, Collects
  <2> QED BY <2>1, <2>2, <2>4, <2>5
<1> QED BY <1>1, <1>3 DEF DropsTo

\* vkQueuePresentKHR waits for the release semaphore r.
LEMMA PresentIs ==
  ASSUME WSIInv, pc = "present", wsi.touched, Present
  PROVE  /\ wsi.release \in Object /\ wsi.release.signalled
         /\ IsOf(wsi.release, wsi.release.sem) /\ wsi.release.sem \in Handles
         /\ wsi'.acquire = None /\ wsi'.release = None /\ has_acquired /\ swapchain
         /\ release_semaphores \in [Images -> Slot] /\ image[swapchain_index].state = "acquired"
         /\ \A p \in presents : p.image # swapchain_index
         /\ LivesAt(wsi.release.sem, <<"release", 0>>) /\ wsi.release.sem \in created
         /\ Armed(wsi.release.sem) /\ local = None
<1>t. /\ wsi \in WsiType /\ (release_semaphores = <<>> \/ release_semaphores \in [Images -> Slot])
      /\ Images # {} /\ presents \subseteq PresentType
  BY WSIAssumption DEF WSIInv, TypeOK, WsiType
<1>1. /\ wsi.acquire = None /\ wsi.release # None /\ wsi.release.signalled /\ local = None
      /\ has_acquired /\ swapchain /\ image[swapchain_index].state = "acquired"
      /\ DOMAIN release_semaphores = Images
  BY DEF WSIInv, Control, FrameSemaphores, Running
<1>2. wsi.release \in Object /\ wsi.release.sem \in Handles BY <1>1, <1>t, WsiFields, ObjectFields
<1>3. IsOf(wsi.release, wsi.release.sem) BY <1>1 DEF IsOf
<1>4. wsi'.acquire = None /\ wsi'.release = None
  <2>1. wsi' = [wsi EXCEPT !.release = None] BY DEF Present
  <2> QED BY <2>1, <1>1, <1>t, RecordsKept
<1>5. release_semaphores \in [Images -> Slot]
  <2>1. DOMAIN <<>> = {} OBVIOUS
  <2> QED BY <2>1, <1>1, <1>t
<1>6. \A p \in presents : p.image # swapchain_index
  <2>1. \A p \in presents : image[p.image].state = "presenting" BY DEF WSIInv, Presented
  <2> QED BY <2>1, <1>1
<1>7. PICK r \in Handles : r = wsi.release.sem BY <1>2
<1>8. HandleInv(r) /\ IsOf(wsi.release, r) BY <1>3, <1>7 DEF WSIInv
<1>9. <<"release", 0>> \in Spots(r) BY <1>8, SpotIs
<1>10. LivesAt(r, <<"release", 0>>) /\ r \in created BY <1>8, <1>9, LivesAtSpot DEF HandleInv
<1>11. Armed(r) BY <1>8 DEF HandleInv, Meaning
<1> QED BY <1>1, <1>2, <1>3, <1>4, <1>5, <1>6, <1>7, <1>10, <1>11

\* The signal and the wait of the release semaphore after its present.
LEMMA NowPresented ==
  ASSUME WSIInv, pc = "present", wsi.touched, Present, UNCHANGED <<queue, signals, acquiring>>,
         NEW r \in Handles, r = wsi.release.sem, NEW i \in Images, i = swapchain_index
  PROVE  /\ Promised(r)' /\ Awaited(r)' /\ SignalledOnce(r)' /\ AwaitedOnce(r)' /\ NoBatchWaits(r)'
         /\ \A p \in presents' : p.sem = r => p.image = i
         /\ \A p \in presents' : p \notin presents => p.sem = r
         /\ \A p \in presents : p \in presents'
<1>1. HandleInv(r) /\ Promised(r) /\ ~Awaited(r) BY PresentIs DEF WSIInv, Armed
<1>2. PICK q \in PresentType : q = [sem |-> r, image |-> i] BY DEF PresentType
<1>3. q.sem = r /\ q.image = i BY <1>2
<1>4. presents' = presents \cup {q} BY <1>2 DEF Present
<1>5. \A p \in presents : p.sem # r BY <1>1 DEF Awaited
<1>6. NoBatchWaits(r)' BY <1>1 DEF Awaited, NoBatchWaits
<1>7. SignalledOnce(r)' BY <1>1 DEF SignalledOnce, HandleInv
<1>8. AwaitedOnce(r)' BY <1>4, <1>5, <1>6 DEF AwaitedOnce, NoBatchWaits
<1>9. Promised(r)' BY <1>1 DEF Promised
<1>10. Awaited(r)' BY <1>3, <1>4 DEF Awaited
<1> QED BY <1>3, <1>4, <1>5, <1>6, <1>7, <1>8, <1>9, <1>10

LEMMA HandlesPresentFails ==
  ASSUME WSIInv, PresentFails, NEW s \in Handles
  PROVE  HandleInv(s)'
<1>1. Present /\ pc = "present" /\ wsi.touched BY DEF PresentFails
<1>h. HandleInv(s) BY DEF WSIInv
<1>c. /\ ~Draining /\ local = None /\ local' = wsi.release /\ wsi'.acquire = None /\ wsi'.release = None
      /\ UNCHANGED <<queue, signals, acquiring, vacant, created, recycled, destroyed, release_semaphores>>
  BY <1>1, PresentIs DEF PresentFails, Present, Draining
<1>i. PICK i \in Images : i = swapchain_index BY DEF WSIInv, TypeOK
<1>2. PICK r \in Handles : r = wsi.release.sem BY <1>1, PresentIs
<1>3. LivesAt(r, <<"release", 0>>) /\ r \in created BY <1>1, <1>2, PresentIs
<1>4. \A x : (IsOf(local', x) <=> x = r) /\ ~IsOf(wsi'.acquire, x) /\ ~IsOf(wsi'.release, x)
  BY <1>1, <1>2, <1>c, PresentIs DEF IsOf
<1>5. CASE s = r
  <2>1. Promised(s)' /\ Awaited(s)' /\ SignalledOnce(s)' /\ AwaitedOnce(s)'
    BY <1>1, <1>2, <1>5, <1>c, <1>i, NowPresented
  <2>2. LivesAt(s, <<"local", 0>>)' BY <1>3, <1>4, <1>5, <1>c DEF LivesAt
  <2> QED BY <2>1, <2>2, <1>3, <1>5, <1>c, MovesTo DEF Balanced
<1>6. CASE s # r
  <2>1. Grown(s) BY <1>c DEF Grown
  <2>2. SameElsewhere(s)
    BY <1>1, <1>2, <1>6, <1>c, <1>i, NowPresented DEF SameElsewhere
  <2>3. StaysIn(s) BY <1>4, <1>6, <1>c DEF StaysIn
  <2> QED BY <2>1, <2>2, <2>3, <1>h, StaysFrom
<1> QED BY <1>5, <1>6

LEMMA HandlesPresentSucceeds ==
  ASSUME WSIInv, PresentSucceeds, NEW s \in Handles
  PROVE  HandleInv(s)'
<1>1. Present /\ pc = "present" /\ wsi.touched BY DEF PresentSucceeds
<1>h. HandleInv(s) /\ KeptOnce(s) /\ Meaning(s) BY DEF WSIInv, HandleInv
<1>t. /\ recycled \in FrameLists /\ destroyed \in FrameLists /\ frame \in FrameIds
  BY DEF WSIInv, TypeOK, FrameLists
<1>f. PICK f \in FrameIds : f = frame BY <1>t
<1>c. /\ ~Draining /\ ~Draining' /\ local = None /\ wsi'.acquire = None /\ wsi'.release = None
      /\ UNCHANGED <<queue, signals, acquiring, vacant, created>>
  BY <1>1, PresentIs DEF PresentSucceeds, Present, Draining
<1>i. PICK i \in Images : i = swapchain_index BY DEF WSIInv, TypeOK
<1>2. PICK r \in Handles : r = wsi.release.sem BY <1>1, PresentIs
<1>3. LivesAt(r, <<"release", 0>>) /\ r \in created BY <1>1, <1>2, PresentIs
<1>4. PICK o \in Object : o = [sem |-> r, signalled |-> FALSE] BY ObjectFields
<1>5. /\ o.sem = r /\ o.signalled = FALSE /\ o # None /\ \A x : IsOf(o, x) <=> x = r
  BY <1>4, ObjectFields DEF IsOf
<1>6. /\ release_semaphores' = [release_semaphores EXCEPT ![i] = o]
      /\ Drop({release_semaphores[i]})
      /\ (local' = o \/ local' = None)
  BY <1>2, <1>4, <1>i, <1>c DEF PresentSucceeds
<1>7. release_semaphores \in [Images -> Slot] BY <1>1, PresentIs
<1>8. /\ DOMAIN release_semaphores' = Images /\ release_semaphores'[i] = o
      /\ \A j \in Images : j # i => release_semaphores'[j] = release_semaphores[j]
      /\ o \in Held'
  BY <1>6, <1>7 DEF Held
<1>9. \A x : ~IsOf(wsi'.acquire, x) /\ ~IsOf(wsi'.release, x) /\ (IsOf(local', x) => x = r /\ local' = o)
  BY <1>5, <1>6, <1>c DEF IsOf
<1>10. PICK old \in Slot : old = release_semaphores[i] BY <1>7
<1>11. /\ \A x : /\ x \in recycled'[f] <=> x \in recycled[f] \/ (IsOf(old, x) /\ old.signalled = FALSE)
                 /\ x \in destroyed'[f] <=> x \in destroyed[f] \/ (IsOf(old, x) /\ old.signalled = TRUE)
       /\ \A g \in FrameIds : g # f => recycled'[g] = recycled[g] /\ destroyed'[g] = destroyed[g]
  <2>1. Drop({old}) /\ {old} \subseteq Slot BY <1>6, <1>10
  <2>2. DropsTo({old}, f) BY <2>1, <1>f, <1>t, DropIs
  <2> QED BY <2>2 DEF DropsTo
<1>12. CASE s = r
  <2>1. /\ Promised(s)' /\ Awaited(s)' /\ SignalledOnce(s)' /\ AwaitedOnce(s)' /\ NoBatchWaits(s)'
        /\ \A p \in presents' : p.sem = s => p.image = i
    BY <1>1, <1>2, <1>12, <1>c, <1>i, NowPresented
  <2>2. ~IsOf(old, s) BY <1>3, <1>7, <1>10, <1>12 DEF LivesAt
  <2>3. LivesAt(s, <<"held", i>>)'
    BY <2>2, <1>3, <1>7, <1>8, <1>9, <1>11, <1>12, <1>c DEF LivesAt
  <2>4. \A j : <<"held", i>> = <<"held", j>> => j = i OBVIOUS
  <2> QED BY <2>1, <2>3, <2>4, <1>3, <1>5, <1>8, <1>12, <1>c, MovesTo DEF Balanced
<1>13. CASE s # r
  <2>1. Grown(s) BY <1>c DEF Grown
  <2>2. SameElsewhere(s)
    BY <1>1, <1>2, <1>13, <1>c, <1>i, NowPresented DEF SameElsewhere
  <2>3. CASE IsOf(old, s)
    <3>1. <<"held", i>> \in Spots(s) BY <2>3, <1>7, <1>10, SpotIs
    <3>2. LivesAt(s, <<"held", i>>) /\ s \in created BY <3>1, <1>h, LivesAtSpot
    <3>3. /\ ~old.signalled /\ Balanced(s) /\ NoBatchWaits(s) /\ \A p \in presents : p.sem = s => p.image = i
      BY <2>3, <1>7, <1>10, <1>h DEF Meaning, NoBatchWaits
    <3>4. \A p \in presents : p.sem # s BY <3>3, <1>1, <1>i, PresentIs
    <3>5. Keeps(s) BY <2>1, <2>2, <1>h, KeepsFrom
    <3>6. AwaitedIn(s, f) BY <3>3, <3>4 DEF AwaitedIn, NoBatchWaits
    <3>7. Balanced(s)' /\ AwaitedIn(s, f)' BY <3>3, <3>5, <3>6 DEF Keeps
    <3>8. old.signalled = FALSE BY <2>3, <3>3, ObjectFields DEF Slot, IsOf
    <3>9. LivesAt(s, <<"recycled", f>>)'
      BY <3>2, <3>8, <1>5, <1>7, <1>8, <1>9, <1>11, <1>13, <1>c DEF LivesAt
    <3>10. \A g : <<"recycled", f>> = <<"recycled", g>> => g = f OBVIOUS
    <3> QED BY <3>2, <3>5, <3>7, <3>9, <3>10, <1>9, <1>13, <1>c, MovesTo DEF Keeps
  <2>4. CASE ~IsOf(old, s)
    <3>1. StaysIn(s)
      BY <2>4, <1>5, <1>7, <1>8, <1>9, <1>11, <1>13, <1>c DEF StaysIn
    <3> QED BY <2>1, <2>2, <3>1, <1>h, StaysFrom
  <2> QED BY <2>3, <2>4
<1> QED BY <1>12, <1>13

LEMMA HandlesDrain ==
  ASSUME WSIInv, DrainSwapchain, NEW s \in Handles
  PROVE  HandleInv(s)'
<1>h. HandleInv(s) /\ KeptOnce(s) /\ Meaning(s) BY DEF WSIInv, HandleInv
<1>t. /\ recycled \in FrameLists /\ destroyed \in FrameLists /\ frame \in FrameIds
      /\ queue \in Seq(BatchType) /\ wsi \in WsiType /\ local \in Slot
      /\ release_semaphores = <<>> \/ release_semaphores \in [Images -> Slot]
  BY DEF WSIInv, TypeOK, FrameLists, WsiType
<1>s. /\ Held \subseteq Slot /\ wsi.acquire \in Slot /\ wsi.release \in Slot
  BY <1>t, WsiFields DEF Held
<1>f. PICK f \in FrameIds : f = frame BY <1>t
<1>c. /\ local' = local /\ Draining' /\ release_semaphores' = <<>> /\ DOMAIN release_semaphores' = {}
      /\ Held' = {}
      /\ UNCHANGED <<signals, acquiring, presents, vacant, created>>
  BY DEF DrainSwapchain, Draining, Held
<1>w. \A x : ~IsOf(wsi'.acquire, x) /\ ~IsOf(wsi'.release, x)
  <2>1. None \in Slot BY DEF Slot
  <2>2. Reset(None) \in WsiType /\ Reset(None).acquire = None BY <2>1, <1>t, ResetIs
  <2>3. wsi' = [Reset(None) EXCEPT !.release = None] BY DEF DrainSwapchain
  <2>4. wsi'.acquire = None /\ wsi'.release = None BY <2>2, <2>3, RecordsKept
  <2> QED BY <2>4 DEF IsOf
<1>q. Grown(s) /\ SameElsewhere(s)
  <2>1. queue' = queue \/ queue' = Append(queue, Batch({}, {}, {})) BY DEF DrainSwapchain
  <2>2. Longer BY <2>1, <1>t, LongerQueue
  <2> QED BY <2>2, <1>t, <1>c, LongerGrown DEF SameElsewhere
<1>k. Keeps(s) /\ (Promised(s)' <=> Promised(s)) /\ (Awaited(s)' <=> Awaited(s))
  BY <1>q, <1>h, KeepsFrom
<1> DEFINE slots == (Held \cup {wsi.acquire, wsi.release}) \ {local}
<1>d. DropsTo(slots, f)
  <2>1. Drop(slots) BY DEF DrainSwapchain
  <2>2. slots \subseteq Slot BY <1>s
  <2> QED BY <2>1, <2>2, <1>f, <1>t, DropIs
<1>o. \A o \in slots : /\ o # local
                       /\ \/ \E i \in DOMAIN release_semaphores : o = release_semaphores[i]
                          \/ o = wsi.acquire \/ o = wsi.release
  BY DEF Held
<1>p. /\ wsi.acquire # local => wsi.acquire \in slots
      /\ wsi.release # local => wsi.release \in slots
      /\ \A i \in DOMAIN release_semaphores : release_semaphores[i] # local => release_semaphores[i] \in slots
  BY DEF Held
<1> HIDE DEF slots
<1>m. \A g : /\ <<"recycled", f>> = <<"recycled", g>> => g = f
             /\ <<"destroyed", f>> = <<"destroyed", g>> => g = f
             /\ <<"held", f>> = <<"held", g>> => g = f
  OBVIOUS
<1>1. CASE IsOf(local, s)
  <2>1. PICK z \in Spots(s) : /\ z = <<"local", 0>> \/ \E i : z = <<"held", i>>
                             /\ \A o \in slots : ~IsOf(o, s)
    <3>1. CASE local \in Held
      <4>1. PICK i \in DOMAIN release_semaphores : local = release_semaphores[i] BY <3>1 DEF Held
      <4>2. <<"held", i>> \in Spots(s) BY <4>1, <1>1, SpotIs
      <4>3. LivesAt(s, <<"held", i>>) BY <4>2, <1>h, LivesAtSpot
      <4>4. \A j \in DOMAIN release_semaphores : IsOf(release_semaphores[j], s) => j = i
        BY <4>3 DEF LivesAt
      <4>5. ~IsOf(wsi.acquire, s) /\ ~IsOf(wsi.release, s) BY <4>3 DEF LivesAt
      <4>6. \A o \in slots : ~IsOf(o, s) BY <4>1, <4>4, <4>5, <1>o
      <4> QED BY <4>2, <4>6
    <3>2. CASE local \notin Held
      <4>1. <<"local", 0>> \in Spots(s) BY <3>2, <1>1, SpotIs
      <4>2. LivesAt(s, <<"local", 0>>) BY <4>1, <1>h, LivesAtSpot
      <4>3. \A o \in slots : ~IsOf(o, s) BY <4>2, <1>o DEF LivesAt
      <4> QED BY <4>1, <4>3
    <3> QED BY <3>1, <3>2
  <2>2. /\ s \in created /\ s \notin vacant
        /\ \A g \in FrameIds : s \notin recycled[g] /\ s \notin destroyed[g]
    <3>1. LivesAt(s, z) /\ s \in created BY <2>1, <1>h, LivesAtSpot
    <3> QED BY <2>1, <3>1 DEF LivesAt
  <2>3. \A g \in FrameIds : s \notin recycled'[g] /\ s \notin destroyed'[g]
    BY <2>1, <2>2, <1>d DEF DropsTo
  <2>4. LivesAt(s, <<"local", 0>>)' BY <2>2, <2>3, <1>c, <1>w DEF LivesAt
  <2>5. Balanced(s)' BY <1>1, <1>h, <1>k DEF Meaning, Keeps
  <2> QED BY <2>2, <2>4, <2>5, <1>c, <1>k, MovesTo DEF Keeps
<1>2. ASSUME ~IsOf(local, s), NEW i \in DOMAIN release_semaphores, IsOf(release_semaphores[i], s)
      PROVE  HandleInv(s)'
  <2>1. <<"held", i>> \in Spots(s) BY <1>2, SpotIs
  <2>2. LivesAt(s, <<"held", i>>) /\ s \in created BY <2>1, <1>h, LivesAtSpot
  <2>3. ~release_semaphores[i].signalled /\ Balanced(s) BY <1>2, <1>h DEF Meaning
  <2>4. \A o \in slots : IsOf(o, s) => o = release_semaphores[i]
    <3>1. \A j \in DOMAIN release_semaphores : IsOf(release_semaphores[j], s) => j = i
      BY <2>2 DEF LivesAt
    <3>2. ~IsOf(wsi.acquire, s) /\ ~IsOf(wsi.release, s) BY <2>2 DEF LivesAt
    <3> QED BY <3>1, <3>2, <1>o
  <2>5. /\ \A g \in FrameIds : g # f => s \notin recycled'[g]
        /\ \A g \in FrameIds : s \notin destroyed'[g]
    BY <2>2, <2>3, <2>4, <1>d DEF DropsTo, LivesAt
  <2>6. LivesAt(s, <<"recycled", f>>)' BY <2>2, <2>5, <1>2, <1>c, <1>w DEF LivesAt
  <2>7. Balanced(s)' BY <2>3, <1>k DEF Keeps
  <2> QED BY <2>2, <2>6, <2>7, <1>2, <1>c, <1>k, MovesTo DEF Keeps
<1>3. ASSUME ~IsOf(local, s), NEW o \in {wsi.acquire, wsi.release}, IsOf(o, s)
      PROVE  HandleInv(s)'
  <2>1. o.signalled BY <1>3 DEF WSIInv, FrameSemaphores, IsOf
  <2>2. PICK z \in {<<"acquire", 0>>, <<"release", 0>>} : z \in Spots(s) BY <1>3, SpotIs
  <2>3. LivesAt(s, z) /\ s \in created BY <2>2, <1>h, LivesAtSpot
  <2>4. Armed(s) BY <1>3, <1>h DEF Meaning
  <2>5. \A p \in slots : IsOf(p, s) => p.signalled
    <3>1. wsi.acquire # None => wsi.acquire.signalled BY DEF WSIInv, FrameSemaphores
    <3>2. wsi.release # None => wsi.release.signalled BY DEF WSIInv, FrameSemaphores
    <3>3. \A j \in DOMAIN release_semaphores : ~IsOf(release_semaphores[j], s)
      BY <2>2, <2>3 DEF LivesAt
    <3> QED BY <3>1, <3>2, <3>3, <1>o DEF IsOf
  <2>6. /\ \A g \in FrameIds : s \notin recycled'[g]
        /\ \A g \in FrameIds : g # f => s \notin destroyed'[g]
    BY <2>2, <2>3, <2>5, <1>d DEF DropsTo, LivesAt
  <2>7. s \notin vacant BY <2>2, <2>3 DEF LivesAt
  <2>8. LivesAt(s, <<"destroyed", f>>)' BY <2>6, <2>7, <1>3, <1>c, <1>w DEF LivesAt
  <2>9. ~Awaited(s)' BY <2>4, <1>k DEF Armed
  <2> QED BY <2>3, <2>8, <2>9, <1>3, <1>c, <1>k, MovesTo DEF Keeps
<1>4. CASE /\ ~IsOf(local, s) /\ ~IsOf(wsi.acquire, s) /\ ~IsOf(wsi.release, s)
           /\ \A i \in DOMAIN release_semaphores : ~IsOf(release_semaphores[i], s)
  <2>1. \A o \in slots : ~IsOf(o, s) BY <1>4, <1>o
  <2>2. \A g \in FrameIds : /\ s \in recycled'[g] => s \in recycled[g]
                            /\ s \in destroyed'[g] => s \in destroyed[g]
    BY <2>1, <1>d DEF DropsTo
  <2>3. StaysIn(s) BY <2>2, <1>4, <1>c, <1>w DEF StaysIn
  <2> QED BY <2>3, <1>h, <1>k, StaysPut
<1> QED BY <1>1, <1>2, <1>3, <1>4

\* vkDeviceWaitIdle and the Begin of every frame; a failed present drops `local'.
LEMMA HandlesBeginAll ==
  ASSUME WSIInv, pc \in {"updating", "tearing"}, Idle, ~Draining',
         \/ BeginAll({}) /\ local' = local
         \/ BeginAll({local}) /\ local' = None,
         UNCHANGED <<release_semaphores, wsi, queue, presents, frame>>,
         NEW s \in Handles
  PROVE  HandleInv(s)'
<1>h. HandleInv(s) /\ KeptOnce(s) /\ Meaning(s) BY DEF WSIInv, HandleInv
<1>t. /\ recycled \in FrameLists /\ destroyed \in FrameLists /\ frame \in FrameIds
      /\ queue = <<>> /\ presents = {} /\ release_semaphores = <<>> /\ local \in Slot
      /\ wsi.acquire = None /\ wsi.release = None
  BY DEF WSIInv, TypeOK, FrameLists, Idle, Control, Running
<1>f. PICK f \in FrameIds : f = frame BY <1>t
<1>e. /\ DOMAIN release_semaphores = {} /\ DOMAIN release_semaphores' = {} /\ Held = {} /\ Held' = {}
      /\ DOMAIN queue = {} /\ DOMAIN queue' = {}
  BY <1>t DEF Held
<1>w. \A x : /\ ~IsOf(wsi.acquire, x) /\ ~IsOf(wsi.release, x)
             /\ ~IsOf(wsi'.acquire, x) /\ ~IsOf(wsi'.release, x)
  BY <1>t DEF IsOf
<1>a. /\ ~Awaited(s) /\ ~Awaited(s)' /\ AwaitedOnce(s)'
      /\ (Promised(s) <=> s \in signals \/ s \in acquiring)
      /\ (Promised(s)' <=> s \in signals' \/ s \in acquiring')
      /\ \A g \in FrameIds : AwaitedIn(s, g)'
      /\ NoBatchSignals(s)'
  BY <1>e, <1>t DEF Awaited, Promised, AwaitedOnce, AwaitedIn, NoBatchSignals
<1>g. /\ \A x : x \in vacant' <=> x \in vacant \/ \E g \in FrameIds : x \in recycled[g]
      /\ \A x : x \in created' <=> x \in created /\ \A g \in FrameIds : x \notin destroyed[g]
      /\ \A x : x \in signals' <=> x \in signals /\ \A g \in FrameIds : x \notin destroyed[g]
      /\ \A x : x \in acquiring' <=> x \in acquiring /\ \A g \in FrameIds : x \notin destroyed[g]
  <2>1. Begin(DOMAIN recycled) BY DEF BeginAll
  <2>2. DOMAIN recycled = FrameIds BY <1>t DEF FrameLists
  <2> QED BY <2>1, <2>2 DEF Begin
<1>l. /\ \A g \in FrameIds : \A x :
           /\ x \in recycled'[g] => IsOf(local, x) /\ ~local.signalled /\ g = f
           /\ x \in destroyed'[g] => IsOf(local, x) /\ local.signalled /\ g = f
      /\ IsOf(local', s) => local' = local /\ \A g \in FrameIds : s \notin recycled'[g] /\ s \notin destroyed'[g]
  <2>1. PICK d \in SUBSET {local} : BeginAll(d) /\ (d = {} \/ local' = None) /\ (local' = None \/ local' = local)
    OBVIOUS
  <2>2. d \subseteq Slot BY <2>1, <1>t
  <2>3. \A g \in FrameIds : \A x : /\ x \in recycled'[g] => g = f /\ x \in Dropped(d, FALSE)
                                   /\ x \in destroyed'[g] => g = f /\ x \in Dropped(d, TRUE)
    BY <2>1, <1>f, <1>t DEF BeginAll, FrameLists
  <2>4. \A x : /\ x \in Dropped(d, FALSE) => \E o \in d : IsOf(o, x) /\ o.signalled = FALSE
               /\ x \in Dropped(d, TRUE) => \E o \in d : IsOf(o, x) /\ o.signalled = TRUE
    BY <2>2, DroppedIn
  <2>5. \A x : /\ x \in Dropped(d, FALSE) => IsOf(local, x) /\ ~local.signalled /\ d # {}
               /\ x \in Dropped(d, TRUE) => IsOf(local, x) /\ local.signalled /\ d # {}
    BY <2>1, <2>4
  <2> QED BY <2>1, <2>3, <2>5 DEF IsOf
<1>o. SignalledOnce(s)' BY <1>h, <1>e, <1>g DEF SignalledOnce, HandleInv
<1>1. ASSUME NEW g \in FrameIds, s \in recycled[g] PROVE HandleInv(s)'
  <2>1. LivesAt(s, <<"recycled", g>>) /\ s \in created BY <1>1, <1>h, SpotIs, LivesAtSpot
  <2>2. ~Promised(s) BY <1>1, <1>h, <1>a DEF Meaning, Balanced
  <2>3. ~Promised(s)' BY <2>2, <1>a, <1>g
  <2>4. ~IsOf(local, s) /\ ~IsOf(local', s)
    <3>1. ~IsOf(local, s) BY <2>1, <1>e DEF LivesAt
    <3> QED BY <3>1, <1>l
  <2>5. LivesAt(s, <<"vacant", 0>>)' BY <2>4, <1>l, <1>e, <1>w DEF LivesAt
  <2>6. s \in created' BY <2>1, <1>g DEF LivesAt
  <2> QED BY <2>3, <2>4, <2>5, <2>6, <1>a, <1>o, MovesTo
<1>2. ASSUME NEW g \in FrameIds, s \in destroyed[g] PROVE HandleInv(s)'
  <2>1. LivesAt(s, <<"destroyed", g>>) /\ s \in created BY <1>2, <1>h, SpotIs, LivesAtSpot
  <2>2. ~Promised(s)' BY <1>2, <1>a, <1>g
  <2>3. ~IsOf(local, s) /\ ~IsOf(local', s)
    <3>1. ~IsOf(local, s) BY <2>1, <1>e DEF LivesAt
    <3> QED BY <3>1, <1>l
  <2>4. s \notin vacant' BY <2>1, <1>g DEF LivesAt
  <2>5. LivesAt(s, <<"nowhere", 0>>)' BY <2>3, <2>4, <1>l, <1>e, <1>w DEF LivesAt
  <2> QED BY <2>2, <2>3, <2>5, <1>a, <1>o, MovesTo
<1>3. CASE \A g \in FrameIds : s \notin recycled[g] /\ s \notin destroyed[g]
  <2>1. SameElsewhere(s) /\ Grown(s) BY <1>3, <1>e, <1>g, <1>t DEF SameElsewhere, Grown
  <2>2. CASE IsOf(local, s)
    <3>1. LivesAt(s, <<"local", 0>>) /\ s \in created BY <2>2, <1>h, <1>e, SpotIs, LivesAtSpot
    <3>2. Balanced(s)' /\ ~Promised(s)' BY <2>2, <1>h, <1>a, <1>g DEF Meaning, Balanced
    <3>3. s \in created' /\ s \notin vacant' BY <3>1, <1>3, <1>g DEF LivesAt
    <3>4. PICK x \in {<<"recycled", f>>, <<"destroyed", f>>, <<"local", 0>>} : LivesAt(s, x)'
      <4>1. CASE IsOf(local', s)
        <5>1. LivesAt(s, <<"local", 0>>)' BY <4>1, <3>3, <1>l, <1>e, <1>w DEF LivesAt
        <5> QED BY <5>1
      <4>2. CASE ~IsOf(local', s) /\ local.signalled
        <5>1. LivesAt(s, <<"destroyed", f>>)' BY <4>2, <3>3, <1>l, <1>e, <1>w DEF LivesAt
        <5> QED BY <5>1
      <4>3. CASE ~IsOf(local', s) /\ ~local.signalled
        <5>1. LivesAt(s, <<"recycled", f>>)' BY <4>3, <3>3, <1>l, <1>e, <1>w DEF LivesAt
        <5> QED BY <5>1
      <4> QED BY <4>1, <4>2, <4>3
    <3> QED BY <3>2, <3>3, <3>4, <1>a, <1>e, <1>o, MovesTo
  <2>3. CASE ~IsOf(local, s)
    <3>1. StaysIn(s) BY <2>3, <1>3, <1>e, <1>g, <1>l, <1>w DEF StaysIn
    <3> QED BY <2>1, <3>1, <1>h, StaysFrom
  <2> QED BY <2>2, <2>3
<1> QED BY <1>1, <1>2, <1>3

\* InitSucceeds and the InitFails that returns.
LEMMA HandlesInitReturns ==
  ASSUME WSIInv, pc = "init", ~Draining', local' = None, Drop({local}),
         UNCHANGED <<queue, presents, signals, acquiring, vacant, created>>,
         wsi'.acquire = None, wsi'.release = None,
         \A i \in DOMAIN release_semaphores' : release_semaphores'[i] = None,
         NEW s \in Handles
  PROVE  HandleInv(s)'
<1>h. HandleInv(s) /\ KeptOnce(s) /\ Meaning(s) BY DEF WSIInv, HandleInv
<1>t. /\ recycled \in FrameLists /\ destroyed \in FrameLists /\ frame \in FrameIds
      /\ queue = <<>> /\ presents = {} /\ release_semaphores = <<>> /\ local \in Slot
      /\ ~Draining
  BY DEF WSIInv, TypeOK, FrameLists, Control, Running, Draining
<1>f. PICK f \in FrameIds : f = frame BY <1>t
<1>e. DOMAIN queue' = {} /\ Held = {} BY <1>t DEF Held
<1>w. \A x : /\ ~IsOf(wsi'.acquire, x) /\ ~IsOf(wsi'.release, x) /\ ~IsOf(local', x)
             /\ \A i \in DOMAIN release_semaphores' : ~IsOf(release_semaphores'[i], x)
  BY DEF IsOf
<1>d. DropsTo({local}, f) BY <1>f, <1>t, DropIs
<1>q. Grown(s) /\ SameElsewhere(s) BY DEF Grown, SameElsewhere
<1>1. CASE IsOf(local, s)
  <2>1. LivesAt(s, <<"local", 0>>) /\ s \in created BY <1>1, <1>h, <1>e, SpotIs, LivesAtSpot
  <2>2. ~Awaited(s)' /\ NoBatchSignals(s)' /\ \A g \in FrameIds : AwaitedIn(s, g)'
    BY <1>e, <1>t DEF Awaited, NoBatchSignals, AwaitedIn
  <2>3. Keeps(s) /\ Balanced(s)' BY <1>1, <1>h, <1>q, KeepsFrom DEF Meaning, Keeps
  <2>4. PICK x \in {<<"recycled", f>>, <<"destroyed", f>>} : LivesAt(s, x)'
    <3>1. CASE local.signalled = TRUE
      <4>1. LivesAt(s, <<"destroyed", f>>)' BY <3>1, <2>1, <1>d, <1>w DEF LivesAt, DropsTo
      <4> QED BY <4>1
    <3>2. CASE local.signalled # TRUE
      <4>1. LivesAt(s, <<"recycled", f>>)' BY <3>2, <2>1, <1>d, <1>w DEF LivesAt, DropsTo
      <4> QED BY <4>1
    <3> QED BY <3>1, <3>2
  <2> QED BY <2>1, <2>2, <2>3, <2>4, <1>w, MovesTo DEF Keeps
<1>2. CASE ~IsOf(local, s)
  <2>1. StaysIn(s) BY <1>2, <1>d, <1>t, <1>w DEF StaysIn, DropsTo
  <2> QED BY <2>1, <1>q, <1>h, StaysFrom
<1> QED BY <1>1, <1>2

LEMMA HandlesExecuteBatch ==
  ASSUME WSIInv, ExecuteBatch, NEW s \in Handles
  PROVE  HandleInv(s)'
<1>h. /\ HandleInv(s) /\ SignalledOnce(s) /\ AwaitedOnce(s) BY DEF WSIInv, HandleInv
<1>t. queue \in Seq(BatchType) /\ queue # <<>> BY DEF WSIInv, TypeOK, ExecuteBatch
<1>u. /\ UNCHANGED <<pc, local, wsi, release_semaphores, presents, acquiring,
                     recycled, destroyed, vacant, created>>
      /\ Held' = Held /\ (Draining' <=> Draining)
  BY DEF ExecuteBatch, wsiVars, frameVars, Held, Draining
<1>s. StaysIn(s) BY <1>u DEF StaysIn
<1>1. /\ 1 \in DOMAIN queue /\ queue[1].waits \subseteq signals
      /\ signals' = (signals \ queue[1].waits) \cup queue[1].signals
      /\ \A k \in DOMAIN queue' : k + 1 \in DOMAIN queue /\ k + 1 # 1 /\ queue'[k] = queue[k + 1]
      /\ \A k \in DOMAIN queue : k = 1 \/ (k - 1 \in DOMAIN queue' /\ queue'[k - 1] = queue[k])
  <2>1. /\ Head(queue) = queue[1] /\ 1 \in DOMAIN queue /\ DOMAIN queue' = 1..(Len(queue) - 1)
        /\ Len(queue) \in Nat
        /\ \A k \in DOMAIN queue' : k + 1 \in DOMAIN queue /\ queue'[k] = queue[k + 1]
        /\ \A k \in DOMAIN queue : k = 1 \/ (k - 1 \in DOMAIN queue' /\ queue'[k - 1] = queue[k])
    BY <1>t, TailBatch DEF ExecuteBatch
  <2>2. \A k \in DOMAIN queue' : k + 1 # 1 BY <2>1
  <2> QED BY <2>1, <2>2 DEF ExecuteBatch
<1>2. /\ s \in queue[1].waits => /\ s \in signals /\ s \notin acquiring /\ s \notin queue[1].signals
                                 /\ \A k \in DOMAIN queue : s \notin queue[k].signals
                                 /\ \A k \in DOMAIN queue' : s \notin queue'[k].waits
                                 /\ \A p \in presents : p.sem # s
      /\ s \in queue[1].signals => /\ s \notin signals /\ s \notin acquiring
                                   /\ \A k \in DOMAIN queue' : s \notin queue'[k].signals
  BY <1>1, <1>h DEF SignalledOnce, AwaitedOnce
<1>3. /\ (\E k \in DOMAIN queue' : s \in queue'[k].waits) =>
           s \notin queue[1].waits /\ \E k \in DOMAIN queue : s \in queue[k].waits
      /\ (\E k \in DOMAIN queue' : s \in queue'[k].signals) =>
           s \notin queue[1].signals /\ \E k \in DOMAIN queue : s \in queue[k].signals
      /\ (\E k \in DOMAIN queue : s \in queue[k].waits) =>
           s \in queue[1].waits \/ \E k \in DOMAIN queue' : s \in queue'[k].waits
      /\ (\E k \in DOMAIN queue : s \in queue[k].signals) =>
           s \in queue[1].signals \/ \E k \in DOMAIN queue' : s \in queue'[k].signals
  BY <1>1, <1>2
<1>4. CASE s \in queue[1].waits
  <2>1. ~Promised(s)' /\ ~Awaited(s)'
    <3>1. ~Promised(s)' BY <1>1, <1>2, <1>3, <1>4, <1>u DEF Promised
    <3>2. \A k \in DOMAIN queue' : s \notin queue'[k].waits BY <1>2, <1>4
    <3>3. \A p \in presents' : p.sem # s BY <1>2, <1>4, <1>u
    <3>4. ~Awaited(s)' BY <3>2, <3>3 DEF Awaited
    <3> QED BY <3>1, <3>4
  <2>2. Promised(s) /\ Awaited(s) BY <1>1, <1>2, <1>4 DEF Promised, Awaited
  <2>3. SignalledOnce(s)' BY <2>1 DEF SignalledOnce, Promised
  <2>4. AwaitedOnce(s)' BY <2>1 DEF AwaitedOnce, Awaited
  <2>5. /\ \A f : AwaitedIn(s, f)'
        /\ NoBatchWaits(s)' /\ NoBatchSignals(s)'
    BY <2>1 DEF AwaitedIn, NoBatchWaits, NoBatchSignals, Awaited, Promised
  <2>6. Keeps(s) BY <2>1, <2>2, <2>3, <2>4, <2>5, <1>u DEF Keeps, Balanced, Armed
  <2> QED BY <2>6, <1>h, <1>s, StaysPut
<1>5. CASE s \notin queue[1].waits
  <2>1. Promised(s)' <=> Promised(s) BY <1>1, <1>3, <1>5, <1>u DEF Promised
  <2>2. Awaited(s)' <=> Awaited(s) BY <1>1, <1>3, <1>5, <1>u DEF Awaited
  <2>3. SignalledOnce(s)'
    <3>1. ~(s \in signals' /\ s \in acquiring') BY <1>1, <1>2, <1>5, <1>h, <1>u DEF SignalledOnce
    <3>2. \A k \in DOMAIN queue' : s \in queue'[k].signals => s \notin signals' /\ s \notin acquiring'
      BY <1>1, <1>2, <1>5, <1>h, <1>u DEF SignalledOnce
    <3>3. \A k, l \in DOMAIN queue' : s \in queue'[k].signals /\ s \in queue'[l].signals => k = l
      <4>1. \A k, l \in DOMAIN queue' : s \in queue'[k].signals /\ s \in queue'[l].signals => k + 1 = l + 1
        BY <1>1, <1>h DEF SignalledOnce
      <4>2. DOMAIN queue' \subseteq Int BY <1>t, TailBatch DEF ExecuteBatch
      <4> QED BY <4>1, <4>2
    <3> QED BY <3>1, <3>2, <3>3 DEF SignalledOnce
  <2>4. AwaitedOnce(s)'
    <3>1. \A k, l \in DOMAIN queue' : s \in queue'[k].waits /\ s \in queue'[l].waits => k = l
      <4>1. \A k, l \in DOMAIN queue' : s \in queue'[k].waits /\ s \in queue'[l].waits => k + 1 = l + 1
        BY <1>1, <1>h DEF AwaitedOnce
      <4>2. DOMAIN queue' \subseteq Int BY <1>t, TailBatch DEF ExecuteBatch
      <4> QED BY <4>1, <4>2
    <3>2. \A k \in DOMAIN queue' : \A p \in presents' : s \in queue'[k].waits => p.sem # s
      BY <1>1, <1>h, <1>u DEF AwaitedOnce
    <3> QED BY <3>1, <3>2, <1>h, <1>u DEF AwaitedOnce
  <2>5. \A f \in FrameIds : AwaitedIn(s, f) => AwaitedIn(s, f)' BY <1>1, <1>u DEF AwaitedIn
  <2>6. /\ NoBatchWaits(s) => NoBatchWaits(s)'
        /\ NoBatchSignals(s) => NoBatchSignals(s)'
    BY <1>1 DEF NoBatchWaits, NoBatchSignals
  <2>7. Keeps(s)
    BY <2>1, <2>2, <2>3, <2>4, <2>5, <2>6, <1>h, <1>u DEF Keeps, Balanced, Armed, HandleInv
  <2> QED BY <2>7, <1>h, <1>s, StaysPut
<1> QED BY <1>4, <1>5

LEMMA HandlesExecutePresent ==
  ASSUME WSIInv, ExecutePresent, NEW s \in Handles
  PROVE  HandleInv(s)'
<1>h. /\ HandleInv(s) /\ SignalledOnce(s) /\ AwaitedOnce(s) BY DEF WSIInv, HandleInv
<1>1. PICK p \in presents : /\ p.sem \in signals /\ signals' = signals \ {p.sem}
                            /\ presents' = presents \ {p}
  BY DEF ExecutePresent
<1>u. /\ UNCHANGED <<pc, local, wsi, release_semaphores, queue, acquiring,
                     recycled, destroyed, vacant, created>>
      /\ Held' = Held /\ (Draining' <=> Draining)
  BY DEF ExecutePresent, wsiVars, frameVars, Held, Draining
<1>s. StaysIn(s) BY <1>u DEF StaysIn
<1>2. CASE p.sem = s
  <2>1. ~Promised(s)' BY <1>1, <1>2, <1>h, <1>u DEF Promised, SignalledOnce
  <2>2. ~Awaited(s)' BY <1>1, <1>2, <1>h, <1>u DEF Awaited, AwaitedOnce
  <2>3. Promised(s) /\ Awaited(s) BY <1>1, <1>2 DEF Promised, Awaited
  <2>4. SignalledOnce(s)' BY <2>1 DEF SignalledOnce, Promised
  <2>5. AwaitedOnce(s)' BY <2>2 DEF AwaitedOnce, Awaited
  <2>6. /\ \A f : AwaitedIn(s, f)'
        /\ NoBatchWaits(s)' /\ NoBatchSignals(s)'
    BY <2>1, <2>2 DEF AwaitedIn, NoBatchWaits, NoBatchSignals, Awaited, Promised
  <2>7. Keeps(s) BY <2>1, <2>2, <2>3, <2>4, <2>5, <2>6, <1>1 DEF Keeps, Balanced, Armed
  <2> QED BY <2>7, <1>h, <1>s, StaysPut
<1>3. CASE p.sem # s
  <2>1. Grown(s) /\ SameElsewhere(s) BY <1>1, <1>3, <1>u DEF Grown, SameElsewhere
  <2> QED BY <2>1, <1>h, <1>s, StaysFrom
<1> QED BY <1>2, <1>3

LEMMA HandlesSignalAcquire ==
  ASSUME WSIInv, SignalAcquire, NEW s \in Handles
  PROVE  HandleInv(s)'
<1>h. /\ HandleInv(s) /\ SignalledOnce(s) BY DEF WSIInv, HandleInv
<1>1. PICK r \in acquiring : acquiring' = acquiring \ {r} /\ signals' = signals \cup {r}
  BY DEF SignalAcquire
<1>u. /\ UNCHANGED <<pc, local, wsi, release_semaphores, queue, presents,
                     recycled, destroyed, vacant, created>>
      /\ Held' = Held /\ (Draining' <=> Draining)
  BY DEF SignalAcquire, wsiVars, frameVars, Held, Draining
<1>s. StaysIn(s) BY <1>u DEF StaysIn
<1>2. (Promised(s)' <=> Promised(s)) /\ (Awaited(s)' <=> Awaited(s))
  BY <1>1, <1>u DEF Promised, Awaited
<1>3. SignalledOnce(s)' BY <1>1, <1>h, <1>u DEF SignalledOnce
<1>4. AwaitedOnce(s)' BY <1>h, <1>u DEF AwaitedOnce, HandleInv
<1>5. /\ \A f \in FrameIds : AwaitedIn(s, f) => AwaitedIn(s, f)'
      /\ NoBatchWaits(s) => NoBatchWaits(s)'
      /\ NoBatchSignals(s) => NoBatchSignals(s)'
  BY <1>u DEF AwaitedIn, NoBatchWaits, NoBatchSignals
<1>6. Keeps(s) BY <1>2, <1>3, <1>4, <1>5, <1>h, <1>u DEF Keeps, Balanced, Armed, HandleInv
<1> QED BY <1>6, <1>h, <1>s, StaysPut

LEMMA HandlesStep ==
  ASSUME WSIInv, [Next]_vars, Survivable
  PROVE  \A s \in Handles : HandleInv(s)'
<1> SUFFICES ASSUME NEW s \in Handles PROVE HandleInv(s)' OBVIOUS
<1>1. CASE \E uses \in BOOLEAN : Record(uses)
  BY <1>1, HandlesSame DEF Record, Draining, wsiVars, gpuVars
<1>2. CASE \E mode \in BOOLEAN : SetPresentMode(mode)
  BY <1>2, HandlesSame DEF SetPresentMode, Draining, gpuVars
<1>3. CASE DeinitSurfaceAndSwapchain
  BY <1>3, HandlesSame DEF DeinitSurfaceAndSwapchain, Draining, wsiVars, gpuVars
<1>4. CASE InitSurfaceAndSwapchain
  BY <1>4, HandlesSame DEF InitSurfaceAndSwapchain, Draining, gpuVars
<1>5. CASE NothingToPresent
  BY <1>5, HandlesSame DEF NothingToPresent, Draining, wsiVars, gpuVars
<1>6. CASE UNCHANGED vars
  BY <1>6, HandlesSame DEF vars, Draining, wsiVars, gpuVars
<1>7. CASE FlushFrame BY <1>7, HandlesEndFrame DEF FlushFrame, Running, Draining
<1>8. CASE BeginFrame BY <1>8, HandlesEndFrame DEF BeginFrame, Running, Draining
<1>9. CASE EndFrame BY <1>9, HandlesEndFrame DEF EndFrame, Running, Draining
<1>10. CASE Updated
  <2>1. BeginAll({}) /\ local' = local /\ pc = "updating" /\ Idle /\ ~Draining'
        /\ UNCHANGED <<release_semaphores, wsi, queue, presents, frame>>
    BY <1>10 DEF Updated, Draining
  <2> QED BY <2>1, HandlesBeginAll
<1>11. CASE TornDown
  <2>1. /\ \/ BeginAll({}) /\ local' = local
           \/ BeginAll({local}) /\ local' = None
        /\ pc = "tearing" /\ Idle /\ ~Draining'
        /\ UNCHANGED <<release_semaphores, wsi, queue, presents, frame>>
    BY <1>11 DEF TornDown, Draining
  <2> QED BY <2>1, HandlesBeginAll
<1>12. CASE InitSucceeds
  <2>1. wsi.acquire = None /\ wsi.release = None /\ wsi \in WsiType
    BY <1>12 DEF InitSucceeds, WSIInv, TypeOK, WsiType, Control, Running
  <2>2. wsi'.acquire = None /\ wsi'.release = None
    <3>1. None \in Slot BY DEF Slot
    <3> QED BY <1>12, <2>1, <3>1, ResetIs DEF InitSucceeds
  <2>3. /\ pc = "init" /\ ~Draining' /\ local' = None /\ Drop({local})
        /\ UNCHANGED <<queue, presents, signals, acquiring, vacant, created>>
        /\ \A i \in DOMAIN release_semaphores' : release_semaphores'[i] = None
    BY <1>12 DEF InitSucceeds, InitReturns, Draining
  <2> QED BY <2>2, <2>3, HandlesInitReturns
<1>13. CASE InitFails
  <2>1. CASE RetriesLeft
    BY <1>13, <2>1, HandlesSame DEF InitFails, Draining, frameVars
  <2>2. CASE ~RetriesLeft
    <3>1. InitReturns(FALSE) BY <1>13, <2>2 DEF InitFails
    <3>2. /\ pc = "init" /\ wsi.acquire = None /\ wsi.release = None /\ release_semaphores = <<>>
      BY <1>13 DEF InitFails, WSIInv, Control, Running
    <3>3. /\ ~Draining' /\ local' = None /\ Drop({local}) BY <3>1 DEF InitReturns, Draining
    <3>4. UNCHANGED <<queue, presents, signals, acquiring, vacant, created, wsi, release_semaphores>>
      BY <1>13 DEF InitFails
    <3>5. DOMAIN release_semaphores' = {} BY <3>2, <3>4
    <3> QED BY <3>2, <3>3, <3>4, <3>5, HandlesInitReturns
  <2> QED BY <2>1, <2>2
<1> QED
  BY <1>1, <1>2, <1>3, <1>4, <1>5, <1>6, <1>7, <1>8, <1>9, <1>10, <1>11, <1>12, <1>13,
     HandlesFrameBegins, HandlesAcquireSucceeds, HandlesAcquireRejected, HandlesAcquireFails,
     HandlesPresentSucceeds, HandlesPresentFails, HandlesDrain, HandlesExecuteBatch,
     HandlesExecutePresent, HandlesSignalAcquire DEF Next

-----------------------------------------------------------------------------
(* The images.                                                             *)

Owned == Presented /\ Ordered /\ ImagesOwned

\* New batches, if any, are empty.
LEMMA ImagesLonger ==
  ASSUME WSIInv, Longer, UNCHANGED <<image, presents>>,
         UNCHANGED <<wsi, swapchain_index>> \/ (wsi'.acquire = None /\ wsi'.release = None)
  PROVE  Owned'
<1>t. queue \in Seq(BatchType) /\ DOMAIN queue = 1..Len(queue) /\ Len(queue) \in Nat
  BY QueueType DEF WSIInv, TypeOK
<1>i. Presented /\ Ordered /\ ImagesOwned BY DEF WSIInv
<1>1. /\ DOMAIN queue' = 1..Len(queue') /\ Len(queue') \in Nat /\ Len(queue) <= Len(queue')
      /\ \A k \in DOMAIN queue : k \in DOMAIN queue' /\ queue'[k] = queue[k]
      /\ \A k \in DOMAIN queue' : queue'[k].draws # {} => k \in DOMAIN queue
  <2>1. Batch({}, {}, {}).draws = {} BY DEF Batch
  <2>2. queue' \in Seq(BatchType) BY DEF Longer
  <2>3. DOMAIN queue' = 1..Len(queue') /\ Len(queue') \in Nat BY <2>2
  <2> QED BY <2>1, <2>3 DEF Longer
<1>2. Presented' BY <1>i DEF Presented
<1>3. \A k \in DOMAIN queue : \A j \in k..Len(queue) : j \in k..Len(queue') /\ queue'[j] = queue[j]
  <2>1. ASSUME NEW k \in DOMAIN queue, NEW j \in k..Len(queue)
        PROVE  j \in k..Len(queue') /\ j \in DOMAIN queue
    BY <1>t, <1>1, <2>1
  <2> QED BY <2>1, <1>1
<1>4. \A k \in DOMAIN queue : \A j \in 1..k : queue'[j] = queue[j]
  <2>1. ASSUME NEW k \in DOMAIN queue, NEW j \in 1..k PROVE j \in DOMAIN queue
    BY <1>t, <2>1
  <2> QED BY <2>1, <1>1
<1>5. Ordered'
  <2>1. CASE wsi'.acquire = None /\ wsi'.release = None BY <2>1 DEF Ordered
  <2>2. CASE UNCHANGED <<wsi, swapchain_index>>
    <3>1. wsi'.acquire # None /\ image'[swapchain_index'].sem \notin {None, wsi'.acquire.sem} =>
            \E j \in DOMAIN queue' : image'[swapchain_index'].sem \in queue'[j].waits
      BY <2>2, <1>1, <1>i DEF Ordered
    <3>2. ASSUME wsi'.release # None, NEW k \in DOMAIN queue', swapchain_index' \in queue'[k].draws
          PROVE  \E j \in k..Len(queue') : wsi'.release.sem \in queue'[j].signals
      <4>1. k \in DOMAIN queue /\ swapchain_index \in queue[k].draws BY <2>2, <3>2, <1>1
      <4>2. PICK j \in k..Len(queue) : wsi.release.sem \in queue[j].signals
        BY <2>2, <3>2, <4>1, <1>i DEF Ordered
      <4> QED BY <2>2, <4>1, <4>2, <1>3
    <3> QED BY <3>1, <3>2 DEF Ordered
  <2> QED BY <2>1, <2>2
<1>6. ImagesOwned'
  <2>1. ASSUME NEW k \in DOMAIN queue', NEW i \in queue'[k].draws
        PROVE  /\ image'[i].state \in {"acquired", "presenting"}
               /\ image'[i].sem # None => \E j \in 1..k : image'[i].sem \in queue'[j].waits
               /\ \A p \in presents' : p.image = i => \E j \in k..Len(queue') : p.sem \in queue'[j].signals
    <3>1. k \in DOMAIN queue /\ i \in queue[k].draws BY <2>1, <1>1
    <3>2. /\ image[i].state \in {"acquired", "presenting"}
          /\ image[i].sem # None => \E j \in 1..k : image[i].sem \in queue[j].waits
          /\ \A p \in presents : p.image = i => \E j \in k..Len(queue) : p.sem \in queue[j].signals
      BY <3>1, <1>i DEF ImagesOwned
    <3> QED BY <3>1, <3>2, <1>3, <1>4
  <2> QED BY <2>1 DEF ImagesOwned
<1> QED BY <1>2, <1>5, <1>6 DEF Owned

LEMMA ImagesSame ==
  ASSUME WSIInv, UNCHANGED <<queue, image, presents>>,
         UNCHANGED <<wsi, swapchain_index>> \/ (wsi'.acquire = None /\ wsi'.release = None)
  PROVE  Owned'
<1>1. Longer BY LongerQueue DEF WSIInv, TypeOK
<1> QED BY <1>1, ImagesLonger

LEMMA ImagesIdle ==
  ASSUME queue' = <<>>, presents' = {}, wsi'.acquire = None, wsi'.release = None
  PROVE  Owned'
<1>1. DOMAIN queue' = {} OBVIOUS
<1> QED BY <1>1 DEF Owned, Presented, Ordered, ImagesOwned

\* FlushFrame, BeginFrame and EndFrame.
LEMMA ImagesEndFrame ==
  ASSUME WSIInv, EndFrameNolock, UNCHANGED <<image, presents, swapchain_index>>
  PROVE  Owned'
<1>c. TypeOK /\ Control /\ FrameSemaphores BY DEF WSIInv
<1>t. /\ queue \in Seq(BatchType) /\ DOMAIN queue = 1..Len(queue) /\ Len(queue) \in Nat
      /\ swapchain_index \in Images
  BY QueueType DEF WSIInv, TypeOK
<1>i. Presented /\ Ordered /\ ImagesOwned BY DEF WSIInv
<1>1. CASE UNCHANGED wsi /\ Longer BY <1>1, ImagesLonger
<1>2. CASE /\ has_acquired /\ wsi.acquire # None /\ wsi.acquire.sem \in Handles
           /\ \E release \in Cleared, n \in Nat : Opened(release, n)
  <2>1. PICK r \in Cleared, n \in Nat : Opened(r, n) BY <1>2
  <2>2. /\ DOMAIN queue' = 1..n /\ n > Len(queue) /\ Len(queue') = n
        /\ \A k \in DOMAIN queue : k \in DOMAIN queue' /\ queue'[k] = queue[k]
        /\ queue'[n].waits = {wsi.acquire.sem} /\ queue'[n].signals = {r}
        /\ queue'[n].draws = {swapchain_index}
        /\ \A k \in DOMAIN queue' : k = n \/ k \in DOMAIN queue \/ queue'[k].draws = {}
        /\ n \in DOMAIN queue'
    <3>1. Batch({}, {}, {}).draws = {} BY DEF Batch
    <3>2. /\ Batch({wsi.acquire.sem}, {r}, {swapchain_index}).waits = {wsi.acquire.sem}
          /\ Batch({wsi.acquire.sem}, {r}, {swapchain_index}).signals = {r}
          /\ Batch({wsi.acquire.sem}, {r}, {swapchain_index}).draws = {swapchain_index}
      BY DEF Batch
    <3>3. queue' \in Seq(BatchType) /\ DOMAIN queue' = 1..n /\ n > Len(queue) BY <2>1 DEF Opened
    <3>4. Len(queue') = n /\ n \in DOMAIN queue' BY <3>3, <1>t
    <3> QED BY <2>1, <3>1, <3>2, <3>3, <3>4 DEF Opened
  <2>3. wsi'.acquire = None /\ wsi'.release.sem = r BY <2>1 DEF Opened
  <2>4. Presented' BY <1>i DEF Presented
  <2>5. Ordered'
    <3>1. ASSUME NEW k \in DOMAIN queue' PROVE \E j \in k..Len(queue') : r \in queue'[j].signals
      <4>1. n \in k..Len(queue') BY <2>2, <3>1
      <4> QED BY <4>1, <2>2
    <3> QED BY <2>3, <3>1 DEF Ordered
  <2>6. ASSUME NEW k \in DOMAIN queue', NEW i \in queue'[k].draws
        PROVE  /\ image'[i].state \in {"acquired", "presenting"}
               /\ image'[i].sem # None => \E j \in 1..k : image'[i].sem \in queue'[j].waits
               /\ \A p \in presents' : p.image = i => \E j \in k..Len(queue') : p.sem \in queue'[j].signals
    <3>1. CASE k \in DOMAIN queue
      <4>1. i \in queue[k].draws BY <3>1, <2>2, <2>6
      <4>2. /\ image[i].state \in {"acquired", "presenting"}
            /\ image[i].sem # None => \E j \in 1..k : image[i].sem \in queue[j].waits
            /\ \A p \in presents : p.image = i => \E j \in k..Len(queue) : p.sem \in queue[j].signals
        BY <3>1, <4>1, <1>i DEF ImagesOwned
      <4>3. /\ \A j \in 1..k : j \in DOMAIN queue
            /\ \A j \in k..Len(queue) : j \in DOMAIN queue /\ j \in k..Len(queue')
        BY <3>1, <2>2, <1>t
      <4> QED BY <4>2, <4>3, <2>2
    <3>2. CASE k = n /\ k \notin DOMAIN queue
      <4>1. i = swapchain_index /\ image[i].state = "acquired"
        BY <3>2, <2>2, <2>6, <1>2, <1>c DEF Control
      <4>2. \A p \in presents : p.image # i BY <4>1, <1>i DEF Presented
      <4>3. ASSUME image[i].sem # None PROVE \E j \in 1..n : image[i].sem \in queue'[j].waits
        <5>1. CASE image[i].sem = wsi.acquire.sem
          <6>1. n \in 1..n BY <2>2, <1>t
          <6> QED BY <5>1, <6>1, <2>2
        <5>2. CASE image[i].sem # wsi.acquire.sem
          <6>1. PICK j \in DOMAIN queue : image[i].sem \in queue[j].waits
            BY <4>1, <4>3, <5>2, <1>2, <1>i DEF Ordered
          <6>2. j \in 1..n BY <2>2
          <6> QED BY <6>1, <6>2, <2>2
        <5> QED BY <5>1, <5>2
      <4> QED BY <3>2, <4>1, <4>2, <4>3
    <3> QED BY <3>1, <3>2, <2>2, <2>6
  <2>7. ImagesOwned' BY <2>6 DEF ImagesOwned
  <2> QED BY <2>4, <2>5, <2>7 DEF Owned
<1> QED
  <2>1. wsi.acquire \in Object => wsi.acquire # None /\ wsi.acquire.sem \in Handles BY ObjectFields
  <2> QED BY <2>1, <1>1, <1>2, <1>c, EndsFrame

LEMMA ImagesAcquireSucceeds ==
  ASSUME WSIInv, AcquireSucceeds
  PROVE  Owned'
<1>t. /\ queue \in Seq(BatchType) /\ DOMAIN queue = 1..Len(queue) /\ Len(queue) \in Nat
      /\ created \subseteq Handles /\ vacant \subseteq created /\ image \in [Images -> ImageType]
      /\ wsi \in WsiType /\ frame \in FrameIds /\ presents \subseteq PresentType
  BY QueueType DEF WSIInv, TypeOK, WsiType
<1>i. Presented /\ Ordered /\ ImagesOwned BY DEF WSIInv
<1>c. wsi.release = None BY DEF WSIInv, AcquireSucceeds, FrameSemaphores
<1>1. PICK i \in Images, r \in Cleared :
        /\ image[i].state = "engine"
        /\ image' = [image EXCEPT ![i] = [state |-> "acquired", sem |-> r]]
        /\ swapchain_index' = i
        /\ \/ \E t \in Handles : /\ queue' = Append(queue, Batch({r}, {t}, {i}))
                                 /\ wsi' = Reset([sem |-> t, signalled |-> TRUE])
           \/ wsi' = Reset([sem |-> r, signalled |-> TRUE]) /\ UNCHANGED queue
  BY <1>t DEF AcquireSucceeds
<1>2. r \in Handles BY <1>t, ClearedIn
<1>3. /\ image'[i].state = "acquired" /\ image'[i].sem = r
      /\ \A x \in Images : x # i => image'[x] = image[x]
  BY <1>1, <1>t
<1>4. presents' = presents /\ (\A p \in presents : p.image # i) BY <1>1, <1>i DEF AcquireSucceeds, Presented
<1>5. Presented'
  <2>1. \A p \in presents : p.image \in Images BY <1>t DEF PresentType
  <2> QED BY <2>1, <1>3, <1>4, <1>i DEF Presented
<1>w. ASSUME NEW t \in Handles, wsi' = Reset([sem |-> t, signalled |-> TRUE])
      PROVE  wsi'.acquire.sem = t /\ wsi'.release = None
  <2>1. [sem |-> t, signalled |-> TRUE] \in Slot BY ObjectFields DEF Slot
  <2>2. wsi'.acquire = [sem |-> t, signalled |-> TRUE] /\ wsi'.release = None
    BY <1>w, <2>1, <1>t, <1>c, ResetIs
  <2> QED BY <2>2
<1>d. \A k \in DOMAIN queue : i \notin queue[k].draws BY <1>1, <1>i DEF ImagesOwned
<1>6. CASE wsi' = Reset([sem |-> r, signalled |-> TRUE]) /\ UNCHANGED queue
  <2>1. Ordered' BY <1>1, <1>2, <1>3, <1>6, <1>w DEF Ordered
  <2>2. ImagesOwned'
    <3>1. \A k \in DOMAIN queue : queue[k].draws \subseteq Images BY <1>t, QueueType
    <3> QED BY <3>1, <1>3, <1>4, <1>6, <1>d, <1>i DEF ImagesOwned
  <2> QED BY <1>5, <2>1, <2>2 DEF Owned
<1>7. ASSUME NEW t \in Handles, queue' = Append(queue, Batch({r}, {t}, {i})),
             wsi' = Reset([sem |-> t, signalled |-> TRUE])
      PROVE  Owned'
  <2>1. PICK n \in Nat :
          /\ n = Len(queue) + 1 /\ DOMAIN queue' = 1..n /\ Len(queue') = n
          /\ \A k \in DOMAIN queue : k \in DOMAIN queue' /\ queue'[k] = queue[k]
          /\ \A k \in DOMAIN queue' : k \in DOMAIN queue \/ k = n
          /\ n \in DOMAIN queue' /\ n \notin DOMAIN queue
          /\ queue'[n].waits = {r} /\ queue'[n].draws = {i}
    <3>1. PICK b \in BatchType : b = Batch({r}, {t}, {i}) /\ b.waits = {r} /\ b.draws = {i}
      <4>1. {r} \in SUBSET Handles /\ {t} \in SUBSET Handles /\ {i} \in SUBSET Images
        BY <1>1, <1>2, <1>7
      <4> QED BY <4>1, <1>t, BatchIn
    <3>2. queue' = Append(queue, b) BY <1>7, <3>1
    <3>3. PICK n \in Nat : n = Len(queue) + 1 BY <1>t
    <3> QED BY <3>1, <3>2, <3>3, <1>t, AppendBatch
  <2>2. Ordered' BY <2>1, <1>1, <1>3, <1>7, <1>w DEF Ordered
  <2>3. ASSUME NEW k \in DOMAIN queue', NEW x \in queue'[k].draws
        PROVE  /\ image'[x].state \in {"acquired", "presenting"}
               /\ image'[x].sem # None => \E j \in 1..k : image'[x].sem \in queue'[j].waits
               /\ \A p \in presents' : p.image = x => \E j \in k..Len(queue') : p.sem \in queue'[j].signals
    <3>1. CASE k \in DOMAIN queue
      <4>1. x \in queue[k].draws /\ x \in Images /\ x # i
        BY <3>1, <2>1, <2>3, <1>d, <1>t, QueueType
      <4>2. /\ image[x].state \in {"acquired", "presenting"}
            /\ image[x].sem # None => \E j \in 1..k : image[x].sem \in queue[j].waits
            /\ \A p \in presents : p.image = x => \E j \in k..Len(queue) : p.sem \in queue[j].signals
        BY <3>1, <4>1, <1>i DEF ImagesOwned
      <4>3. /\ \A j \in 1..k : j \in DOMAIN queue
            /\ \A j \in k..Len(queue) : j \in DOMAIN queue /\ j \in k..Len(queue')
        BY <3>1, <2>1, <1>t
      <4> QED BY <4>1, <4>2, <4>3, <2>1, <1>3, <1>4
    <3>2. CASE k = n
      <4>1. x = i BY <3>2, <2>1, <2>3
      <4>2. n \in 1..n BY <2>1, <1>t
      <4> QED BY <3>2, <4>1, <4>2, <2>1, <1>3, <1>4
    <3> QED BY <3>1, <3>2, <2>1, <2>3
  <2>4. ImagesOwned' BY <2>3 DEF ImagesOwned
  <2> QED BY <1>5, <2>2, <2>4 DEF Owned
<1> QED BY <1>1, <1>6, <1>7

\* PresentSucceeds and PresentFails.
LEMMA ImagesPresent ==
  ASSUME WSIInv, pc = "present", wsi.touched, Present
  PROVE  Owned'
<1>1. /\ wsi.release \in Object /\ wsi.release.sem \in Handles /\ wsi.release # None
      /\ wsi'.acquire = None /\ wsi'.release = None
      /\ image[swapchain_index].state = "acquired"
      /\ \A p \in presents : p.image # swapchain_index
  BY PresentIs, ObjectFields
<1>t. /\ image \in [Images -> ImageType] /\ swapchain_index \in Images
      /\ presents \subseteq PresentType /\ queue \in Seq(BatchType)
  BY DEF WSIInv, TypeOK
<1>i. Presented /\ Ordered /\ ImagesOwned BY DEF WSIInv
<1>2. PICK i \in Images : i = swapchain_index BY <1>t
<1>3. PICK q \in PresentType : q = [sem |-> wsi.release.sem, image |-> i] BY <1>1 DEF PresentType
<1>4. q.sem = wsi.release.sem /\ q.image = i BY <1>3
<1>5. presents' = presents \cup {q} /\ queue' = queue BY <1>2, <1>3 DEF Present
<1>6. /\ image'[i].state = "presenting" /\ image'[i].sem = image[i].sem
      /\ \A x \in Images : x # i => image'[x] = image[x]
  <2>1. image' = [image EXCEPT ![i] = [image[i] EXCEPT !.state = "presenting"]]
    BY <1>2 DEF Present
  <2>2. image'[i] = [image[i] EXCEPT !.state = "presenting"] BY <2>1, <1>t
  <2> QED BY <2>1, <2>2, <1>t, RecordsKept
<1>7. Presented'
  <2>1. \A p \in presents : p.image \in Images BY <1>t DEF PresentType
  <2> QED BY <2>1, <1>1, <1>2, <1>4, <1>5, <1>6, <1>i DEF Presented
<1>8. Ordered' BY <1>1 DEF Ordered
<1>9. ImagesOwned'
  <2>1. ASSUME NEW k \in DOMAIN queue, NEW x \in queue[k].draws
        PROVE  /\ image'[x].state \in {"acquired", "presenting"}
               /\ image'[x].sem # None => \E j \in 1..k : image'[x].sem \in queue[j].waits
               /\ \A p \in presents' : p.image = x => \E j \in k..Len(queue) : p.sem \in queue[j].signals
    <3>1. x \in Images BY <2>1, <1>t, QueueType
    <3>2. /\ image[x].state \in {"acquired", "presenting"}
          /\ image[x].sem # None => \E j \in 1..k : image[x].sem \in queue[j].waits
          /\ \A p \in presents : p.image = x => \E j \in k..Len(queue) : p.sem \in queue[j].signals
      BY <2>1, <1>i DEF ImagesOwned
    <3>3. q.image = x => \E j \in k..Len(queue) : q.sem \in queue[j].signals
      BY <2>1, <1>1, <1>2, <1>4, <1>i DEF Ordered
    <3>4. image'[x].state \in {"acquired", "presenting"} /\ image'[x].sem = image[x].sem
      BY <3>1, <3>2, <1>6
    <3> QED BY <3>2, <3>3, <3>4, <1>5
  <2> QED BY <2>1, <1>5 DEF ImagesOwned
<1> QED BY <1>7, <1>8, <1>9 DEF Owned

LEMMA ImagesExecuteBatch ==
  ASSUME WSIInv, ExecuteBatch
  PROVE  Owned'
<1>t. /\ queue \in Seq(BatchType) /\ queue # <<>> /\ image \in [Images -> ImageType]
      /\ swapchain_index \in Images /\ presents \subseteq PresentType
  BY DEF WSIInv, TypeOK, ExecuteBatch
<1>i. Presented /\ Ordered /\ ImagesOwned BY DEF WSIInv
<1>u. UNCHANGED <<presents, wsi, swapchain_index>> BY DEF ExecuteBatch, wsiVars
<1>1. /\ 1 \in DOMAIN queue /\ Head(queue) = queue[1]
      /\ Len(queue) \in Nat /\ DOMAIN queue = 1..Len(queue)
      /\ DOMAIN queue' = 1..(Len(queue) - 1) /\ Len(queue') = Len(queue) - 1
      /\ \A k \in DOMAIN queue' : k + 1 \in DOMAIN queue /\ queue'[k] = queue[k + 1]
      /\ \A k \in DOMAIN queue : k = 1 \/ (k - 1 \in DOMAIN queue' /\ queue'[k - 1] = queue[k])
  BY <1>t, TailBatch DEF ExecuteBatch
<1>2. \A x \in Images : /\ image'[x].state = image[x].state
                        /\ image'[x].sem = (IF image[x].sem \in queue[1].waits THEN None ELSE image[x].sem)
  <2>1. ASSUME NEW x \in Images
        PROVE  image'[x] = IF image[x].sem \in queue[1].waits THEN [image[x] EXCEPT !.sem = None] ELSE image[x]
    BY <1>1 DEF ExecuteBatch
  <2>2. \A x \in Images : [image[x] EXCEPT !.sem = None].state = image[x].state
                          /\ [image[x] EXCEPT !.sem = None].sem = None
    BY <1>t, RecordsKept
  <2> QED BY <2>1, <2>2
<1>3. Presented'
  <2>1. \A p \in presents : p.image \in Images BY <1>t DEF PresentType
  <2> QED BY <2>1, <1>2, <1>u, <1>i DEF Presented
<1>4. Ordered'
  <2>1. ASSUME wsi.acquire # None, image'[swapchain_index].sem \notin {None, wsi.acquire.sem}
        PROVE  \E j \in DOMAIN queue' : image'[swapchain_index].sem \in queue'[j].waits
    <3>1. /\ image'[swapchain_index].sem = image[swapchain_index].sem
          /\ image[swapchain_index].sem \notin queue[1].waits
      BY <2>1, <1>2, <1>t
    <3>2. PICK j \in DOMAIN queue : image[swapchain_index].sem \in queue[j].waits
      BY <2>1, <3>1, <1>i DEF Ordered
    <3> QED BY <3>1, <3>2, <1>1
  <2>2. ASSUME wsi.release # None, NEW k \in DOMAIN queue', swapchain_index \in queue'[k].draws
        PROVE  \E j \in k..Len(queue') : wsi.release.sem \in queue'[j].signals
    <3>1. k + 1 \in DOMAIN queue /\ swapchain_index \in queue[k + 1].draws BY <2>2, <1>1
    <3>2. PICK j \in (k + 1)..Len(queue) : wsi.release.sem \in queue[j].signals
      BY <2>2, <3>1, <1>i DEF Ordered
    <3>3. j \in DOMAIN queue /\ j # 1 /\ j - 1 \in k..Len(queue') BY <2>2, <3>1, <3>2, <1>1
    <3>4. queue'[j - 1] = queue[j] BY <3>3, <1>1
    <3> QED BY <3>2, <3>3, <3>4
  <2> QED BY <2>1, <2>2, <1>u DEF Ordered
<1>5. ImagesOwned'
  <2>1. ASSUME NEW k \in DOMAIN queue', NEW i \in queue'[k].draws
        PROVE  /\ image'[i].state \in {"acquired", "presenting"}
               /\ image'[i].sem # None => \E j \in 1..k : image'[i].sem \in queue'[j].waits
               /\ \A p \in presents : p.image = i => \E j \in k..Len(queue') : p.sem \in queue'[j].signals
    <3>1. k + 1 \in DOMAIN queue /\ i \in queue[k + 1].draws /\ i \in Images
      BY <2>1, <1>1, <1>t, QueueType
    <3>2. /\ image[i].state \in {"acquired", "presenting"}
          /\ image[i].sem # None => \E j \in 1..(k + 1) : image[i].sem \in queue[j].waits
          /\ \A p \in presents : p.image = i => \E j \in (k + 1)..Len(queue) : p.sem \in queue[j].signals
      BY <3>1, <1>i DEF ImagesOwned
    <3>3. ASSUME image'[i].sem # None PROVE \E j \in 1..k : image'[i].sem \in queue'[j].waits
      <4>1. image'[i].sem = image[i].sem /\ image[i].sem \notin queue[1].waits BY <3>1, <3>3, <1>2
      <4>2. PICK j \in 1..(k + 1) : image[i].sem \in queue[j].waits BY <3>2, <3>3, <4>1
      <4>3. j # 1 BY <4>1, <4>2
      <4>4. j \in DOMAIN queue /\ j - 1 \in 1..k BY <4>3, <3>1, <2>1, <1>1
      <4>5. queue'[j - 1] = queue[j] BY <4>3, <4>4, <1>1
      <4> QED BY <4>1, <4>2, <4>4, <4>5
    <3>4. ASSUME NEW p \in presents, p.image = i PROVE \E j \in k..Len(queue') : p.sem \in queue'[j].signals
      <4>1. PICK j \in (k + 1)..Len(queue) : p.sem \in queue[j].signals BY <3>2, <3>4
      <4>2. j \in DOMAIN queue /\ j # 1 /\ j - 1 \in k..Len(queue') BY <2>1, <3>1, <4>1, <1>1
      <4>3. queue'[j - 1] = queue[j] BY <4>2, <1>1
      <4> QED BY <4>1, <4>2, <4>3
    <3> QED BY <3>1, <3>2, <3>3, <3>4, <1>2
  <2> QED BY <2>1, <1>u DEF ImagesOwned
<1> QED BY <1>3, <1>4, <1>5 DEF Owned

LEMMA ImagesExecutePresent ==
  ASSUME WSIInv, ExecutePresent
  PROVE  Owned'
<1>t. /\ queue \in Seq(BatchType) /\ image \in [Images -> ImageType]
      /\ swapchain_index \in Images /\ presents \subseteq PresentType
  BY DEF WSIInv, TypeOK
<1>i. Presented /\ Ordered /\ ImagesOwned BY DEF WSIInv
<1>u. UNCHANGED <<queue, wsi, swapchain_index>> BY DEF ExecutePresent, wsiVars
<1>1. PICK p \in presents : /\ p.sem \in signals /\ presents' = presents \ {p}
                            /\ image' = [image EXCEPT ![p.image] = Free]
  BY DEF ExecutePresent
<1>2. p.image \in Images /\ p.sem \in Handles /\ image[p.image].state = "presenting"
  BY <1>t, <1>i DEF PresentType, Presented
<1>3. \A x \in Images : x # p.image => image'[x] = image[x] BY <1>1, <1>t
<1>4. \A q \in presents' : q \in presents /\ q.image # p.image /\ q.image \in Images
  BY <1>1, <1>i, <1>t DEF Presented, PresentType
<1>5. \A k \in DOMAIN queue : p.image \notin queue[k].draws
  <2>1. SUFFICES ASSUME NEW k \in DOMAIN queue, p.image \in queue[k].draws PROVE FALSE OBVIOUS
  <2>2. PICK j \in k..Len(queue) : p.sem \in queue[j].signals BY <2>1, <1>i DEF ImagesOwned
  <2>3. j \in DOMAIN queue
    <3>1. DOMAIN queue = 1..Len(queue) /\ Len(queue) \in Nat BY <1>t, QueueType
    <3> QED BY <3>1, <2>1, <2>2
  <2>4. SignalledOnce(p.sem) BY <1>2 DEF WSIInv, HandleInv
  <2> QED BY <2>2, <2>3, <2>4, <1>1 DEF SignalledOnce
<1>6. Presented' BY <1>3, <1>4, <1>i DEF Presented
<1>7. Ordered'
  <2>1. wsi.acquire # None => swapchain_index # p.image
    BY <1>2 DEF WSIInv, Control, FrameSemaphores
  <2>2. wsi.acquire # None => image'[swapchain_index] = image[swapchain_index] BY <2>1, <1>3, <1>t
  <2> QED BY <2>2, <1>u, <1>i DEF Ordered
<1>8. ImagesOwned'
  <2>1. \A k \in DOMAIN queue : \A x \in queue[k].draws : x \in Images BY <1>t, QueueType
  <2>2. \A k \in DOMAIN queue : \A x \in queue[k].draws : image'[x] = image[x]
    BY <2>1, <1>3, <1>5
  <2> QED BY <2>2, <1>4, <1>u, <1>i DEF ImagesOwned
<1> QED BY <1>6, <1>7, <1>8 DEF Owned

LEMMA ImagesStep ==
  ASSUME WSIInv, [Next]_vars, Survivable
  PROVE  Presented' /\ Ordered' /\ ImagesOwned'
<1> SUFFICES Owned' BY DEF Owned
<1>1. CASE \E uses \in BOOLEAN : Record(uses)
  BY <1>1, ImagesSame DEF Record, wsiVars, gpuVars
<1>2. CASE \E mode \in BOOLEAN : SetPresentMode(mode)
  BY <1>2, ImagesSame DEF SetPresentMode, gpuVars
<1>3. CASE DeinitSurfaceAndSwapchain
  BY <1>3, ImagesSame DEF DeinitSurfaceAndSwapchain, wsiVars, gpuVars
<1>4. CASE InitSurfaceAndSwapchain
  BY <1>4, ImagesSame DEF InitSurfaceAndSwapchain, gpuVars
<1>5. CASE NothingToPresent
  BY <1>5, ImagesSame DEF NothingToPresent, wsiVars, gpuVars
<1>6. CASE UNCHANGED vars
  BY <1>6, ImagesSame DEF vars, wsiVars, gpuVars
<1>7. CASE FlushFrame BY <1>7, ImagesEndFrame DEF FlushFrame, wsiVars
<1>8. CASE BeginFrame BY <1>8, ImagesEndFrame DEF BeginFrame, wsiVars
<1>9. CASE EndFrame BY <1>9, ImagesEndFrame DEF EndFrame, wsiVars
<1>10. CASE FrameBegins BY <1>10, ImagesSame DEF FrameBegins, wsiVars
<1>11. CASE AcquireRejected BY <1>11, ImagesSame DEF AcquireRejected, Survivable
<1>12. CASE AcquireFails BY <1>12, ImagesSame DEF AcquireFails, wsiVars, gpuVars
<1>13. CASE PresentSucceeds BY <1>13, ImagesPresent DEF PresentSucceeds
<1>14. CASE PresentFails BY <1>14, ImagesPresent DEF PresentFails
<1>15. CASE DrainSwapchain
  <2>1. queue' = queue \/ queue' = Append(queue, Batch({}, {}, {})) BY <1>15 DEF DrainSwapchain
  <2>2. Longer BY <2>1, LongerQueue DEF WSIInv, TypeOK
  <2>3. wsi'.acquire = None /\ wsi'.release = None
    <3>1. None \in Slot /\ wsi \in WsiType BY DEF Slot, WSIInv, TypeOK, WsiType
    <3>2. Reset(None) \in WsiType /\ Reset(None).acquire = None BY <3>1, ResetIs
    <3>3. wsi' = [Reset(None) EXCEPT !.release = None] BY <1>15 DEF DrainSwapchain
    <3> QED BY <3>2, <3>3, RecordsKept
  <2> QED BY <1>15, <2>2, <2>3, ImagesLonger DEF DrainSwapchain
<1>16. CASE Updated
  <2>1. wsi.acquire = None /\ wsi.release = None
    BY <1>16 DEF Updated, WSIInv, Control, Running
  <2> QED BY <1>16, <2>1, ImagesIdle DEF Updated, Idle
<1>17. CASE TornDown
  <2>1. wsi.acquire = None /\ wsi.release = None
    BY <1>17 DEF TornDown, WSIInv, Control, Running
  <2> QED BY <1>17, <2>1, ImagesIdle DEF TornDown, Idle
<1>18. CASE InitSucceeds
  <2>1. /\ wsi.acquire = None /\ wsi.release = None /\ wsi \in WsiType
        /\ queue = <<>> /\ presents = {}
    BY <1>18 DEF InitSucceeds, WSIInv, TypeOK, WsiType, Control, Running
  <2>2. wsi'.acquire = None /\ wsi'.release = None
    <3>1. None \in Slot BY DEF Slot
    <3> QED BY <1>18, <2>1, <3>1, ResetIs DEF InitSucceeds
  <2> QED BY <1>18, <2>1, <2>2, ImagesIdle DEF InitSucceeds
<1>19. CASE InitFails
  <2>1. /\ wsi.acquire = None /\ wsi.release = None /\ queue = <<>> /\ presents = {}
    BY <1>19 DEF InitFails, WSIInv, Control, Running
  <2> QED BY <1>19, <2>1, ImagesIdle DEF InitFails
<1>20. CASE SignalAcquire BY <1>20, ImagesSame DEF SignalAcquire, wsiVars
<1> QED
  BY <1>1, <1>2, <1>3, <1>4, <1>5, <1>6, <1>7, <1>8, <1>9, <1>10, <1>11, <1>12, <1>13, <1>14, <1>15,
     <1>16, <1>17, <1>18, <1>19, <1>20, ImagesAcquireSucceeds, ImagesExecuteBatch,
     ImagesExecutePresent DEF Next

-----------------------------------------------------------------------------
(* The invariant.                                                          *)

LEMMA WSIInit ==
  ASSUME Init
  PROVE  WSIInv
<1>1. /\ swapchain_index \in Images
      /\ release_semaphores \in [Images -> Slot] /\ DOMAIN release_semaphores = Images
      /\ \A i \in DOMAIN release_semaphores : release_semaphores[i] = None
  <2>1. None \in Slot BY DEF Slot
  <2>2. (CHOOSE i \in Images : TRUE) \in Images BY WSIAssumption
  <2> QED BY <2>1, <2>2 DEF Init
<1>2. /\ wsi \in WsiType /\ wsi.acquire = None /\ wsi.release = None
      /\ wsi.touched = FALSE /\ wsi.consumed = FALSE
  BY DEF Init, WsiType, Slot
<1>3. /\ queue = <<>> /\ queue \in Seq(BatchType) /\ pending = <<>> /\ pending \in Seq(BOOLEAN)
      /\ Len(pending) <= MaxCommands /\ DOMAIN queue = {} /\ ~Touches
  <2>1. Len(pending) <= MaxCommands BY WSIAssumption DEF Init
  <2> QED BY <2>1 DEF Init, Touches
<1>4. image \in [Images -> ImageType] /\ settings \in [wanted : BOOLEAN, current : BOOLEAN]
  BY RecordsKept DEF Init
<1>5. /\ recycled \in [FrameIds -> SUBSET Handles] /\ destroyed \in [FrameIds -> SUBSET Handles]
      /\ \A f \in FrameIds : recycled[f] = {} /\ destroyed[f] = {}
  BY DEF Init
<1>6. TypeOK
  <2>1. WsiType = [acquire : Slot, release : Slot, touched : BOOLEAN, consumed : BOOLEAN]
    BY DEF WsiType
  <2>2. local \in Slot /\ retries \in 0..3 /\ frame \in FrameIds BY FrameIn DEF Init, Slot
  <2>3. /\ vacant \subseteq created /\ created \subseteq Handles /\ presents \subseteq PresentType
        /\ signals \subseteq Handles /\ acquiring \subseteq Handles
    BY DEF Init
  <2>4. /\ pc = "ready" /\ caller = "nobody" /\ surface \in BOOLEAN /\ swapchain \in BOOLEAN
        /\ has_acquired \in BOOLEAN /\ expensive \in BOOLEAN
    BY DEF Init
  <2> QED BY <1>1, <1>2, <1>3, <1>4, <1>5, <2>1, <2>2, <2>3, <2>4 DEF TypeOK
<1>7. Control /\ FrameSemaphores BY <1>1, <1>2, <1>3 DEF Init, Control, FrameSemaphores, Running
<1>8. Presented /\ Ordered /\ ImagesOwned
  BY <1>2, <1>3 DEF Init, Presented, Ordered, ImagesOwned
<1>9. ASSUME NEW s \in Handles PROVE HandleInv(s)
  <2>1. local = None /\ vacant = {} BY DEF Init
  <2>2. \A o : IsOf(o, s) => o # None BY DEF IsOf
  <2>3. \A x : x \notin Spots(s) BY <2>1, <2>2, <1>1, <1>2, <1>5, SpotIs
  <2>4. ~Promised(s) /\ ~Awaited(s) BY <1>3 DEF Init, Promised, Awaited
  <2>5. KeptOnce(s) BY <2>3 DEF KeptOnce
  <2>6. Meaning(s) BY <2>1, <2>2, <2>4, <1>1, <1>2, <1>5 DEF Meaning
  <2>7. SignalledOnce(s) /\ AwaitedOnce(s) BY <1>3 DEF Init, SignalledOnce, AwaitedOnce
  <2> QED BY <2>4, <2>5, <2>6, <2>7 DEF HandleInv
<1> QED BY <1>6, <1>7, <1>8, <1>9 DEF WSIInv

LEMMA WSIStep ==
  ASSUME WSIInv, [Next]_vars, Survivable
  PROVE  WSIInv'
<1>1. TypeOK' BY TypeStep
<1>2. Control' /\ FrameSemaphores' BY <1>1, ControlStep
<1>3. \A s \in Handles : HandleInv(s)' BY HandlesStep
<1>4. Presented' /\ Ordered' /\ ImagesOwned' BY ImagesStep
<1> QED BY <1>1, <1>2, <1>3, <1>4 DEF WSIInv

(***************************************************************************)
(* WSI, the acquire and release semaphores of Device and the semaphore     *)
(* lists of PerFrame: every handle is kept in at most one place, and the   *)
(* place tells what is due to its payload; the flags of WSI agree with the *)
(* swapchain and its images.                                               *)
(***************************************************************************)
THEOREM PresentationInvariant ==
  ASSUME Survivable
  PROVE  Spec => []WSIInv
<1>1. Init => WSIInv BY WSIInit
<1>2. WSIInv /\ [Next]_vars => WSIInv' BY WSIStep
<1> QED BY <1>1, <1>2, PTL DEF Spec

LEMMA AtMostOne ==
  ASSUME NEW S, \A a, b \in S : a = b
  PROVE  /\ Cardinality(S) \in Nat /\ Cardinality(S) <= 1
         /\ S # {} => Cardinality(S) = 1
         /\ S = {} => Cardinality(S) = 0
<1>1. CASE S = {} BY <1>1, FS_EmptySet
<1>2. CASE S # {}
  <2>1. PICK a : a \in S BY <1>2
  <2>2. S = {a} BY <2>1
  <2>3. Cardinality({a}) = 1 BY FS_Singleton
  <2> QED BY <1>2, <2>2, <2>3
<1> QED BY <1>1, <1>2

(***************************************************************************)
(* Device::SubmitQueue waits for and signals only what the objects say,    *)
(* and SemaphoreManager hands out only handles that nothing signals or     *)
(* waits for.                                                              *)
(***************************************************************************)
THEOREM SemaphoresTruthfulHolds ==
  ASSUME Survivable
  PROVE  Spec => []SemaphoresTruthful
<1>1. WSIInv => SemaphoresTruthful
  <2> SUFFICES ASSUME WSIInv PROVE SemaphoresTruthful OBVIOUS
  <2>t. /\ wsi \in WsiType /\ local \in Slot /\ vacant \subseteq created /\ created \subseteq Handles
        /\ release_semaphores = <<>> \/ release_semaphores \in [Images -> Slot]
    BY DEF WSIInv, TypeOK, WsiType
  <2>h. ASSUME NEW s \in Handles
        PROVE  /\ HandleInv(s) /\ Meaning(s) /\ SignalledOnce(s) /\ AwaitedOnce(s)
               /\ Awaited(s) => Promised(s)
    BY DEF WSIInv, HandleInv
  <2>1. ASSUME NEW s
        PROVE  /\ \A x : x \in Signals(s) <=>
                    \/ x = <<"payload">> /\ s \in signals
                    \/ x = <<"engine">> /\ s \in acquiring
                    \/ \E k \in DOMAIN queue : x = <<"batch", k>> /\ s \in queue[k].signals
               /\ \A x : x \in Waits(s) <=>
                    \/ \E k \in DOMAIN queue : x = <<"batch", k>> /\ s \in queue[k].waits
                    \/ \E p \in presents : x = <<"present", p>> /\ p.sem = s
    BY DEF Signals, Waits
  <2>2. ASSUME NEW s
        PROVE  /\ Signals(s) # {} <=> Promised(s)
               /\ Waits(s) # {} <=> Awaited(s)
    <3>1. Signals(s) # {} => Promised(s)
      <4>1. SUFFICES ASSUME NEW x, x \in Signals(s) PROVE Promised(s) OBVIOUS
      <4> QED BY <4>1, <2>1 DEF Promised
    <3>2. Promised(s) => \E x : x \in Signals(s) BY <2>1 DEF Promised
    <3>3. Waits(s) # {} => Awaited(s)
      <4>1. SUFFICES ASSUME NEW x, x \in Waits(s) PROVE Awaited(s) OBVIOUS
      <4> QED BY <4>1, <2>1 DEF Awaited
    <3>4. Awaited(s) => \E x : x \in Waits(s) BY <2>1 DEF Awaited
    <3> QED BY <3>1, <3>2, <3>3, <3>4
  <2>3. ASSUME NEW s \in Handles
        PROVE  Cardinality(Waits(s)) <= Cardinality(Signals(s)) /\ Cardinality(Signals(s)) <= 1
    <3>1. \A a, b \in Signals(s) : a = b
      <4>1. SUFFICES ASSUME NEW a \in Signals(s), NEW b \in Signals(s) PROVE a = b OBVIOUS
      <4>2. SignalledOnce(s) BY <2>h
      <4> QED BY <4>2, <2>1 DEF SignalledOnce
    <3>2. \A a, b \in Waits(s) : a = b
      <4>1. SUFFICES ASSUME NEW a \in Waits(s), NEW b \in Waits(s) PROVE a = b OBVIOUS
      <4>2. AwaitedOnce(s) BY <2>h
      <4> QED BY <4>2, <2>1 DEF AwaitedOnce
    <3>3. Waits(s) # {} => Signals(s) # {} BY <2>2, <2>h
    <3>4. /\ Cardinality(Signals(s)) <= 1 /\ (Signals(s) # {} => Cardinality(Signals(s)) = 1)
          /\ (Signals(s) = {} => Cardinality(Signals(s)) = 0)
      BY <3>1, AtMostOne
    <3>5. /\ (Waits(s) # {} => Cardinality(Waits(s)) = 1)
          /\ (Waits(s) = {} => Cardinality(Waits(s)) = 0)
      BY <3>2, AtMostOne
    <3> QED BY <3>3, <3>4, <3>5
  <2>4. ASSUME NEW o \in {wsi.acquire, wsi.release} \ {None} PROVE Unmatched(o.sem)
    <3>1. o \in Object BY <2>t, WsiFields
    <3>2. PICK s \in Handles : s = o.sem BY <3>1, ObjectFields
    <3>3. IsOf(wsi.acquire, s) \/ IsOf(wsi.release, s) BY <3>2 DEF IsOf
    <3>4. Armed(s) BY <3>3, <2>h DEF Meaning
    <3> QED BY <3>2, <3>4, <2>2 DEF Unmatched, Armed
  <2>5. ASSUME NEW s \in Dropped(Held \cup {local}, FALSE) PROVE ~Unmatched(s)
    <3>1. Held \cup {local} \subseteq Slot BY <2>t DEF Held
    <3>2. s \in Handles /\ \E o \in Held \cup {local} : IsOf(o, s) BY <3>1, <2>5, DroppedIn
    <3>3. Balanced(s)
      <4>1. IsOf(local, s) \/ \E i \in DOMAIN release_semaphores : IsOf(release_semaphores[i], s)
        BY <3>2 DEF Held
      <4>2. Meaning(s) BY <3>2, <2>h
      <4> QED BY <4>1, <4>2 DEF Meaning
    <3> QED BY <3>3, <2>2 DEF Unmatched, Balanced
  <2>6. ASSUME NEW s \in vacant \cup (Handles \ created) PROVE Signals(s) = {}
    <3>1. s \in Handles BY <2>t
    <3>2. ~Promised(s) BY <3>1, <2>h DEF Meaning
    <3> QED BY <3>2, <2>2
  <2> QED BY <2>3, <2>4, <2>5, <2>6 DEF SemaphoresTruthful
<1> QED BY <1>1, PresentationInvariant, PTL

(***************************************************************************)
(* A batch that the client submits draws into a swapchain image only       *)
(* between its acquire, which the batch or an earlier one waits for, and   *)
(* its present, which waits for the batch or a later one.                  *)
(***************************************************************************)
THEOREM ImagesOwnedHolds ==
  ASSUME Survivable
  PROVE  Spec => []ImagesOwned
<1>1. WSIInv => ImagesOwned BY DEF WSIInv
<1> QED BY <1>1, PresentationInvariant, PTL

(***************************************************************************)
(* What WSI::EndFrame and Device::SetAcquireSemaphore assert or rely on.   *)
(***************************************************************************)
THEOREM PresentAssertionsHold ==
  ASSUME Survivable
  PROVE  Spec => []AssertionsHold
<1>1. WSIInv => AssertionsHold
  <2> SUFFICES ASSUME WSIInv PROVE AssertionsHold OBVIOUS
  <2>1. swapchain_index \in Images BY DEF WSIInv, TypeOK
  <2> QED BY <2>1 DEF WSIInv, Control, FrameSemaphores, Running, AssertionsHold
<1> QED BY <1>1, PresentationInvariant, PTL
====
