-------------------------- MODULE DeviceSync_proofs --------------------------
(***************************************************************************)
(* Fences, semaphores and the refinement of DeferredDeletion.              *)
(*                                                                         *)
(* DeviceSubmission_proofs shows that objects are safe if a frame is over  *)
(* when PerFrame::Begin has waited.  Here that condition is shown too, in  *)
(* both synchronisation modes, with an invariant that follows every batch  *)
(* from its submission to the fence that covers it (SyncInv).  Again the   *)
(* calls that submit are related by a transitive relation, Advances, shown *)
(* operator by operator; EndFrame needs an argument of its own, because    *)
(* ending one queue may submit copies to another that was ended before.    *)
(***************************************************************************)
EXTENDS DeviceSubmission_proofs

(* A value of dev while DeviceLock is held and nothing blocks.             *)
Sound(d) ==
  /\ Good(d) /\ d.lock = "free" /\ d.index < d.count
  /\ QueueLengths(d) /\ NotYetSent(d) /\ LatestCovered(d)
  /\ ~Timeline => FramesFenced(d)

(* From d to e batches were added to the queues, each covered by the       *)
(* current frame, and handles of such batches to its lists.                *)
Advances(d, e) ==
  /\ Submits(d, e) /\ Sound(e)
  /\ \A t \in Types :
       /\ Len(d.queue[t]) <= Len(e.queue[t])
       /\ \A n \in 1 .. Len(d.queue[t]) : e.queue[t][n] = d.queue[t][n]
  /\ \A c \in Cmds : e.at[c] = d.at[c] \/ (d.at[c][2] = 0 /\ e.at[c][2] > d.timeline[e.at[c][1]])
  /\ \A f \in Slots :
       /\ d.waitFences[f] \subseteq e.waitFences[f]
       /\ f # d.index => e.recycle[f] = d.recycle[f]
       /\ d.recycle[f] \subseteq e.recycle[f]
       /\ \A b \in e.recycle[f] : b \in d.recycle[f] \/ b[2] <= e.fence[f][b[1]]

(* The types of the fields that the synchronisation invariant speaks of.   *)
LEMMA SyncFields ==
  ASSUME NEW d \in DevType
  PROVE  /\ \A t \in Types : /\ d.queue[t] \in Seq(SUBSET Waits) /\ Len(d.queue[t]) \in Nat
                             /\ d.waits[t] \subseteq Waits /\ d.needFence[t] \in BOOLEAN
         /\ \A f \in Slots : d.waitFences[f] \subseteq Batches /\ d.recycle[f] \subseteq Batches
         /\ d.vbo \subseteq Cmds /\ d.ubo \subseteq Cmds /\ d.staged \subseteq Cmds
         /\ \A b \in Batches : b[1] \in Types /\ b[2] \in Nat /\ b = <<b[1], b[2]>>
         /\ \A c \in Cmds : d.at[c] \in Batches /\ d.copyAt[c] \in Batches
BY DEF DevType, Batches

(* Coverage by a frame's fences survives further submissions.              *)
LEMMA CoverageKept ==
  ASSUME completed \in [Types -> Nat], NEW d \in DevType, NEW e \in DevType,
         QueueLengths(d), NEW f \in Slots, NEW t \in Types,
         \A u \in Types :
           /\ d.timeline[u] <= e.timeline[u]
           /\ \A n \in 1 .. Len(d.queue[u]) : e.queue[u][n] = d.queue[u][n],
         d.waitFences[f] \subseteq e.waitFences[f], e.fence[f][t] = d.fence[f][t],
         FenceCovers(d, f, t)
  PROVE  FenceCovers(e, f, t)
<1> DEFINE last == <<t, d.fence[f][t]>>
<1>1. last = <<t, e.fence[f][t]>> OBVIOUS
<1> HIDE DEF last
<1>2. CASE Done(last) \/ last \in d.waitFences[f] BY <1>1, <1>2 DEF FenceCovers
<1>3. ASSUME NEW b \in d.waitFences[f], ~Done(b), b[2] <= d.timeline[b[1]],
             NEW w \in d.queue[b[1]][b[2] - completed[b[1]]], BatchOf(w) = last
      PROVE  FenceCovers(e, f, t)
  <2>1. b[1] \in Types /\ b[2] \in Nat BY SyncFields
  <2>2. /\ d.timeline[b[1]] \in Nat /\ e.timeline[b[1]] \in Nat /\ completed[b[1]] \in Nat
        /\ Len(d.queue[b[1]]) \in Nat
    BY <2>1, DevFields, SyncFields
  <2>3. d.timeline[b[1]] = completed[b[1]] + Len(d.queue[b[1]]) BY <2>1 DEF QueueLengths
  <2>4. b[2] - completed[b[1]] \in 1 .. Len(d.queue[b[1]])
    BY <1>3, <2>1, <2>2, <2>3 DEF Done
  <2>5. e.queue[b[1]][b[2] - completed[b[1]]] = d.queue[b[1]][b[2] - completed[b[1]]]
    BY <2>1, <2>4
  <2>6. b[2] <= e.timeline[b[1]] BY <1>3, <2>1, <2>2
  <2>7. b \in e.waitFences[f] OBVIOUS
  <2> QED BY <1>1, <1>3, <2>5, <2>6, <2>7, Zenon DEF FenceCovers
<1> QED BY <1>2, <1>3 DEF FenceCovers, last

(* Submitting nothing is an advance.                                       *)
LEMMA AdvancesReflexive == ASSUME NEW d, Sound(d) PROVE Advances(d, d)
BY SubmitsReflexive DEF Advances, Sound

(* Advances compose.                                                       *)
LEMMA AdvancesTransitive ==
  ASSUME NEW d, NEW e, NEW g, Sound(d), Advances(d, e), Advances(e, g)
  PROVE  Advances(d, g)
<1>1. Submits(d, g) BY SubmitsTransitive DEF Advances, Sound
<1>2. d \in DevType /\ e \in DevType /\ g \in DevType /\ e.index = d.index
  BY DEF Advances, Sound, Good, Submits
<1>3. ASSUME NEW t \in Types
      PROVE  /\ Len(d.queue[t]) <= Len(g.queue[t])
             /\ \A n \in 1 .. Len(d.queue[t]) : g.queue[t][n] = d.queue[t][n]
  <2>1. Len(d.queue[t]) \in Nat /\ Len(e.queue[t]) \in Nat /\ Len(g.queue[t]) \in Nat
    BY <1>2, SyncFields
  <2>2. Len(d.queue[t]) <= Len(e.queue[t]) /\ Len(e.queue[t]) <= Len(g.queue[t])
    BY DEF Advances
  <2>3. \A n \in 1 .. Len(d.queue[t]) : n \in 1 .. Len(e.queue[t]) BY <2>1, <2>2
  <2> QED BY <2>1, <2>2, <2>3 DEF Advances
<1>4. ASSUME NEW c \in Cmds
      PROVE  g.at[c] = d.at[c] \/ (d.at[c][2] = 0 /\ g.at[c][2] > d.timeline[g.at[c][1]])
  <2>1. CASE g.at[c] = e.at[c] BY <2>1 DEF Advances
  <2>2. CASE e.at[c][2] = 0 /\ g.at[c][2] > e.timeline[g.at[c][1]]
    <3>1. g.at[c][1] \in Types /\ g.at[c][2] \in Nat /\ e.at[c][1] \in Types BY <1>2, DevFields
    <3>2. d.timeline[g.at[c][1]] <= e.timeline[g.at[c][1]]
      BY <1>2, <3>1, DevFields DEF Advances, Submits
    <3>3. \A t \in Types : d.timeline[t] \in Nat /\ e.timeline[t] \in Nat BY <1>2, DevFields
    <3>4. e.at[c] = d.at[c] BY <2>2, <3>1, <3>3 DEF Advances
    <3> QED BY <2>2, <3>1, <3>2, <3>3, <3>4
  <2> QED BY <2>1, <2>2 DEF Advances
<1>5. ASSUME NEW f \in Slots
      PROVE  /\ d.waitFences[f] \subseteq g.waitFences[f]
             /\ f # d.index => g.recycle[f] = d.recycle[f]
             /\ d.recycle[f] \subseteq g.recycle[f]
             /\ \A b \in g.recycle[f] : b \in d.recycle[f] \/ b[2] <= g.fence[f][b[1]]
  <2>1. d.waitFences[f] \subseteq g.waitFences[f] BY DEF Advances
  <2>2. f # d.index => g.recycle[f] = d.recycle[f] BY <1>2 DEF Advances
  <2>3. ASSUME NEW b \in g.recycle[f], b \notin d.recycle[f]
        PROVE  b[2] <= g.fence[f][b[1]]
    <3>1. b[1] \in Types /\ b[2] \in Nat BY <1>2, SyncFields
    <3>2. e.fence[f][b[1]] <= g.fence[f][b[1]] BY <3>1 DEF Advances, Submits
    <3>3. e.fence[f][b[1]] \in Nat /\ g.fence[f][b[1]] \in Nat BY <1>2, <3>1, DevFields
    <3>4. CASE b \in e.recycle[f]
      <4>1. b[2] <= e.fence[f][b[1]] BY <2>3, <3>4 DEF Advances
      <4> QED BY <3>1, <3>2, <3>3, <4>1
    <3> QED BY <2>3, <3>4 DEF Advances
  <2>4. d.recycle[f] \subseteq g.recycle[f] BY DEF Advances
  <2> QED BY <2>1, <2>2, <2>3, <2>4
<1> QED BY <1>1, <1>3, <1>4, <1>5 DEF Advances

-----------------------------------------------------------------------------
(* What one vkQueueSubmit changes, field by field and value by value.      *)
Changes(d, t, e) ==
  /\ e.lock = d.lock /\ e.counter = d.counter /\ e.index = d.index /\ e.count = d.count
  /\ e.waitFences = d.waitFences /\ e.destroyed = d.destroyed /\ e.blocks = d.blocks
  /\ e.vbo = d.vbo /\ e.ubo = d.ubo
  /\ e.staged = IF t = "transfer" THEN {} ELSE d.staged
  /\ e.timeline = [d.timeline EXCEPT ![t] = @ + 1]
  /\ e.queue = [d.queue EXCEPT ![t] = Append(@, d.waits[t] \cup QueueOrder(d, t))]
  /\ e.waits = [d.waits EXCEPT ![t] = {}]
  /\ e.recycle = [d.recycle EXCEPT ![d.index] =
                    IF Timeline \/ d.waits[t] = {} THEN @ ELSE @ \cup {<<t, d.timeline[t] + 1>>}]
  /\ e.subs = [d.subs EXCEPT ![d.index][t] = {}]
  /\ e.at = [c \in Cmds |-> IF c \in d.subs[d.index][t] THEN <<t, d.timeline[t] + 1>> ELSE d.at[c]]
  /\ e.copyAt = [c \in Cmds |-> IF t = "transfer" /\ c \in d.staged
                                THEN <<t, d.timeline[t] + 1>> ELSE d.copyAt[c]]
  /\ e.fence = [d.fence EXCEPT ![d.index][t] = d.timeline[t] + 1]
  /\ e.needFence = [d.needFence EXCEPT ![t] = @ \/ ~Timeline]

Values(d, t, e) ==
  /\ \A u \in Types :
       /\ e.timeline[u] = IF u = t THEN d.timeline[t] + 1 ELSE d.timeline[u]
       /\ e.waits[u] = IF u = t THEN {} ELSE d.waits[u]
       /\ e.needFence[u] = IF u = t THEN d.needFence[t] \/ ~Timeline ELSE d.needFence[u]
       /\ Len(e.queue[u]) = IF u = t THEN Len(d.queue[t]) + 1 ELSE Len(d.queue[u])
       /\ \A n \in 1 .. Len(d.queue[u]) : e.queue[u][n] = d.queue[u][n]
  /\ e.queue[t][Len(d.queue[t]) + 1] = d.waits[t] \cup QueueOrder(d, t)
  /\ \A f \in Slots, u \in Types :
       /\ e.fence[f][u] = IF f = d.index /\ u = t THEN d.timeline[t] + 1 ELSE d.fence[f][u]
       /\ e.subs[f][u] = IF f = d.index /\ u = t THEN {} ELSE d.subs[f][u]
  /\ \A f \in Slots :
       /\ f # d.index => e.recycle[f] = d.recycle[f]
       /\ d.recycle[f] \subseteq e.recycle[f]
       /\ e.recycle[f] \subseteq d.recycle[f] \cup {<<t, d.timeline[t] + 1>>}
  /\ \A c \in Cmds :
       /\ e.at[c] = IF c \in d.subs[d.index][t] THEN <<t, d.timeline[t] + 1>> ELSE d.at[c]
       /\ e.copyAt[c] = IF t = "transfer" /\ c \in d.staged
                        THEN <<t, d.timeline[t] + 1>> ELSE d.copyAt[c]

(* Enqueue changes these fields.                                           *)
LEMMA EnqueueChanges ==
  ASSUME NEW d, Good(d), NEW t \in Types
  PROVE  Enqueue(d, t) \in DevType /\ Changes(d, t, Enqueue(d, t))
<1> DEFINE
  batch == <<t, d.timeline[t] + 1>>
  tl == [d.timeline EXCEPT ![t] = @ + 1]
  qu == [d.queue EXCEPT ![t] = Append(@, d.waits[t] \cup QueueOrder(d, t))]
  wa == [d.waits EXCEPT ![t] = {}]
  re == [d.recycle EXCEPT ![d.index] = IF Timeline \/ d.waits[t] = {} THEN @ ELSE @ \cup {batch}]
  su == [d.subs EXCEPT ![d.index][t] = {}]
  st == IF t = "transfer" THEN {} ELSE d.staged
  at == [c \in Cmds |-> IF c \in d.subs[d.index][t] THEN batch ELSE d.at[c]]
  co == [c \in Cmds |-> IF t = "transfer" /\ c \in d.staged THEN batch ELSE d.copyAt[c]]
  fe == [d.fence EXCEPT ![d.index][t] = tl[t]]
  ne == [d.needFence EXCEPT ![t] = @ \/ ~Timeline]
  e == Enqueue(d, t)
<1>1. d \in DevType BY DEF Good
<1>2. e \in DevType BY EnqueueSubmits DEF Submits, Good
<1>3. d.timeline \in [Types -> Nat] /\ tl[t] = d.timeline[t] + 1 BY <1>1 DEF DevType
<1>4. e = [d EXCEPT !.timeline = tl, !.queue = qu, !.waits = wa, !.recycle = re, !.subs = su,
                    !.staged = st, !.at = at, !.copyAt = co, !.fence = fe, !.needFence = ne]
  BY <1>1, Zenon DEF Enqueue, CoverFrame, DevType
<1>5. fe = [d.fence EXCEPT ![d.index][t] = d.timeline[t] + 1] BY <1>3
<1> HIDE DEF e, tl, qu, wa, re, su, st, at, co, fe, ne
<1>6. /\ e.lock = d.lock /\ e.counter = d.counter /\ e.index = d.index /\ e.count = d.count
      /\ e.waitFences = d.waitFences /\ e.destroyed = d.destroyed /\ e.blocks = d.blocks
  BY <1>1, <1>4, Zenon DEF DevType
<1>7. /\ e.vbo = d.vbo /\ e.ubo = d.ubo /\ e.timeline = tl /\ e.queue = qu /\ e.waits = wa
      /\ e.recycle = re /\ e.subs = su
  BY <1>1, <1>4, Zenon DEF DevType
<1>8. e.staged = st /\ e.at = at /\ e.copyAt = co /\ e.fence = fe /\ e.needFence = ne
  BY <1>1, <1>4, Zenon DEF DevType
<1> QED BY <1>2, <1>5, <1>6, <1>7, <1>8, Zenon DEF Changes, tl, qu, wa, re, su, st, at, co, ne, e

(* These fields have these values.                                         *)
LEMMA ChangedValues ==
  ASSUME NEW d, Good(d), NEW t \in Types, NEW e, Changes(d, t, e)
  PROVE  Values(d, t, e)
<1>1. /\ d.index \in Slots /\ d.timeline \in [Types -> Nat]
      /\ d.queue \in [Types -> Seq(SUBSET Waits)] /\ d.waits \in [Types -> SUBSET Waits]
      /\ d.recycle \in [Slots -> SUBSET Batches] /\ d.subs \in [Slots -> [Types -> SUBSET Cmds]]
      /\ d.fence \in [Slots -> [Types -> Nat]] /\ d.needFence \in [Types -> BOOLEAN]
  BY DEF Good, DevType
<1> DEFINE entry == d.waits[t] \cup QueueOrder(d, t)
<1>2. entry \in SUBSET Waits
  <2>1. QueueOrder(d, t) \in SUBSET Waits BY <1>1, QueueOrderWaits
  <2> QED BY <1>1, <2>1
<1> HIDE DEF entry
<1>3. e.queue = [d.queue EXCEPT ![t] = Append(@, entry)] BY DEF Changes, entry
<1>4. \A u \in Types : d.queue[u] \in Seq(SUBSET Waits) /\ Len(d.queue[u]) \in Nat BY <1>1
<1>5. ASSUME NEW u \in Types
      PROVE  /\ Len(e.queue[u]) = IF u = t THEN Len(d.queue[t]) + 1 ELSE Len(d.queue[u])
             /\ \A n \in 1 .. Len(d.queue[u]) : e.queue[u][n] = d.queue[u][n]
  <2>1. CASE u # t BY <1>1, <1>3, <2>1
  <2>2. CASE u = t
    <3>1. e.queue[u] = Append(d.queue[t], entry) BY <1>1, <1>3, <2>2
    <3> QED BY <1>2, <1>4, <2>2, <3>1
  <2> QED BY <2>1, <2>2
<1>6. e.queue[t][Len(d.queue[t]) + 1] = entry
  <2>1. e.queue[t] = Append(d.queue[t], entry) BY <1>1, <1>3
  <2> QED BY <1>2, <1>4, <2>1
<1>7. \A u \in Types :
        /\ e.timeline[u] = IF u = t THEN d.timeline[t] + 1 ELSE d.timeline[u]
        /\ e.waits[u] = IF u = t THEN {} ELSE d.waits[u]
        /\ e.needFence[u] = IF u = t THEN d.needFence[t] \/ ~Timeline ELSE d.needFence[u]
  BY <1>1 DEF Changes
<1>8. \A f \in Slots, u \in Types :
        /\ e.fence[f][u] = IF f = d.index /\ u = t THEN d.timeline[t] + 1 ELSE d.fence[f][u]
        /\ e.subs[f][u] = IF f = d.index /\ u = t THEN {} ELSE d.subs[f][u]
  BY <1>1 DEF Changes
<1>9. \A f \in Slots :
        /\ f # d.index => e.recycle[f] = d.recycle[f]
        /\ d.recycle[f] \subseteq e.recycle[f]
        /\ e.recycle[f] \subseteq d.recycle[f] \cup {<<t, d.timeline[t] + 1>>}
  BY <1>1 DEF Changes
<1>10. \A c \in Cmds :
         /\ e.at[c] = IF c \in d.subs[d.index][t] THEN <<t, d.timeline[t] + 1>> ELSE d.at[c]
         /\ e.copyAt[c] = IF t = "transfer" /\ c \in d.staged
                          THEN <<t, d.timeline[t] + 1>> ELSE d.copyAt[c]
  BY DEF Changes
<1> QED BY <1>5, <1>6, <1>7, <1>8, <1>9, <1>10 DEF Values, entry

(* One vkQueueSubmit is an advance; its batch is the last of its queue     *)
(* and waits for what t was told to wait for.                              *)
LEMMA EnqueueAdvances ==
  ASSUME completed \in [Types -> Nat], NEW d, Sound(d), NEW t \in Types
  PROVE  Advances(d, Enqueue(d, t))
<1> DEFINE e == Enqueue(d, t)
           batch == <<t, d.timeline[t] + 1>>
<1>1. Good(d) /\ d \in DevType /\ d.index \in Slots BY DevFields DEF Sound, Good
<1>2. Submits(d, e) /\ e \in DevType /\ Good(e) BY <1>1, EnqueueSubmits DEF Submits, Good
<1>3. Changes(d, t, e) BY <1>1, EnqueueChanges
<1> HIDE DEF e
<1>4. Values(d, t, e) BY <1>1, <1>3, ChangedValues
<1>5. e.lock = d.lock /\ e.index = d.index /\ e.count = d.count /\ e.waitFences = d.waitFences
  BY <1>3 DEF Changes
<1>6. /\ \A u \in Types :
           /\ e.timeline[u] = IF u = t THEN d.timeline[t] + 1 ELSE d.timeline[u]
           /\ e.needFence[u] = IF u = t THEN d.needFence[t] \/ ~Timeline ELSE d.needFence[u]
           /\ Len(e.queue[u]) = IF u = t THEN Len(d.queue[t]) + 1 ELSE Len(d.queue[u])
           /\ \A n \in 1 .. Len(d.queue[u]) : e.queue[u][n] = d.queue[u][n]
      /\ \A f \in Slots, u \in Types :
           /\ e.fence[f][u] = IF f = d.index /\ u = t THEN d.timeline[t] + 1 ELSE d.fence[f][u]
           /\ e.subs[f][u] = IF f = d.index /\ u = t THEN {} ELSE d.subs[f][u]
      /\ \A f \in Slots :
           /\ f # d.index => e.recycle[f] = d.recycle[f]
           /\ d.recycle[f] \subseteq e.recycle[f]
           /\ e.recycle[f] \subseteq d.recycle[f] \cup {batch}
      /\ \A c \in Cmds : e.at[c] = IF c \in d.subs[d.index][t] THEN batch ELSE d.at[c]
  BY <1>4 DEF Values
<1>7. \A u \in Types : /\ d.timeline[u] \in Nat /\ completed[u] \in Nat /\ Len(d.queue[u]) \in Nat
                       /\ d.timeline[u] = completed[u] + Len(d.queue[u])
  BY <1>1, DevFields, SyncFields DEF Sound, QueueLengths
<1>8. QueueLengths(e)
  <2> SUFFICES ASSUME NEW u \in Types PROVE e.timeline[u] = completed[u] + Len(e.queue[u])
    BY DEF QueueLengths
  <2>1. e.timeline[u] = (IF u = t THEN d.timeline[t] + 1 ELSE d.timeline[u]) BY <1>6
  <2>2. Len(e.queue[u]) = (IF u = t THEN Len(d.queue[t]) + 1 ELSE Len(d.queue[u])) BY <1>6
  <2> QED BY <1>7, <2>1, <2>2
<1>9. NotYetSent(e)
  <2> SUFFICES ASSUME NEW f \in Slots, NEW u \in Types, NEW c \in e.subs[f][u]
               PROVE  f = e.index /\ cmd[c].type = u /\ e.at[c][2] = 0
    BY DEF NotYetSent
  <2>1. c \in d.subs[f][u] /\ c \in Cmds /\ ~(f = d.index /\ u = t) BY <1>1, <1>6, DevFields
  <2>2. f = d.index /\ cmd[c].type = u /\ d.at[c][2] = 0 BY <2>1 DEF Sound, NotYetSent
  <2>3. c \notin d.subs[d.index][t] BY <1>1, <2>1, <2>2 DEF Sound, NotYetSent
  <2> QED BY <1>5, <1>6, <2>1, <2>2, <2>3
<1>10. LatestCovered(e)
  <2> SUFFICES ASSUME NEW u \in Types
               PROVE  e.timeline[u] <= completed[u] \/ \E f \in Slots : f < e.count /\ e.timeline[u] <= e.fence[f][u]
    BY DEF LatestCovered
  <2>1. CASE u = t
    <3>1. e.timeline[u] <= e.fence[d.index][u] /\ d.index < e.count
      BY <1>1, <1>5, <1>6, <1>7, <2>1 DEF Sound
    <3> QED BY <1>1, <3>1
  <2>2. CASE u # t
    <3>1. e.timeline[u] = d.timeline[u] /\ \A f \in Slots : e.fence[f][u] = d.fence[f][u]
      BY <1>6, <2>2
    <3> QED BY <1>5, <3>1 DEF Sound, LatestCovered
  <2> QED BY <2>1, <2>2
<1>11. ~Timeline => FramesFenced(e)
  <2> SUFFICES ASSUME ~Timeline, NEW f \in Slots, NEW u \in Types
               PROVE  FenceCovers(e, f, u) \/ (e.lock = "free" /\ f = e.index /\ e.needFence[u])
    BY DEF FramesFenced
  <2>1. FenceCovers(d, f, u) \/ (d.lock = "free" /\ f = d.index /\ d.needFence[u])
    BY DEF Sound, FramesFenced
  <2>2. CASE f = d.index /\ (u = t \/ d.needFence[u])
    BY <1>5, <1>6, <2>2 DEF Sound
  <2>3. CASE ~(f = d.index /\ (u = t \/ d.needFence[u]))
    <3>1. FenceCovers(d, f, u) /\ e.fence[f][u] = d.fence[f][u] BY <1>6, <2>1, <2>3
    <3>2. \A v \in Types : d.timeline[v] <= e.timeline[v] BY <1>6, <1>7
    <3>3. QueueLengths(d) BY DEF Sound
    <3> QED BY <1>1, <1>2, <1>5, <1>6, <3>1, <3>2, <3>3, CoverageKept
  <2> QED BY <2>2, <2>3
<1>12. Sound(e)
  BY <1>2, <1>5, <1>8, <1>9, <1>10, <1>11 DEF Sound
<1>13. \A u \in Types : Len(d.queue[u]) <= Len(e.queue[u]) BY <1>6, <1>7
<1>14. ASSUME NEW c \in Cmds
       PROVE  e.at[c] = d.at[c] \/ (d.at[c][2] = 0 /\ e.at[c][2] > d.timeline[e.at[c][1]])
  <2>1. CASE c \in d.subs[d.index][t]
    <3>1. e.at[c][1] = t /\ e.at[c][2] = d.timeline[t] + 1 BY <1>6, <2>1
    <3>2. d.at[c][2] = 0 BY <1>1, <2>1 DEF Sound, NotYetSent
    <3> QED BY <1>7, <3>1, <3>2
  <2> QED BY <1>6, <2>1
<1>15. ASSUME NEW f \in Slots
       PROVE  /\ d.waitFences[f] \subseteq e.waitFences[f]
              /\ f # d.index => e.recycle[f] = d.recycle[f]
              /\ d.recycle[f] \subseteq e.recycle[f]
              /\ \A b \in e.recycle[f] : b \in d.recycle[f] \/ b[2] <= e.fence[f][b[1]]
  <2>1. ASSUME NEW b \in e.recycle[f], b \notin d.recycle[f]
        PROVE  b[2] <= e.fence[f][b[1]]
    <3>1. f = d.index /\ b = batch BY <1>6, <2>1
    <3>2. b[1] = t /\ b[2] = d.timeline[t] + 1 BY <3>1
    <3> QED BY <1>6, <1>7, <3>1, <3>2
  <2> QED BY <1>5, <1>6, <2>1
<1> QED BY <1>2, <1>6, <1>12, <1>13, <1>14, <1>15, Zenon DEF Advances, e

(* A change of fields that no batch depends on is an advance.              *)
LEMMA SameAdvances ==
  ASSUME completed \in [Types -> Nat], NEW d, Sound(d), NEW e \in DevType,
         e.lock = d.lock, e.counter = d.counter, e.index = d.index,
         e.count = d.count, e.destroyed = d.destroyed,
         e.timeline = d.timeline, e.fence = d.fence, e.subs = d.subs, e.at = d.at,
         e.queue = d.queue,
         \A f \in Slots :
           /\ d.waitFences[f] \subseteq e.waitFences[f]
           /\ f # d.index => e.recycle[f] = d.recycle[f]
           /\ d.recycle[f] \subseteq e.recycle[f]
           /\ \A b \in e.recycle[f] : b \in d.recycle[f] \/ b[2] <= e.fence[f][b[1]],
         ~Timeline => \A t \in Types :
           d.needFence[t] => e.needFence[t] \/ FenceCovers(e, d.index, t)
  PROVE  Advances(d, e)
<1>1. d \in DevType /\ Good(d) /\ QueueLengths(d) BY DEF Sound, Good
<1>2. Submits(d, e) BY <1>1, SameSubmits
<1>3. \A t \in Types : d.timeline[t] \in Nat /\ Len(d.queue[t]) \in Nat
  BY <1>1, DevFields, SyncFields
<1>4. ~Timeline => FramesFenced(e)
  <2> SUFFICES ASSUME ~Timeline, NEW f \in Slots, NEW t \in Types
               PROVE  FenceCovers(e, f, t) \/ (e.lock = "free" /\ f = e.index /\ e.needFence[t])
    BY DEF FramesFenced
  <2>1. CASE FenceCovers(d, f, t)
    <3>1. \A u \in Types : d.timeline[u] <= e.timeline[u] BY <1>3
    <3> QED BY <1>1, <2>1, <3>1, CoverageKept
  <2>2. CASE f = d.index /\ d.needFence[t] BY <2>2 DEF Sound
  <2> QED BY <2>1, <2>2 DEF Sound, FramesFenced
<1>5. QueueLengths(e) /\ NotYetSent(e) /\ LatestCovered(e)
  BY DEF Sound, QueueLengths, NotYetSent, LatestCovered
<1>6. Sound(e) BY <1>2, <1>4, <1>5 DEF Sound, Submits
<1> QED BY <1>2, <1>3, <1>6 DEF Advances

(* AddWaitSemaphoreNolock, field by field.                                 *)
WaitsAdded(d, stages, s, e) ==
  /\ e \in DevType
  /\ e.lock = d.lock /\ e.counter = d.counter /\ e.index = d.index
  /\ e.count = d.count /\ e.destroyed = d.destroyed /\ e.blocks = d.blocks
  /\ e.timeline = d.timeline /\ e.fence = d.fence /\ e.subs = d.subs
  /\ e.at = d.at /\ e.copyAt = d.copyAt /\ e.queue = d.queue
  /\ e.waitFences = d.waitFences /\ e.recycle = d.recycle
  /\ e.vbo = d.vbo /\ e.ubo = d.ubo /\ e.staged = d.staged
  /\ \A t \in Types :
       /\ e.waits[t] = IF stages[t] = {} THEN d.waits[t]
                       ELSE d.waits[t] \cup {<<s[1], s[2], stages[t]>>}
       /\ e.needFence[t] <=> d.needFence[t] \/ stages[t] # {}

LEMMA AddWaitsFields ==
  ASSUME NEW d \in DevType, NEW stages \in [Types -> SUBSET Stages], NEW s \in Batches
  PROVE  WaitsAdded(d, stages, s, AddWaits(d, stages, s))
<1> DEFINE
  wait(t) == <<s[1], s[2], stages[t]>>
  wa == [t \in Types |-> IF stages[t] = {} THEN d.waits[t] ELSE d.waits[t] \cup {wait(t)}]
  ne == [t \in Types |-> d.needFence[t] \/ stages[t] # {}]
  e == [d EXCEPT !.waits = wa, !.needFence = ne]
<1>1. wa \in [Types -> SUBSET Waits] /\ ne \in [Types -> BOOLEAN]
  <2>1. \A t \in Types : wait(t) \in Waits BY DEF Batches, Waits
  <2> HIDE DEF wait
  <2> QED BY <2>1 DEF DevType
<1>2. AddWaits(d, stages, s) = e BY DEF AddWaits
<1>3. \A t \in Types :
        /\ wa[t] = IF stages[t] = {} THEN d.waits[t] ELSE d.waits[t] \cup {wait(t)}
        /\ ne[t] <=> d.needFence[t] \/ stages[t] # {}
  OBVIOUS
<1> HIDE DEF wa, ne
<1>4. /\ e \in DevType
      /\ e.lock = d.lock /\ e.counter = d.counter /\ e.index = d.index
      /\ e.count = d.count /\ e.destroyed = d.destroyed /\ e.blocks = d.blocks
      /\ e.timeline = d.timeline /\ e.fence = d.fence /\ e.subs = d.subs
  BY <1>1, Zenon DEF DevType
<1>5. /\ e.at = d.at /\ e.copyAt = d.copyAt /\ e.queue = d.queue
      /\ e.waitFences = d.waitFences /\ e.recycle = d.recycle
      /\ e.vbo = d.vbo /\ e.ubo = d.ubo /\ e.staged = d.staged
      /\ e.waits = wa /\ e.needFence = ne
  BY <1>1, Zenon DEF DevType
<1> HIDE DEF e
<1> QED BY <1>2, <1>3, <1>4, <1>5 DEF WaitsAdded

(* AddWaitSemaphoreNolock is an advance.                                   *)
LEMMA AddWaitsAdvances ==
  ASSUME completed \in [Types -> Nat], NEW d, Sound(d),
         NEW stages \in [Types -> SUBSET Stages], NEW s \in Batches
  PROVE  Advances(d, AddWaits(d, stages, s))
<1> DEFINE e == AddWaits(d, stages, s)
<1>1. d \in DevType BY DEF Sound, Good
<1>2. WaitsAdded(d, stages, s, e) BY <1>1, AddWaitsFields
<1> HIDE DEF e
<1>3. Advances(d, e) BY <1>2, SameAdvances DEF WaitsAdded
<1> QED BY <1>3 DEF e

(* The staging copies that SyncBufferBlocks records, field by field.       *)
Copied(d) == [d EXCEPT !.staged = d.staged \cup d.vbo \cup d.ubo, !.vbo = {}, !.ubo = {}]

CopiesRecorded(d, e) ==
  /\ e \in DevType
  /\ e.lock = d.lock /\ e.counter = d.counter /\ e.index = d.index
  /\ e.count = d.count /\ e.destroyed = d.destroyed /\ e.blocks = d.blocks
  /\ e.timeline = d.timeline /\ e.fence = d.fence /\ e.subs = d.subs
  /\ e.at = d.at /\ e.copyAt = d.copyAt /\ e.queue = d.queue
  /\ e.waitFences = d.waitFences /\ e.recycle = d.recycle
  /\ e.waits = d.waits /\ e.needFence = d.needFence
  /\ e.vbo = {} /\ e.ubo = {} /\ e.staged = d.staged \cup d.vbo \cup d.ubo

LEMMA CopiedFields ==
  ASSUME NEW d \in DevType
  PROVE  CopiesRecorded(d, Copied(d))
<1> DEFINE st == d.staged \cup d.vbo \cup d.ubo
           e == [d EXCEPT !.staged = st, !.vbo = {}, !.ubo = {}]
<1>1. st \in SUBSET Cmds /\ {} \in SUBSET Cmds BY DEF DevType
<1>2. Copied(d) = e BY DEF Copied
<1> HIDE DEF st
<1>3. /\ e \in DevType
      /\ e.lock = d.lock /\ e.counter = d.counter /\ e.index = d.index
      /\ e.count = d.count /\ e.destroyed = d.destroyed /\ e.blocks = d.blocks
      /\ e.timeline = d.timeline /\ e.fence = d.fence /\ e.subs = d.subs
  BY <1>1, Zenon DEF DevType
<1>4. /\ e.at = d.at /\ e.copyAt = d.copyAt /\ e.queue = d.queue
      /\ e.waitFences = d.waitFences /\ e.recycle = d.recycle
      /\ e.waits = d.waits /\ e.needFence = d.needFence
      /\ e.vbo = {} /\ e.ubo = {} /\ e.staged = st
  BY <1>1, Zenon DEF DevType
<1> HIDE DEF e
<1> QED BY <1>2, <1>3, <1>4, Zenon DEF st, CopiesRecorded

(* Recording the staging copies is an advance.                             *)
LEMMA CopiedAdvances ==
  ASSUME completed \in [Types -> Nat], NEW d, Sound(d)
  PROVE  Advances(d, Copied(d))
<1> DEFINE e == Copied(d)
<1>1. d \in DevType BY DEF Sound, Good
<1>2. CopiesRecorded(d, e) BY <1>1, CopiedFields
<1> HIDE DEF e
<1>3. Advances(d, e) BY <1>2, SameAdvances DEF CopiesRecorded
<1> QED BY <1>3 DEF e

(* FrameFence, field by field.                                             *)
FenceTaken(d, t, e) ==
  /\ e \in DevType
  /\ e.lock = d.lock /\ e.counter = d.counter /\ e.index = d.index
  /\ e.count = d.count /\ e.destroyed = d.destroyed /\ e.blocks = d.blocks
  /\ e.timeline = d.timeline /\ e.fence = d.fence /\ e.subs = d.subs
  /\ e.at = d.at /\ e.copyAt = d.copyAt /\ e.queue = d.queue /\ e.waits = d.waits
  /\ e.vbo = d.vbo /\ e.ubo = d.ubo /\ e.staged = d.staged
  /\ \A u \in Types : u # t => e.needFence[u] = d.needFence[u]
  /\ \A f \in Slots :
       /\ f # d.index => e.recycle[f] = d.recycle[f]
       /\ d.recycle[f] \subseteq e.recycle[f]
       /\ d.waitFences[f] \subseteq e.waitFences[f]
       /\ e.recycle[f] \subseteq d.recycle[f] \cup {<<t, d.timeline[t]>>}
  /\ ~Timeline => <<t, d.timeline[t]>> \in e.waitFences[d.index]

LEMMA FrameFenceFields ==
  ASSUME NEW d \in DevType, NEW t \in Types
  PROVE  FenceTaken(d, t, FrameFence(d, t))
<1> DEFINE
  sync == <<t, d.timeline[t]>>
  grow(set) == IF Timeline THEN set ELSE set \cup {sync}
  ne == [d.needFence EXCEPT ![t] = FALSE]
  wf == [d.waitFences EXCEPT ![d.index] = grow(@)]
  re == [d.recycle EXCEPT ![d.index] = grow(@)]
  e == [d EXCEPT !.needFence = ne, !.waitFences = wf, !.recycle = re]
<1>1. /\ d.index \in Slots /\ d.timeline \in [Types -> Nat] /\ d.needFence \in [Types -> BOOLEAN]
      /\ d.waitFences \in [Slots -> SUBSET Batches] /\ d.recycle \in [Slots -> SUBSET Batches]
  BY DEF DevType
<1>2. sync \in Batches BY <1>1 DEF Batches
<1>3. FrameFence(d, t) = e BY DEF FrameFence
<1> HIDE DEF sync
<1>4. \A set \in SUBSET Batches : grow(set) \in SUBSET Batches BY <1>2
<1>5. \A set : set \subseteq grow(set) /\ grow(set) \subseteq set \cup {sync} OBVIOUS
<1>6. ~Timeline => sync \in wf[d.index] BY <1>1
<1> HIDE DEF grow
<1>7. /\ ne \in [Types -> BOOLEAN]
      /\ wf \in [Slots -> SUBSET Batches] /\ re \in [Slots -> SUBSET Batches]
  BY <1>1, <1>4
<1>8. \A u \in Types : u # t => ne[u] = d.needFence[u] BY <1>1
<1>9. \A f \in Slots :
        /\ f # d.index => re[f] = d.recycle[f]
        /\ d.recycle[f] \subseteq re[f]
        /\ d.waitFences[f] \subseteq wf[f]
        /\ re[f] \subseteq d.recycle[f] \cup {sync}
  BY <1>1, <1>5
<1> HIDE DEF ne, wf, re
<1>10. /\ e \in DevType
       /\ e.lock = d.lock /\ e.counter = d.counter /\ e.index = d.index
       /\ e.count = d.count /\ e.destroyed = d.destroyed /\ e.blocks = d.blocks
       /\ e.timeline = d.timeline /\ e.fence = d.fence /\ e.subs = d.subs
  BY <1>7, Zenon DEF DevType
<1>11. /\ e.at = d.at /\ e.copyAt = d.copyAt /\ e.queue = d.queue /\ e.waits = d.waits
       /\ e.vbo = d.vbo /\ e.ubo = d.ubo /\ e.staged = d.staged
       /\ e.needFence = ne /\ e.waitFences = wf /\ e.recycle = re
  BY <1>7, Zenon DEF DevType
<1> HIDE DEF e
<1> QED BY <1>3, <1>6, <1>8, <1>9, <1>10, <1>11 DEF FenceTaken, sync

(* Once the frame covers the latest batch of a type, asking for its fence  *)
(* is an advance.                                                          *)
LEMMA FrameFenceAdvances ==
  ASSUME completed \in [Types -> Nat], NEW d, Sound(d), NEW t \in Types,
         d.fence[d.index][t] = d.timeline[t]
  PROVE  /\ Advances(d, FrameFence(d, t))
         /\ ~Timeline => FenceCovers(FrameFence(d, t), d.index, t)
<1> DEFINE e == FrameFence(d, t)
<1>1. d \in DevType /\ d.index \in Slots /\ d.timeline[t] \in Nat BY DevFields DEF Sound, Good
<1>2. FenceTaken(d, t, e) BY <1>1, FrameFenceFields
<1> HIDE DEF e
<1>3. ~Timeline => FenceCovers(e, d.index, t) BY <1>2 DEF FenceTaken, FenceCovers
<1>4. ASSUME NEW f \in Slots, NEW b \in e.recycle[f], b \notin d.recycle[f]
      PROVE  b[2] <= e.fence[f][b[1]]
  <2>1. f = d.index /\ b = <<t, d.timeline[t]>> BY <1>2, <1>4 DEF FenceTaken
  <2> QED BY <1>1, <1>2, <2>1 DEF FenceTaken
<1>5. \A f \in Slots :
        /\ d.waitFences[f] \subseteq e.waitFences[f]
        /\ f # d.index => e.recycle[f] = d.recycle[f]
        /\ d.recycle[f] \subseteq e.recycle[f]
        /\ \A b \in e.recycle[f] : b \in d.recycle[f] \/ b[2] <= e.fence[f][b[1]]
  BY <1>2, <1>4 DEF FenceTaken
<1>6. ~Timeline => \A u \in Types :
        d.needFence[u] => e.needFence[u] \/ FenceCovers(e, d.index, u)
  BY <1>2, <1>3 DEF FenceTaken
<1>7. Advances(d, e) BY <1>2, <1>5, <1>6, SameAdvances DEF FenceTaken
<1> QED BY <1>3, <1>7 DEF e

-----------------------------------------------------------------------------
(* From d to e nothing happened to the queue types outside S.              *)
Beside(d, e, S) ==
  \A u \in Types \ S :
    /\ e.timeline[u] = d.timeline[u] /\ e.subs[d.index][u] = d.subs[d.index][u]
    /\ \A f \in Slots : e.fence[f][u] = d.fence[f][u]

(* From d to e no copy was left recorded and not submitted, and no vertex  *)
(* block lost its commands.                                                *)
Flushes(d, e) ==
  /\ Advances(d, e)
  /\ d.staged = {} => e.staged = {}
  /\ \/ e.vbo = {}
     \/ e.vbo = d.vbo /\ e.subs[d.index]["graphics"] = d.subs[d.index]["graphics"]

LEMMA FlushesReflexive == ASSUME NEW d, Sound(d) PROVE Flushes(d, d)
BY AdvancesReflexive DEF Flushes

LEMMA FlushesTransitive ==
  ASSUME NEW d, NEW e, NEW g, Sound(d), Flushes(d, e), Flushes(e, g)
  PROVE  Flushes(d, g)
<1>1. Advances(d, g) BY AdvancesTransitive DEF Flushes
<1>2. e.index = d.index BY DEF Flushes, Advances, Submits
<1> QED BY <1>1, <1>2 DEF Flushes

(* What is known of a value that a call has led to.                        *)
LEMMA AdvancedSound ==
  ASSUME NEW d, NEW e, Advances(d, e)
  PROVE  /\ Sound(e) /\ Good(e) /\ e \in DevType
         /\ e.lock = d.lock /\ e.counter = d.counter /\ e.index = d.index
         /\ e.count = d.count /\ e.destroyed = d.destroyed
         /\ \A u \in Types : d.timeline[u] <= e.timeline[u]
         /\ \A f \in Slots, u \in Types : e.subs[f][u] \subseteq d.subs[f][u]
         /\ \A f \in Slots, u \in Types : f # d.index => e.fence[f][u] = d.fence[f][u]
<1>1. Slots # {} BY FramesAssumption DEF Slots
<1> QED BY <1>1 DEF Advances, Submits, Sound, Good

(* Everything about one vkQueueSubmit.                                     *)
LEMMA EnqueueFacts ==
  ASSUME completed \in [Types -> Nat], NEW d, Sound(d), NEW t \in Types
  PROVE  /\ Advances(d, Enqueue(d, t)) /\ Beside(d, Enqueue(d, t), {t})
         /\ Values(d, t, Enqueue(d, t)) /\ Changes(d, t, Enqueue(d, t))
<1>1. Good(d) /\ d.index \in Slots BY DevFields DEF Sound, Good
<1>2. Changes(d, t, Enqueue(d, t)) BY <1>1, EnqueueChanges
<1> DEFINE e == Enqueue(d, t)
<1> HIDE DEF e
<1>3. Values(d, t, e) BY <1>1, <1>2, ChangedValues DEF e
<1>4. Beside(d, e, {t}) BY <1>1, <1>3 DEF Values, Beside
<1> QED BY <1>2, <1>3, <1>4, EnqueueAdvances DEF e

(* The submitting half of SubmitQueue leaves nothing of t pending.         *)
PendingSubmitted(d, t, e) ==
  /\ Advances(d, e) /\ Beside(d, e, {t})
  /\ e.subs[d.index][t] = {}
  /\ e.vbo = d.vbo /\ e.ubo = d.ubo
  /\ e.staged = IF t = "transfer" THEN {} ELSE d.staged

LEMMA SubmitPendingFacts ==
  ASSUME completed \in [Types -> Nat], NEW d, Sound(d), NEW t \in Types, NEW demand \in BOOLEAN
  PROVE  PendingSubmitted(d, t, SubmitPending(d, t, demand))
<1> DEFINE e == SubmitPending(d, t, demand)
<1>1. d.index \in Slots BY DevFields DEF Sound, Good
<1>2. CASE Pending(d, t) \/ demand
  <2>1. e = Enqueue(d, t) BY <1>2 DEF SubmitPending
  <2> HIDE DEF e
  <2>2. Advances(d, e) /\ Beside(d, e, {t}) /\ Values(d, t, e) /\ Changes(d, t, e)
    BY <2>1, EnqueueFacts
  <2>3. e.subs[d.index][t] = {} BY <1>1, <2>2 DEF Values
  <2>4. /\ e.vbo = d.vbo /\ e.ubo = d.ubo
        /\ e.staged = IF t = "transfer" THEN {} ELSE d.staged
    BY <2>2 DEF Changes
  <2> QED BY <2>2, <2>3, <2>4 DEF e, PendingSubmitted
<1>3. CASE ~(Pending(d, t) \/ demand)
  <2>1. e = d BY <1>3 DEF SubmitPending
  <2>2. d.subs[d.index][t] = {} /\ (t = "transfer" => d.staged = {}) BY <1>3 DEF Pending
  <2>3. Beside(d, d, {t}) BY DEF Beside
  <2> QED BY <2>1, <2>2, <2>3, AdvancesReflexive DEF PendingSubmitted
<1> QED BY <1>2, <1>3

(* The queues that SyncBufferBlocks makes wait for the copies it records,  *)
(* and the wait of each for the latest batch of the transfer queue.        *)
StagingWaiters(d) == {t \in Types : StagingWaits(Usage(d))[t] # {}}
StagingWait(d, e, t) == <<"transfer", e.timeline["transfer"], StagingWaits(Usage(d))[t]>>

(* SyncBufferBlocks: the copies are recorded, and submitted if a queue has *)
(* to wait for them.                                                       *)
Synced(d, e) ==
  /\ Advances(d, e) /\ Beside(d, e, {"transfer"})
  /\ e.vbo = {} /\ e.ubo = {}
  /\ d.vbo \cup d.ubo = {} => e = d
  /\ d.vbo \cup d.ubo # {} /\ StagingWaiters(d) = {} => e.staged # {}
  /\ d.vbo \cup d.ubo # {} /\ StagingWaiters(d) # {} =>
       /\ e.staged = {} /\ e.subs[d.index]["transfer"] = {}
       /\ e.fence[d.index]["transfer"] = e.timeline["transfer"]
       /\ \A t \in StagingWaiters(d) : StagingWait(d, e, t) \in e.waits[t]

LEMMA SyncBufferBlocksFacts ==
  ASSUME completed \in [Types -> Nat], NEW d, Sound(d)
  PROVE  Synced(d, SyncBufferBlocks(d))
<1> DEFINE
  blocks == d.vbo \cup d.ubo
  ts == StagingWaiters(d)
  stages == StagingWaits(Usage(d))
  copied == [d EXCEPT !.staged = @ \cup blocks, !.vbo = {}, !.ubo = {}]
  sent == IF ts = {} THEN copied ELSE Enqueue(copied, "transfer")
  s == <<"transfer", sent.timeline["transfer"]>>
  e == AddWaits(sent, stages, s)
<1>1. "transfer" \in Types /\ stages \in [Types -> SUBSET Stages] BY StagingWaitsType DEF Types
<1>2. ts = {t \in Types : stages[t] # {}} BY DEF StagingWaiters
<1>3. SyncBufferBlocks(d) = IF blocks = {} THEN d ELSE e
  <2>1. ts = {} <=> \A t \in Types : stages[t] = {} BY <1>2
  <2> HIDE DEF ts
  <2> QED BY <2>1 DEF SyncBufferBlocks
<1>4. d \in DevType /\ d.index \in Slots BY DevFields DEF Sound, Good
<1>5. copied = Copied(d) BY <1>4, Zenon DEF Copied, DevType
<1> HIDE DEF ts, stages, copied
<1>6. CopiesRecorded(d, copied) /\ Advances(d, copied)
  BY <1>4, <1>5, CopiedFields, CopiedAdvances
<1>7. Sound(copied) /\ copied.index = d.index BY <1>6, AdvancedSound
<1>8. /\ Advances(d, sent) /\ Beside(d, sent, {"transfer"})
      /\ sent.vbo = {} /\ sent.ubo = {}
      /\ ts = {} => sent.staged = d.staged \cup blocks
      /\ ts # {} => /\ sent.staged = {} /\ sent.subs[d.index]["transfer"] = {}
                    /\ sent.fence[d.index]["transfer"] = sent.timeline["transfer"]
  <2>1. CASE ts = {}
    <3>1. sent = copied BY <2>1
    <3>2. Beside(d, copied, {"transfer"}) BY <1>6 DEF CopiesRecorded, Beside
    <3> QED BY <1>6, <2>1, <3>1, <3>2 DEF CopiesRecorded
  <2>2. CASE ts # {}
    <3>1. sent = Enqueue(copied, "transfer") BY <2>2
    <3> HIDE DEF sent
    <3>2. /\ Advances(copied, sent) /\ Beside(copied, sent, {"transfer"})
          /\ Values(copied, "transfer", sent) /\ Changes(copied, "transfer", sent)
      BY <1>1, <1>7, <3>1, EnqueueFacts
    <3>3. Advances(d, sent) BY <1>6, <3>2, AdvancesTransitive
    <3>4. Beside(d, sent, {"transfer"}) BY <1>6, <1>7, <3>2 DEF CopiesRecorded, Beside
    <3>5. sent.vbo = {} /\ sent.ubo = {} /\ sent.staged = {}
      BY <1>6, <3>2 DEF CopiesRecorded, Changes
    <3>6. sent.subs[d.index]["transfer"] = {} /\ sent.fence[d.index]["transfer"] = sent.timeline["transfer"]
      BY <1>1, <1>4, <1>7, <3>2 DEF Values
    <3> QED BY <2>2, <3>3, <3>4, <3>5, <3>6
  <2> QED BY <2>1, <2>2
<1> HIDE DEF sent
<1>9. Sound(sent) /\ sent \in DevType /\ sent.index = d.index BY <1>8, AdvancedSound
<1>10. s \in Batches BY <1>1, <1>9, DevFields DEF Batches
<1> HIDE DEF s
<1>11. WaitsAdded(sent, stages, s, e) /\ Advances(sent, e)
  BY <1>1, <1>9, <1>10, AddWaitsFields, AddWaitsAdvances
<1> HIDE DEF e
<1>12. Advances(d, e) BY <1>8, <1>11, AdvancesTransitive
<1>13. Beside(d, e, {"transfer"}) /\ e.vbo = {} /\ e.ubo = {}
  BY <1>8, <1>11 DEF WaitsAdded, Beside
<1>14. CASE blocks = {}
  <2>1. Beside(d, d, {"transfer"}) BY DEF Beside
  <2> QED BY <1>3, <1>14, <2>1, AdvancesReflexive DEF Synced
<1>15. CASE blocks # {}
  <2>1. ts = {} => e.staged # {} BY <1>8, <1>11, <1>15 DEF WaitsAdded
  <2>2. ts # {} => /\ e.staged = {} /\ e.subs[d.index]["transfer"] = {}
                   /\ e.fence[d.index]["transfer"] = e.timeline["transfer"]
    BY <1>8, <1>11 DEF WaitsAdded
  <2>3. \A t \in ts : StagingWait(d, e, t) \in e.waits[t]
    <3>1. \A t \in ts : <<s[1], s[2], stages[t]>> \in e.waits[t] BY <1>2, <1>11 DEF WaitsAdded
    <3>2. s[1] = "transfer" /\ s[2] = e.timeline["transfer"] BY <1>11 DEF WaitsAdded, s
    <3> QED BY <3>1, <3>2 DEF StagingWait, stages
  <2> QED BY <1>3, <1>12, <1>13, <1>15, <2>1, <2>2, <2>3 DEF Synced, ts
<1> QED BY <1>14, <1>15

(* FlushFrame of the transfer queue: no copy is left, and a batch with     *)
(* copies is waited for by the queues that SubmitStaging names.            *)
TransferFlushed(d, e) ==
  /\ Advances(d, e) /\ Beside(d, e, {"transfer"})
  /\ e.vbo = {} /\ e.ubo = {} /\ e.staged = {} /\ e.subs[d.index]["transfer"] = {}
  /\ d.staged = {} /\ d.subs[d.index]["transfer"] = {} =>
       /\ d.vbo \cup d.ubo = {} => e = d
       /\ d.vbo \cup d.ubo # {} =>
            /\ e.fence[d.index]["transfer"] = e.timeline["transfer"]
            /\ \A t \in StagingWaiters(d) : StagingWait(d, e, t) \in e.waits[t]

LEMMA FlushTransferFacts ==
  ASSUME completed \in [Types -> Nat], NEW d, Sound(d)
  PROVE  TransferFlushed(d, FlushTransfer(d))
<1> DEFINE g == SyncBufferBlocks(d)
           e == SubmitPending(g, "transfer", FALSE)
           ts == StagingWaiters(d)
<1>1. "transfer" \in Types /\ FALSE \in BOOLEAN BY DEF Types
<1>2. FlushTransfer(d) = e BY DEF FlushTransfer
<1>3. d.index \in Slots /\ Synced(d, g) BY SyncBufferBlocksFacts, DevFields DEF Sound, Good
<1> HIDE DEF g
<1>4. Advances(d, g) /\ Sound(g) /\ g.index = d.index
  BY <1>3, AdvancedSound DEF Synced
<1>5. /\ Advances(g, e) /\ Beside(g, e, {"transfer"})
      /\ e.subs[g.index]["transfer"] = {}
      /\ e.vbo = g.vbo /\ e.ubo = g.ubo /\ e.staged = {}
  BY <1>1, <1>4, SubmitPendingFacts DEF PendingSubmitted
<1>6. Pending(g, "transfer") <=> g.subs[d.index]["transfer"] # {} \/ g.staged # {}
  BY <1>4 DEF Pending
<1>7. e = IF Pending(g, "transfer") THEN Enqueue(g, "transfer") ELSE g BY DEF SubmitPending
<1> HIDE DEF e
<1>8. Advances(d, e) BY <1>4, <1>5, AdvancesTransitive
<1>9. Beside(d, e, {"transfer"}) BY <1>3, <1>4, <1>5 DEF Synced, Beside
<1>10. ASSUME d.staged = {}, d.subs[d.index]["transfer"] = {}, d.vbo \cup d.ubo = {}
       PROVE  e = d
  <2>1. g = d BY <1>3, <1>10 DEF Synced
  <2> QED BY <1>6, <1>7, <1>10, <2>1
<1>11. ASSUME d.staged = {}, d.subs[d.index]["transfer"] = {}, d.vbo \cup d.ubo # {}
       PROVE  /\ e.fence[d.index]["transfer"] = e.timeline["transfer"]
              /\ \A t \in ts : StagingWait(d, e, t) \in e.waits[t]
  <2>1. CASE ts = {}
    <3>1. e = Enqueue(g, "transfer") BY <1>3, <1>6, <1>7, <1>11, <2>1 DEF Synced
    <3>2. Values(g, "transfer", e) BY <1>1, <1>4, <3>1, EnqueueFacts
    <3> QED BY <1>1, <1>3, <1>4, <2>1, <3>2 DEF Values
  <2>2. CASE ts # {}
    <3>1. g.staged = {} /\ g.subs[d.index]["transfer"] = {} BY <1>3, <1>11, <2>2 DEF Synced
    <3>2. e = g BY <1>6, <1>7, <3>1
    <3> QED BY <1>3, <1>11, <2>2, <3>2 DEF Synced
  <2> QED BY <2>1, <2>2
<1> QED BY <1>2, <1>3, <1>4, <1>5, <1>8, <1>9, <1>10, <1>11 DEF TransferFlushed, Synced, ts

LEMMA FlushTransferFlushes ==
  ASSUME completed \in [Types -> Nat], NEW d, Sound(d)
  PROVE  Flushes(d, FlushTransfer(d))
BY FlushTransferFacts DEF TransferFlushed, Flushes

(* SubmitQueue, with the transfers it flushes first.                       *)
QueueSubmitted(d, t, e) ==
  /\ Flushes(d, e) /\ Beside(d, e, {"transfer", t})
  /\ e.subs[d.index][t] = {}
  /\ d.subs[d.index]["transfer"] = {} => e.subs[d.index]["transfer"] = {}
  /\ t = "transfer" => e.staged = {}
  /\ t # "transfer" => e.vbo = {}

LEMMA SubmitQueueFacts ==
  ASSUME completed \in [Types -> Nat], NEW d, Sound(d), NEW t \in Types, NEW demand \in BOOLEAN
  PROVE  QueueSubmitted(d, t, SubmitQueue(d, t, demand))
<1> DEFINE g == FlushTransfer(d)
           e == SubmitQueue(d, t, demand)
<1>1. "transfer" \in Types /\ "graphics" \in Types /\ "graphics" # "transfer" BY DEF Types
<1>2. CASE t = "transfer"
  <2>1. e = SubmitPending(d, t, demand) BY <1>2 DEF SubmitQueue
  <2> HIDE DEF e
  <2>2. /\ Advances(d, e) /\ Beside(d, e, {t}) /\ e.subs[d.index][t] = {}
        /\ e.vbo = d.vbo /\ e.staged = {}
    BY <1>2, <2>1, SubmitPendingFacts DEF PendingSubmitted
  <2>3. e.subs[d.index]["graphics"] = d.subs[d.index]["graphics"] BY <1>1, <1>2, <2>2 DEF Beside
  <2>4. Beside(d, e, {"transfer", t}) BY <1>2, <2>2 DEF Beside
  <2> QED BY <1>2, <2>2, <2>3, <2>4 DEF QueueSubmitted, Flushes, e
<1>3. CASE t # "transfer"
  <2>1. e = SubmitPending(g, t, demand) BY <1>3 DEF SubmitQueue
  <2>2. TransferFlushed(d, g) BY FlushTransferFacts
  <2> HIDE DEF e, g
  <2>3. Sound(g) /\ g.index = d.index BY <2>2, AdvancedSound DEF TransferFlushed
  <2>4. PendingSubmitted(g, t, e) BY <2>1, <2>3, SubmitPendingFacts, Zenon
  <2>5. /\ Advances(g, e) /\ Beside(g, e, {t}) /\ e.subs[g.index][t] = {}
        /\ e.vbo = g.vbo /\ e.staged = g.staged
    BY <1>3, <2>4 DEF PendingSubmitted
  <2>6. Advances(d, e) BY <2>2, <2>5, AdvancesTransitive DEF TransferFlushed
  <2>7. Beside(d, e, {"transfer", t}) BY <2>2, <2>3, <2>5 DEF TransferFlushed, Beside
  <2>8. e.subs[d.index]["transfer"] = {} BY <1>1, <1>3, <2>2, <2>3, <2>5 DEF TransferFlushed, Beside
  <2> QED BY <1>3, <2>2, <2>3, <2>5, <2>6, <2>7, <2>8 DEF QueueSubmitted, Flushes, TransferFlushed, e
<1> QED BY <1>2, <1>3

(* FlushFrame of one queue type.                                           *)
LEMMA FlushTypeFlushes ==
  ASSUME completed \in [Types -> Nat], NEW d, Sound(d), NEW t \in Types
  PROVE  Flushes(d, FlushType(d, t))
BY FlushTransferFlushes, SubmitQueueFacts, FALSE \in BOOLEAN DEF FlushType, QueueSubmitted

(* FlushFrame of all of them.                                              *)
LEMMA FlushAllFlushes ==
  ASSUME completed \in [Types -> Nat], NEW d, Sound(d)
  PROVE  Flushes(d, FlushAll(d))
<1> DEFINE e == FlushTransfer(d)
           g == FlushType(e, "graphics")
<1>1. "graphics" \in Types /\ "compute" \in Types BY DEF Types
<1>2. Flushes(d, e) BY FlushTransferFlushes
<1> HIDE DEF e
<1>3. Sound(e) BY <1>2 DEF Flushes, Advances
<1>4. Flushes(e, g) BY <1>1, <1>3, FlushTypeFlushes
<1> HIDE DEF g
<1>5. Sound(g) BY <1>4 DEF Flushes, Advances
<1>6. Flushes(g, FlushType(g, "compute")) BY <1>1, <1>5, FlushTypeFlushes
<1> QED BY <1>2, <1>4, <1>6, FlushesTransitive DEF FlushAll, e, g

-----------------------------------------------------------------------------
(* Ending a frame.  A copy that is slipped in before the last batch of     *)
(* another type is waited for by that batch: because it was told to, or    *)
(* because the two share a VkQueue.                                        *)
LEMMA CopyAwaited ==
  ASSUME NEW d, NEW t \in {"graphics", "compute"}, d.vbo \cup d.ubo # {},
         t = "graphics" \/ VkQueueOf["compute"] = VkQueueOf["transfer"] \/ d.vbo = {}
  PROVE  t \in StagingWaiters(d) \/ VkQueueOf[t] = VkQueueOf["transfer"]
<1> SUFFICES ASSUME VkQueueOf[t] # VkQueueOf["transfer"] PROVE t \in StagingWaiters(d)
  OBVIOUS
<1>1. t \in Types BY DEF Types
<1>2. StagingWaits(Usage(d))[t] = VisibleStages(t, Usage(d)) BY <1>1 DEF StagingWaits
<1>3. CASE t = "graphics"
  <2>1. VisibleStages(t, Usage(d)) = PossibleStages(Usage(d)) BY <1>3 DEF VisibleStages
  <2>2. PossibleStages(Usage(d)) # {} BY DEF PossibleStages, Usage
  <2> QED BY <1>1, <1>2, <2>1, <2>2 DEF StagingWaiters
<1>4. CASE t = "compute"
  <2>1. "ubo" \in Usage(d) BY <1>4 DEF Usage
  <2>2. "compute" \in VisibleStages(t, Usage(d))
    BY <1>4, <2>1 DEF VisibleStages, PossibleStages, ComputeStages
  <2> QED BY <1>1, <1>2, <2>2 DEF StagingWaiters
<1> QED BY <1>3, <1>4

(* So the fence of that batch covers the copy, too.                        *)
LEMMA TransferCovered ==
  ASSUME completed \in [Types -> Nat], NEW d, Sound(d), ~Timeline,
         NEW t \in {"graphics", "compute"},
         t = "graphics" \/ VkQueueOf["compute"] = VkQueueOf["transfer"] \/ d.vbo = {},
         d.staged = {}, d.subs[d.index]["transfer"] = {},
         FenceCovers(d, d.index, "transfer"),
         NEW y, y = Enqueue(FlushTransfer(d), t), Sound(y), Advances(d, y),
         NEW g, FenceTaken(y, t, g), Advances(d, g)
  PROVE  FenceCovers(g, d.index, "transfer")
<1> DEFINE x == FlushTransfer(d)
           T == <<"transfer", x.timeline["transfer"]>>
           b == <<t, y.timeline[t]>>
<1>1. "transfer" \in Types /\ t \in Types /\ t # "transfer" BY DEF Types
<1>2. TransferFlushed(d, x) BY FlushTransferFacts
<1> HIDE DEF x
<1>3. Advances(d, x) /\ Sound(x) /\ x \in DevType /\ x.index = d.index
  BY <1>2, AdvancedSound DEF TransferFlushed
<1>4. Values(x, t, y) /\ Changes(x, t, y) /\ y.index = d.index
  BY <1>1, <1>3, EnqueueFacts, AdvancedSound DEF x
<1>5. /\ d \in DevType /\ g \in DevType /\ d.index \in Slots
      /\ g.timeline = y.timeline /\ g.fence = y.fence /\ g.queue = y.queue
      /\ y.fence[d.index]["transfer"] = x.fence[d.index]["transfer"]
  BY <1>1, <1>3, <1>4, AdvancedSound, DevFields DEF FenceTaken, Values, Sound, Good
<1>6. CASE d.vbo \cup d.ubo = {}
  <2>1. x = d BY <1>2, <1>6 DEF TransferFlushed
  <2>2. g.fence[d.index]["transfer"] = d.fence[d.index]["transfer"] BY <1>5, <2>1
  <2>3. /\ QueueLengths(d) /\ d.waitFences[d.index] \subseteq g.waitFences[d.index]
        /\ \A u \in Types :
             /\ d.timeline[u] <= g.timeline[u]
             /\ \A n \in 1 .. Len(d.queue[u]) : g.queue[u][n] = d.queue[u][n]
    BY <1>5, AdvancedSound DEF Advances, Sound
  <2> QED BY <1>1, <1>5, <2>2, <2>3, CoverageKept
<1>7. CASE d.vbo \cup d.ubo # {}
  <2>1. t \in StagingWaiters(d) \/ VkQueueOf[t] = VkQueueOf["transfer"]
    BY <1>7, CopyAwaited
  <2>2. PICK w \in x.waits[t] \cup QueueOrder(x, t) : BatchOf(w) = T
    <3>1. CASE t \in StagingWaiters(d)
      <4>1. StagingWait(d, x, t) \in x.waits[t] BY <1>2, <1>7, <3>1 DEF TransferFlushed
      <4> QED BY <4>1 DEF StagingWait, BatchOf
    <3>2. CASE VkQueueOf[t] = VkQueueOf["transfer"]
      <4>1. <<"transfer", x.timeline["transfer"], BarrierStages>> \in QueueOrder(x, t)
        BY <1>1, <3>2 DEF QueueOrder
      <4> QED BY <4>1 DEF BatchOf
    <3> QED BY <2>1, <3>1, <3>2
  <2>3. T = <<"transfer", g.fence[d.index]["transfer"]>>
    BY <1>2, <1>5, <1>7 DEF TransferFlushed
  <2>4. /\ y.timeline[t] = x.timeline[t] + 1 /\ x.timeline[t] = completed[t] + Len(x.queue[t])
        /\ completed[t] \in Nat /\ x.timeline[t] \in Nat /\ Len(x.queue[t]) \in Nat
    BY <1>1, <1>3, <1>4, DevFields, SyncFields DEF Values, Sound, QueueLengths
  <2>5. g.queue[t][y.timeline[t] - completed[t]] = x.waits[t] \cup QueueOrder(x, t)
    <3>1. y.timeline[t] - completed[t] = Len(x.queue[t]) + 1 BY <2>4
    <3> QED BY <1>4, <1>5, <3>1 DEF Values
  <2>6. b \in g.waitFences[d.index] BY <1>4 DEF FenceTaken
  <2>7. ~Done(b) /\ b[2] <= g.timeline[b[1]] BY <1>5, <2>4 DEF Done
  <2>8. w \in g.queue[b[1]][b[2] - completed[b[1]]] /\ BatchOf(w) = T BY <2>2, <2>5
  <2> HIDE DEF T, b
  <2> QED BY <2>3, <2>6, <2>7, <2>8 DEF FenceCovers
<1> QED BY <1>6, <1>7

(* EndFrameNolock for one queue type.                                      *)
QueueEnded(d, t, g) ==
  /\ Flushes(d, g) /\ Beside(d, g, {"transfer", t})
  /\ g.subs[d.index][t] = {}
  /\ d.subs[d.index]["transfer"] = {} => g.subs[d.index]["transfer"] = {}
  /\ t = "transfer" => g.staged = {}
  /\ g = d \/ t = "transfer" \/ g.vbo = {}
  /\ ~Timeline =>
       /\ FenceCovers(g, d.index, t)
       /\ /\ t # "transfer" /\ d.staged = {} /\ d.subs[d.index]["transfer"] = {}
          /\ t = "graphics" \/ VkQueueOf["compute"] = VkQueueOf["transfer"] \/ d.vbo = {}
          /\ FenceCovers(d, d.index, "transfer")
          => FenceCovers(g, d.index, "transfer")

LEMMA EndQueueFacts ==
  ASSUME completed \in [Types -> Nat], NEW d, Sound(d), NEW t \in Types
  PROVE  QueueEnded(d, t, EndQueue(d, t))
<1> DEFINE x == IF t = "transfer" THEN d ELSE FlushTransfer(d)
           y == SubmitQueue(d, t, TRUE)
           g == FrameFence(y, t)
<1>1. d.index \in Slots /\ TRUE \in BOOLEAN BY DevFields DEF Sound, Good
<1>2. CASE ~(d.needFence[t] \/ Pending(d, t))
  <2>1. EndQueue(d, t) = d BY <1>2 DEF EndQueue
  <2>2. d.subs[d.index][t] = {} /\ (t = "transfer" => d.staged = {}) BY <1>2 DEF Pending
  <2>3. ~Timeline => FenceCovers(d, d.index, t) BY <1>1, <1>2 DEF Sound, FramesFenced
  <2>4. Beside(d, d, {"transfer", t}) BY DEF Beside
  <2> QED BY <2>1, <2>2, <2>3, <2>4, FlushesReflexive DEF QueueEnded
<1>3. CASE d.needFence[t] \/ Pending(d, t)
  <2>1. EndQueue(d, t) = g BY <1>3 DEF EndQueue
  <2>2. y = Enqueue(x, t) BY DEF SubmitQueue, SubmitPending
  <2>3. QueueSubmitted(d, t, y) BY <1>1, SubmitQueueFacts, Zenon
  <2>4. Sound(x) /\ x.index = d.index
    <3>1. CASE t = "transfer" BY <3>1
    <3>2. CASE t # "transfer"
      <4>1. x = FlushTransfer(d) BY <3>2
      <4>2. TransferFlushed(d, x) BY <4>1, FlushTransferFacts
      <4> HIDE DEF x
      <4>3. Advances(d, x) BY <4>2 DEF TransferFlushed
      <4> QED BY <4>3, AdvancedSound
    <3> QED BY <3>1, <3>2
  <2> HIDE DEF x, y
  <2>5. Advances(d, y) /\ Sound(y) /\ y \in DevType /\ y.index = d.index
    BY <2>3, AdvancedSound DEF QueueSubmitted, Flushes
  <2>6. y.fence[y.index][t] = y.timeline[t]
    <3>1. Values(x, t, y) BY <2>2, <2>4, EnqueueFacts
    <3> QED BY <1>1, <2>4, <2>5, <3>1 DEF Values
  <2>7. /\ FenceTaken(y, t, g) /\ Advances(y, g)
        /\ ~Timeline => FenceCovers(g, d.index, t)
    BY <2>5, <2>6, FrameFenceFields, FrameFenceAdvances
  <2> HIDE DEF g
  <2>8. Flushes(y, g) BY <2>7 DEF FenceTaken, Flushes
  <2>9. Flushes(d, g) /\ Advances(d, g) BY <2>3, <2>8, FlushesTransitive DEF QueueSubmitted, Flushes
  <2>10. Beside(d, g, {"transfer", t}) BY <2>3, <2>7 DEF QueueSubmitted, FenceTaken, Beside
  <2>11. ASSUME ~Timeline, t # "transfer", d.staged = {}, d.subs[d.index]["transfer"] = {},
                t = "graphics" \/ VkQueueOf["compute"] = VkQueueOf["transfer"] \/ d.vbo = {},
                FenceCovers(d, d.index, "transfer")
         PROVE  FenceCovers(g, d.index, "transfer")
    <3>1. t \in {"graphics", "compute"} /\ y = Enqueue(FlushTransfer(d), t)
      BY <2>2, <2>11 DEF Types, x
    <3> QED BY <2>5, <2>7, <2>9, <2>11, <3>1, TransferCovered
  <2> QED BY <2>1, <2>3, <2>7, <2>9, <2>10, <2>11 DEF QueueEnded, QueueSubmitted, FenceTaken
<1> QED BY <1>2, <1>3

(* Flushing keeps vertex blocks with their commands.                       *)
LEMMA VerticesKept ==
  ASSUME NEW d, NEW e, VerticesPending(d), Flushes(d, e)
  PROVE  VerticesPending(e)
<1>1. e.index = d.index BY DEF Flushes, Advances, Submits
<1> QED BY <1>1 DEF VerticesPending, Flushes

(* Without timeline semaphores, when a frame has been ended its fences     *)
(* cover every batch of every type.                                        *)
LEMMA EndFrameFacts ==
  ASSUME completed \in [Types -> Nat], NEW d, Sound(d), d.staged = {},
         \A c \in Cmds : cmd[c].status # "recording",
         ~Timeline => VerticesPending(d)
  PROVE  /\ Flushes(d, EndFrame(d))
         /\ ~Timeline => \A f \in Slots, t \in Types : FenceCovers(EndFrame(d), f, t)
<1> DEFINE e == EndQueue(d, "transfer")
           g == EndQueue(e, "graphics")
           h == EndQueue(g, "compute")
<1>1. /\ "transfer" \in Types /\ "graphics" \in Types /\ "compute" \in Types
      /\ "compute" # "transfer" /\ "graphics" # "transfer" /\ "compute" # "graphics"
  BY DEF Types
<1>2. QueueEnded(d, "transfer", e) BY <1>1, EndQueueFacts
<1> HIDE DEF e
<1>3. Sound(e) /\ e.index = d.index BY <1>2, AdvancedSound DEF QueueEnded, Flushes
<1>4. QueueEnded(e, "graphics", g) BY <1>1, <1>3, EndQueueFacts
<1> HIDE DEF g
<1>5. Sound(g) /\ g.index = d.index BY <1>3, <1>4, AdvancedSound DEF QueueEnded, Flushes
<1>6. QueueEnded(g, "compute", h) BY <1>1, <1>5, EndQueueFacts
<1> HIDE DEF h
<1>7. Sound(h) /\ h.index = d.index /\ Advances(g, h) /\ h \in DevType
  BY <1>5, <1>6, AdvancedSound DEF QueueEnded, Flushes
<1>8. Flushes(d, h) BY <1>2, <1>3, <1>4, <1>6, FlushesTransitive DEF QueueEnded
<1>9. ASSUME ~Timeline PROVE \A f \in Slots, t \in Types : FenceCovers(h, f, t)
  <2>1. /\ e.staged = {} /\ g.staged = {}
        /\ e.subs[d.index]["transfer"] = {} /\ g.subs[d.index]["transfer"] = {}
    BY <1>2, <1>3, <1>4 DEF QueueEnded, Flushes
  <2>2. VkQueueOf["compute"] = VkQueueOf["transfer"] \/ g.vbo = {}
    <3>1. CASE g.vbo = {} BY <3>1
    <3>2. CASE g.vbo # {}
      <4>1. g = e /\ e.vbo # {} BY <1>1, <1>4, <3>2 DEF QueueEnded
      <4>2. e.vbo = d.vbo /\ e.subs[d.index]["graphics"] = d.subs[d.index]["graphics"]
        BY <1>2, <4>1 DEF QueueEnded, Flushes
      <4>3. d.subs[d.index]["graphics"] = {} BY <1>3, <1>4, <4>1, <4>2 DEF QueueEnded
      <4>4. d.vbo \subseteq Cmds BY SyncFields DEF Sound, Good
      <4> QED BY <1>9, <4>1, <4>2, <4>3, <4>4 DEF VerticesPending
    <3> QED BY <3>1, <3>2
  <2>3. FenceCovers(g, d.index, "transfer") /\ FenceCovers(g, d.index, "graphics")
    <3>1. FenceCovers(e, d.index, "transfer") BY <1>2, <1>9 DEF QueueEnded
    <3> QED BY <1>1, <1>3, <1>4, <1>9, <2>1, <3>1 DEF QueueEnded
  <2>4. FenceCovers(h, d.index, "transfer") /\ FenceCovers(h, d.index, "compute")
    BY <1>1, <1>5, <1>6, <1>9, <2>1, <2>2, <2>3 DEF QueueEnded
  <2>5. FenceCovers(h, d.index, "graphics")
    <3>1. d.index \in Slots /\ g \in DevType BY <1>5, DevFields DEF Sound, Good
    <3>2. h.fence[d.index]["graphics"] = g.fence[d.index]["graphics"]
      BY <1>1, <1>6, <3>1 DEF QueueEnded, Beside
    <3>3. /\ QueueLengths(g) /\ g.waitFences[d.index] \subseteq h.waitFences[d.index]
          /\ \A u \in Types :
               /\ g.timeline[u] <= h.timeline[u]
               /\ \A n \in 1 .. Len(g.queue[u]) : h.queue[u][n] = g.queue[u][n]
      BY <1>5, <1>7, <3>1, AdvancedSound DEF Advances, Sound
    <3> QED BY <1>1, <1>7, <2>3, <3>1, <3>2, <3>3, CoverageKept
  <2>6. ASSUME NEW f \in Slots, NEW t \in Types, f # h.index PROVE FenceCovers(h, f, t)
    BY <1>7, <1>9, <2>6 DEF Sound, FramesFenced
  <2> QED BY <1>7, <2>4, <2>5, <2>6 DEF Types
<1> QED BY <1>8, <1>9 DEF EndFrame, e, g, h

-----------------------------------------------------------------------------
(* While nothing blocks, the current frame is the last to begin again.     *)
LEMMA CurrentIsLast ==
  ASSUME dev \in DevType, Unlocked
  PROVE  /\ Current = dev.index /\ dev.index \in Slots /\ Turn(dev.index) = dev.count
         /\ \A g \in Slots : Turn(g) \in Nat /\ (g < dev.count => Turn(g) <= dev.count)
<1>1. /\ Current = dev.index /\ dev.index \in Slots /\ dev.index \in Nat
      /\ dev.count \in Nat /\ dev.index < dev.count /\ Slots \subseteq Nat
  BY DevFields, FramesAssumption DEF Current, Unlocked, Slots
<1> QED BY <1>1 DEF Turn

(* The invariant gives the lemmas about submission what they assume.       *)
LEMMA InvariantSound ==
  ASSUME IInv, SyncInv, Unlocked
  PROVE  Sound(dev) /\ completed \in [Types -> Nat]
BY IInvGood DEF Sound, IInv, TypeOK, SyncInv, Unlocked

(* No batch completes, no handle leaves a frame's list and a command       *)
(* buffer enters at most a new batch.                                      *)
Kept ==
  /\ completed' = completed
  /\ \A f \in Slots : dev.recycle[f] \subseteq dev'.recycle[f]
  /\ \A c \in Cmds :
       \/ dev'.at[c] = dev.at[c]
       \/ dev.at[c][2] = 0 /\ dev'.at[c][2] > dev.timeline[dev'.at[c][1]]

(* A call that does not wait for the GPU, up to where it leaves or blocks, *)
(* keeps the invariant if the value e that it reaches is sound.            *)
LEMMA ReachedStep ==
  ASSUME IInv, SyncInv, Unlocked, completed' = completed,
         NEW e, Sound(e), e.staged = {},
         \A t \in Types : dev.timeline[t] <= e.timeline[t],
         \A f \in Slots, t \in Types : dev.fence[f][t] <= e.fence[f][t],
         e.count = dev.count, dev'.count = dev.count, Current' = Current,
         dev'.timeline = e.timeline, dev'.queue = e.queue, dev'.fence = e.fence,
         dev'.waitFences = e.waitFences, dev'.staged = e.staged, dev'.at = e.at,
         NotYetSent(dev)',
         ~Timeline => /\ VerticesPending(dev)'
                      /\ \A f \in Slots, t \in Types :
                           \/ FenceCovers(e, f, t)
                           \/ dev'.lock = "free" /\ f = dev'.index /\ dev'.needFence[t],
         \A c \in Cmds :
           /\ cmd'[c].status \in {"idle", "recording"} => e.at[c][2] = 0
           /\ e.at[c] = dev.at[c] \/ (dev.at[c][2] = 0 /\ e.at[c][2] > dev.timeline[e.at[c][1]]),
         \A f \in Slots :
           /\ f # dev.index => dev'.recycle[f] = dev.recycle[f]
           /\ dev.recycle[f] \subseteq dev'.recycle[f]
           /\ \A b \in dev'.recycle[f] : b \in dev.recycle[f] \/ b[2] <= e.timeline[b[1]],
         dev' \in DevType, app \in [semaphores : SUBSET Batches, fences : SUBSET Batches],
         \A b \in app'.semaphores \cup app'.fences :
           b \in app.semaphores \cup app.fences \/ b[2] <= e.timeline[b[1]]
  PROVE  SyncInv' /\ Kept
<1>1. /\ dev \in DevType /\ completed \in [Types -> Nat] /\ e \in DevType
      /\ \A t \in Types :
           dev.timeline[t] \in Nat /\ e.timeline[t] \in Nat /\ completed[t] \in Nat
      /\ \A f \in Slots, t \in Types : dev.fence[f][t] \in Nat /\ e.fence[f][t] \in Nat
  BY DevFields DEF IInv, TypeOK, Sound, Good
<1>2. \A f \in Slots : Turn(f)' = Turn(f) BY DEF Turn
<1>3. QueueLengths(dev)' BY DEF Sound, QueueLengths
<1>4. LatestCovered(dev)' BY DEF Sound, LatestCovered
<1>5. \A c \in Cmds : cmd'[c].status \in {"idle", "recording"} => dev'.at[c][2] = 0 OBVIOUS
<1>6. HandlesKnown'
  <2> SUFFICES ASSUME NEW b \in app'.semaphores \cup app'.fences
               PROVE  b[2] <= dev'.timeline[b[1]]
    BY DEF HandlesKnown
  <2>1. CASE b[2] <= e.timeline[b[1]] BY <2>1
  <2>2. CASE b \in app.semaphores \cup app.fences
    <3>1. b[1] \in Types /\ b[2] \in Nat BY <2>2 DEF Batches
    <3>2. b[2] <= dev.timeline[b[1]] BY <2>2 DEF SyncInv, HandlesKnown
    <3> QED BY <1>1, <3>1, <3>2
  <2> QED BY <2>1, <2>2
<1>7. RecycleOrdered'
  <2> SUFFICES ASSUME NEW f \in Slots, NEW b \in dev'.recycle[f]
               PROVE  /\ f < dev.count
                      /\ \/ Done(b)
                         \/ \E g \in Slots : g < dev.count /\ b[2] <= e.fence[g][b[1]] /\ Turn(g) <= Turn(f)
    BY <1>2 DEF RecycleOrdered, Done
  <2>1. b[1] \in Types /\ b[2] \in Nat BY SyncFields
  <2>2. CASE b \in dev.recycle[f]
    <3>1. f < dev.count BY <2>2 DEF SyncInv, RecycleOrdered
    <3>2. CASE Done(b) BY <3>1, <3>2
    <3>3. ASSUME NEW g \in Slots, g < dev.count, b[2] <= dev.fence[g][b[1]], Turn(g) <= Turn(f)
          PROVE  b[2] <= e.fence[g][b[1]]
      BY <1>1, <2>1, <3>3
    <3> QED BY <2>2, <3>1, <3>2, <3>3 DEF SyncInv, RecycleOrdered
  <2>3. CASE f = dev.index /\ b[2] <= e.timeline[b[1]]
    <3>1. CASE e.timeline[b[1]] <= completed[b[1]]
      BY <1>1, <2>1, <2>3, <3>1 DEF Done, Unlocked
    <3>2. ASSUME NEW g \in Slots, g < e.count, e.timeline[b[1]] <= e.fence[g][b[1]]
          PROVE  g < dev.count /\ b[2] <= e.fence[g][b[1]] /\ Turn(g) <= Turn(f)
      BY <1>1, <2>1, <2>3, <3>2, CurrentIsLast
    <3> QED BY <2>1, <2>3, <3>1, <3>2 DEF Sound, LatestCovered, Unlocked
  <2> QED BY <2>2, <2>3
<1>8. ~Timeline => FramesFenced(dev)'
  <2> SUFFICES ASSUME ~Timeline, NEW f \in Slots, NEW t \in Types
               PROVE  FenceCovers(dev, f, t)' \/ (dev'.lock = "free" /\ f = dev'.index /\ dev'.needFence[t])
    BY DEF FramesFenced
  <2>1. FenceCovers(e, f, t) => FenceCovers(dev, f, t)' BY DEF FenceCovers, Done
  <2> QED BY <2>1
<1>9. Kept BY DEF Kept
<1> QED BY <1>3, <1>4, <1>5, <1>6, <1>7, <1>8, <1>9 DEF SyncInv

(* A call that only submits keeps the invariant.                           *)
LEMMA FlushedStep ==
  ASSUME IInv, SyncInv, Unlocked, Flushes(dev, dev'), cmd' = cmd, completed' = completed,
         \A b \in app'.semaphores \cup app'.fences :
           b \in app.semaphores \cup app.fences \/ b[2] <= dev'.timeline[b[1]]
  PROVE  SyncInv' /\ Kept
<1>1. Sound(dev) /\ completed \in [Types -> Nat] BY InvariantSound
<1>2. /\ Advances(dev, dev') /\ dev \in DevType
      /\ app \in [semaphores : SUBSET Batches, fences : SUBSET Batches]
  BY DEF Flushes, IInv, TypeOK
<1>3. /\ Sound(dev') /\ dev' \in DevType /\ dev'.lock = dev.lock /\ dev'.index = dev.index
      /\ dev'.count = dev.count /\ \A u \in Types : dev.timeline[u] <= dev'.timeline[u]
  BY <1>2, AdvancedSound
<1>4. dev'.staged = {} BY DEF Flushes, SyncInv
<1>5. Current' = Current BY <1>3 DEF Current
<1>6. NotYetSent(dev)' BY <1>3 DEF Sound, NotYetSent
<1>7. ~Timeline => /\ VerticesPending(dev)'
                   /\ \A f \in Slots, t \in Types :
                        FenceCovers(dev', f, t) \/ (dev'.lock = "free" /\ f = dev'.index /\ dev'.needFence[t])
  <2> SUFFICES ASSUME ~Timeline PROVE VerticesPending(dev)'
    BY <1>3 DEF Sound, FramesFenced
  <2>1. VerticesPending(dev') BY VerticesKept DEF SyncInv
  <2> QED BY <2>1 DEF VerticesPending
<1>8. ASSUME NEW c \in Cmds, cmd'[c].status \in {"idle", "recording"}
      PROVE  dev'.at[c][2] = 0
  <2>1. cmd[c].status \in {"idle", "recording"} BY <1>8
  <2>2. ~Queued(dev, c) BY <1>2, <2>1, DevFields DEF Queued, IInv, CurrentFrame
  <2>3. dev'.at[c] = dev.at[c] BY <1>2, <2>2 DEF Advances, Submits
  <2> QED BY <2>1, <2>3 DEF SyncInv
<1>9. ASSUME NEW f \in Slots
      PROVE  /\ f # dev.index => dev'.recycle[f] = dev.recycle[f]
             /\ dev.recycle[f] \subseteq dev'.recycle[f]
             /\ \A b \in dev'.recycle[f] : b \in dev.recycle[f] \/ b[2] <= dev'.timeline[b[1]]
  <2>1. ASSUME NEW b \in dev'.recycle[f], b \notin dev.recycle[f]
        PROVE  b[2] <= dev'.timeline[b[1]]
    <3>1. b[1] \in Types /\ b[2] \in Nat BY <1>3, SyncFields
    <3>2. b[2] <= dev'.fence[f][b[1]] BY <1>2, <2>1 DEF Advances
    <3>3. dev'.fence[f][b[1]] <= dev'.timeline[b[1]] BY <1>3, <3>1 DEF Sound, Good, Fenced
    <3>4. dev'.fence[f][b[1]] \in Nat /\ dev'.timeline[b[1]] \in Nat BY <1>3, <3>1, DevFields
    <3> QED BY <3>1, <3>2, <3>3, <3>4
  <2> QED BY <1>2, <2>1 DEF Advances
<1>10. \A f \in Slots, t \in Types : dev.fence[f][t] <= dev'.fence[f][t]
  BY <1>2 DEF Advances, Submits
<1>11. \A c \in Cmds :
         dev'.at[c] = dev.at[c] \/ (dev.at[c][2] = 0 /\ dev'.at[c][2] > dev.timeline[dev'.at[c][1]])
  BY <1>2 DEF Advances
<1> QED BY <1>2, <1>3, <1>4, <1>5, <1>6, <1>7, <1>8, <1>9, <1>10, <1>11, ReachedStep

(* A call that leaves the queues, the pending lists and the fences alone   *)
(* keeps the invariant.                                                    *)
LEMMA QuietSyncStep ==
  ASSUME IInv, SyncInv, Unlocked, completed' = completed,
         dev' \in DevType, dev'.lock = dev.lock, dev'.index = dev.index, dev'.count = dev.count,
         dev'.timeline = dev.timeline, dev'.queue = dev.queue, dev'.fence = dev.fence,
         dev'.waitFences = dev.waitFences, dev'.needFence = dev.needFence, dev'.subs = dev.subs,
         dev'.staged = dev.staged, dev'.at = dev.at,
         \A c \in Cmds : /\ cmd'[c].status \in {"idle", "recording"} => cmd[c].status \in {"idle", "recording"}
                         /\ cmd[c].status # "idle" => cmd'[c].type = cmd[c].type,
         ~Timeline => VerticesPending(dev)',
         \A f \in Slots :
           /\ f # dev.index => dev'.recycle[f] = dev.recycle[f]
           /\ dev.recycle[f] \subseteq dev'.recycle[f]
           /\ \A b \in dev'.recycle[f] : b \in dev.recycle[f] \/ b[2] <= dev.timeline[b[1]],
         app'.semaphores \cup app'.fences \subseteq app.semaphores \cup app.fences
  PROVE  SyncInv' /\ Kept
<1>1. Sound(dev) /\ dev \in DevType /\ app \in [semaphores : SUBSET Batches, fences : SUBSET Batches]
  BY InvariantSound DEF IInv, TypeOK
<1>2. dev.staged = {} BY DEF SyncInv
<1>3. Current' = Current BY DEF Current
<1>4. NotYetSent(dev)'
  <2> SUFFICES ASSUME NEW f \in Slots, NEW t \in Types, NEW c \in dev.subs[f][t]
               PROVE  f = dev.index /\ cmd'[c].type = t /\ dev.at[c][2] = 0
    BY DEF NotYetSent
  <2>1. f = dev.index /\ cmd[c].type = t /\ dev.at[c][2] = 0 BY <1>1 DEF Sound, NotYetSent
  <2>2. c \in Cmds /\ cmd[c].status # "idle" BY <1>1, DevFields DEF IInv, CurrentFrame
  <2> QED BY <2>1, <2>2
<1>5. \A c \in Cmds : cmd'[c].status \in {"idle", "recording"} => dev.at[c][2] = 0
  BY DEF SyncInv
<1>6. ~Timeline => \A f \in Slots, t \in Types :
        FenceCovers(dev, f, t) \/ (dev'.lock = "free" /\ f = dev'.index /\ dev'.needFence[t])
  BY <1>1 DEF Sound, FramesFenced
<1>7. /\ \A t \in Types : dev.timeline[t] <= dev.timeline[t]
      /\ \A f \in Slots, t \in Types : dev.fence[f][t] <= dev.fence[f][t]
  BY <1>1, DevFields
<1> QED BY <1>1, <1>2, <1>3, <1>4, <1>5, <1>6, <1>7, ReachedStep

-----------------------------------------------------------------------------
(* RequestCommandBuffer keeps the invariant: in a system where the copies  *)
(* of vertex data are awaited, a vertex block is for the graphics queue.   *)
LEMMA RecordSync ==
  ASSUME IInv, SyncInv, ~Timeline => VertexCopiesAwaited, NEW c \in Cmds, Record(c)
  PROVE  SyncInv' /\ Kept
<1>1. PICK w \in Work[c] : RequestCommandBuffer(c, PhysicalType(w[1]), w[2], w[3],
                                               PossibleStages({w[3]}) \cap CommandStages(w[1]))
  BY DEF Record
<1> DEFINE t == PhysicalType(w[1])
           recorded == [status |-> "recording", type |-> t, home |-> dev.index,
                        uses |-> w[2], block |-> w[3],
                        reads |-> PossibleStages({w[3]}) \cap CommandStages(w[1])]
<1>2. /\ Unlocked /\ cmd[c].status = "idle" /\ cmd' = [cmd EXCEPT ![c] = recorded]
      /\ dev' = [dev EXCEPT !.counter = dev.counter + 1]
      /\ app' = app /\ completed' = completed
  BY <1>1 DEF RequestCommandBuffer
<1>3. dev \in DevType /\ cmd \in [Cmds -> CmdType] BY DEF IInv, TypeOK
<1>4. dev.counter + 1 \in Nat BY <1>3, DevFields
<1>5. /\ dev' \in DevType /\ dev'.lock = dev.lock /\ dev'.index = dev.index /\ dev'.count = dev.count
      /\ dev'.timeline = dev.timeline /\ dev'.queue = dev.queue /\ dev'.fence = dev.fence
      /\ dev'.waitFences = dev.waitFences
  BY <1>2, <1>3, <1>4, Zenon DEF DevType
<1>6. /\ dev'.needFence = dev.needFence /\ dev'.subs = dev.subs /\ dev'.staged = dev.staged
      /\ dev'.at = dev.at /\ dev'.recycle = dev.recycle /\ dev'.vbo = dev.vbo
  BY <1>2, <1>3, <1>4, Zenon DEF DevType
<1>7. /\ \A b \in Cmds \ {c} : cmd'[b] = cmd[b]
      /\ cmd'[c].status = "recording" /\ cmd'[c].type = t /\ cmd'[c].block = w[3]
  BY <1>2, <1>3
<1>8. \A b \in Cmds : /\ cmd'[b].status \in {"idle", "recording"} => cmd[b].status \in {"idle", "recording"}
                      /\ cmd[b].status # "idle" => cmd'[b].type = cmd[b].type
  BY <1>2, <1>7
<1>9. ~Timeline => VerticesPending(dev)'
  <2> SUFFICES ASSUME ~Timeline, VkQueueOf["compute"] # VkQueueOf["transfer"]
               PROVE  /\ \A b \in Cmds : Discrete /\ cmd'[b].block = "vbo" => cmd'[b].type = "graphics"
                      /\ \A b \in dev.vbo :
                           /\ cmd'[b].type = "graphics"
                           /\ cmd'[b].status = "recording" \/ b \in dev.subs[dev.index]["graphics"]
    BY <1>5, <1>6 DEF VerticesPending
  <2>1. /\ \A b \in Cmds : Discrete /\ cmd[b].block = "vbo" => cmd[b].type = "graphics"
        /\ \A b \in dev.vbo :
             /\ cmd[b].type = "graphics"
             /\ cmd[b].status = "recording" \/ b \in dev.subs[dev.index]["graphics"]
    BY DEF SyncInv, VerticesPending
  <2>2. Discrete /\ w[3] = "vbo" => t = "graphics" BY DEF VertexCopiesAwaited
  <2>3. c \notin dev.vbo
    <3>1. "graphics" \in Types /\ dev.index \in Slots BY <1>3, DevFields DEF Types
    <3> QED BY <1>2, <2>1, <3>1 DEF IInv, CurrentFrame
  <2>4. dev.vbo \subseteq Cmds BY <1>3, SyncFields
  <2> QED BY <1>7, <2>1, <2>2, <2>3, <2>4
<1> QED BY <1>2, <1>5, <1>6, <1>8, <1>9, QuietSyncStep

(* GiveUpBlock, field by field.                                            *)
BlockGivenUp(d, c, e) ==
  /\ e \in DevType
  /\ e.lock = d.lock /\ e.counter = d.counter /\ e.index = d.index
  /\ e.count = d.count /\ e.destroyed = d.destroyed
  /\ e.timeline = d.timeline /\ e.fence = d.fence /\ e.subs = d.subs
  /\ e.at = d.at /\ e.copyAt = d.copyAt /\ e.queue = d.queue
  /\ e.waits = d.waits /\ e.needFence = d.needFence
  /\ e.waitFences = d.waitFences /\ e.recycle = d.recycle /\ e.staged = d.staged
  /\ e.vbo = IF Discrete /\ cmd[c].block = "vbo" THEN d.vbo \cup {c} ELSE d.vbo
  /\ e.ubo = IF Discrete /\ cmd[c].block = "ubo" THEN d.ubo \cup {c} ELSE d.ubo
  /\ \A f \in Slots :
       e.blocks[f] = IF f = d.index /\ cmd[c].block \in {"vbo", "ubo"} THEN d.blocks[f] \cup {c}
                     ELSE d.blocks[f]

LEMMA GiveUpBlockFields ==
  ASSUME NEW d \in DevType, NEW c \in Cmds
  PROVE  BlockGivenUp(d, c, GiveUpBlock(d, c))
<1> DEFINE
  kind == cmd[c].block
  vb == IF Discrete /\ kind = "vbo" THEN d.vbo \cup {c} ELSE d.vbo
  ub == IF Discrete /\ kind = "ubo" THEN d.ubo \cup {c} ELSE d.ubo
  bl == [d.blocks EXCEPT ![d.index] = IF kind \in {"vbo", "ubo"} THEN @ \cup {c} ELSE @]
  e == [d EXCEPT !.vbo = vb, !.ubo = ub, !.blocks = bl]
<1>1. /\ d.vbo \in SUBSET Cmds /\ d.ubo \in SUBSET Cmds
      /\ d.index \in Slots /\ d.blocks \in [Slots -> SUBSET Cmds]
  BY DEF DevType
<1>2. vb \in SUBSET Cmds /\ ub \in SUBSET Cmds BY <1>1
<1>3. bl \in [Slots -> SUBSET Cmds]
  <2>1. d.blocks[d.index] \cup {c} \in SUBSET Cmds BY <1>1
  <2> HIDE DEF kind
  <2> QED BY <1>1, <2>1
<1>4. GiveUpBlock(d, c) = e BY DEF GiveUpBlock
<1>5. \A f \in Slots :
        bl[f] = IF f = d.index /\ kind \in {"vbo", "ubo"} THEN d.blocks[f] \cup {c} ELSE d.blocks[f]
  <2> HIDE DEF kind
  <2> QED BY <1>1
<1> HIDE DEF vb, ub, bl
<1>6. /\ e \in DevType
      /\ e.lock = d.lock /\ e.counter = d.counter /\ e.index = d.index
      /\ e.count = d.count /\ e.destroyed = d.destroyed
      /\ e.timeline = d.timeline /\ e.fence = d.fence /\ e.subs = d.subs
      /\ e.at = d.at
  BY <1>2, <1>3, Zenon DEF DevType
<1>7. /\ e.copyAt = d.copyAt /\ e.queue = d.queue
      /\ e.waits = d.waits /\ e.needFence = d.needFence
      /\ e.waitFences = d.waitFences /\ e.recycle = d.recycle /\ e.staged = d.staged
      /\ e.vbo = vb /\ e.ubo = ub /\ e.blocks = bl
  BY <1>2, <1>3, Zenon DEF DevType
<1> HIDE DEF e
<1> QED BY <1>4, <1>5, <1>6, <1>7 DEF BlockGivenUp, vb, ub

(* RequestBlock keeps the invariant.                                       *)
LEMMA RequestBlockSync ==
  ASSUME IInv, SyncInv, NEW c \in Cmds, RequestBlock(c)
  PROVE  SyncInv' /\ Kept
<1>1. /\ Unlocked /\ cmd[c].status = "recording" /\ dev' = GiveUpBlock(dev, c)
      /\ cmd' = [cmd EXCEPT ![c].block = "given"] /\ app' = app /\ completed' = completed
  BY DEF RequestBlock
<1>2. dev \in DevType /\ cmd \in [Cmds -> CmdType] BY DEF IInv, TypeOK
<1>3. BlockGivenUp(dev, c, dev') BY <1>1, <1>2, GiveUpBlockFields
<1>4. \A b \in Cmds : /\ cmd'[b].status = cmd[b].status /\ cmd'[b].type = cmd[b].type
                      /\ cmd'[b].block = IF b = c THEN "given" ELSE cmd[b].block
  BY <1>1, <1>2 DEF CmdType
<1>5. ~Timeline => VerticesPending(dev)'
  <2> SUFFICES ASSUME ~Timeline, VkQueueOf["compute"] # VkQueueOf["transfer"]
               PROVE  /\ \A b \in Cmds : Discrete /\ cmd'[b].block = "vbo" => cmd'[b].type = "graphics"
                      /\ \A b \in dev'.vbo :
                           /\ cmd'[b].type = "graphics"
                           /\ cmd'[b].status = "recording" \/ b \in dev.subs[dev.index]["graphics"]
    BY <1>3 DEF VerticesPending, BlockGivenUp
  <2>1. /\ \A b \in Cmds : Discrete /\ cmd[b].block = "vbo" => cmd[b].type = "graphics"
        /\ \A b \in dev.vbo :
             /\ cmd[b].type = "graphics"
             /\ cmd[b].status = "recording" \/ b \in dev.subs[dev.index]["graphics"]
    BY DEF SyncInv, VerticesPending
  <2>2. dev.vbo \subseteq Cmds BY <1>2, SyncFields
  <2>3. \A b \in dev'.vbo : b \in dev.vbo \/ (b = c /\ Discrete /\ cmd[c].block = "vbo")
    BY <1>3 DEF BlockGivenUp
  <2> QED BY <1>1, <1>4, <2>1, <2>2, <2>3
<1> QED BY <1>1, <1>3, <1>4, <1>5, QuietSyncStep DEF BlockGivenUp

(* Submit, up to the point where the command buffer is pending.            *)
Ended(d, c) == [GiveUpBlock(d, c) EXCEPT !.subs[d.index][cmd[c].type] = @ \cup {c}]

CommandEnded(d, c, e) ==
  /\ e \in DevType
  /\ e.lock = d.lock /\ e.index = d.index /\ e.count = d.count /\ e.counter = d.counter
  /\ e.timeline = d.timeline /\ e.fence = d.fence /\ e.at = d.at /\ e.queue = d.queue
  /\ e.needFence = d.needFence /\ e.waitFences = d.waitFences
  /\ e.recycle = d.recycle /\ e.staged = d.staged
  /\ e.waits = d.waits /\ e.copyAt = d.copyAt
  /\ e.vbo = IF Discrete /\ cmd[c].block = "vbo" THEN d.vbo \cup {c} ELSE d.vbo
  /\ e.ubo = IF Discrete /\ cmd[c].block = "ubo" THEN d.ubo \cup {c} ELSE d.ubo
  /\ \A f \in Slots :
       e.blocks[f] = IF f = d.index /\ cmd[c].block \in {"vbo", "ubo"} THEN d.blocks[f] \cup {c}
                     ELSE d.blocks[f]
  /\ \A f \in Slots, t \in Types :
       e.subs[f][t] = IF f = d.index /\ t = cmd[c].type THEN d.subs[f][t] \cup {c}
                      ELSE d.subs[f][t]

LEMMA EndedFields ==
  ASSUME NEW d \in DevType, NEW c \in Cmds, cmd[c].type \in Types
  PROVE  CommandEnded(d, c, Ended(d, c))
<1> DEFINE g == GiveUpBlock(d, c)
           t == cmd[c].type
           su == [g.subs EXCEPT ![d.index][t] = @ \cup {c}]
           e == [g EXCEPT !.subs = su]
<1>1. BlockGivenUp(d, c, g) BY GiveUpBlockFields
<1> HIDE DEF g
<1>2. Ended(d, c) = e BY DEF Ended, g
<1>3. /\ g \in DevType /\ g.subs \in [Slots -> [Types -> SUBSET Cmds]] /\ d.index \in Slots
      /\ g.subs = d.subs
  BY <1>1 DEF BlockGivenUp, DevType
<1>4. su \in [Slots -> [Types -> SUBSET Cmds]] BY <1>3
<1>5. \A f \in Slots, u \in Types :
        su[f][u] = IF f = d.index /\ u = t THEN d.subs[f][u] \cup {c} ELSE d.subs[f][u]
  BY <1>3
<1> HIDE DEF su
<1>6. /\ e \in DevType /\ e.subs = su
      /\ e.lock = g.lock /\ e.index = g.index /\ e.count = g.count /\ e.counter = g.counter
      /\ e.timeline = g.timeline /\ e.fence = g.fence /\ e.at = g.at /\ e.queue = g.queue
  BY <1>3, <1>4, Zenon DEF DevType
<1>7. /\ e.needFence = g.needFence /\ e.waitFences = g.waitFences
      /\ e.recycle = g.recycle /\ e.staged = g.staged /\ e.vbo = g.vbo
      /\ e.ubo = g.ubo /\ e.waits = g.waits /\ e.copyAt = g.copyAt /\ e.blocks = g.blocks
  BY <1>3, <1>4, Zenon DEF DevType
<1> HIDE DEF e
<1> QED BY <1>1, <1>2, <1>5, <1>6, <1>7 DEF BlockGivenUp, CommandEnded

(* Submit keeps the invariant.                                             *)
LEMMA FinishSync ==
  ASSUME IInv, SyncInv, NEW c \in Cmds, NEW demand, Submit(c, demand), dev' \in DevType
  PROVE  SyncInv' /\ Kept
<1> DEFINE t == cmd[c].type
           ended == Ended(dev, c)
           sent == IF demand = "none" THEN ended ELSE SubmitQueue(ended, t, TRUE)
<1>1. /\ Unlocked /\ cmd[c].status = "recording"
      /\ dev' = [sent EXCEPT !.counter = sent.counter - 1]
      /\ Handles(demand, <<t, sent.timeline[t]>>)
      /\ cmd' = [cmd EXCEPT ![c].status = "submitted", ![c].block = BlockGiven(@)]
      /\ completed' = completed
  BY DEF Submit, Ended
<1>2. /\ dev \in DevType /\ cmd \in [Cmds -> CmdType] /\ t \in Types /\ dev.index \in Slots
      /\ app \in [semaphores : SUBSET Batches, fences : SUBSET Batches]
  BY DevFields DEF IInv, TypeOK, CmdType
<1>3. Sound(dev) /\ completed \in [Types -> Nat] BY <1>1, InvariantSound
<1>4. CommandEnded(dev, c, ended) BY <1>2, EndedFields
<1> HIDE DEF ended
<1>5. /\ ended \in DevType
      /\ ended.lock = dev.lock /\ ended.index = dev.index /\ ended.count = dev.count
      /\ ended.timeline = dev.timeline /\ ended.fence = dev.fence /\ ended.at = dev.at
      /\ ended.queue = dev.queue /\ ended.needFence = dev.needFence
      /\ ended.waitFences = dev.waitFences /\ ended.recycle = dev.recycle
      /\ ended.staged = dev.staged
      /\ ended.vbo = IF Discrete /\ cmd[c].block = "vbo" THEN dev.vbo \cup {c} ELSE dev.vbo
      /\ \A f \in Slots, u \in Types :
           ended.subs[f][u] = IF f = dev.index /\ u = t THEN dev.subs[f][u] \cup {c} ELSE dev.subs[f][u]
  BY <1>4 DEF CommandEnded
<1>6. \A f \in Slots, u \in Types : \A b \in ended.subs[f][u] :
        b \in dev.subs[f][u] \/ (b = c /\ f = dev.index /\ u = t)
  <2> SUFFICES ASSUME NEW f \in Slots, NEW u \in Types, NEW b \in ended.subs[f][u]
               PROVE  b \in dev.subs[f][u] \/ (b = c /\ f = dev.index /\ u = t)
    OBVIOUS
  <2>1. ended.subs[f][u] = IF f = dev.index /\ u = t THEN dev.subs[f][u] \cup {c} ELSE dev.subs[f][u]
    BY <1>5
  <2> QED BY <2>1
<1>7. dev.at[c][2] = 0 BY <1>1 DEF SyncInv
<1>8. NotYetSent(ended)
  <2> SUFFICES ASSUME NEW f \in Slots, NEW u \in Types, NEW b \in ended.subs[f][u]
               PROVE  f = ended.index /\ cmd[b].type = u /\ ended.at[b][2] = 0
    BY DEF NotYetSent
  <2>1. CASE b \in dev.subs[f][u]
    <3>1. f = dev.index /\ cmd[b].type = u /\ dev.at[b][2] = 0
      BY <1>3, <2>1 DEF Sound, NotYetSent
    <3> QED BY <1>5, <3>1
  <2>2. CASE b = c /\ f = dev.index /\ u = t BY <1>5, <1>7, <2>2
  <2>3. b \in dev.subs[f][u] \/ (b = c /\ f = dev.index /\ u = t) BY <1>6
  <2> QED BY <2>1, <2>2, <2>3
<1>9. Sound(ended)
  <2>1. Good(ended) BY <1>3, <1>5 DEF Sound, Good, Fenced
  <2>2. QueueLengths(ended) /\ LatestCovered(ended)
    BY <1>3, <1>5 DEF Sound, QueueLengths, LatestCovered
  <2>3. ~Timeline => FramesFenced(ended) BY <1>3, <1>5 DEF Sound, FramesFenced, FenceCovers
  <2> QED BY <1>3, <1>5, <1>8, <2>1, <2>2, <2>3 DEF Sound
<1>10. Flushes(ended, sent)
  <2>1. CASE demand = "none" BY <1>9, <2>1, FlushesReflexive
  <2>2. CASE demand # "none"
    <3>1. sent = SubmitQueue(ended, t, TRUE) BY <2>2
    <3>2. TRUE \in BOOLEAN OBVIOUS
    <3> HIDE DEF sent
    <3> QED BY <1>2, <1>3, <1>9, <3>1, <3>2, SubmitQueueFacts DEF QueueSubmitted
  <2> QED BY <2>1, <2>2
<1> HIDE DEF sent
<1>11. Advances(ended, sent) BY <1>10 DEF Flushes
<1>12. /\ Sound(sent) /\ sent \in DevType /\ sent.lock = dev.lock /\ sent.index = dev.index
       /\ sent.count = dev.count /\ \A u \in Types : dev.timeline[u] <= sent.timeline[u]
  BY <1>5, <1>11, AdvancedSound
<1>13. /\ dev'.lock = sent.lock /\ dev'.index = sent.index /\ dev'.count = sent.count
       /\ dev'.timeline = sent.timeline /\ dev'.queue = sent.queue /\ dev'.fence = sent.fence
       /\ dev'.waitFences = sent.waitFences /\ dev'.needFence = sent.needFence
  BY <1>1, <1>12, Zenon DEF DevType
<1>14. /\ dev'.subs = sent.subs /\ dev'.staged = sent.staged /\ dev'.at = sent.at
       /\ dev'.recycle = sent.recycle /\ dev'.vbo = sent.vbo
  BY <1>1, <1>12, Zenon DEF DevType
<1>15. /\ \A b \in Cmds : cmd'[b].type = cmd[b].type
       /\ \A b \in Cmds : cmd'[b].block = cmd[b].block \/ cmd'[b].block \in {"given", "none", "recycled"}
       /\ \A b \in Cmds \ {c} : cmd'[b].status = cmd[b].status
       /\ cmd'[c].status = "submitted" /\ cmd'[c].block # "vbo"
  BY <1>1, <1>2 DEF CmdType, BlockGiven
<1>16. sent.staged = {} BY <1>5, <1>10 DEF Flushes, SyncInv
<1>17. Current' = Current BY <1>12, <1>13 DEF Current, Unlocked
<1>18. NotYetSent(dev)'
  <2>1. NotYetSent(sent) BY <1>12 DEF Sound
  <2>2. \A f \in Slots, u \in Types : sent.subs[f][u] \subseteq Cmds BY <1>12, DevFields
  <2> QED BY <1>13, <1>14, <1>15, <2>1, <2>2 DEF NotYetSent
<1>19. ~Timeline => VerticesPending(dev)'
  <2> SUFFICES ASSUME ~Timeline, VkQueueOf["compute"] # VkQueueOf["transfer"]
               PROVE  /\ \A b \in Cmds : Discrete /\ cmd'[b].block = "vbo" => cmd'[b].type = "graphics"
                      /\ \A b \in sent.vbo :
                           /\ cmd'[b].type = "graphics"
                           /\ cmd'[b].status = "recording" \/ b \in sent.subs[dev.index]["graphics"]
    BY <1>12, <1>13, <1>14 DEF VerticesPending
  <2>1. /\ \A b \in Cmds : Discrete /\ cmd[b].block = "vbo" => cmd[b].type = "graphics"
        /\ \A b \in dev.vbo :
             /\ cmd[b].type = "graphics"
             /\ cmd[b].status = "recording" \/ b \in dev.subs[dev.index]["graphics"]
    BY DEF SyncInv, VerticesPending
  <2>2. dev.vbo \subseteq Cmds /\ "graphics" \in Types BY <1>2, SyncFields DEF Types
  <2>3. \A b \in ended.vbo :
          /\ b \in Cmds /\ cmd[b].type = "graphics"
          /\ cmd'[b].status = "recording" \/ b \in ended.subs[dev.index]["graphics"]
    <3> SUFFICES ASSUME NEW b \in ended.vbo
                 PROVE  /\ b \in Cmds /\ cmd[b].type = "graphics"
                        /\ cmd'[b].status = "recording" \/ b \in ended.subs[dev.index]["graphics"]
      OBVIOUS
    <3>1. b \in Cmds /\ cmd[b].type = "graphics" BY <1>5, <2>1, <2>2
    <3>2. CASE b = c BY <1>2, <1>5, <2>2, <3>1, <3>2
    <3>3. CASE b # c
      <4>1. b \in dev.vbo BY <1>5, <3>3
      <4>2. cmd[b].status = "recording" \/ b \in dev.subs[dev.index]["graphics"] BY <2>1, <4>1
      <4>3. dev.subs[dev.index]["graphics"] \subseteq ended.subs[dev.index]["graphics"]
        BY <1>2, <1>5, <2>2
      <4> QED BY <1>15, <3>1, <3>3, <4>2, <4>3
    <3> QED BY <3>2, <3>3
  <2>4. \/ sent.vbo = {}
        \/ sent.vbo = ended.vbo /\ sent.subs[dev.index]["graphics"] = ended.subs[dev.index]["graphics"]
    BY <1>5, <1>10 DEF Flushes
  <2> QED BY <1>15, <2>1, <2>3, <2>4
<1>20. ASSUME NEW b \in Cmds, cmd'[b].status \in {"idle", "recording"}
       PROVE  sent.at[b][2] = 0
  <2>1. cmd[b].status \in {"idle", "recording"} /\ b # c BY <1>15, <1>20
  <2>2. ~Queued(ended, b)
    <3>1. ASSUME NEW u \in Types, b \in ended.subs[dev.index][u] PROVE FALSE
      <4>1. b \in dev.subs[dev.index][u] BY <1>2, <1>6, <2>1, <3>1
      <4> QED BY <1>2, <2>1, <4>1 DEF IInv, CurrentFrame
    <3> QED BY <1>5, <3>1 DEF Queued
  <2>3. sent.at[b] = ended.at[b] BY <1>11, <2>2 DEF Advances, Submits
  <2> QED BY <1>5, <2>1, <2>3 DEF SyncInv
<1>21. ASSUME NEW f \in Slots
       PROVE  /\ f # dev.index => sent.recycle[f] = dev.recycle[f]
              /\ dev.recycle[f] \subseteq sent.recycle[f]
              /\ \A b \in sent.recycle[f] : b \in dev.recycle[f] \/ b[2] <= sent.timeline[b[1]]
  <2>1. ASSUME NEW b \in sent.recycle[f], b \notin dev.recycle[f]
        PROVE  b[2] <= sent.timeline[b[1]]
    <3>1. b[1] \in Types /\ b[2] \in Nat BY <1>12, SyncFields
    <3>2. b[2] <= sent.fence[f][b[1]] BY <1>5, <1>11, <2>1 DEF Advances
    <3>3. sent.fence[f][b[1]] <= sent.timeline[b[1]] BY <1>12, <3>1 DEF Sound, Good, Fenced
    <3>4. sent.fence[f][b[1]] \in Nat /\ sent.timeline[b[1]] \in Nat BY <1>12, <3>1, DevFields
    <3> QED BY <3>1, <3>2, <3>3, <3>4
  <2> QED BY <1>5, <1>11, <2>1 DEF Advances
<1>22. \A f \in Slots, u \in Types : dev.fence[f][u] <= sent.fence[f][u]
  BY <1>5, <1>11 DEF Advances, Submits
<1>23. \A b \in app'.semaphores \cup app'.fences :
         b \in app.semaphores \cup app.fences \/ b[2] <= sent.timeline[b[1]]
  <2>1. sent.timeline[t] <= sent.timeline[t] BY <1>2, <1>12, DevFields
  <2> QED BY <1>1, <1>2, <2>1 DEF Handles
<1>24. ~Timeline => \A f \in Slots, u \in Types :
         FenceCovers(sent, f, u) \/ (dev'.lock = "free" /\ f = dev'.index /\ dev'.needFence[u])
  BY <1>12, <1>13 DEF Sound, FramesFenced
<1>25. \A b \in Cmds :
         sent.at[b] = dev.at[b] \/ (dev.at[b][2] = 0 /\ sent.at[b][2] > dev.timeline[sent.at[b][1]])
  BY <1>5, <1>11 DEF Advances
<1> QED BY <1>1, <1>2, <1>12, <1>13, <1>14, <1>16, <1>17, <1>18, <1>19, <1>20, <1>21, <1>22,
           <1>23, <1>24, <1>25, ReachedStep

(* SubmitEmpty keeps the invariant.                                        *)
LEMMA SubmitEmptySync ==
  ASSUME IInv, SyncInv, NEW t \in Types, NEW demand, SubmitEmpty(t, demand)
  PROVE  SyncInv' /\ Kept
<1> DEFINE flushed == IF t = "transfer" THEN dev ELSE FlushTransfer(dev)
           sent == SubmitQueue(flushed, t, demand # "none")
<1>1. /\ Unlocked /\ dev' = sent /\ Handles(demand, <<t, sent.timeline[t]>>)
      /\ cmd' = cmd /\ completed' = completed
  BY DEF SubmitEmpty
<1>2. Sound(dev) /\ completed \in [Types -> Nat] BY <1>1, InvariantSound
<1>3. Flushes(dev, flushed) BY <1>2, FlushTransferFlushes, FlushesReflexive
<1> HIDE DEF flushed
<1>4. Sound(flushed) BY <1>3, AdvancedSound DEF Flushes
<1>5. (demand # "none") \in BOOLEAN OBVIOUS
<1>6. Flushes(flushed, sent) BY <1>2, <1>4, <1>5, SubmitQueueFacts DEF QueueSubmitted
<1> HIDE DEF sent
<1>7. Flushes(dev, sent) BY <1>2, <1>3, <1>6, FlushesTransitive
<1>8. sent.timeline[t] \in Nat BY <1>7, AdvancedSound, DevFields DEF Flushes
<1>9. \A b \in app'.semaphores \cup app'.fences :
        b \in app.semaphores \cup app.fences \/ b[2] <= dev'.timeline[b[1]]
  BY <1>1, <1>8 DEF Handles, IInv, TypeOK
<1> QED BY <1>1, <1>7, <1>9, FlushedStep

(* AddWaitSemaphore keeps the invariant.                                   *)
LEMMA AddWaitSemaphoreSync ==
  ASSUME IInv, SyncInv, NEW t \in Types, NEW s, NEW stages \in WaitStages, NEW flush \in BOOLEAN,
         AddWaitSemaphore(t, s, stages, flush)
  PROVE  SyncInv' /\ Kept
<1> DEFINE d == IF flush THEN FlushType(dev, t) ELSE dev
           at == [u \in Types |-> IF u = t THEN stages ELSE {}]
<1>1. /\ Unlocked /\ dev' = AddWaits(d, at, s) /\ s \in app.semaphores
      /\ app' = [app EXCEPT !.semaphores = @ \ {s}]
      /\ cmd' = cmd /\ completed' = completed
  BY DEF AddWaitSemaphore
<1>2. Sound(dev) /\ completed \in [Types -> Nat] BY <1>1, InvariantSound
<1>3. Flushes(dev, d) BY <1>2, FlushTypeFlushes, FlushesReflexive
<1> HIDE DEF d
<1>4. Sound(d) /\ d \in DevType BY <1>3, AdvancedSound DEF Flushes
<1>5. s \in Batches /\ at \in [Types -> SUBSET Stages]
  BY <1>1, WaitsAssumption DEF IInv, TypeOK
<1> HIDE DEF at
<1>6. WaitsAdded(d, at, s, dev') /\ Advances(d, dev')
  BY <1>1, <1>2, <1>4, <1>5, AddWaitsFields, AddWaitsAdvances
<1>7. Flushes(d, dev') BY <1>6 DEF WaitsAdded, Flushes
<1>8. Flushes(dev, dev') BY <1>2, <1>3, <1>7, FlushesTransitive
<1>9. app'.semaphores \cup app'.fences \subseteq app.semaphores \cup app.fences
  BY <1>1 DEF IInv, TypeOK
<1> QED BY <1>1, <1>8, <1>9, FlushedStep

(* Destroy keeps the invariant.                                            *)
LEMMA DestroySync ==
  ASSUME IInv, SyncInv, NEW o \in Objects, Destroy(o)
  PROVE  SyncInv' /\ Kept
<1> DEFINE ds == [dev.destroyed EXCEPT ![dev.index] = @ \cup {o}]
<1>1. /\ Unlocked /\ dev' = [dev EXCEPT !.destroyed = ds]
      /\ cmd' = cmd /\ app' = app /\ completed' = completed
  BY DEF Destroy
<1>2. dev \in DevType /\ ds \in [Slots -> SUBSET Objects]
  <2>1. dev \in DevType BY DEF IInv, TypeOK
  <2>2. dev.destroyed \in [Slots -> SUBSET Objects] BY <2>1 DEF DevType
  <2> QED BY <2>1, <2>2
<1> HIDE DEF ds
<1>3. /\ dev' \in DevType /\ dev'.lock = dev.lock /\ dev'.index = dev.index /\ dev'.count = dev.count
      /\ dev'.timeline = dev.timeline /\ dev'.queue = dev.queue /\ dev'.fence = dev.fence
      /\ dev'.waitFences = dev.waitFences
  BY <1>1, <1>2, Zenon DEF DevType
<1>4. /\ dev'.needFence = dev.needFence /\ dev'.subs = dev.subs /\ dev'.staged = dev.staged
      /\ dev'.at = dev.at /\ dev'.recycle = dev.recycle /\ dev'.vbo = dev.vbo
  BY <1>1, <1>2, Zenon DEF DevType
<1>5. ~Timeline => VerticesPending(dev)' BY <1>1, <1>3, <1>4 DEF SyncInv, VerticesPending
<1> QED BY <1>1, <1>3, <1>4, <1>5, QuietSyncStep

(* Dropping a handle adds a submitted batch to the frame's list.           *)
LEMMA DropHandleSync ==
  ASSUME IInv, SyncInv, Unlocked, NEW b \in app.semaphores \cup app.fences, NEW keep \in BOOLEAN,
         dev' = [dev EXCEPT !.recycle[dev.index] = IF keep THEN @ ELSE @ \cup {b}],
         cmd' = cmd, completed' = completed,
         app'.semaphores \cup app'.fences \subseteq app.semaphores \cup app.fences
  PROVE  SyncInv' /\ Kept
<1> DEFINE re == [dev.recycle EXCEPT ![dev.index] = IF keep THEN @ ELSE @ \cup {b}]
<1>1. dev \in DevType /\ b \in Batches BY DEF IInv, TypeOK
<1>2. dev.recycle \in [Slots -> SUBSET Batches] /\ dev.index \in Slots BY <1>1 DEF DevType
<1>3. re \in [Slots -> SUBSET Batches]
  <2>1. dev.recycle[dev.index] \cup {b} \in SUBSET Batches BY <1>1, <1>2
  <2> QED BY <1>2, <2>1
<1>4. dev' = [dev EXCEPT !.recycle = re] OBVIOUS
<1>5. \A f \in Slots : /\ f # dev.index => re[f] = dev.recycle[f]
                       /\ dev.recycle[f] \subseteq re[f]
                       /\ re[f] \subseteq dev.recycle[f] \cup {b}
  BY <1>2
<1> HIDE DEF re
<1>6. /\ dev' \in DevType /\ dev'.lock = dev.lock /\ dev'.index = dev.index /\ dev'.count = dev.count
      /\ dev'.timeline = dev.timeline /\ dev'.queue = dev.queue /\ dev'.fence = dev.fence
      /\ dev'.waitFences = dev.waitFences
  BY <1>1, <1>3, <1>4, Zenon DEF DevType
<1>7. /\ dev'.needFence = dev.needFence /\ dev'.subs = dev.subs /\ dev'.staged = dev.staged
      /\ dev'.at = dev.at /\ dev'.recycle = re /\ dev'.vbo = dev.vbo
  BY <1>1, <1>3, <1>4, Zenon DEF DevType
<1>8. ~Timeline => VerticesPending(dev)' BY <1>6, <1>7 DEF SyncInv, VerticesPending
<1>9. b[2] <= dev.timeline[b[1]] BY DEF SyncInv, HandlesKnown
<1>10. \A f \in Slots :
         /\ f # dev.index => dev'.recycle[f] = dev.recycle[f]
         /\ dev.recycle[f] \subseteq dev'.recycle[f]
         /\ \A x \in dev'.recycle[f] : x \in dev.recycle[f] \/ x[2] <= dev.timeline[x[1]]
  BY <1>5, <1>7, <1>9
<1> QED BY <1>6, <1>7, <1>8, <1>10, QuietSyncStep

(* DropSemaphore and DropFence keep the invariant.                         *)
LEMMA DropSync ==
  ASSUME IInv, SyncInv,
         (\E s \in app.semaphores : DropSemaphore(s)) \/ (\E f \in app.fences : DropFence(f))
  PROVE  SyncInv' /\ Kept
<1>1. ASSUME NEW s \in app.semaphores, DropSemaphore(s) PROVE SyncInv' /\ Kept
  <2>1. app'.semaphores \cup app'.fences \subseteq app.semaphores \cup app.fences
    BY <1>1 DEF DropSemaphore, IInv, TypeOK
  <2> QED BY <1>1, <2>1, ModeAssumption, DropHandleSync DEF DropSemaphore
<1>2. ASSUME NEW f \in app.fences, DropFence(f) PROVE SyncInv' /\ Kept
  <2>1. app'.semaphores \cup app'.fences \subseteq app.semaphores \cup app.fences
    BY <1>2 DEF DropFence, IInv, TypeOK
  <2>2. dev' = [dev EXCEPT !.recycle[dev.index] = IF FALSE THEN @ ELSE @ \cup {f}]
    BY <1>2 DEF DropFence
  <2> QED BY <1>2, <2>1, <2>2, FALSE \in BOOLEAN, DropHandleSync DEF DropFence
<1> QED BY <1>1, <1>2

(* A frame-pushing call keeps the invariant up to the point where it       *)
(* blocks: every frame is covered by its fences, the one it ended too.     *)
LEMMA BlockSync ==
  ASSUME IInv, SyncInv, Drained, cmd' = cmd, app' = app, completed' = completed,
         NEW e, e = EndFrame(dev), dev' \in DevType, Current' = Current,
         dev'.count = e.count, dev'.timeline = e.timeline, dev'.queue = e.queue,
         dev'.fence = e.fence, dev'.waitFences = e.waitFences, dev'.recycle = e.recycle,
         dev'.staged = e.staged, dev'.at = e.at, dev'.subs = e.subs, dev'.vbo = e.vbo
  PROVE  SyncInv' /\ Kept
<1>1. Unlocked /\ Recording = {} BY NothingRecorded DEF Drained
<1>2. Sound(dev) /\ completed \in [Types -> Nat] BY <1>1, InvariantSound
<1>3. /\ \A c \in Cmds : cmd[c].status # "recording"
      /\ dev.staged = {} /\ (~Timeline => VerticesPending(dev)) /\ dev \in DevType
      /\ app \in [semaphores : SUBSET Batches, fences : SUBSET Batches]
  BY <1>1 DEF Recording, SyncInv, IInv, TypeOK
<1>4. /\ Flushes(dev, e)
      /\ ~Timeline => \A f \in Slots, t \in Types : FenceCovers(e, f, t)
  BY <1>2, <1>3, EndFrameFacts
<1>5. Advances(dev, e) /\ e.staged = {} BY <1>3, <1>4 DEF Flushes
<1>6. /\ Sound(e) /\ e \in DevType /\ e.index = dev.index
      /\ e.count = dev.count /\ \A u \in Types : dev.timeline[u] <= e.timeline[u]
  BY <1>5, AdvancedSound
<1>7. \A t \in Types : e.subs[dev.index][t] = {} BY <1>2, EndFrameSubmits DEF Sound
<1>8. \A f \in Slots, t \in Types : e.subs[f][t] = {}
  <2> SUFFICES ASSUME NEW f \in Slots, NEW t \in Types, NEW c \in e.subs[f][t] PROVE FALSE
    OBVIOUS
  <2>1. c \in dev.subs[f][t] BY <1>5, AdvancedSound
  <2>2. f = dev.index BY <2>1 DEF IInv, CurrentFrame
  <2> QED BY <1>7, <2>2
<1>9. NotYetSent(dev)' BY <1>8 DEF NotYetSent
<1>10. ~Timeline => VerticesPending(dev)'
  <2> SUFFICES ASSUME ~Timeline, VkQueueOf["compute"] # VkQueueOf["transfer"]
               PROVE  /\ \A b \in Cmds : Discrete /\ cmd[b].block = "vbo" => cmd[b].type = "graphics"
                      /\ e.vbo = {}
    BY DEF VerticesPending
  <2>1. VerticesPending(e) BY <1>3, <1>4, VerticesKept
  <2>2. "graphics" \in Types /\ dev.index \in Slots /\ e.vbo \subseteq Cmds
    BY <1>3, <1>6, DevFields, SyncFields DEF Types
  <2> QED BY <1>3, <1>6, <1>7, <2>1, <2>2 DEF VerticesPending
<1>11. ASSUME NEW c \in Cmds, cmd'[c].status \in {"idle", "recording"}
       PROVE  e.at[c][2] = 0
  <2>1. cmd[c].status \in {"idle", "recording"} BY <1>11
  <2>2. ~Queued(dev, c) BY <1>3, <2>1, DevFields DEF Queued, IInv, CurrentFrame
  <2>3. e.at[c] = dev.at[c] BY <1>5, <2>2 DEF Advances, Submits
  <2> QED BY <2>1, <2>3 DEF SyncInv
<1>12. ASSUME NEW f \in Slots
       PROVE  /\ f # dev.index => e.recycle[f] = dev.recycle[f]
              /\ dev.recycle[f] \subseteq e.recycle[f]
              /\ \A b \in e.recycle[f] : b \in dev.recycle[f] \/ b[2] <= e.timeline[b[1]]
  <2>1. ASSUME NEW b \in e.recycle[f], b \notin dev.recycle[f]
        PROVE  b[2] <= e.timeline[b[1]]
    <3>1. b[1] \in Types /\ b[2] \in Nat BY <1>6, SyncFields
    <3>2. b[2] <= e.fence[f][b[1]] BY <1>5, <2>1 DEF Advances
    <3>3. e.fence[f][b[1]] <= e.timeline[b[1]] BY <1>6, <3>1 DEF Sound, Good, Fenced
    <3>4. e.fence[f][b[1]] \in Nat /\ e.timeline[b[1]] \in Nat BY <1>6, <3>1, DevFields
    <3> QED BY <3>1, <3>2, <3>3, <3>4
  <2> QED BY <1>5, <2>1 DEF Advances
<1>13. \A f \in Slots, t \in Types : dev.fence[f][t] <= e.fence[f][t]
  BY <1>5 DEF Advances, Submits
<1>14. \A c \in Cmds :
         e.at[c] = dev.at[c] \/ (dev.at[c][2] = 0 /\ e.at[c][2] > dev.timeline[e.at[c][1]])
  BY <1>5 DEF Advances
<1> QED BY <1>1, <1>3, <1>4, <1>5, <1>6, <1>9, <1>10, <1>11, <1>12, <1>13, <1>14, ReachedStep

(* EndFrameContext, NextFrameContext and WaitIdle keep the invariant.      *)
LEMMA EndFrameSync ==
  ASSUME IInv, SyncInv, \/ EndFrameContext \/ NextFrameContext \/ WaitIdle("idle") \/ WaitIdle("init")
  PROVE  SyncInv' /\ Kept
<1> DEFINE e == EndFrame(dev)
<1>1. Good(dev) /\ dev \in DevType BY IInvGood DEF Good
<1>2. Submits(dev, e) BY <1>1, EndFrameSubmits
<1>3. e \in DevType /\ e.index = dev.index /\ e.lock = dev.lock /\ e.count = dev.count
  BY <1>2 DEF Submits, Good
<1>4. Drained /\ Unlocked /\ cmd' = cmd /\ app' = app /\ completed' = completed
  BY DEF EndFrameContext, NextFrameContext, WaitIdle, Drained
<1>5. CASE EndFrameContext
  <2>1. Sound(dev) /\ completed \in [Types -> Nat] BY <1>4, InvariantSound
  <2>2. \A c \in Cmds : cmd[c].status # "recording" BY <1>4, NothingRecorded DEF Recording
  <2>3. Flushes(dev, e) BY <2>1, <2>2, EndFrameFacts DEF SyncInv
  <2> QED BY <1>4, <1>5, <2>3, FlushedStep DEF EndFrameContext
<1>6. CASE NextFrameContext
  <2>1. dev' = [e EXCEPT !.index = NextIndex(dev), !.lock = "next"]
    BY <1>6 DEF NextFrameContext
  <2>2. /\ NextIndex(dev) \in Slots /\ dev.index \in Nat /\ dev.count \in Nat
        /\ dev.index < dev.count /\ dev.lock = "free"
    BY <1>1, <1>4, DevFields, FramesAssumption DEF NextIndex, Slots, Unlocked
  <2> HIDE DEF e
  <2>3. /\ dev' \in DevType /\ dev'.lock = "next" /\ dev'.index = NextIndex(dev)
        /\ dev'.count = e.count /\ dev'.timeline = e.timeline /\ dev'.queue = e.queue
        /\ dev'.fence = e.fence /\ dev'.waitFences = e.waitFences
    BY <1>3, <2>1, <2>2, Zenon DEF DevType
  <2>4. /\ dev'.recycle = e.recycle /\ dev'.staged = e.staged
        /\ dev'.at = e.at /\ dev'.subs = e.subs /\ dev'.vbo = e.vbo
    BY <1>3, <2>1, <2>2, Zenon DEF DevType
  <2>5. Current' = Current BY <1>3, <2>2, <2>3 DEF Current, NextIndex
  <2> QED BY <1>4, <2>3, <2>4, <2>5, BlockSync DEF e
<1>7. ASSUME NEW op \in {"idle", "init"}, WaitIdle(op)
      PROVE  SyncInv' /\ Kept
  <2>1. dev' = [e EXCEPT !.lock = op] BY <1>7 DEF WaitIdle
  <2> HIDE DEF e
  <2>2. /\ dev' \in DevType /\ dev'.lock = op /\ dev'.index = e.index
        /\ dev'.count = e.count /\ dev'.timeline = e.timeline /\ dev'.queue = e.queue
        /\ dev'.fence = e.fence /\ dev'.waitFences = e.waitFences
    BY <1>3, <2>1, Zenon DEF DevType
  <2>3. /\ dev'.recycle = e.recycle /\ dev'.staged = e.staged
        /\ dev'.at = e.at /\ dev'.subs = e.subs /\ dev'.vbo = e.vbo
    BY <1>3, <2>1, Zenon DEF DevType
  <2>4. Current' = Current BY <1>3, <1>4, <2>2 DEF Current, Unlocked
  <2> QED BY <1>4, <2>2, <2>3, <2>4, BlockSync DEF e
<1> QED BY <1>5, <1>6, <1>7

-----------------------------------------------------------------------------
(* What PerFrame::Begin has waited for is all that the frame submitted.    *)
LEMMA FrameOver ==
  ASSUME IInv, SyncInv, dev.lock = "next", FrameFinished(dev.index), NEW t \in Types
  PROVE  dev.fence[dev.index][t] <= completed[t]
<1> DEFINE i == dev.index
           last == <<t, dev.fence[i][t]>>
<1>1. i \in Slots BY DevFields DEF IInv, TypeOK
<1>2. CASE Timeline BY <1>2 DEF FrameFinished
<1>3. CASE ~Timeline
  <2>1. FenceCovers(dev, i, t) BY <1>1, <1>3 DEF SyncInv, FramesFenced
  <2>2. \A b \in dev.waitFences[i] : Done(b) BY <1>3 DEF FrameFinished
  <2>3. Done(last) BY <2>1, <2>2 DEF FenceCovers
  <2> QED BY <2>3 DEF Done
<1> QED BY <1>2, <1>3

(* BeginLists, field by field.                                             *)
ListsBegun(d, S, e) ==
  /\ e \in DevType
  /\ e.lock = d.lock /\ e.counter = d.counter /\ e.index = d.index /\ e.count = d.count
  /\ e.timeline = d.timeline /\ e.fence = d.fence /\ e.subs = d.subs
  /\ e.at = d.at /\ e.copyAt = d.copyAt /\ e.queue = d.queue
  /\ e.waits = d.waits /\ e.needFence = d.needFence
  /\ e.vbo = d.vbo /\ e.ubo = d.ubo /\ e.staged = d.staged
  /\ \A f \in Slots :
       /\ e.waitFences[f] = IF f \in S THEN {} ELSE d.waitFences[f]
       /\ e.recycle[f] = IF f \in S THEN {} ELSE d.recycle[f]
       /\ e.blocks[f] = IF f \in S THEN {} ELSE d.blocks[f]

LEMMA BeginListsFields ==
  ASSUME NEW d \in DevType, NEW S
  PROVE  ListsBegun(d, S, BeginLists(d, S))
<1> DEFINE
  cleared(list) == [f \in Slots |-> IF f \in S THEN {} ELSE list[f]]
  wf == cleared(d.waitFences)
  re == cleared(d.recycle)
  ds == cleared(d.destroyed)
  bl == cleared(d.blocks)
  e == [d EXCEPT !.waitFences = wf, !.recycle = re, !.destroyed = ds, !.blocks = bl]
<1>1. wf \in [Slots -> SUBSET Batches] /\ re \in [Slots -> SUBSET Batches] BY DEF DevType
<1>2. ds \in [Slots -> SUBSET Objects] /\ bl \in [Slots -> SUBSET Cmds] BY DEF DevType
<1>3. BeginLists(d, S) = e BY DEF BeginLists
<1>4. \A f \in Slots : /\ wf[f] = IF f \in S THEN {} ELSE d.waitFences[f]
                       /\ re[f] = IF f \in S THEN {} ELSE d.recycle[f]
                       /\ bl[f] = IF f \in S THEN {} ELSE d.blocks[f]
  OBVIOUS
<1> HIDE DEF wf, re, ds, bl
<1>5. /\ e \in DevType
      /\ e.lock = d.lock /\ e.counter = d.counter /\ e.index = d.index /\ e.count = d.count
      /\ e.timeline = d.timeline /\ e.fence = d.fence /\ e.subs = d.subs
      /\ e.at = d.at /\ e.copyAt = d.copyAt
  BY <1>1, <1>2, Zenon DEF DevType
<1>6. /\ e.queue = d.queue /\ e.waits = d.waits /\ e.needFence = d.needFence
      /\ e.vbo = d.vbo /\ e.ubo = d.ubo /\ e.staged = d.staged
      /\ e.waitFences = wf /\ e.recycle = re /\ e.blocks = bl
  BY <1>1, <1>2, Zenon DEF DevType
<1> HIDE DEF e
<1> QED BY <1>3, <1>4, <1>5, <1>6 DEF ListsBegun

(* PerFrame::Begin changes the status and the block of commands only.      *)
LEMMA BeginCmdsBlocks ==
  ASSUME cmd \in [Cmds -> CmdType], NEW S, BeginCmds(S)
  PROVE  \A c \in Cmds :
           /\ cmd'[c].type = cmd[c].type /\ cmd'[c].reads = cmd[c].reads
           /\ cmd'[c].status \in {"idle", "recording"} => cmd'[c].status = cmd[c].status
           /\ cmd'[c].block = IF \E f \in S : c \in dev.blocks[f] THEN "recycled" ELSE cmd[c].block
<1> SUFFICES ASSUME NEW c \in Cmds
             PROVE  /\ cmd'[c].type = cmd[c].type /\ cmd'[c].reads = cmd[c].reads
                    /\ cmd'[c].status \in {"idle", "recording"} => cmd'[c].status = cmd[c].status
                    /\ cmd'[c].block = IF \E f \in S : c \in dev.blocks[f] THEN "recycled" ELSE cmd[c].block
  OBVIOUS
<1> DEFINE
  st == IF cmd[c].status \in {"recording", "submitted"} /\ cmd[c].home \in S
        THEN "reset" ELSE cmd[c].status
  bl == IF \E f \in S : c \in dev.blocks[f] THEN "recycled" ELSE cmd[c].block
<1>1. cmd[c] \in CmdType OBVIOUS
<1>2. cmd'[c] = [cmd[c] EXCEPT !.status = st, !.block = bl]
  BY DEF BeginCmds
<1>3. st \in {"idle", "recording"} => st = cmd[c].status OBVIOUS
<1> HIDE DEF st, bl
<1>4. /\ cmd'[c].status = st /\ cmd'[c].block = bl /\ cmd'[c].type = cmd[c].type
      /\ cmd'[c].reads = cmd[c].reads
  BY <1>1, <1>2, Zenon DEF CmdType
<1> QED BY <1>3, <1>4 DEF bl

(* When PerFrame::Begin starts the next frame, every other frame begins    *)
(* one turn earlier than before.                                           *)
LEMMA TurnsPass ==
  ASSUME dev \in DevType, dev' \in DevType, dev.lock = "next", dev.index < dev.count,
         dev'.lock = "free", dev'.index = dev.index, dev'.count = dev.count
  PROVE  /\ Turn(dev.index) = 1
         /\ \A f \in Slots : f < dev.count /\ f # dev.index =>
              Turn(f) \in Nat /\ Turn(f) > 1 /\ Turn(f)' = Turn(f) - 1
<1>1. dev.index \in Nat /\ dev.count \in Nat /\ \A f \in Slots : f \in Nat
  BY DevFields, FramesAssumption DEF Slots
<1> QED BY <1>1 DEF Turn, Current

(* What leaves a frame's list of semaphores and fences to be recycled is   *)
(* of a complete batch.                                                    *)
Returned ==
  /\ dev'.at = dev.at /\ completed' = completed
  /\ \A f \in Slots : \A b \in dev.recycle[f] \ dev'.recycle[f] : Done(b)

(* PerFrame::Begin keeps the invariant.                                    *)
LEMMA BeginSync ==
  ASSUME IInv, SyncInv, BeginFrame
  PROVE  SyncInv' /\ Returned
<1> DEFINE i == dev.index
           b == BeginLists(dev, {i})
<1>1. /\ dev.lock = "next" /\ FrameFinished(i) /\ dev' = [b EXCEPT !.lock = "free"]
      /\ BeginCmds({i}) /\ app' = app /\ completed' = completed
  BY DEF BeginFrame
<1>2. /\ dev \in DevType /\ cmd \in [Cmds -> CmdType] /\ completed \in [Types -> Nat] /\ i \in Slots
  BY DevFields DEF IInv, TypeOK
<1>3. ListsBegun(dev, {i}, b) BY <1>2, BeginListsFields
<1> HIDE DEF b
<1>4. /\ dev' \in DevType /\ dev'.lock = "free" /\ dev'.index = b.index /\ dev'.count = b.count
      /\ dev'.timeline = b.timeline /\ dev'.queue = b.queue /\ dev'.fence = b.fence
      /\ dev'.waitFences = b.waitFences
  BY <1>1, <1>3, Zenon DEF DevType, ListsBegun
<1>5. /\ dev'.recycle = b.recycle /\ dev'.staged = b.staged
      /\ dev'.at = b.at /\ dev'.subs = b.subs /\ dev'.vbo = b.vbo
  BY <1>1, <1>3, Zenon DEF DevType, ListsBegun
<1>6. /\ dev'.lock = "free" /\ dev'.index = i /\ dev'.count = dev.count
      /\ dev'.timeline = dev.timeline /\ dev'.queue = dev.queue /\ dev'.fence = dev.fence
      /\ dev'.staged = dev.staged /\ dev'.at = dev.at /\ dev'.subs = dev.subs /\ dev'.vbo = dev.vbo
      /\ \A f \in Slots : /\ dev'.waitFences[f] = IF f = i THEN {} ELSE dev.waitFences[f]
                          /\ dev'.recycle[f] = IF f = i THEN {} ELSE dev.recycle[f]
  BY <1>3, <1>4, <1>5 DEF ListsBegun
<1>7. \A t \in Types : dev.fence[i][t] <= completed[t] BY <1>1, FrameOver
<1>8. \A c \in Cmds :
        /\ cmd'[c].type = cmd[c].type
        /\ cmd'[c].status \in {"idle", "recording"} => cmd'[c].status = cmd[c].status
        /\ cmd'[c].block \in {cmd[c].block, "recycled"}
  BY <1>1, <1>2, BeginCmdsBlocks
<1>9. /\ i < dev.count /\ Recording = {}
      /\ \A f \in Slots, t \in Types : dev.subs[f][t] = {}
  BY <1>1, <1>2, DevFields DEF IInv, CurrentFrame
<1>10. QueueLengths(dev)' BY <1>1, <1>6 DEF SyncInv, QueueLengths
<1>11. NotYetSent(dev)' BY <1>6, <1>9 DEF NotYetSent
<1>12. LatestCovered(dev)' BY <1>1, <1>6 DEF SyncInv, LatestCovered
<1>13. \A c \in Cmds : cmd'[c].status \in {"idle", "recording"} => dev'.at[c][2] = 0
  BY <1>6, <1>8 DEF SyncInv
<1>14. HandlesKnown' BY <1>1, <1>6 DEF SyncInv, HandlesKnown
<1>15. RecycleOrdered'
  <2> SUFFICES ASSUME NEW f \in Slots, NEW x \in dev'.recycle[f]
               PROVE  /\ f < dev.count
                      /\ \/ Done(x)
                         \/ \E g \in Slots : g < dev.count /\ x[2] <= dev.fence[g][x[1]] /\ Turn(g)' <= Turn(f)'
    BY <1>1, <1>6 DEF RecycleOrdered, Done
  <2>1. f # i /\ x \in dev.recycle[f] /\ f < dev.count
    BY <1>6 DEF SyncInv, RecycleOrdered
  <2>2. x[1] \in Types /\ x[2] \in Nat BY <1>2, <2>1, SyncFields
  <2>3. ASSUME NEW g \in Slots, g < dev.count, x[2] <= dev.fence[g][x[1]], Turn(g) <= Turn(f), g # i
        PROVE  Turn(g)' <= Turn(f)'
    BY <1>1, <1>2, <1>4, <1>6, <1>9, <2>1, <2>3, TurnsPass
  <2>4. ASSUME x[2] <= dev.fence[i][x[1]] PROVE Done(x)
    <3>1. dev.fence[i][x[1]] \in Nat /\ completed[x[1]] \in Nat BY <1>2, <2>2, DevFields
    <3> QED BY <1>7, <2>2, <2>4, <3>1 DEF Done
  <2> QED BY <2>1, <2>3, <2>4 DEF SyncInv, RecycleOrdered
<1>16. ~Timeline => FramesFenced(dev)'
  <2> SUFFICES ASSUME ~Timeline, NEW f \in Slots, NEW t \in Types PROVE FenceCovers(dev, f, t)'
    BY DEF FramesFenced
  <2>1. CASE f = i BY <1>1, <1>6, <1>7, <2>1 DEF FenceCovers, Done
  <2>2. CASE f # i
    <3>1. FenceCovers(dev, f, t) BY <1>1 DEF SyncInv, FramesFenced
    <3> QED BY <1>1, <1>6, <2>2, <3>1 DEF FenceCovers, Done
  <2> QED BY <2>1, <2>2
<1>17. ~Timeline => VerticesPending(dev)'
  <2> SUFFICES ASSUME ~Timeline, VkQueueOf["compute"] # VkQueueOf["transfer"]
               PROVE  /\ \A c \in Cmds : Discrete /\ cmd'[c].block = "vbo" => cmd'[c].type = "graphics"
                      /\ dev.vbo = {}
    BY <1>6 DEF VerticesPending
  <2>1. VerticesPending(dev) BY DEF SyncInv
  <2>2. dev.vbo \subseteq Cmds /\ "graphics" \in Types BY <1>2, SyncFields DEF Types
  <2> QED BY <1>2, <1>8, <1>9, <2>1, <2>2 DEF VerticesPending, Recording
<1>18. dev'.staged = {} BY <1>6 DEF SyncInv
<1>19. Returned
  <2> SUFFICES ASSUME NEW x \in dev.recycle[i] PROVE Done(x)
    BY <1>1, <1>6 DEF Returned
  <2>1. x[1] \in Types /\ x[2] \in Nat BY <1>2, SyncFields
  <2>2. ASSUME NEW g \in Slots, g < dev.count, x[2] <= dev.fence[g][x[1]], Turn(g) <= Turn(i)
        PROVE  Done(x)
    <3>1. g = i
      <4>1. Turn(i) = 1 /\ (g # i => Turn(g) \in Nat /\ Turn(g) > 1)
        BY <1>1, <1>2, <1>4, <1>6, <1>9, <2>2, TurnsPass
      <4> QED BY <2>2, <4>1
    <3>2. dev.fence[i][x[1]] \in Nat /\ completed[x[1]] \in Nat BY <1>2, <2>1, DevFields
    <3> QED BY <1>7, <2>1, <2>2, <3>1, <3>2 DEF Done
  <2> QED BY <1>2, <2>2 DEF SyncInv, RecycleOrdered
<1> QED BY <1>19, <1>10, <1>11, <1>12, <1>13, <1>14, <1>15, <1>16, <1>17, <1>18 DEF SyncInv

(* ClearWaitSemaphores, field by field.                                    *)
WaitsCleared(d, e) ==
  /\ e \in DevType
  /\ e.lock = d.lock /\ e.counter = d.counter /\ e.index = d.index /\ e.count = d.count
  /\ e.timeline = d.timeline /\ e.fence = d.fence /\ e.subs = d.subs
  /\ e.at = d.at /\ e.copyAt = d.copyAt /\ e.queue = d.queue /\ e.needFence = d.needFence
  /\ e.vbo = d.vbo /\ e.ubo = d.ubo /\ e.staged = d.staged
  /\ e.waitFences = d.waitFences /\ e.recycle = d.recycle /\ e.blocks = d.blocks
  /\ \A t \in Types : e.waits[t] = {}

LEMMA ClearWaitSemaphoresFields ==
  ASSUME NEW d \in DevType
  PROVE  WaitsCleared(d, ClearWaitSemaphores(d))
<1> DEFINE
  wa == [t \in Types |-> {}]
  handles == UNION {d.waits[t] : t \in Types}
  lost == IF ~Timeline THEN d.lostTimelines ELSE d.lostTimelines \cup {s[1] : s \in handles}
  e == [d EXCEPT !.waits = wa, !.lostTimelines = lost]
<1>1. wa \in [Types -> SUBSET Waits] /\ \A t \in Types : wa[t] = {} OBVIOUS
<1>2. handles \in SUBSET Waits /\ d.lostTimelines \in SUBSET Types BY DEF DevType
<1>3. \A s \in handles : s[1] \in Types BY <1>2 DEF Waits
<1> HIDE DEF handles
<1>4. lost \in SUBSET Types BY <1>2, <1>3
<1>5. ClearWaitSemaphores(d) = e BY DEF ClearWaitSemaphores, handles
<1> HIDE DEF wa, lost
<1>6. /\ e \in DevType
      /\ e.lock = d.lock /\ e.counter = d.counter /\ e.index = d.index /\ e.count = d.count
      /\ e.timeline = d.timeline /\ e.fence = d.fence /\ e.subs = d.subs
      /\ e.at = d.at /\ e.copyAt = d.copyAt
  BY <1>1, <1>4, Zenon DEF DevType
<1>7. /\ e.queue = d.queue /\ e.needFence = d.needFence /\ e.waits = wa
      /\ e.vbo = d.vbo /\ e.ubo = d.ubo /\ e.staged = d.staged
      /\ e.waitFences = d.waitFences /\ e.recycle = d.recycle /\ e.blocks = d.blocks
  BY <1>1, <1>4, Zenon DEF DevType
<1> HIDE DEF e
<1> QED BY <1>1, <1>5, <1>6, <1>7 DEF WaitsCleared

(* When the device is idle, every batch is complete and whatever the       *)
(* frames were waiting for is over.                                        *)
LEMMA IdleSync ==
  ASSUME IInv, SyncInv, NEW op \in {"idle", "init"}, IdleReached(op), dev' \in DevType,
         dev'.lock = "free", dev'.timeline = dev.timeline, dev'.queue = dev.queue,
         dev'.subs = dev.subs, dev'.at = dev.at, dev'.staged = dev.staged, dev'.vbo = dev.vbo,
         \A f \in Slots, t \in Types : dev'.fence[f][t] \in {0, dev.fence[f][t]},
         \A f \in Slots : dev'.recycle[f] \subseteq dev.recycle[f] /\ (f < dev.count => dev'.recycle[f] = {})
  PROVE  SyncInv' /\ Returned
<1>1. /\ dev.lock = op /\ \A t \in Types : completed[t] = dev.timeline[t]
      /\ BeginCmds(0 .. dev.count - 1) /\ app' = app /\ completed' = completed
  BY DEF IdleReached
<1>2. dev \in DevType /\ cmd \in [Cmds -> CmdType] BY DEF IInv, TypeOK
<1>3. \A c \in Cmds :
        /\ cmd'[c].type = cmd[c].type
        /\ cmd'[c].status \in {"idle", "recording"} => cmd'[c].status = cmd[c].status
        /\ cmd'[c].block \in {cmd[c].block, "recycled"}
  BY <1>1, <1>2, BeginCmdsBlocks
<1>4. Recording = {} /\ \A f \in Slots, t \in Types : dev.subs[f][t] = {}
  BY <1>1, <1>2, DevFields DEF IInv, CurrentFrame
<1>5. QueueLengths(dev)' BY <1>1 DEF SyncInv, QueueLengths
<1>6. NotYetSent(dev)' BY <1>4 DEF NotYetSent
<1>7. LatestCovered(dev)' BY <1>1, <1>2, DevFields DEF LatestCovered
<1>8. \A c \in Cmds : cmd'[c].status \in {"idle", "recording"} => dev'.at[c][2] = 0
  BY <1>3 DEF SyncInv
<1>9. HandlesKnown' BY <1>1 DEF SyncInv, HandlesKnown
<1>10. RecycleOrdered'
  <2>1. \A f \in Slots : dev'.recycle[f] = {} BY DEF SyncInv, RecycleOrdered
  <2> QED BY <2>1 DEF RecycleOrdered
<1>11. FramesFenced(dev)'
  <2> SUFFICES ASSUME NEW f \in Slots, NEW t \in Types PROVE FenceCovers(dev, f, t)'
    BY DEF FramesFenced
  <2>1. dev.fence[f][t] \in Nat /\ dev.timeline[t] \in Nat BY <1>2, DevFields
  <2>2. dev'.fence[f][t] <= completed[t]
    BY <1>1, <2>1 DEF IInv, FencesSubmitted
  <2> QED BY <1>1, <2>2 DEF FenceCovers, Done
<1>12. ~Timeline => VerticesPending(dev)'
  <2> SUFFICES ASSUME ~Timeline, VkQueueOf["compute"] # VkQueueOf["transfer"]
               PROVE  /\ \A c \in Cmds : Discrete /\ cmd'[c].block = "vbo" => cmd'[c].type = "graphics"
                      /\ dev.vbo = {}
    BY DEF VerticesPending
  <2>1. VerticesPending(dev) BY DEF SyncInv
  <2>2. dev.vbo \subseteq Cmds /\ "graphics" \in Types /\ dev.index \in Slots
    BY <1>2, SyncFields, DevFields DEF Types
  <2> QED BY <1>3, <1>4, <2>1, <2>2 DEF VerticesPending, Recording
<1>13. dev'.staged = {} BY DEF SyncInv
<1>14. Returned
  <2> SUFFICES ASSUME NEW f \in Slots, NEW x \in dev.recycle[f] PROVE Done(x)
    BY <1>1 DEF Returned
  <2>1. x[1] \in Types /\ x[2] \in Nat BY <1>2, SyncFields
  <2>2. ASSUME NEW g \in Slots, x[2] <= dev.fence[g][x[1]] PROVE Done(x)
    <3>1. dev.fence[g][x[1]] \in Nat /\ dev.timeline[x[1]] \in Nat BY <1>2, <2>1, DevFields
    <3>2. dev.fence[g][x[1]] <= dev.timeline[x[1]] BY <2>1 DEF IInv, FencesSubmitted
    <3> QED BY <1>1, <2>1, <2>2, <3>1, <3>2 DEF Done
  <2> QED BY <2>2 DEF SyncInv, RecycleOrdered
<1> QED BY <1>5, <1>6, <1>7, <1>8, <1>9, <1>10, <1>11, <1>12, <1>13, <1>14 DEF SyncInv

(* WaitIdle keeps the invariant.                                           *)
LEMMA WaitIdleDoneSync ==
  ASSUME IInv, SyncInv, WaitIdleDone
  PROVE  SyncInv' /\ Returned
<1> DEFINE S == 0 .. dev.count - 1
           e == ClearWaitSemaphores(dev)
           b == BeginLists(e, S)
<1>1. dev \in DevType BY DEF IInv, TypeOK
<1>2. IdleReached("idle") /\ dev' = [b EXCEPT !.lock = "free"] BY DEF WaitIdleDone
<1>3. WaitsCleared(dev, e) BY <1>1, ClearWaitSemaphoresFields
<1> HIDE DEF e
<1>4. ListsBegun(e, S, b) BY <1>3, BeginListsFields DEF WaitsCleared
<1> HIDE DEF b
<1>5. /\ dev' \in DevType /\ dev'.lock = "free" /\ dev'.timeline = b.timeline
      /\ dev'.queue = b.queue /\ dev'.fence = b.fence /\ dev'.recycle = b.recycle
  BY <1>2, <1>4, Zenon DEF DevType, ListsBegun
<1>6. /\ dev'.subs = b.subs /\ dev'.at = b.at /\ dev'.staged = b.staged /\ dev'.vbo = b.vbo
  BY <1>2, <1>4, Zenon DEF DevType, ListsBegun
<1>7. /\ dev'.timeline = dev.timeline /\ dev'.queue = dev.queue /\ dev'.fence = dev.fence
      /\ dev'.subs = dev.subs /\ dev'.at = dev.at /\ dev'.staged = dev.staged /\ dev'.vbo = dev.vbo
      /\ \A f \in Slots : dev'.recycle[f] = IF f \in S THEN {} ELSE dev.recycle[f]
  BY <1>3, <1>4, <1>5, <1>6 DEF WaitsCleared, ListsBegun
<1>8. \A f \in Slots : f < dev.count => f \in S BY <1>1, DevFields, FramesAssumption DEF Slots
<1> QED BY <1>2, <1>5, <1>7, <1>8, IdleSync

(* InitFrameContexts keeps the invariant.                                  *)
LEMMA InitFrameContextsSync ==
  ASSUME IInv, SyncInv, NEW n \in FrameCounts, InitFrameContexts(n)
  PROVE  SyncInv' /\ Returned
<1> DEFINE e == ClearWaitSemaphores(dev)
           b == BeginLists(e, Slots)
           fe == [f \in Slots |-> [t \in Types |-> 0]]
<1>1. dev \in DevType BY DEF IInv, TypeOK
<1>2. IdleReached("init") /\ dev' = [b EXCEPT !.lock = "free", !.count = n, !.fence = fe]
  BY DEF InitFrameContexts
<1>3. WaitsCleared(dev, e) BY <1>1, ClearWaitSemaphoresFields
<1> HIDE DEF e
<1>4. ListsBegun(e, Slots, b) BY <1>3, BeginListsFields DEF WaitsCleared
<1> HIDE DEF b
<1>5. fe \in [Slots -> [Types -> Nat]] /\ n \in 1 .. MaxFrames BY FramesAssumption
<1>6. \A f \in Slots, t \in Types : fe[f][t] = 0 OBVIOUS
<1> HIDE DEF fe
<1>7. /\ dev' \in DevType /\ dev'.lock = "free" /\ dev'.timeline = b.timeline
      /\ dev'.queue = b.queue /\ dev'.fence = fe /\ dev'.recycle = b.recycle
  BY <1>2, <1>4, <1>5, Zenon DEF DevType, ListsBegun
<1>8. /\ dev'.subs = b.subs /\ dev'.at = b.at /\ dev'.staged = b.staged /\ dev'.vbo = b.vbo
  BY <1>2, <1>4, <1>5, Zenon DEF DevType, ListsBegun
<1>9. /\ dev'.timeline = dev.timeline /\ dev'.queue = dev.queue
      /\ dev'.subs = dev.subs /\ dev'.at = dev.at /\ dev'.staged = dev.staged /\ dev'.vbo = dev.vbo
      /\ \A f \in Slots : dev'.recycle[f] = {}
  BY <1>3, <1>4, <1>7, <1>8 DEF WaitsCleared, ListsBegun
<1>10. \A f \in Slots, t \in Types : dev'.fence[f][t] \in {0, dev.fence[f][t]} BY <1>6, <1>7
<1> QED BY <1>2, <1>7, <1>9, <1>10, IdleSync

(* The GPU completes the oldest batch of a queue: its entry leaves, and    *)
(* whatever the entry waits for was complete.                              *)
LEMMA CompletedFields ==
  ASSUME dev \in DevType, completed \in [Types -> Nat], QueueLengths(dev), NEW t \in Types, Complete(t)
  PROVE  /\ dev' \in DevType /\ cmd' = cmd /\ obj' = obj /\ app' = app
         /\ dev'.lock = dev.lock /\ dev'.index = dev.index /\ dev'.count = dev.count
         /\ dev'.timeline = dev.timeline /\ dev'.fence = dev.fence /\ dev'.subs = dev.subs
         /\ dev'.at = dev.at /\ dev'.waitFences = dev.waitFences /\ dev'.recycle = dev.recycle
         /\ dev'.vbo = dev.vbo /\ dev'.staged = dev.staged /\ dev'.needFence = dev.needFence
         /\ dev'.ubo = dev.ubo /\ dev'.blocks = dev.blocks /\ dev'.waits = dev.waits
         /\ dev'.copyAt = dev.copyAt
         /\ completed[t] < dev.timeline[t]
         /\ \A b \in dev.queue[t][1] : Done(b)
         /\ \A u \in Types :
              /\ completed'[u] = IF u = t THEN completed[u] + 1 ELSE completed[u]
              /\ Len(dev'.queue[u]) = IF u = t THEN Len(dev.queue[u]) - 1 ELSE Len(dev.queue[u])
              /\ \A n \in 1 .. Len(dev'.queue[u]) :
                   dev'.queue[u][n] = IF u = t THEN dev.queue[u][n + 1] ELSE dev.queue[u][n]
<1> DEFINE qu == [dev.queue EXCEPT ![t] = Tail(dev.queue[t])]
<1>1. /\ dev.queue \in [Types -> Seq(SUBSET Waits)] /\ dev.queue[t] \in Seq(SUBSET Waits)
      /\ dev.timeline[t] = completed[t] + Len(dev.queue[t]) /\ completed[t] \in Nat
  BY DEF DevType, QueueLengths
<1>2. /\ dev.queue[t] # <<>> /\ completed' = [completed EXCEPT ![t] = @ + 1]
      /\ \A b \in Head(dev.queue[t]) : Done(b)
      /\ dev' = [dev EXCEPT !.queue = qu] /\ cmd' = cmd /\ obj' = obj /\ app' = app
  BY DEF Complete
<1>3. /\ Tail(dev.queue[t]) \in Seq(SUBSET Waits) /\ Head(dev.queue[t]) = dev.queue[t][1]
      /\ Len(dev.queue[t]) \in Nat \ {0} /\ Len(Tail(dev.queue[t])) = Len(dev.queue[t]) - 1
      /\ \A n \in 1 .. Len(dev.queue[t]) - 1 : Tail(dev.queue[t])[n] = dev.queue[t][n + 1]
  BY <1>1, <1>2
<1>4. qu \in [Types -> Seq(SUBSET Waits)] BY <1>1, <1>3
<1>5. \A u \in Types :
        /\ Len(qu[u]) = IF u = t THEN Len(dev.queue[u]) - 1 ELSE Len(dev.queue[u])
        /\ \A n \in 1 .. Len(qu[u]) :
             qu[u][n] = IF u = t THEN dev.queue[u][n + 1] ELSE dev.queue[u][n]
  <2> TAKE u \in Types
  <2>1. CASE u = t
    <3>1. qu[u] = Tail(dev.queue[t]) BY <1>1, <2>1
    <3> QED BY <1>3, <2>1, <3>1
  <2>2. CASE u # t
    <3>1. qu[u] = dev.queue[u] BY <1>1, <2>2
    <3> QED BY <2>2, <3>1
  <2> QED BY <2>1, <2>2
<1> HIDE DEF qu
<1>6. /\ dev' \in DevType
      /\ dev'.lock = dev.lock /\ dev'.index = dev.index /\ dev'.count = dev.count
      /\ dev'.timeline = dev.timeline /\ dev'.fence = dev.fence /\ dev'.subs = dev.subs
      /\ dev'.at = dev.at /\ dev'.queue = qu
  BY <1>2, <1>4, Zenon DEF DevType
<1>7. /\ dev'.waitFences = dev.waitFences /\ dev'.recycle = dev.recycle
      /\ dev'.vbo = dev.vbo /\ dev'.staged = dev.staged /\ dev'.needFence = dev.needFence
      /\ dev'.ubo = dev.ubo /\ dev'.blocks = dev.blocks /\ dev'.waits = dev.waits
      /\ dev'.copyAt = dev.copyAt
  BY <1>2, <1>4, Zenon DEF DevType
<1>8. \A u \in Types : completed'[u] = IF u = t THEN completed[u] + 1 ELSE completed[u]
  BY <1>2
<1>9. completed[t] < dev.timeline[t] BY <1>1, <1>3
<1>10. \A b \in dev.queue[t][1] : Done(b) BY <1>2, <1>3
<1>11. \A u \in Types :
         /\ Len(dev'.queue[u]) = IF u = t THEN Len(dev.queue[u]) - 1 ELSE Len(dev.queue[u])
         /\ \A n \in 1 .. Len(dev'.queue[u]) :
              dev'.queue[u][n] = IF u = t THEN dev.queue[u][n + 1] ELSE dev.queue[u][n]
  BY <1>5, <1>6
<1> QED BY <1>2, <1>6, <1>7, <1>8, <1>9, <1>10, <1>11

(* Completing a batch keeps the invariant: a batch that was covered by one *)
(* that waits for it is complete once that one is.                         *)
LEMMA CompleteSync ==
  ASSUME IInv, SyncInv, NEW t \in Types, Complete(t)
  PROVE  SyncInv'
<1>1. /\ dev \in DevType /\ completed \in [Types -> Nat] /\ QueueLengths(dev)
      /\ app \in [semaphores : SUBSET Batches, fences : SUBSET Batches]
  BY DEF IInv, TypeOK, SyncInv
<1>2. /\ dev' \in DevType /\ cmd' = cmd /\ app' = app
      /\ dev'.lock = dev.lock /\ dev'.index = dev.index /\ dev'.count = dev.count
      /\ dev'.timeline = dev.timeline /\ dev'.fence = dev.fence /\ dev'.subs = dev.subs
      /\ dev'.at = dev.at /\ dev'.waitFences = dev.waitFences /\ dev'.recycle = dev.recycle
      /\ dev'.vbo = dev.vbo /\ dev'.staged = dev.staged /\ dev'.needFence = dev.needFence
  BY <1>1, CompletedFields
<1>3. /\ \A b \in dev.queue[t][1] : Done(b)
      /\ \A u \in Types :
           /\ completed'[u] = IF u = t THEN completed[u] + 1 ELSE completed[u]
           /\ Len(dev'.queue[u]) = IF u = t THEN Len(dev.queue[u]) - 1 ELSE Len(dev.queue[u])
           /\ \A n \in 1 .. Len(dev'.queue[u]) :
                dev'.queue[u][n] = IF u = t THEN dev.queue[u][n + 1] ELSE dev.queue[u][n]
  BY <1>1, CompletedFields
<1>4. \A u \in Types : /\ completed[u] \in Nat /\ completed'[u] \in Nat /\ completed[u] <= completed'[u]
                       /\ dev.timeline[u] \in Nat /\ Len(dev.queue[u]) \in Nat
                       /\ dev.timeline[u] = completed[u] + Len(dev.queue[u])
  BY <1>1, <1>3, DevFields, SyncFields DEF QueueLengths
<1>5. \A b \in Batches : Done(b) => Done(b)' BY <1>4 DEF Done, Batches
<1>6. QueueLengths(dev)'
  <2> SUFFICES ASSUME NEW u \in Types PROVE dev'.timeline[u] = completed'[u] + Len(dev'.queue[u])
    BY DEF QueueLengths
  <2>1. completed'[u] + Len(dev'.queue[u]) = completed[u] + Len(dev.queue[u])
    <3>1. CASE u = t
      <4>1. completed'[u] = completed[u] + 1 /\ Len(dev'.queue[u]) = Len(dev.queue[u]) - 1
        BY <1>3, <3>1
      <4>2. completed[u] \in Nat /\ Len(dev.queue[u]) \in Nat BY <1>4
      <4>3. (completed[u] + 1) + (Len(dev.queue[u]) - 1) = completed[u] + Len(dev.queue[u]) BY <4>2
      <4> QED BY <4>1, <4>3
    <3>2. CASE u # t
      <4>1. completed'[u] = completed[u] /\ Len(dev'.queue[u]) = Len(dev.queue[u]) BY <1>3, <3>2
      <4> QED BY <4>1
    <3> QED BY <3>1, <3>2
  <2> QED BY <1>2, <1>4, <2>1
<1>7. NotYetSent(dev)' BY <1>2 DEF SyncInv, NotYetSent
<1>8. LatestCovered(dev)'
  <2> SUFFICES ASSUME NEW u \in Types
               PROVE  dev.timeline[u] <= completed'[u] \/ \E f \in Slots : f < dev.count /\ dev.timeline[u] <= dev.fence[f][u]
    BY <1>2 DEF LatestCovered
  <2>1. dev.timeline[u] <= completed[u] \/ \E f \in Slots : f < dev.count /\ dev.timeline[u] <= dev.fence[f][u]
    BY DEF SyncInv, LatestCovered
  <2>2. dev.timeline[u] <= completed[u] => dev.timeline[u] <= completed'[u] BY <1>4
  <2> QED BY <2>1, <2>2
<1>9. \A c \in Cmds : cmd'[c].status \in {"idle", "recording"} => dev'.at[c][2] = 0
  BY <1>2 DEF SyncInv
<1>10. HandlesKnown' BY <1>2 DEF SyncInv, HandlesKnown
<1>11. \A f \in Slots : Turn(f)' = Turn(f) BY <1>2 DEF Turn, Current
<1>12. RecycleOrdered'
  <2> SUFFICES ASSUME NEW f \in Slots, NEW x \in dev.recycle[f]
               PROVE  /\ f < dev.count
                      /\ \/ Done(x)'
                         \/ \E g \in Slots : g < dev.count /\ x[2] <= dev.fence[g][x[1]] /\ Turn(g) <= Turn(f)
    BY <1>2, <1>11 DEF RecycleOrdered
  <2>1. x \in Batches BY <1>1, SyncFields
  <2> QED BY <1>5, <2>1 DEF SyncInv, RecycleOrdered
<1>13. ASSUME NEW f \in Slots, NEW u \in Types, FenceCovers(dev, f, u)
       PROVE  FenceCovers(dev, f, u)'
  <2> DEFINE last == <<u, dev.fence[f][u]>>
  <2>1. last = <<u, dev'.fence[f][u]>> /\ last \in Batches BY <1>1, <1>2, DevFields DEF Batches
  <2> HIDE DEF last
  <2>2. CASE Done(last)
    <3>1. Done(last)' BY <1>5, <2>1, <2>2 DEF last
    <3> QED BY <1>2, <2>1, <3>1 DEF FenceCovers, last
  <2>3. CASE last \in dev.waitFences[f] BY <1>2, <2>1, <2>3 DEF FenceCovers
  <2>4. ASSUME NEW b \in dev.waitFences[f], ~Done(b), b[2] <= dev.timeline[b[1]],
               NEW w \in dev.queue[b[1]][b[2] - completed[b[1]]], BatchOf(w) = last
        PROVE  FenceCovers(dev, f, u)'
    <3>1. b[1] \in Types /\ b[2] \in Nat BY <1>1, SyncFields
    <3> DEFINE n == b[2] - completed[b[1]]
    <3>2. /\ completed[b[1]] \in Nat /\ Len(dev.queue[b[1]]) \in Nat
          /\ dev.timeline[b[1]] = completed[b[1]] + Len(dev.queue[b[1]])
      BY <1>4, <3>1
    <3>3. completed[b[1]] < b[2] BY <2>4, <3>1, <3>2 DEF Done
    <3>4. n \in 1 .. Len(dev.queue[b[1]]) BY <2>4, <3>1, <3>2, <3>3
    <3>5. CASE b[1] = t /\ n = 1
      <4>1. Done(last) BY <1>3, <2>4, <3>5 DEF Done, BatchOf
      <4> QED BY <2>2, <4>1
    <3>6. CASE b[1] = t /\ n # 1
      <4>1. /\ completed'[t] = completed[t] + 1 /\ Len(dev'.queue[t]) = Len(dev.queue[t]) - 1
            /\ completed[t] \in Nat /\ Len(dev.queue[t]) \in Nat
        BY <1>3, <3>2, <3>6
      <4>2. n - 1 \in 1 .. Len(dev'.queue[t]) /\ n - 1 = b[2] - completed'[b[1]]
        BY <3>1, <3>6, <3>4, <4>1
      <4>3. (n - 1) + 1 = n BY <3>4
      <4>4. dev'.queue[t][n - 1] = dev.queue[t][n] BY <1>3, <4>2, <4>3
      <4>5. ~Done(b)' BY <3>1, <3>6, <3>4, <4>1 DEF Done
      <4>6. w \in dev'.queue[b[1]][b[2] - completed'[b[1]]] BY <2>4, <3>6, <4>2, <4>4
      <4> QED BY <1>2, <2>1, <2>4, <4>5, <4>6 DEF FenceCovers
    <3>7. CASE b[1] # t
      <4>1. completed'[b[1]] = completed[b[1]] /\ Len(dev'.queue[b[1]]) = Len(dev.queue[b[1]])
        BY <1>3, <3>1, <3>7
      <4>2. dev'.queue[b[1]][n] = dev.queue[b[1]][n] BY <1>3, <3>1, <3>4, <3>7, <4>1
      <4>3. ~Done(b)' BY <2>4, <4>1 DEF Done
      <4>4. w \in dev'.queue[b[1]][b[2] - completed'[b[1]]] BY <2>4, <4>1, <4>2
      <4> QED BY <1>2, <2>1, <2>4, <4>3, <4>4 DEF FenceCovers
    <3> QED BY <3>5, <3>6, <3>7
  <2> QED BY <1>13, <2>2, <2>3, <2>4 DEF FenceCovers, last
<1>14. ~Timeline => FramesFenced(dev)'
  BY <1>2, <1>13 DEF SyncInv, FramesFenced
<1>15. ~Timeline => VerticesPending(dev)'
  BY <1>2 DEF SyncInv, VerticesPending
<1>16. dev'.staged = {} BY <1>2 DEF SyncInv
<1> QED BY <1>6, <1>7, <1>8, <1>9, <1>10, <1>12, <1>14, <1>15, <1>16 DEF SyncInv

-----------------------------------------------------------------------------
(* A new device has submitted nothing.                                     *)
LEMMA InitiallySound == Init => SyncInv
<1> SUFFICES ASSUME Init PROVE SyncInv OBVIOUS
<1> USE FramesAssumption
<1>1. /\ dev.count \in FrameCounts
      /\ dev.timeline = [t \in Types |-> 0]
      /\ dev.subs = [f \in Slots |-> [t \in Types |-> {}]]
      /\ dev.fence = [f \in Slots |-> [t \in Types |-> 0]]
  BY DEF Init
<1>2. /\ dev.queue = [t \in Types |-> <<>>] /\ dev.recycle = [f \in Slots |-> {}]
      /\ dev.vbo = {} /\ dev.staged = {}
      /\ dev.at = [c \in Cmds |-> NoBatch]
  BY DEF Init
<1>3. /\ \A c \in Cmds : cmd[c].block = "none"
      /\ app.semaphores = {} /\ app.fences = {}
      /\ completed = [t \in Types |-> 0]
  BY DEF Init
<1>4. QueueLengths(dev) BY <1>1, <1>2, <1>3 DEF QueueLengths
<1>5. NotYetSent(dev) BY <1>1 DEF NotYetSent
<1>6. LatestCovered(dev) BY <1>1, <1>3 DEF LatestCovered
<1>7. \A c \in Cmds : dev.at[c][2] = 0 BY <1>2 DEF NoBatch
<1>8. HandlesKnown BY <1>3 DEF HandlesKnown
<1>9. RecycleOrdered BY <1>2 DEF RecycleOrdered
<1>10. FramesFenced(dev) BY <1>1, <1>3 DEF FramesFenced, FenceCovers, Done
<1>11. VerticesPending(dev) BY <1>2, <1>3 DEF VerticesPending
<1> QED BY <1>2, <1>4, <1>5, <1>6, <1>7, <1>8, <1>9, <1>10, <1>11 DEF SyncInv

(* FlushFrame keeps the invariant.                                         *)
LEMMA FlushFrameSync ==
  ASSUME IInv, SyncInv, FlushFrame
  PROVE  SyncInv' /\ Kept
<1>1. Unlocked /\ dev' = FlushAll(dev) /\ cmd' = cmd /\ app' = app /\ completed' = completed
  BY DEF FlushFrame
<1>2. Sound(dev) /\ completed \in [Types -> Nat] BY <1>1, InvariantSound
<1>3. Flushes(dev, dev') BY <1>1, <1>2, FlushAllFlushes
<1> QED BY <1>1, <1>3, FlushedStep

(* Calls from any thread keep the invariant.                               *)
LEMMA AnyThreadSync ==
  ASSUME IInv, SyncInv, ~Timeline => VertexCopiesAwaited, AnyThread
  PROVE  SyncInv' /\ Kept
<1>1. dev' \in DevType
  <2>1. ~BeginFrame BY DEF AnyThread, BeginFrame, Unlocked, Record, RequestCommandBuffer, RequestBlock,
                       Finish, Submit, SubmitEmpty, AddWaitSemaphore, FlushFrame, Destroy,
                       DropSemaphore, DropFence
  <2> QED BY <2>1, NextStep DEF Next, IInv, TypeOK
<1>2. CASE \E c \in Cmds : Record(c) \/ RequestBlock(c) \/ Finish(c)
  BY <1>1, <1>2, RecordSync, RequestBlockSync, FinishSync DEF Finish
<1>3. CASE \E t \in Types, demand \in Demands \cup {"none"} : SubmitEmpty(t, demand)
  BY <1>3, SubmitEmptySync
<1>4. CASE \E t \in Types, s \in app.semaphores, stages \in WaitStages, flush \in BOOLEAN :
             AddWaitSemaphore(t, s, stages, flush)
  BY <1>4, AddWaitSemaphoreSync
<1>5. CASE FlushFrame BY <1>5, FlushFrameSync
<1>6. CASE \E o \in Objects : Destroy(o) BY <1>6, DestroySync
<1>7. CASE (\E s \in app.semaphores : DropSemaphore(s)) \/ (\E f \in app.fences : DropFence(f))
  BY <1>7, DropSync
<1> QED BY <1>2, <1>3, <1>4, <1>5, <1>6, <1>7 DEF AnyThread

(* While a call blocks, no other may leave the wait but the one that       *)
(* blocked; and BeginFrame is the one that NextFrameContext blocks in.     *)
LEMMA OnlyBeginFrame ==
  ASSUME IInv, Next, dev.lock = "next", dev'.lock = "free"
  PROVE  BeginFrame
<1>1. ~Unlocked BY DEF Unlocked
<1>2. ~AnyThread
  BY <1>1 DEF AnyThread, Record, RequestCommandBuffer, RequestBlock, Finish, Submit, SubmitEmpty,
              AddWaitSemaphore, FlushFrame, Destroy, DropSemaphore, DropFence
<1>3. ~\E t \in Types : Complete(t)
  BY Zenon DEF Complete, IInv, TypeOK, DevType
<1> QED BY <1>1, <1>2, <1>3 DEF Next, FramePushing, EndFrameContext, NextFrameContext, WaitIdle,
                              Drained, WaitIdleDone, InitFrameContexts, IdleReached

(* Every step keeps both invariants, and either submits and completes      *)
(* nothing, or begins frames, or is the GPU completing a batch.            *)
LEMMA SyncNextStep ==
  ASSUME IInv, SyncInv, ~Timeline => VertexCopiesAwaited, [Next]_vars
  PROVE  /\ IInv' /\ SyncInv'
         /\ Kept \/ Returned \/ \E t \in Types : Complete(t)
<1>1. BeginFrame => \A t \in Types : dev.fence[dev.index][t] <= completed[t]
  BY FrameOver DEF BeginFrame
<1>2. IInv' BY <1>1, NextStep
<1>3. CASE AnyThread BY <1>2, <1>3, AnyThreadSync
<1>4. CASE FramePushing
  <2>1. CASE BeginFrame BY <1>2, <2>1, BeginSync
  <2>2. CASE WaitIdleDone BY <1>2, <2>2, WaitIdleDoneSync
  <2>3. CASE \E n \in FrameCounts : InitFrameContexts(n) BY <1>2, <2>3, InitFrameContextsSync
  <2> QED BY <1>2, <1>4, <2>1, <2>2, <2>3, EndFrameSync DEF FramePushing
<1>5. CASE \E t \in Types : Complete(t) BY <1>2, <1>5, CompleteSync
<1>6. CASE UNCHANGED vars
  <2>1. dev' = dev /\ cmd' = cmd /\ obj' = obj /\ app' = app /\ completed' = completed
    BY <1>6 DEF vars
  <2>2. QueueLengths(dev)' /\ NotYetSent(dev)' /\ LatestCovered(dev)'
    BY <2>1 DEF SyncInv, QueueLengths, NotYetSent, LatestCovered
  <2>3. HandlesKnown' /\ RecycleOrdered'
    BY <2>1 DEF SyncInv, HandlesKnown, RecycleOrdered, Done, Turn, Current
  <2>4. ~Timeline => FramesFenced(dev)' /\ VerticesPending(dev)'
    BY <2>1 DEF SyncInv, FramesFenced, FenceCovers, Done, VerticesPending
  <2>5. SyncInv' BY <2>1, <2>2, <2>3, <2>4 DEF SyncInv
  <2> QED BY <1>2, <2>1, <2>5 DEF Kept
<1> QED BY <1>3, <1>4, <1>5, <1>6 DEF Next

-----------------------------------------------------------------------------
(* In both modes, with timeline semaphores or without, the two invariants  *)
(* always hold - provided, in the second, that vertex copies are awaited.  *)
THEOREM SyncInvariant ==
  ASSUME Timeline = TRUE \/ VertexCopiesAwaited
  PROVE  Spec => [](IInv /\ SyncInv)
<1>1. Init => IInv /\ SyncInv BY Initially, InitiallySound
<1>2. IInv /\ SyncInv /\ [Next]_vars => (IInv /\ SyncInv)' BY SyncNextStep
<1> QED BY <1>1, <1>2, PTL DEF Spec

(* device_frame_contexts.cpp:96, "Make sure we have a fence which covers   *)
(* all submissions in the frame": with timeline semaphores or without,     *)
(* every batch of a frame is complete when PerFrame::Begin has waited,     *)
(* though without them only some batches have a fence of their own.        *)
THEOREM FrameIsOverHolds ==
  ASSUME Timeline = TRUE \/ VertexCopiesAwaited
  PROVE  Spec => FrameIsOver
<1>1. IInv /\ SyncInv /\ [Next]_vars
        => [dev.lock = "next" /\ dev'.lock = "free"
              => \A t \in Types : dev.fence[dev.index][t] <= completed[t]]_vars
  BY OnlyBeginFrame, FrameOver DEF BeginFrame
<1> QED BY <1>1, SyncInvariant, PTL DEF Spec, FrameIsOver

(* No object is freed while a command buffer that uses it is being         *)
(* recorded, is pending or is being executed.                              *)
THEOREM ObjectsSafe ==
  ASSUME Timeline = TRUE \/ VertexCopiesAwaited
  PROVE  Spec => []NoUseAfterFree
BY SyncInvariant, IInvSafe, PTL

(* PerFrame::Begin resets a command pool only when all its command buffers *)
(* have been executed.                                                     *)
THEOREM PoolsSafe ==
  ASSUME Timeline = TRUE \/ VertexCopiesAwaited
  PROVE  Spec => []CommandPoolSafe
BY SyncInvariant, IInvSafe, PTL

(* Every field of Device keeps its type; that lock.counter never goes      *)
(* below zero needs the whole count of command buffers being recorded.     *)
THEOREM TypesKept ==
  ASSUME Timeline = TRUE \/ VertexCopiesAwaited
  PROVE  Spec => []TypeOK
BY SyncInvariant, IInvSafe, PTL

(* A binary semaphore or fence is recycled only when the batch that waits  *)
(* for it or signals it is complete, whichever frame its handle was        *)
(* dropped in.                                                             *)
THEOREM SyncObjectsIdleHolds ==
  ASSUME Timeline = TRUE \/ VertexCopiesAwaited
  PROVE  Spec => SyncObjectsIdle
<1>1. ASSUME IInv, SyncInv, [Next]_vars
      PROVE  \A f \in Slots : \A b \in dev.recycle[f] \ dev'.recycle[f] : Done(b)
  <2>1. CASE Kept BY <2>1 DEF Kept
  <2>2. CASE Returned BY <2>2 DEF Returned
  <2>3. ASSUME NEW t \in Types, Complete(t)
        PROVE  \A f \in Slots : \A b \in dev.recycle[f] \ dev'.recycle[f] : Done(b)
    <3>1. dev \in DevType /\ completed \in [Types -> Nat] /\ QueueLengths(dev)
      BY <1>1 DEF IInv, TypeOK, SyncInv
    <3>2. dev'.recycle = dev.recycle BY <2>3, <3>1, CompletedFields
    <3> QED BY <3>2
  <2> QED BY <1>1, <2>1, <2>2, <2>3, SyncNextStep
<1> QED BY <1>1, SyncInvariant, PTL DEF Spec, SyncObjectsIdle

-----------------------------------------------------------------------------
(* What DeferredDeletion sees of the command buffers.                      *)
WorkSeen == [c \in Cmds |-> IF cmd[c].status = "idle" THEN "idle"
                            ELSE IF Executed(c) THEN "executed" ELSE "inFlight"]
UsesSeen == [c \in Cmds |-> cmd[c].uses]

(* Only the GPU executes: a command buffer that a call adds to a batch has *)
(* not been executed by that.                                              *)
LEMMA OnlyGpuExecutes ==
  ASSUME IInv, IInv', SyncInv, Kept \/ Returned, NEW c \in Cmds
  PROVE  Executed(c)' <=> Executed(c)
<1>1. CASE dev'.at[c] = dev.at[c] /\ completed' = completed BY <1>1 DEF Executed, Done
<1>2. CASE /\ dev.at[c][2] = 0 /\ dev'.at[c][2] > dev.timeline[dev'.at[c][1]]
           /\ completed' = completed
  <2> DEFINE t == dev'.at[c][1]
  <2>1. /\ t \in Types /\ dev'.at[c][2] \in Nat /\ completed \in [Types -> Nat]
        /\ dev \in DevType /\ dev' \in DevType
    BY DevFields DEF IInv, TypeOK
  <2>2. /\ dev.timeline[t] = completed[t] + Len(dev.queue[t]) /\ Len(dev.queue[t]) \in Nat
        /\ completed[t] \in Nat
    BY <2>1, SyncFields DEF SyncInv, QueueLengths
  <2>3. completed[t] < dev'.at[c][2] BY <1>2, <2>1, <2>2
  <2> QED BY <1>2, <2>1, <2>2, <2>3 DEF Executed, Done
<1> QED BY <1>1, <1>2 DEF Kept, Returned

(* Whoever neither starts, executes, drops nor frees changes nothing that  *)
(* is seen.                                                                *)
LEMMA NothingSeen ==
  ASSUME obj' = obj,
         \A c \in Cmds : /\ (cmd'[c].status = "idle") <=> (cmd[c].status = "idle")
                         /\ cmd'[c].uses = cmd[c].uses
                         /\ Executed(c)' <=> Executed(c)
  PROVE  UNCHANGED Deletion!vars
<1>1. WorkSeen' = WorkSeen BY DEF WorkSeen
<1>2. UsesSeen' = UsesSeen BY DEF UsesSeen
<1> QED BY <1>1, <1>2 DEF WorkSeen, UsesSeen, Deletion!vars

(* Recording a command buffer starts it.                                   *)
LEMMA RecordStarts ==
  ASSUME IInv, SyncInv, NEW c \in Cmds, Record(c), \A b \in Cmds : Executed(b)' <=> Executed(b)
  PROVE  Deletion!Start(c)
<1>1. PICK w \in Work[c] : RequestCommandBuffer(c, PhysicalType(w[1]), w[2], w[3],
                                               PossibleStages({w[3]}) \cap CommandStages(w[1]))
  BY DEF Record
<1> DEFINE recorded == [status |-> "recording", type |-> PhysicalType(w[1]), home |-> dev.index,
                        uses |-> w[2], block |-> w[3],
                        reads |-> PossibleStages({w[3]}) \cap CommandStages(w[1])]
<1>2. /\ cmd[c].status = "idle" /\ \A o \in w[2] : obj[o] = "live"
      /\ cmd' = [cmd EXCEPT ![c] = recorded] /\ obj' = obj
  BY <1>1 DEF RequestCommandBuffer
<1>3. cmd \in [Cmds -> CmdType] BY DEF IInv, TypeOK
<1>4. /\ \A b \in Cmds \ {c} : cmd'[b] = cmd[b]
      /\ cmd'[c].status = "recording" /\ cmd'[c].uses = w[2]
  BY <1>2, <1>3
<1>5. ~Executed(c) BY <1>2, <1>3 DEF SyncInv, Executed
<1>6. w[2] \in SUBSET {o \in Objects : obj[o] = "live"} BY <1>2, WorkAssumption
<1>7. WorkSeen[c] = "idle" BY <1>2 DEF WorkSeen
<1>8. UsesSeen' = [UsesSeen EXCEPT ![c] = w[2]] BY <1>4 DEF UsesSeen
<1>9. WorkSeen' = [WorkSeen EXCEPT ![c] = "inFlight"] BY <1>4, <1>5 DEF WorkSeen
<1> QED BY <1>2, <1>6, <1>7, <1>8, <1>9 DEF Deletion!Start, WorkSeen, UsesSeen

(* Completing a batch executes the command buffers in it, and no others.   *)
LEMMA CompleteExecutes ==
  ASSUME IInv, SyncInv, NEW t \in Types, Complete(t)
  PROVE  \E batch \in SUBSET Cmds : Deletion!Execute(batch)
<1> DEFINE batch == {c \in Cmds : dev.at[c][1] = t /\ dev.at[c][2] = completed[t] + 1}
<1>1. /\ dev \in DevType /\ completed \in [Types -> Nat] /\ QueueLengths(dev)
  BY DEF IInv, TypeOK, SyncInv
<1>2. /\ cmd' = cmd /\ obj' = obj /\ dev'.at = dev.at
      /\ \A u \in Types : completed'[u] = IF u = t THEN completed[u] + 1 ELSE completed[u]
  BY <1>1, CompletedFields
<1>3. \A c \in Cmds : dev.at[c][1] \in Types /\ dev.at[c][2] \in Nat BY <1>1, DevFields
<1>4. \A c \in Cmds : (Executed(c)' <=> Executed(c) \/ c \in batch) /\ (c \in batch => ~Executed(c))
  <2> TAKE c \in Cmds
  <2>1. CASE dev.at[c][1] = t
    <3>1. /\ completed'[t] = completed[t] + 1 /\ completed[t] \in Nat /\ dev.at[c][2] \in Nat
      BY <1>1, <1>2, <1>3
    <3> QED BY <1>2, <2>1, <3>1 DEF Executed, Done
  <2>2. CASE dev.at[c][1] # t
    <3>1. completed'[dev.at[c][1]] = completed[dev.at[c][1]] BY <1>2, <1>3, <2>2
    <3> QED BY <1>2, <2>2, <3>1 DEF Executed, Done
  <2> QED BY <2>1, <2>2
<1>5. \A c \in batch : cmd[c].status # "idle"
  <2> SUFFICES ASSUME NEW c \in batch PROVE cmd[c].status # "idle" OBVIOUS
  <2>1. dev.at[c][2] # 0 BY <1>1
  <2> QED BY <2>1 DEF SyncInv
<1> HIDE DEF batch
<1>6. batch \in SUBSET Cmds BY DEF batch
<1>7. \A c \in batch : WorkSeen[c] = "inFlight" BY <1>4, <1>5, <1>6 DEF WorkSeen
<1>8. WorkSeen' = [c \in Cmds |-> IF c \in batch THEN "executed" ELSE WorkSeen[c]]
  BY <1>2, <1>4, <1>5, <1>6 DEF WorkSeen
<1>9. UsesSeen' = UsesSeen BY <1>2 DEF UsesSeen
<1> QED BY <1>2, <1>6, <1>7, <1>8, <1>9 DEF Deletion!Execute, WorkSeen, UsesSeen

(* Destroy drops an object.                                                *)
LEMMA DestroyDrops ==
  ASSUME NEW o \in Objects, Destroy(o), \A c \in Cmds : Executed(c)' <=> Executed(c)
  PROVE  Deletion!Drop(o)
<1>1. obj[o] = "live" /\ obj' = [obj EXCEPT ![o] = "dead"] /\ cmd' = cmd BY DEF Destroy
<1>2. WorkSeen' = WorkSeen BY <1>1 DEF WorkSeen
<1>3. UsesSeen' = UsesSeen BY <1>1 DEF UsesSeen
<1> QED BY <1>1, <1>2, <1>3 DEF Deletion!Drop, WorkSeen, UsesSeen

(* PerFrame::Begin frees what was dropped and is used no more.             *)
LEMMA BeginFrees ==
  ASSUME IInv, IInv', NEW S \in SUBSET Slots, BeginCmds(S), BeginObjects(S),
         \A c \in Cmds : Executed(c)' <=> Executed(c)
  PROVE  \E garbage \in SUBSET Objects : Deletion!Free(garbage)
<1> DEFINE garbage == {o \in Objects : \E f \in S : o \in dev.destroyed[f]}
<1>1. /\ cmd \in [Cmds -> CmdType] /\ obj \in [Objects -> {"live", "dead", "freed"}]
  BY DEF IInv, TypeOK
<1>2. /\ obj' \in [Objects -> {"live", "dead", "freed"}]
      /\ \A o \in Objects : obj'[o] = IF o \in garbage THEN "freed" ELSE obj[o]
  BY <1>1, BeginObjectsFields
<1>3. \A c \in Cmds : /\ (cmd'[c].status = "idle") <=> (cmd[c].status = "idle")
                      /\ cmd'[c].uses = cmd[c].uses
  <2> TAKE c \in Cmds
  <2>1. /\ cmd'[c].uses = cmd[c].uses
        /\ cmd'[c].status = IF cmd[c].status \in {"recording", "submitted"} /\ cmd[c].home \in S
                            THEN "reset" ELSE cmd[c].status
    BY <1>1, BeginCmdsFields
  <2> QED BY <2>1
<1>4. \A o \in garbage : obj[o] = "dead" BY DEF IInv, DroppedOnce
<1>5. ASSUME NEW o \in garbage, NEW c \in Cmds, o \in cmd[c].uses
      PROVE  WorkSeen[c] = "executed"
  <2>1. cmd[c].status # "idle" BY <1>5 DEF IInv, CmdsCovered
  <2>2. NoUseAfterFree' BY IInvSafe, PTL
  <2>3. obj'[o] = "freed" /\ o \in cmd'[c].uses BY <1>2, <1>3, <1>5
  <2>4. Executed(c) BY <2>2, <2>3 DEF NoUseAfterFree
  <2> QED BY <2>1, <2>4 DEF WorkSeen
<1> HIDE DEF garbage
<1>6. garbage \in SUBSET Objects BY DEF garbage
<1>7. obj' = [o \in Objects |-> IF o \in garbage THEN "freed" ELSE obj[o]] BY <1>2
<1>8. WorkSeen' = WorkSeen BY <1>3 DEF WorkSeen
<1>9. UsesSeen' = UsesSeen /\ \A c \in Cmds : UsesSeen[c] = cmd[c].uses BY <1>3 DEF UsesSeen
<1> QED BY <1>4, <1>5, <1>6, <1>7, <1>8, <1>9
        DEF Deletion!Free, Deletion!Unused, WorkSeen, UsesSeen

(* Every step of the Device is one of DeferredDeletion, or is not seen.    *)
LEMMA DeletionStep ==
  ASSUME IInv, SyncInv, ~Timeline => VertexCopiesAwaited, [Next]_vars
  PROVE  [Deletion!Next]_(Deletion!vars)
<1>1. IInv' /\ (Kept \/ Returned \/ \E t \in Types : Complete(t)) BY SyncNextStep
<1>2. CASE \E t \in Types : Complete(t)
  BY <1>2, CompleteExecutes DEF Deletion!Next
<1>3. CASE Kept \/ Returned
  <2>1. \A c \in Cmds : Executed(c)' <=> Executed(c) BY <1>1, <1>3, OnlyGpuExecutes
  <2>2. dev \in DevType /\ cmd \in [Cmds -> CmdType] BY DEF IInv, TypeOK
  <2>3. ASSUME NEW c \in Cmds, Record(c) PROVE Deletion!Next
    BY <2>1, <2>3, RecordStarts DEF Deletion!Next
  <2>4. ASSUME NEW o \in Objects, Destroy(o) PROVE Deletion!Next
    BY <2>1, <2>4, DestroyDrops DEF Deletion!Next
  <2>5. ASSUME NEW S \in SUBSET Slots, BeginCmds(S), BeginObjects(S) PROVE Deletion!Next
    BY <1>1, <2>1, <2>5, BeginFrees DEF Deletion!Next
  <2>6. 0 .. dev.count - 1 \in SUBSET Slots
    BY <2>2, DevFields, FramesAssumption DEF Slots
  <2>7. ASSUME cmd' = cmd, obj' = obj PROVE UNCHANGED Deletion!vars
    BY <2>1, <2>7, NothingSeen
  <2>8. ASSUME NEW c \in Cmds, RequestBlock(c) PROVE UNCHANGED Deletion!vars
    <3>1. obj' = obj /\ cmd' = [cmd EXCEPT ![c].block = "given"] BY <2>8 DEF RequestBlock
    <3>2. \A b \in Cmds : cmd'[b].status = cmd[b].status /\ cmd'[b].uses = cmd[b].uses
      BY <2>2, <3>1 DEF CmdType
    <3> QED BY <2>1, <3>1, <3>2, NothingSeen
  <2>9. ASSUME NEW c \in Cmds, NEW demand, Submit(c, demand) PROVE UNCHANGED Deletion!vars
    <3>1. /\ obj' = obj /\ cmd[c].status = "recording"
          /\ cmd' = [cmd EXCEPT ![c].status = "submitted", ![c].block = BlockGiven(@)]
      BY <2>9 DEF Submit
    <3>2. \A b \in Cmds : /\ (cmd'[b].status = "idle") <=> (cmd[b].status = "idle")
                          /\ cmd'[b].uses = cmd[b].uses
      <4> TAKE b \in Cmds
      <4>1. CASE b # c BY <2>2, <3>1, <4>1
      <4>2. CASE b = c
        <5>1. cmd'[c].status = "submitted" /\ cmd'[c].uses = cmd[c].uses
          BY <2>2, <3>1 DEF CmdType
        <5> QED BY <3>1, <4>2, <5>1
      <4> QED BY <4>1, <4>2
    <3> QED BY <2>1, <3>1, <3>2, NothingSeen
  <2>10. CASE AnyThread
    <3>1. CASE \E c \in Cmds : Record(c) \/ RequestBlock(c) \/ Finish(c)
      BY <2>3, <2>8, <2>9, <3>1 DEF Finish
    <3>2. CASE \/ \E t \in Types, demand \in Demands \cup {"none"} : SubmitEmpty(t, demand)
               \/ \E t \in Types, s \in app.semaphores, stages \in WaitStages, flush \in BOOLEAN :
                    AddWaitSemaphore(t, s, stages, flush)
               \/ FlushFrame
               \/ \E s \in app.semaphores : DropSemaphore(s)
               \/ \E f \in app.fences : DropFence(f)
      <4>1. cmd' = cmd /\ obj' = obj
        BY <3>2 DEF SubmitEmpty, AddWaitSemaphore, FlushFrame, DropSemaphore, DropFence
      <4> QED BY <2>7, <4>1
    <3>3. CASE \E o \in Objects : Destroy(o) BY <2>4, <3>3
    <3> QED BY <2>10, <3>1, <3>2, <3>3 DEF AnyThread
  <2>11. CASE FramePushing
    <3>1. CASE BeginFrame
      <4>1. {dev.index} \in SUBSET Slots BY <2>2, DevFields
      <4> QED BY <2>5, <3>1, <4>1 DEF BeginFrame
    <3>2. CASE WaitIdleDone \/ \E n \in FrameCounts : InitFrameContexts(n)
      BY <2>5, <2>6, <3>2 DEF WaitIdleDone, InitFrameContexts, IdleReached
    <3>3. CASE EndFrameContext \/ NextFrameContext \/ WaitIdle("idle") \/ WaitIdle("init")
      BY <2>7, <3>3 DEF EndFrameContext, NextFrameContext, WaitIdle
    <3> QED BY <2>11, <3>1, <3>2, <3>3 DEF FramePushing
  <2>12. CASE UNCHANGED vars BY <2>7, <2>12 DEF vars
  <2> QED BY <1>2, <2>10, <2>11, <2>12 DEF Next
<1> QED BY <1>1, <1>2, <1>3

(* The frame contexts, fences and lists implement DeferredDeletion: seen   *)
(* from outside an object dies once, is never used again once dropped, and *)
(* is freed once and only when no command can touch it.                    *)
THEOREM DeletionImplemented ==
  ASSUME Timeline = TRUE \/ VertexCopiesAwaited
  PROVE  Spec => ImplementsDeletion
<1>1. Init => Deletion!Init
  <2> SUFFICES ASSUME Init PROVE Deletion!Init OBVIOUS
  <2>1. /\ cmd = [c \in Cmds |-> [status |-> "idle", type |-> "graphics", home |-> 0,
                                  uses |-> {}, block |-> "none", reads |-> {}]]
        /\ obj = [o \in Objects |-> "live"]
    BY DEF Init
  <2> QED BY <2>1 DEF Deletion!Init
<1>2. IInv /\ SyncInv /\ [Next]_vars => [Deletion!Next]_(Deletion!vars) BY DeletionStep
<1> QED BY <1>1, <1>2, SyncInvariant, PTL DEF Spec, ImplementsDeletion, Deletion!Spec
=============================================================================
