----------------------- MODULE DeviceSubmission_proofs -----------------------
(***************************************************************************)
(* The safety of DeviceSubmission for any number of command buffers,       *)
(* objects and frame contexts, any queue topology and any recorded work.   *)
(*                                                                         *)
(* The argument has two halves.  The calls that submit work are chains of  *)
(* record updates, so they are related by Submits, a transitive relation   *)
(* between two values of dev that says what a frame may rely on: nothing   *)
(* of another frame changes, and a command buffer that leaves the pending  *)
(* lists is in a batch that the frame's fence value covers.  Each operator *)
(* is shown to be such a submission from the operators it is made of.      *)
(* Then each action is shown to keep the inductive invariant IInv.         *)
(***************************************************************************)
EXTENDS DeviceSubmission, TLAPS, FiniteSetTheorems

(* The fence values of dev's frames have been submitted.                   *)
Fenced(d) == \A f \in Slots, t \in Types : d.fence[f][t] <= d.timeline[t]
Good(d) == d \in DevType /\ Fenced(d)

(* c is pending in the current frame; c is in a batch that the fence value *)
(* of the current frame covers.                                            *)
Queued(d, c) == \E t \in Types : c \in d.subs[d.index][t]
Sent(d, c) == d.at[c][2] > 0 /\ d.at[c][2] <= d.fence[d.index][d.at[c][1]]

(* From d to e, work of the current frame was submitted, or nothing at all *)
(* was.                                                                    *)
Submits(d, e) ==
  /\ Good(e)
  /\ e.lock = d.lock /\ e.counter = d.counter /\ e.index = d.index
  /\ e.count = d.count /\ e.destroyed = d.destroyed
  /\ \A f \in Slots, t \in Types :
       /\ d.timeline[t] <= e.timeline[t] /\ d.fence[f][t] <= e.fence[f][t]
       /\ f # d.index => e.fence[f][t] = d.fence[f][t]
       /\ e.subs[f][t] \subseteq d.subs[f][t]
  /\ \A c \in Cmds :
       \/ /\ e.at[c] = d.at[c]
          /\ \A f \in Slots, t \in Types : c \in d.subs[f][t] => c \in e.subs[f][t]
       \/ Queued(d, c) /\ Sent(e, c)

(* Submitting nothing is a submission.                                    *)
LEMMA SubmitsReflexive == ASSUME NEW d, Good(d) PROVE Submits(d, d)
BY DEF Submits, Good, DevType

(* Submissions compose: what one covers the next one leaves covered.      *)
LEMMA SubmitsTransitive ==
  ASSUME NEW d, NEW e, NEW g, Good(d), Submits(d, e), Submits(e, g)
  PROVE  Submits(d, g)
<1>1. d \in DevType /\ e \in DevType /\ g \in DevType BY DEF Submits, Good
<1>2. \A f \in Slots, t \in Types :
        /\ d.timeline[t] \in Nat /\ e.timeline[t] \in Nat /\ g.timeline[t] \in Nat
        /\ d.fence[f][t] \in Nat /\ e.fence[f][t] \in Nat /\ g.fence[f][t] \in Nat
  BY <1>1 DEF DevType
<1>3. \A f \in Slots, t \in Types :
       /\ d.timeline[t] <= g.timeline[t] /\ d.fence[f][t] <= g.fence[f][t]
       /\ f # d.index => g.fence[f][t] = d.fence[f][t]
       /\ g.subs[f][t] \subseteq d.subs[f][t]
  BY <1>2 DEF Submits
<1>4. ASSUME NEW c \in Cmds
      PROVE  \/ /\ g.at[c] = d.at[c]
                /\ \A f \in Slots, t \in Types : c \in d.subs[f][t] => c \in g.subs[f][t]
             \/ Queued(d, c) /\ Sent(g, c)
  <2>1. CASE g.at[c] = e.at[c] /\ \A f \in Slots, t \in Types : c \in e.subs[f][t] => c \in g.subs[f][t]
    <3>1. CASE e.at[c] = d.at[c] /\ \A f \in Slots, t \in Types : c \in d.subs[f][t] => c \in e.subs[f][t]
      BY <2>1, <3>1
    <3>2. CASE Queued(d, c) /\ Sent(e, c)
      <4>1. e.at[c][1] \in Types /\ e.at[c][2] \in Nat /\ e.index \in Slots /\ g.index = e.index
        BY <1>1 DEF DevType, Batches, Submits
      <4>2. e.fence[e.index][e.at[c][1]] <= g.fence[e.index][e.at[c][1]]
        BY <4>1 DEF Submits
      <4>3. Sent(g, c) BY <1>2, <2>1, <3>2, <4>1, <4>2 DEF Sent
      <4> QED BY <3>2, <4>3
    <3> QED BY <3>1, <3>2 DEF Submits
  <2>2. CASE Queued(e, c) /\ Sent(g, c)
    <3>1. Queued(d, c)
      BY <1>1, <2>2 DEF Queued, Submits, DevType
    <3> QED BY <2>2, <3>1
  <2> QED BY <2>1, <2>2 DEF Submits
<1> QED BY <1>3, <1>4 DEF Submits

(* A change of fields that no frame depends on is a submission.           *)
LEMMA SameSubmits ==
  ASSUME NEW d, Good(d), NEW e \in DevType,
         e.lock = d.lock, e.counter = d.counter, e.index = d.index,
         e.count = d.count, e.destroyed = d.destroyed,
         e.timeline = d.timeline, e.fence = d.fence, e.subs = d.subs, e.at = d.at
  PROVE  Submits(d, e)
BY DEF Submits, Good, Fenced, DevType

(* What the order of a VkQueue makes a batch wait for, and the stages at   *)
(* which SubmitStaging makes the queues wait for a copy.                  *)
LEMMA QueueOrderWaits ==
  ASSUME NEW d, d.timeline \in [Types -> Nat], NEW t \in Types
  PROVE  QueueOrder(d, t) \in SUBSET Waits
<1>1. BarrierStages \in SUBSET Stages BY DEF BarrierStages, ComputeStages, Stages
<1>2. ASSUME NEW u \in Types
      PROVE  <<u, d.timeline[u], IF u = "transfer" THEN BarrierStages ELSE {}>> \in Waits
  BY <1>1, <1>2 DEF Waits
<1> QED BY <1>2 DEF QueueOrder

LEMMA StagingWaitsType ==
  ASSUME NEW usage
  PROVE  StagingWaits(usage) \in [Types -> SUBSET Stages]
BY DEF StagingWaits, VisibleStages, PossibleStages, ComputeStages, Stages

(* One vkQueueSubmit covers every command buffer it takes with the        *)
(* frame's fence value and leaves none of its queue type pending.         *)
LEMMA EnqueueSubmits ==
  ASSUME NEW d, Good(d), NEW t \in Types
  PROVE  Submits(d, Enqueue(d, t)) /\ Enqueue(d, t).subs[d.index][t] = {}
<1> DEFINE
  batch == <<t, d.timeline[t] + 1>>
  tl == [d.timeline EXCEPT ![t] = @ + 1]
  qu == [d.queue EXCEPT ![t] = Append(@, d.waits[t] \cup QueueOrder(d, t))]
  wa == [d.waits EXCEPT ![t] = {}]
  re == [d.recycle EXCEPT ![d.index] = IF Timeline \/ d.waits[t] = {} THEN @ ELSE @ \cup {batch}]
  su == [d.subs EXCEPT ![d.index][t] = {}]
  st == IF t = "transfer" THEN {} ELSE d.staged
  at == [c \in Cmds |-> IF c \in d.subs[d.index][t] THEN batch ELSE d.at[c]]
  co == [c \in Cmds |-> IF t = "transfer" /\ c \in d.staged THEN batch ELSE d.copyAt[c]]
  fe == [d.fence EXCEPT ![d.index][t] = tl[t]]
  ne == [d.needFence EXCEPT ![t] = @ \/ ~Timeline]
  e == Enqueue(d, t)
<1>1. d \in DevType BY DEF Good
<1>2. /\ d.index \in Slots /\ d.timeline \in [Types -> Nat]
      /\ d.queue \in [Types -> Seq(SUBSET Waits)] /\ d.waits \in [Types -> SUBSET Waits]
      /\ d.recycle \in [Slots -> SUBSET Batches] /\ d.subs \in [Slots -> [Types -> SUBSET Cmds]]
      /\ d.staged \in SUBSET Cmds /\ d.at \in [Cmds -> Batches] /\ d.copyAt \in [Cmds -> Batches]
      /\ d.fence \in [Slots -> [Types -> Nat]] /\ d.needFence \in [Types -> BOOLEAN]
  BY <1>1 DEF DevType
<1>3. batch \in Batches /\ QueueOrder(d, t) \in SUBSET Waits
  <2>1. batch \in Batches BY <1>2 DEF Batches
  <2>2. QueueOrder(d, t) \in SUBSET Waits BY <1>2, QueueOrderWaits
  <2> QED BY <2>1, <2>2
<1>4. tl \in [Types -> Nat] BY <1>2
<1>5. qu \in [Types -> Seq(SUBSET Waits)]
  <2>1. d.waits[t] \cup QueueOrder(d, t) \in SUBSET Waits BY <1>2, <1>3
  <2> QED BY <1>2, <2>1
<1>6. wa \in [Types -> SUBSET Waits] BY <1>2
<1>7. re \in [Slots -> SUBSET Batches]
  <2> HIDE DEF batch
  <2> QED BY <1>2, <1>3
<1>8. su \in [Slots -> [Types -> SUBSET Cmds]] /\ st \in SUBSET Cmds BY <1>2
<1>9. at \in [Cmds -> Batches] /\ co \in [Cmds -> Batches] BY <1>2, <1>3
<1>10. fe \in [Slots -> [Types -> Nat]] BY <1>2, <1>4
<1>11. ne \in [Types -> BOOLEAN] BY <1>2
<1>12. e = [d EXCEPT !.timeline = tl, !.queue = qu, !.waits = wa, !.recycle = re, !.subs = su,
                     !.staged = st, !.at = at, !.copyAt = co, !.fence = fe, !.needFence = ne]
  BY <1>1, Zenon DEF Enqueue, CoverFrame, DevType
<1> HIDE DEF e, tl, qu, wa, re, su, st, at, co, fe, ne
<1>13. /\ e \in DevType
       /\ e.lock = d.lock /\ e.counter = d.counter /\ e.index = d.index
       /\ e.count = d.count /\ e.destroyed = d.destroyed
       /\ e.timeline = tl /\ e.fence = fe /\ e.subs = su /\ e.at = at
  BY <1>1, <1>4, <1>5, <1>6, <1>7, <1>8, <1>9, <1>10, <1>11, <1>12, Zenon DEF DevType
<1>14. Fenced(d) BY DEF Good
<1>15. ASSUME NEW f \in Slots, NEW u \in Types
       PROVE  /\ d.timeline[u] <= e.timeline[u] /\ d.fence[f][u] <= e.fence[f][u]
              /\ e.fence[f][u] <= e.timeline[u]
              /\ f # d.index => e.fence[f][u] = d.fence[f][u]
              /\ e.subs[f][u] \subseteq d.subs[f][u]
  <2>1. d.timeline[u] \in Nat /\ d.fence[f][u] \in Nat /\ d.fence[f][u] <= d.timeline[u]
    BY <1>2, <1>14 DEF Fenced
  <2>2. tl[u] = (IF u = t THEN d.timeline[u] + 1 ELSE d.timeline[u])
    BY <1>2 DEF tl
  <2>3. fe[f][u] = (IF f = d.index /\ u = t THEN tl[u] ELSE d.fence[f][u])
    BY <1>2 DEF fe
  <2>4. su[f][u] \subseteq d.subs[f][u]
    BY <1>2 DEF su
  <2> QED BY <1>13, <2>1, <2>2, <2>3, <2>4
<1>16. ASSUME NEW c \in Cmds
       PROVE  \/ /\ e.at[c] = d.at[c]
                 /\ \A f \in Slots, u \in Types : c \in d.subs[f][u] => c \in e.subs[f][u]
              \/ Queued(d, c) /\ Sent(e, c)
  <2>1. CASE c \in d.subs[d.index][t]
    <3>1. e.at[c] = batch BY <1>13, <2>1 DEF at
    <3>2. e.fence[e.index][t] = d.timeline[t] + 1 BY <1>2, <1>13 DEF fe, tl
    <3>3. batch[1] = t /\ batch[2] = d.timeline[t] + 1 /\ d.timeline[t] \in Nat BY <1>2
    <3> QED BY <2>1, <3>1, <3>2, <3>3 DEF Sent, Queued
  <2>2. CASE c \notin d.subs[d.index][t]
    <3>1. e.at[c] = d.at[c] BY <1>13, <2>2 DEF at
    <3>2. \A f \in Slots, u \in Types : c \in d.subs[f][u] => c \in su[f][u]
      BY <1>2, <2>2 DEF su
    <3> QED BY <1>13, <3>1, <3>2
  <2> QED BY <2>1, <2>2
<1>17. Good(e) BY <1>13, <1>15 DEF Good, Fenced
<1>18. e.subs[d.index][t] = {} BY <1>2, <1>13 DEF su
<1> QED BY <1>13, <1>15, <1>16, <1>17, <1>18 DEF Submits, e

(* AddWaitSemaphoreNolock submits nothing.                                *)
LEMMA AddWaitsSubmits ==
  ASSUME NEW d, Good(d), NEW stages \in [Types -> SUBSET Stages], NEW s \in Batches
  PROVE  Submits(d, AddWaits(d, stages, s))
<1> DEFINE
  wait(t) == <<s[1], s[2], stages[t]>>
  wa == [t \in Types |-> IF stages[t] = {} THEN d.waits[t] ELSE d.waits[t] \cup {wait(t)}]
  ne == [t \in Types |-> d.needFence[t] \/ stages[t] # {}]
  e == [d EXCEPT !.waits = wa, !.needFence = ne]
<1>1. wa \in [Types -> SUBSET Waits] /\ ne \in [Types -> BOOLEAN]
  <2>1. \A t \in Types : wait(t) \in Waits BY DEF Batches, Waits
  <2> HIDE DEF wait
  <2> QED BY <2>1 DEF Good, DevType
<1>2. AddWaits(d, stages, s) = e BY DEF AddWaits
<1> HIDE DEF wa, ne
<1>3. /\ e \in DevType
      /\ e.lock = d.lock /\ e.counter = d.counter /\ e.index = d.index
      /\ e.count = d.count /\ e.destroyed = d.destroyed
      /\ e.timeline = d.timeline /\ e.fence = d.fence /\ e.subs = d.subs /\ e.at = d.at
  BY <1>1, Zenon DEF DevType, Good
<1> QED BY <1>2, <1>3, SameSubmits

(* Recording the staging copies submits nothing.                          *)
LEMMA CopiedSubmits ==
  ASSUME NEW d, Good(d), NEW st \in SUBSET Cmds
  PROVE  Submits(d, [d EXCEPT !.staged = st, !.vbo = {}, !.ubo = {}])
<1> DEFINE e == [d EXCEPT !.staged = st, !.vbo = {}, !.ubo = {}]
<1>1. {} \in SUBSET Cmds OBVIOUS
<1>2. /\ e \in DevType
      /\ e.lock = d.lock /\ e.counter = d.counter /\ e.index = d.index
      /\ e.count = d.count /\ e.destroyed = d.destroyed
      /\ e.timeline = d.timeline /\ e.fence = d.fence /\ e.subs = d.subs /\ e.at = d.at
  BY <1>1, Zenon DEF DevType, Good
<1> QED BY <1>2, SameSubmits

(* Noting a fence in the frame's lists submits nothing.                   *)
LEMMA FrameFenceSubmits ==
  ASSUME NEW d, Good(d), NEW t \in Types
  PROVE  Submits(d, FrameFence(d, t)) /\ FrameFence(d, t).subs = d.subs
<1> DEFINE
  sync == <<t, d.timeline[t]>>
  grow(set) == IF Timeline THEN set ELSE set \cup {sync}
  ne == [d.needFence EXCEPT ![t] = FALSE]
  wf == [d.waitFences EXCEPT ![d.index] = grow(@)]
  re == [d.recycle EXCEPT ![d.index] = grow(@)]
  e == [d EXCEPT !.needFence = ne, !.waitFences = wf, !.recycle = re]
<1>1. /\ d.index \in Slots /\ d.timeline \in [Types -> Nat] /\ d.needFence \in [Types -> BOOLEAN]
      /\ d.waitFences \in [Slots -> SUBSET Batches] /\ d.recycle \in [Slots -> SUBSET Batches]
  BY DEF DevType, Good
<1>2. sync \in Batches BY <1>1 DEF Batches
<1>3. FrameFence(d, t) = e BY DEF FrameFence
<1>4. \A set \in SUBSET Batches : grow(set) \in SUBSET Batches
  <2> HIDE DEF sync
  <2> QED BY <1>2
<1>5. ne \in [Types -> BOOLEAN] BY <1>1
<1> HIDE DEF grow
<1>6. wf \in [Slots -> SUBSET Batches] /\ re \in [Slots -> SUBSET Batches]
  BY <1>1, <1>4
<1> HIDE DEF ne, wf, re
<1>7. /\ e \in DevType
      /\ e.lock = d.lock /\ e.counter = d.counter /\ e.index = d.index
      /\ e.count = d.count /\ e.destroyed = d.destroyed
      /\ e.timeline = d.timeline /\ e.fence = d.fence /\ e.subs = d.subs /\ e.at = d.at
  BY <1>5, <1>6, Zenon DEF DevType, Good
<1> QED BY <1>3, <1>7, SameSubmits

(* The submitting half of SubmitQueue leaves nothing pending on its       *)
(* queue.                                                                 *)
LEMMA SubmitPendingSubmits ==
  ASSUME NEW d, Good(d), NEW t \in Types, NEW demand \in BOOLEAN
  PROVE  /\ Submits(d, SubmitPending(d, t, demand))
         /\ SubmitPending(d, t, demand).subs[d.index][t] = {}
<1>1. CASE Pending(d, t) \/ demand
  BY <1>1, EnqueueSubmits DEF SubmitPending
<1>2. CASE ~(Pending(d, t) \/ demand)
  BY <1>2, SubmitsReflexive DEF SubmitPending, Pending
<1> QED BY <1>1, <1>2

(* The staging copies slipped in by SyncBufferBlocks are a submission.    *)
LEMMA SyncBufferBlocksSubmits ==
  ASSUME NEW d, Good(d)
  PROVE  Submits(d, SyncBufferBlocks(d))
<1> DEFINE
  blocks == d.vbo \cup d.ubo
  stages == StagingWaits(Usage(d))
  copied == [d EXCEPT !.staged = @ \cup blocks, !.vbo = {}, !.ubo = {}]
  sent == IF \A t \in Types : stages[t] = {} THEN copied ELSE Enqueue(copied, "transfer")
  s == <<"transfer", sent.timeline["transfer"]>>
<1>1. "transfer" \in Types BY DEF Types
<1>2. d.staged \cup blocks \in SUBSET Cmds BY DEF Good, DevType
<1>3. Submits(d, copied) BY <1>2, CopiedSubmits
<1>4. Good(copied) BY <1>3 DEF Submits
<1> HIDE DEF copied
<1>5. Submits(copied, sent) BY <1>1, <1>4, EnqueueSubmits, SubmitsReflexive
<1>6. Good(sent) BY <1>5 DEF Submits
<1> HIDE DEF sent
<1>7. s \in Batches BY <1>1, <1>6 DEF Good, DevType, Batches
<1>8. stages \in [Types -> SUBSET Stages] BY StagingWaitsType
<1> HIDE DEF stages, s
<1>9. Submits(sent, AddWaits(sent, stages, s)) BY <1>6, <1>7, <1>8, AddWaitsSubmits
<1>10. Submits(d, AddWaits(sent, stages, s))
  BY <1>3, <1>4, <1>5, <1>6, <1>9, SubmitsTransitive
<1>11. SyncBufferBlocks(d) = IF blocks = {} THEN d ELSE AddWaits(sent, stages, s)
  BY DEF SyncBufferBlocks, stages, copied, sent, s
<1> QED BY <1>10, <1>11, SubmitsReflexive

(* FlushFrame of the transfer queue is a submission.                      *)
LEMMA FlushTransferSubmits ==
  ASSUME NEW d, Good(d)
  PROVE  Submits(d, FlushTransfer(d))
<1>1. "transfer" \in Types /\ FALSE \in BOOLEAN BY DEF Types
<1>2. Submits(d, SyncBufferBlocks(d)) /\ Good(SyncBufferBlocks(d))
  BY SyncBufferBlocksSubmits DEF Submits
<1>3. Submits(SyncBufferBlocks(d), FlushTransfer(d))
  BY <1>1, <1>2, SubmitPendingSubmits DEF FlushTransfer
<1> QED BY <1>2, <1>3, SubmitsTransitive

(* SubmitQueue, with the transfers it flushes first, is a submission that *)
(* leaves nothing pending on its queue.                                   *)
LEMMA SubmitQueueSubmits ==
  ASSUME NEW d, Good(d), NEW t \in Types, NEW demand \in BOOLEAN
  PROVE  /\ Submits(d, SubmitQueue(d, t, demand))
         /\ SubmitQueue(d, t, demand).subs[d.index][t] = {}
<1> DEFINE e == IF t = "transfer" THEN d ELSE FlushTransfer(d)
<1>1. Submits(d, e) BY FlushTransferSubmits, SubmitsReflexive
<1>2. Good(e) /\ e.index = d.index BY <1>1 DEF Submits
<1> HIDE DEF e
<1>3. /\ Submits(e, SubmitPending(e, t, demand))
      /\ SubmitPending(e, t, demand).subs[e.index][t] = {}
  BY <1>2, SubmitPendingSubmits
<1>4. SubmitQueue(d, t, demand) = SubmitPending(e, t, demand) BY DEF SubmitQueue, e
<1> QED BY <1>1, <1>2, <1>3, <1>4, SubmitsTransitive

(* FlushFrame of one queue is a submission.                               *)
LEMMA FlushTypeSubmits ==
  ASSUME NEW d, Good(d), NEW t \in Types
  PROVE  Submits(d, FlushType(d, t))
BY FlushTransferSubmits, SubmitQueueSubmits, FALSE \in BOOLEAN DEF FlushType

(* FlushFrame of all queues is a submission.                              *)
LEMMA FlushAllSubmits ==
  ASSUME NEW d, Good(d)
  PROVE  Submits(d, FlushAll(d))
<1> DEFINE e == FlushTransfer(d)
           g == FlushType(e, "graphics")
<1>1. "graphics" \in Types /\ "compute" \in Types BY DEF Types
<1>2. Submits(d, e) /\ Good(e) BY FlushTransferSubmits DEF Submits
<1>3. Submits(e, g) /\ Good(g) BY <1>1, <1>2, FlushTypeSubmits DEF Submits
<1>4. Submits(g, FlushType(g, "compute")) BY <1>1, <1>3, FlushTypeSubmits
<1> QED BY <1>2, <1>3, <1>4, SubmitsTransitive DEF FlushAll

(* The part of EndFrameNolock for one queue type leaves nothing pending   *)
(* on it.                                                                 *)
LEMMA EndQueueSubmits ==
  ASSUME NEW d, Good(d), NEW t \in Types
  PROVE  Submits(d, EndQueue(d, t)) /\ EndQueue(d, t).subs[d.index][t] = {}
<1> DEFINE e == SubmitQueue(d, t, TRUE)
<1>1. Submits(d, e) /\ e.subs[d.index][t] = {} BY SubmitQueueSubmits, TRUE \in BOOLEAN
<1> HIDE DEF e
<1>2. Good(e) BY <1>1 DEF Submits
<1>3. Submits(e, FrameFence(e, t)) /\ FrameFence(e, t).subs = e.subs
  BY <1>2, FrameFenceSubmits
<1>4. Submits(d, FrameFence(e, t)) BY <1>1, <1>3, SubmitsTransitive
<1>5. CASE d.needFence[t] \/ Pending(d, t)
  BY <1>1, <1>3, <1>4, <1>5 DEF EndQueue, e
<1>6. CASE ~(d.needFence[t] \/ Pending(d, t))
  BY <1>6, SubmitsReflexive DEF EndQueue, Pending
<1> QED BY <1>5, <1>6

(* EndFrameNolock leaves nothing pending on any queue, though ending one  *)
(* queue may flush another.                                               *)
LEMMA EndFrameSubmits ==
  ASSUME NEW d, Good(d)
  PROVE  /\ Submits(d, EndFrame(d))
         /\ \A t \in Types : EndFrame(d).subs[d.index][t] = {}
<1> DEFINE e == EndQueue(d, "transfer")
           g == EndQueue(e, "graphics")
           h == EndQueue(g, "compute")
<1>1. "transfer" \in Types /\ "graphics" \in Types /\ "compute" \in Types BY DEF Types
<1>2. Submits(d, e) /\ e.subs[d.index]["transfer"] = {} BY <1>1, EndQueueSubmits
<1> HIDE DEF e
<1>3. Good(e) /\ e.index = d.index BY <1>2 DEF Submits
<1>4. Submits(e, g) /\ g.subs[d.index]["graphics"] = {} BY <1>1, <1>3, EndQueueSubmits
<1> HIDE DEF g
<1>5. Good(g) /\ g.index = d.index BY <1>4, <1>3 DEF Submits
<1>6. Submits(g, h) /\ h.subs[d.index]["compute"] = {}
  BY <1>1, <1>5, EndQueueSubmits
<1> HIDE DEF h
<1>7. d.index \in Slots BY DEF Good, DevType
<1>8. g.subs[d.index]["transfer"] = {} /\ h.subs[d.index]["transfer"] = {} /\ h.subs[d.index]["graphics"] = {}
  BY <1>1, <1>2, <1>4, <1>6, <1>7, <1>3, <1>5 DEF Submits
<1>9. Submits(d, h) BY <1>2, <1>4, <1>6, <1>3, <1>5, SubmitsTransitive
<1>10. \A t \in Types : h.subs[d.index][t] = {}
  BY <1>6, <1>8 DEF Types
<1> QED BY <1>9, <1>10 DEF EndFrame, e, g, h

-----------------------------------------------------------------------------
(* A new Device satisfies the invariant.                                  *)
LEMMA Initially == Init => IInv
<1> SUFFICES ASSUME Init PROVE IInv OBVIOUS
<1> USE FramesAssumption
<1>1. /\ dev.lock = "free" /\ dev.counter = 0 /\ dev.index = 0 /\ dev.count \in FrameCounts
      /\ dev.timeline = [t \in Types |-> 0]
      /\ dev.subs = [f \in Slots |-> [t \in Types |-> {}]]
      /\ dev.fence = [f \in Slots |-> [t \in Types |-> 0]]
      /\ dev.destroyed = [f \in Slots |-> {}]
  BY DEF Init
<1>2. TypeOK
  <2>1. 0 \in Slots /\ FrameCounts \subseteq 1 .. MaxFrames BY DEF Slots
  <2>2. NoBatch \in Batches /\ "graphics" \in Types BY DEF NoBatch, Batches, Types
  <2>3. <<>> \in Seq(SUBSET Waits) OBVIOUS
  <2>4. dev \in DevType
    <3>1. /\ dev.count \in 1 .. MaxFrames /\ {} \in SUBSET Batches
          /\ [t \in Types |-> 0] \in [Types -> Nat]
          /\ [t \in Types |-> <<>>] \in [Types -> Seq(SUBSET Waits)]
          /\ [t \in Types |-> {}] \in [Types -> SUBSET Waits]
          /\ [t \in Types |-> FALSE] \in [Types -> BOOLEAN]
          /\ [f \in Slots |-> [t \in Types |-> {}]] \in [Slots -> [Types -> SUBSET Cmds]]
          /\ [f \in Slots |-> [t \in Types |-> 0]] \in [Slots -> [Types -> Nat]]
          /\ [f \in Slots |-> {}] \in [Slots -> SUBSET Batches]
          /\ [f \in Slots |-> {}] \in [Slots -> SUBSET Objects]
          /\ [f \in Slots |-> {}] \in [Slots -> SUBSET Cmds]
          /\ [c \in Cmds |-> NoBatch] \in [Cmds -> Batches]
      BY <1>1, <2>1, <2>2, <2>3
    <3>2. 0 \in Nat /\ 0 \in Slots /\ {} \in SUBSET Cmds /\ {} \in SUBSET Types
      BY <2>1
    <3> QED BY <3>1, <3>2, ZenonT(60) DEF Init, DevType
  <2>5. cmd \in [Cmds -> CmdType] BY <2>1, <2>2 DEF Init, CmdType
  <2> QED BY <2>4, <2>5 DEF Init, TypeOK
<1>3. Recording = {} BY DEF Recording, Init
<1>4. FencesSubmitted BY <1>1 DEF FencesSubmitted
<1>5. CurrentFrame BY <1>1, <1>3, FS_EmptySet DEF CurrentFrame
<1>6. CmdsCovered /\ DropsOrdered BY DEF CmdsCovered, DropsOrdered, Unfinished, Init
<1>7. DroppedOnce BY <1>1 DEF DroppedOnce
<1> QED BY <1>2, <1>4, <1>5, <1>6, <1>7 DEF IInv

(* The invariant gives the submission lemmas what they assume.            *)
LEMMA IInvGood == IInv => Good(dev)
BY DEF IInv, TypeOK, FencesSubmitted, Good, Fenced

(* The types of the fields that the invariant speaks of.                  *)
LEMMA DevFields ==
  ASSUME NEW d \in DevType
  PROVE  /\ d.index \in Slots /\ d.count \in 1 .. MaxFrames /\ d.counter \in Nat
         /\ d.lock \in {"free", "next", "idle", "init"}
         /\ \A t \in Types : d.timeline[t] \in Nat
         /\ \A f \in Slots, t \in Types : d.subs[f][t] \subseteq Cmds /\ d.fence[f][t] \in Nat
         /\ \A c \in Cmds : d.at[c][1] \in Types /\ d.at[c][2] \in Nat
BY DEF DevType, Batches

(* A step that only submits, for whatever call, keeps the invariant.      *)
LEMMA SubmissionStep ==
  ASSUME IInv, TypeOK', Submits(dev, dev'), obj' = obj,
         \A c \in Cmds : /\ cmd'[c].status = cmd[c].status
                         /\ cmd'[c].home = cmd[c].home /\ cmd'[c].uses = cmd[c].uses,
         \A t \in Types : completed[t] <= completed'[t]
  PROVE  IInv'
<1>1. dev \in DevType /\ dev' \in DevType BY DEF IInv, TypeOK
<1>2. /\ dev'.lock = dev.lock /\ dev'.counter = dev.counter /\ dev'.index = dev.index
      /\ dev'.count = dev.count /\ dev'.destroyed = dev.destroyed
  BY DEF Submits
<1>3. FencesSubmitted' BY DEF Submits, Good, Fenced, FencesSubmitted
<1>4. CurrentFrame'
  <2>1. Recording' = Recording BY DEF Recording
  <2>2. \A f \in Slots, t \in Types : dev'.subs[f][t] \subseteq dev.subs[f][t] /\ dev.subs[f][t] \subseteq Cmds
    BY <1>1, DevFields DEF Submits
  <2>3. \A c \in Recording : cmd'[c].home = cmd[c].home BY DEF Recording
  <2>4. ASSUME NEW f \in Slots, NEW t \in Types, NEW c \in dev'.subs[f][t]
        PROVE  dev.lock = "free" /\ f = dev.index /\ cmd'[c].status = "submitted" /\ cmd'[c].home = f
    BY <2>2, <2>4 DEF IInv, CurrentFrame
  <2> QED BY <1>2, <2>1, <2>3, <2>4 DEF IInv, CurrentFrame
<1>5. ASSUME NEW c \in Cmds, Executed(c) , ~Queued(dev, c)
      PROVE  Executed(c)'
  <2>1. dev'.at[c] = dev.at[c] BY <1>5 DEF Submits
  <2>2. /\ dev.at[c][1] \in Types /\ dev.at[c][2] \in Nat
        /\ completed \in [Types -> Nat] /\ completed' \in [Types -> Nat]
    BY <1>1, DevFields DEF IInv, TypeOK
  <2>3. completed[dev.at[c][1]] <= completed'[dev.at[c][1]] BY <2>2
  <2> QED BY <1>5, <2>1, <2>2, <2>3 DEF Executed, Done
<1>6. CmdsCovered'
  <2> SUFFICES ASSUME NEW c \in Cmds
               PROVE  /\ cmd'[c].status = "submitted" => Covered(c)'
                      /\ cmd'[c].status = "reset" => Executed(c)'
    BY <1>2 DEF CmdsCovered, Unfinished, IInv
  <2>1. CASE cmd[c].status = "submitted"
    <3>1. Covered(c) BY <2>1 DEF IInv, CmdsCovered
    <3>2. CASE Queued(dev, c) /\ Sent(dev', c)
      <4>1. cmd[c].home = dev.index
        BY <1>1, <3>2, DevFields DEF Queued, IInv, CurrentFrame
      <4>2. cmd'[c].home = dev'.index BY <1>2, <4>1
      <4>3. Sent(dev', c) BY <3>2
      <4>4. dev'.at[c][2] > 0 /\ dev'.at[c][2] <= dev'.fence[cmd'[c].home][dev'.at[c][1]]
        BY <4>2, <4>3, Zenon DEF Sent
      <4>5. Covered(c)' BY <4>4, Zenon DEF Covered
      <4> QED BY <2>1, <4>5
    <3>3. CASE dev'.at[c] = dev.at[c] /\ \A f \in Slots, t \in Types : c \in dev.subs[f][t] => c \in dev'.subs[f][t]
      <4>1. cmd[c].home \in Slots /\ dev.at[c][1] \in Types /\ dev.at[c][2] \in Nat
        BY <1>1, DevFields DEF IInv, TypeOK, CmdType
      <4>2. dev.fence[cmd[c].home][dev.at[c][1]] <= dev'.fence[cmd[c].home][dev.at[c][1]]
        BY <4>1 DEF Submits
      <4>3. dev.fence[cmd[c].home][dev.at[c][1]] \in Nat /\ dev'.fence[cmd[c].home][dev.at[c][1]] \in Nat
        BY <1>1, <4>1, DevFields
      <4>4. cmd'[c].home = cmd[c].home OBVIOUS
      <4>5. CASE \E t \in Types : c \in dev.subs[cmd[c].home][t]
        <5>1. \E t \in Types : c \in dev'.subs[cmd'[c].home][t] BY <3>3, <4>1, <4>4, <4>5
        <5> QED BY <2>1, <5>1 DEF Covered
      <4>6. CASE dev.at[c][2] > 0 /\ dev.at[c][2] <= dev.fence[cmd[c].home][dev.at[c][1]]
        <5>1. dev'.at[c] = dev.at[c] BY <3>3
        <5>2. dev'.at[c][2] > 0 /\ dev'.at[c][2] <= dev'.fence[cmd'[c].home][dev'.at[c][1]]
          BY <4>1, <4>2, <4>3, <4>4, <4>6, <5>1
        <5> QED BY <2>1, <5>2 DEF Covered
      <4> QED BY <3>1, <4>5, <4>6 DEF Covered
    <3> QED BY <2>1, <3>2, <3>3 DEF Submits
  <2>2. CASE cmd[c].status = "reset"
    <3>1. ~Queued(dev, c) BY <1>1, <2>2, DevFields DEF Queued, IInv, CurrentFrame
    <3> QED BY <1>5, <2>2, <3>1 DEF IInv, CmdsCovered
  <2> QED BY <2>1, <2>2
<1>7. DroppedOnce' BY <1>2 DEF IInv, DroppedOnce
<1>8. DropsOrdered' BY <1>2 DEF IInv, DropsOrdered, Unfinished, Turn, Current
<1> QED BY <1>3, <1>4, <1>6, <1>7, <1>8 DEF IInv

-----------------------------------------------------------------------------
(* Giving up a buffer block submits nothing.                              *)
LEMMA GiveUpBlockSubmits ==
  ASSUME NEW d, Good(d), NEW c \in Cmds
  PROVE  Submits(d, GiveUpBlock(d, c))
<1> DEFINE
  kind == cmd[c].block
  vb == IF Discrete /\ kind = "vbo" THEN d.vbo \cup {c} ELSE d.vbo
  ub == IF Discrete /\ kind = "ubo" THEN d.ubo \cup {c} ELSE d.ubo
  bl == [d.blocks EXCEPT ![d.index] = IF kind \in {"vbo", "ubo"} THEN @ \cup {c} ELSE @]
  e == [d EXCEPT !.vbo = vb, !.ubo = ub, !.blocks = bl]
<1>1. /\ d.vbo \in SUBSET Cmds /\ d.ubo \in SUBSET Cmds
      /\ d.index \in Slots /\ d.blocks \in [Slots -> SUBSET Cmds]
  BY DEF Good, DevType
<1>2. vb \in SUBSET Cmds /\ ub \in SUBSET Cmds BY <1>1
<1>3. bl \in [Slots -> SUBSET Cmds]
  <2>1. d.blocks[d.index] \cup {c} \in SUBSET Cmds BY <1>1
  <2> HIDE DEF kind
  <2> QED BY <1>1, <2>1
<1>4. GiveUpBlock(d, c) = e BY DEF GiveUpBlock
<1> HIDE DEF vb, ub, bl
<1>5. /\ e \in DevType
      /\ e.lock = d.lock /\ e.counter = d.counter /\ e.index = d.index
      /\ e.count = d.count /\ e.destroyed = d.destroyed
      /\ e.timeline = d.timeline /\ e.fence = d.fence /\ e.subs = d.subs /\ e.at = d.at
  BY <1>2, <1>3, Zenon DEF Good, DevType
<1> QED BY <1>4, <1>5, SameSubmits

(* GetPhysicalQueueType yields a queue type.                              *)
LEMMA PhysicalTypes == ASSUME NEW t \in RequestTypes PROVE PhysicalType(t) \in Types
BY DEF PhysicalType, RequestTypes, Types

(* RequestCommandBuffer keeps the invariant: what it uses is live and the *)
(* frame it is recorded in is the last to begin again.                    *)
LEMMA RecordStep ==
  ASSUME IInv, NEW c \in Cmds, Record(c)
  PROVE  IInv'
<1>1. PICK w \in Work[c] : RequestCommandBuffer(c, PhysicalType(w[1]), w[2], w[3],
                                               PossibleStages({w[3]}) \cap CommandStages(w[1]))
  BY DEF Record
<1> DEFINE t == PhysicalType(w[1])
           reads == PossibleStages({w[3]}) \cap CommandStages(w[1])
           recorded == [status |-> "recording", type |-> t, home |-> dev.index,
                        uses |-> w[2], block |-> w[3], reads |-> reads]
<1>2. /\ t \in Types /\ w[2] \in SUBSET Objects /\ w[3] \in {"none", "vbo", "ubo"}
      /\ reads \in SUBSET Stages
  BY WorkAssumption, PhysicalTypes DEF PossibleStages, Stages
<1> HIDE DEF reads
<1>3. /\ dev.lock = "free" /\ dev.index < dev.count /\ cmd[c].status = "idle"
      /\ \A o \in w[2] : obj[o] = "live"
      /\ cmd' = [cmd EXCEPT ![c] = recorded]
      /\ dev' = [dev EXCEPT !.counter = dev.counter + 1]
      /\ obj' = obj /\ app' = app /\ completed' = completed
  BY <1>1 DEF RequestCommandBuffer, Unlocked, reads
<1>4. dev \in DevType /\ cmd \in [Cmds -> CmdType] /\ dev.index \in Slots /\ dev.counter \in Nat
  BY DevFields DEF IInv, TypeOK
<1>5. recorded \in CmdType BY <1>2, <1>4 DEF CmdType
<1> HIDE DEF recorded
<1>6. dev.counter + 1 \in Nat BY <1>4
<1>7. /\ dev' \in DevType /\ dev'.counter = dev.counter + 1
      /\ dev'.lock = dev.lock /\ dev'.index = dev.index /\ dev'.count = dev.count
      /\ dev'.timeline = dev.timeline /\ dev'.subs = dev.subs /\ dev'.fence = dev.fence
      /\ dev'.at = dev.at /\ dev'.destroyed = dev.destroyed
  BY <1>3, <1>4, <1>6, Zenon DEF DevType
<1>8. TypeOK'
  <2>1. cmd' \in [Cmds -> CmdType] BY <1>3, <1>4, <1>5
  <2> QED BY <1>3, <1>7, <2>1 DEF IInv, TypeOK
<1>9. FencesSubmitted' BY <1>7 DEF IInv, FencesSubmitted
<1>10. /\ cmd'[c].status = "recording" /\ cmd'[c].home = dev.index /\ cmd'[c].uses = w[2]
       /\ \A b \in Cmds \ {c} : cmd'[b] = cmd[b]
  BY <1>3, <1>4 DEF recorded
<1>11. CurrentFrame'
  <2>1. Recording' = Recording \cup {c} /\ c \notin Recording BY <1>3, <1>10 DEF Recording
  <2>2. IsFiniteSet(Recording)
    BY CmdsAssumption, FS_Subset DEF Recording
  <2>3. Cardinality(Recording') = Cardinality(Recording) + 1 BY <2>1, <2>2, FS_AddElement
  <2>4. \A b \in Recording : cmd'[b].home = dev.index
    BY <1>3, <1>10 DEF IInv, CurrentFrame, Recording
  <2>5. ASSUME NEW f \in Slots, NEW u \in Types, NEW b \in dev.subs[f][u]
        PROVE  f = dev.index /\ cmd'[b].status = "submitted" /\ cmd'[b].home = f
    <3>1. b \in Cmds /\ f = dev.index /\ cmd[b].status = "submitted" /\ cmd[b].home = f
      BY <1>4, DevFields DEF IInv, CurrentFrame
    <3> QED BY <1>3, <1>10, <3>1
  <2> QED BY <1>3, <1>7, <1>10, <2>1, <2>3, <2>4, <2>5 DEF IInv, CurrentFrame
<1>12. CmdsCovered'
  <2> SUFFICES ASSUME NEW b \in Cmds
               PROVE  /\ cmd'[b].status = "idle" => cmd'[b].uses = {}
                      /\ cmd'[b].status \in {"recording", "submitted"} => cmd'[b].home < dev.count
                      /\ cmd'[b].status = "submitted" => Covered(b)'
                      /\ cmd'[b].status = "reset" => Executed(b)'
    BY <1>7 DEF CmdsCovered, Unfinished
  <2>1. CASE b = c BY <1>3, <1>10, <2>1
  <2>2. CASE b # c
    <3>1. cmd'[b] = cmd[b] BY <1>10, <2>2
    <3> QED BY <1>3, <1>7, <3>1 DEF IInv, CmdsCovered, Unfinished, Covered, Executed, Done
  <2> QED BY <2>1, <2>2
<1>13. DroppedOnce' BY <1>3, <1>7 DEF IInv, DroppedOnce
<1>14. DropsOrdered'
  <2> SUFFICES ASSUME NEW o \in Objects, NEW b \in Cmds, o \in cmd'[b].uses, Unfinished(b)'
               PROVE  /\ obj[o] # "freed"
                      /\ \A f \in Slots : o \in dev.destroyed[f] => Turn(cmd'[b].home) <= Turn(f)
    BY <1>3, <1>7 DEF DropsOrdered, Turn, Current
  <2>1. CASE b = c
    <3>1. obj[o] = "live" BY <1>3, <1>10, <2>1
    <3> QED BY <3>1 DEF IInv, DroppedOnce
  <2>2. CASE b # c
    BY <1>10, <2>2 DEF IInv, DropsOrdered, Unfinished
  <2> QED BY <2>1, <2>2
<1> QED BY <1>8, <1>9, <1>11, <1>12, <1>13, <1>14 DEF IInv

(* The handles a submission returns are batches.                          *)
LEMMA HandlesType ==
  ASSUME NEW demand, NEW b \in Batches, Handles(demand, b),
         app \in [semaphores : SUBSET Batches, fences : SUBSET Batches]
  PROVE  app' \in [semaphores : SUBSET Batches, fences : SUBSET Batches]
BY DEF Handles

(* Submit keeps the invariant: the command buffer becomes pending, or     *)
(* covered by the batch that is submitted at once.                        *)
LEMMA FinishStep ==
  ASSUME IInv, NEW c \in Cmds, NEW demand, Submit(c, demand)
  PROVE  IInv'
<1> DEFINE
  t == cmd[c].type
  given == GiveUpBlock(dev, c)
  su == [given.subs EXCEPT ![dev.index][t] = @ \cup {c}]
  ended == [given EXCEPT !.subs = su]
  sent == IF demand = "none" THEN ended ELSE SubmitQueue(ended, t, TRUE)
<1>1. /\ dev.lock = "free" /\ dev.index < dev.count /\ cmd[c].status = "recording"
      /\ dev' = [sent EXCEPT !.counter = sent.counter - 1]
      /\ Handles(demand, <<t, sent.timeline[t]>>)
      /\ cmd' = [cmd EXCEPT ![c].status = "submitted", ![c].block = BlockGiven(@)]
      /\ obj' = obj /\ completed' = completed
  BY DEF Submit, Unlocked
<1>2. dev \in DevType /\ cmd \in [Cmds -> CmdType] /\ Good(dev) /\ t \in Types
  BY IInvGood DEF IInv, TypeOK, CmdType
<1>3. Submits(dev, given) BY <1>2, GiveUpBlockSubmits
<1>4. Good(given) /\ given \in DevType /\ given.subs = dev.subs
  BY <1>2, <1>3 DEF Submits, Good, GiveUpBlock, DevType
<1> HIDE DEF given
<1>5. su \in [Slots -> [Types -> SUBSET Cmds]]
  <2>1. given.subs \in [Slots -> [Types -> SUBSET Cmds]] /\ dev.index \in Slots
    BY <1>2, <1>4 DEF DevType
  <2> QED BY <1>2, <2>1
<1>6. \A f \in Slots, u \in Types :
        su[f][u] = IF f = dev.index /\ u = t THEN dev.subs[f][u] \cup {c} ELSE dev.subs[f][u]
  BY <1>2, <1>4 DEF DevType
<1> HIDE DEF su
<1>7. /\ ended \in DevType /\ ended.subs = su
      /\ ended.lock = given.lock /\ ended.index = given.index /\ ended.count = given.count
      /\ ended.counter = given.counter /\ ended.destroyed = given.destroyed
      /\ ended.timeline = given.timeline /\ ended.fence = given.fence /\ ended.at = given.at
  BY <1>4, <1>5, Zenon DEF DevType
<1>8. Good(ended) BY <1>4, <1>7 DEF Good, Fenced
<1> HIDE DEF ended
<1>9. Submits(ended, sent) BY <1>2, <1>8, SubmitQueueSubmits, SubmitsReflexive
<1> HIDE DEF sent
<1>10. sent \in DevType /\ Good(sent) BY <1>9 DEF Submits, Good
<1>11. /\ sent.lock = dev.lock /\ sent.index = dev.index /\ sent.count = dev.count
       /\ sent.counter = dev.counter /\ sent.destroyed = dev.destroyed
  BY <1>3, <1>7, <1>9 DEF Submits
<1>12. sent.counter \in Nat /\ sent.counter - 1 \in Nat
  <2>1. c \in Recording /\ IsFiniteSet(Recording) BY <1>1, CmdsAssumption, FS_Subset DEF Recording
  <2>2. Cardinality(Recording) \in Nat /\ Cardinality(Recording) # 0
    BY <2>1, FS_EmptySet, FS_CardinalityType
  <2> QED BY <1>11, <2>2 DEF IInv, CurrentFrame
<1>13. /\ dev' \in DevType /\ dev'.counter = dev.counter - 1
       /\ dev'.lock = dev.lock /\ dev'.index = dev.index /\ dev'.count = dev.count
       /\ dev'.destroyed = dev.destroyed
       /\ dev'.timeline = sent.timeline /\ dev'.subs = sent.subs /\ dev'.fence = sent.fence
       /\ dev'.at = sent.at
  <2>1. /\ dev' \in DevType /\ dev'.counter = sent.counter - 1
        /\ dev'.lock = sent.lock /\ dev'.index = sent.index /\ dev'.count = sent.count
        /\ dev'.destroyed = sent.destroyed
        /\ dev'.timeline = sent.timeline /\ dev'.subs = sent.subs /\ dev'.fence = sent.fence
        /\ dev'.at = sent.at
    BY <1>1, <1>10, <1>12, Zenon DEF DevType
  <2> QED BY <1>11, <2>1
<1>14. /\ cmd' \in [Cmds -> CmdType]
       /\ cmd'[c].status = "submitted" /\ cmd'[c].home = cmd[c].home /\ cmd'[c].uses = cmd[c].uses
       /\ \A b \in Cmds \ {c} : cmd'[b] = cmd[b]
  <2>1. \A b \in Cmds : cmd[b] \in CmdType BY <1>2
  <2>2. BlockGiven(cmd[c].block) \in {"none", "vbo", "ubo", "given", "recycled"}
    BY <2>1 DEF BlockGiven, CmdType
  <2>3. [cmd[c] EXCEPT !.status = "submitted", !.block = BlockGiven(cmd[c].block)] \in CmdType
    BY <2>1, <2>2 DEF CmdType
  <2>4. cmd' = [cmd EXCEPT ![c] = [cmd[c] EXCEPT !.status = "submitted", !.block = BlockGiven(cmd[c].block)]]
    BY <1>1, <1>2, <2>1 DEF CmdType
  <2>5. cmd'[c] = [cmd[c] EXCEPT !.status = "submitted", !.block = BlockGiven(cmd[c].block)]
    BY <1>2, <2>4
  <2>6. /\ cmd'[c].status = "submitted" /\ cmd'[c].home = cmd[c].home /\ cmd'[c].uses = cmd[c].uses
    BY <2>1, <2>5 DEF CmdType
  <2> QED BY <1>2, <2>3, <2>4, <2>6
<1>15. TypeOK'
  <2>1. <<t, sent.timeline[t]>> \in Batches BY <1>2, <1>10, DevFields DEF Batches
  <2>2. app' \in [semaphores : SUBSET Batches, fences : SUBSET Batches]
    BY <1>1, <2>1, HandlesType DEF IInv, TypeOK
  <2> QED BY <1>1, <1>13, <1>14, <2>2 DEF IInv, TypeOK
<1>16. FencesSubmitted' BY <1>10, <1>13 DEF Good, Fenced, FencesSubmitted
<1>17. cmd[c].home = dev.index BY <1>1 DEF IInv, CurrentFrame, Recording
<1>18. ASSUME NEW f \in Slots, NEW u \in Types, NEW b \in dev'.subs[f][u]
       PROVE  /\ b \in Cmds
              /\ \/ b = c /\ f = dev.index
                 \/ b \in dev.subs[f][u]
  <2>1. b \in su[f][u] BY <1>7, <1>9, <1>13 DEF Submits
  <2>2. dev.subs[f][u] \subseteq Cmds BY <1>2, DevFields
  <2>3. CASE f = dev.index /\ u = t
    <3>1. su[f][u] = dev.subs[f][u] \cup {c} BY <1>6, <2>3
    <3> QED BY <2>1, <2>2, <2>3, <3>1
  <2>4. CASE ~(f = dev.index /\ u = t)
    <3>1. su[f][u] = dev.subs[f][u] BY <1>6, <2>4
    <3> QED BY <2>1, <2>2, <3>1
  <2> QED BY <2>3, <2>4
<1>19. CurrentFrame'
  <2>1. Recording' = Recording \ {c} /\ c \in Recording BY <1>1, <1>14 DEF Recording
  <2>2. IsFiniteSet(Recording) BY CmdsAssumption, FS_Subset DEF Recording
  <2>3. Cardinality(Recording') = Cardinality(Recording) - 1 BY <2>1, <2>2, FS_RemoveElement
  <2>4. \A b \in Recording' : cmd'[b].home = dev.index
    BY <1>14, <2>1 DEF IInv, CurrentFrame, Recording
  <2>5. ASSUME NEW f \in Slots, NEW u \in Types, NEW b \in dev'.subs[f][u]
        PROVE  f = dev.index /\ cmd'[b].status = "submitted" /\ cmd'[b].home = f
    <3>1. CASE b = c /\ f = dev.index BY <1>14, <1>17, <3>1
    <3>2. CASE b \in dev.subs[f][u] /\ b # c
      <4>1. b \in Cmds BY <1>18
      <4>2. f = dev.index /\ cmd[b].status = "submitted" /\ cmd[b].home = f
        BY <3>2 DEF IInv, CurrentFrame
      <4> QED BY <1>14, <3>2, <4>1, <4>2
    <3>3. CASE b \in dev.subs[f][u] /\ b = c
      BY <1>1, <3>3 DEF IInv, CurrentFrame
    <3> QED BY <1>18, <3>1, <3>2, <3>3
  <2>6. dev'.counter = Cardinality(Recording') BY <1>13, <2>3 DEF IInv, CurrentFrame
  <2> QED BY <1>1, <1>13, <2>4, <2>5, <2>6 DEF CurrentFrame
<1>20. given.at = dev.at BY <1>2 DEF given, GiveUpBlock, DevType
<1>21. CmdsCovered'
  <2> SUFFICES ASSUME NEW b \in Cmds
               PROVE  /\ cmd'[b].status = "idle" => cmd'[b].uses = {}
                      /\ cmd'[b].status \in {"recording", "submitted"} => cmd'[b].home < dev.count
                      /\ cmd'[b].status = "submitted" => Covered(b)'
                      /\ cmd'[b].status = "reset" => Executed(b)'
    BY <1>13 DEF CmdsCovered, Unfinished
  <2>1. CASE b = c
    <3>1. c \in ended.subs[dev.index][t]
      <4>1. dev.index \in Slots BY <1>2, DevFields
      <4> QED BY <1>2, <1>6, <1>7, <4>1
    <3>2. Covered(c)'
      <4>1. CASE Queued(ended, c) /\ Sent(sent, c)
        <5>1. dev'.at[c][2] > 0 /\ dev'.at[c][2] <= dev'.fence[cmd'[c].home][dev'.at[c][1]]
          BY <1>11, <1>13, <1>14, <1>17, <4>1 DEF Sent
        <5> QED BY <5>1, Zenon DEF Covered
      <4>2. CASE \A f \in Slots, u \in Types : c \in ended.subs[f][u] => c \in sent.subs[f][u]
        <5>1. dev.index \in Slots BY <1>2, DevFields
        <5>2. c \in dev'.subs[cmd'[c].home][t] BY <1>13, <1>14, <1>17, <3>1, <4>2, <5>1, <1>2
        <5> QED BY <1>2, <5>2 DEF Covered
      <4> QED BY <1>9, <4>1, <4>2 DEF Submits
    <3> QED BY <1>1, <1>14, <1>17, <2>1, <3>2
  <2>2. CASE b # c
    <3>1. cmd'[b] = cmd[b] BY <1>14, <2>2
    <3>2. \A f \in Slots, u \in Types : b \in ended.subs[f][u] <=> b \in dev.subs[f][u]
      <4> SUFFICES ASSUME NEW f \in Slots, NEW u \in Types
                   PROVE  b \in su[f][u] <=> b \in dev.subs[f][u]
        BY <1>7
      <4>1. CASE f = dev.index /\ u = t
        <5>1. su[f][u] = dev.subs[f][u] \cup {c} BY <1>6, <4>1
        <5> QED BY <2>2, <5>1
      <4>2. CASE ~(f = dev.index /\ u = t)
        <5>1. su[f][u] = dev.subs[f][u] BY <1>6, <4>2
        <5> QED BY <5>1
      <4> QED BY <4>1, <4>2
    <3>3. ended.at[b] = dev.at[b] /\ ended.fence = dev.fence
      BY <1>7, <1>20, <1>2 DEF given, GiveUpBlock, DevType
    <3>4. CASE Queued(ended, b) /\ Sent(sent, b)
      <4>1. cmd[b].status = "submitted" /\ cmd[b].home = dev.index
        <5>1. PICK u \in Types : b \in ended.subs[ended.index][u] BY <3>4 DEF Queued
        <5>2. ended.index = dev.index /\ dev.index \in Slots
          BY <1>2, <1>3, <1>7, DevFields DEF Submits
        <5>3. b \in dev.subs[dev.index][u] BY <3>2, <5>1, <5>2
        <5> QED BY <5>2, <5>3 DEF IInv, CurrentFrame
      <4>2. dev'.at[b][2] > 0 /\ dev'.at[b][2] <= dev'.fence[cmd'[b].home][dev'.at[b][1]]
        BY <1>11, <1>13, <3>1, <3>4, <4>1 DEF Sent
      <4>3. Covered(b)' BY <4>2, Zenon DEF Covered
      <4> QED BY <1>1, <3>1, <4>1, <4>3
    <3>5. CASE /\ sent.at[b] = ended.at[b]
               /\ \A f \in Slots, u \in Types : b \in ended.subs[f][u] => b \in sent.subs[f][u]
      <4>1. dev'.at[b] = dev.at[b] BY <1>13, <3>3, <3>5
      <4>2. /\ cmd[b].home \in Slots /\ dev.at[b][1] \in Types /\ dev.at[b][2] \in Nat
        BY <1>2, DevFields DEF CmdType
      <4>3. cmd[b].status = "submitted" => Covered(b)'
        <5> SUFFICES ASSUME cmd[b].status = "submitted" PROVE Covered(b)' OBVIOUS
        <5>1. Covered(b) BY DEF IInv, CmdsCovered
        <5>2. CASE \E u \in Types : b \in dev.subs[cmd[b].home][u]
          <6>1. \E u \in Types : b \in dev'.subs[cmd'[b].home][u]
            BY <1>13, <3>1, <3>2, <3>5, <4>2, <5>2
          <6> QED BY <6>1, Zenon DEF Covered
        <5>3. CASE dev.at[b][2] > 0 /\ dev.at[b][2] <= dev.fence[cmd[b].home][dev.at[b][1]]
          <6>1. dev.fence[cmd[b].home][dev.at[b][1]] <= dev'.fence[cmd[b].home][dev.at[b][1]]
            BY <1>9, <1>13, <3>3, <4>2 DEF Submits
          <6>2. /\ dev.fence[cmd[b].home][dev.at[b][1]] \in Nat
                /\ dev'.fence[cmd[b].home][dev.at[b][1]] \in Nat
            BY <1>2, <1>13, <4>2, DevFields
          <6>3. dev'.at[b][2] > 0 /\ dev'.at[b][2] <= dev'.fence[cmd'[b].home][dev'.at[b][1]]
            BY <3>1, <4>1, <4>2, <5>3, <6>1, <6>2
          <6> QED BY <6>3, Zenon DEF Covered
        <5> QED BY <5>1, <5>2, <5>3 DEF Covered
      <4>4. cmd[b].status = "reset" => Executed(b)'
        BY <1>1, <4>1 DEF IInv, CmdsCovered, Executed, Done
      <4> QED BY <3>1, <4>3, <4>4 DEF IInv, CmdsCovered, Unfinished
    <3> QED BY <1>9, <3>4, <3>5 DEF Submits
  <2> QED BY <2>1, <2>2
<1>22. DroppedOnce' BY <1>1, <1>13 DEF IInv, DroppedOnce
<1>23. DropsOrdered'
  <2>1. \A b \in Cmds : /\ cmd'[b].home = cmd[b].home /\ cmd'[b].uses = cmd[b].uses
                        /\ cmd'[b].status \in {"recording", "submitted"}
                             => cmd[b].status \in {"recording", "submitted"}
    BY <1>1, <1>14
  <2> SUFFICES ASSUME NEW o \in Objects, NEW b \in Cmds, o \in cmd'[b].uses, Unfinished(b)'
               PROVE  /\ obj[o] # "freed"
                      /\ \A f \in Slots : o \in dev.destroyed[f] => Turn(cmd'[b].home) <= Turn(f)
    BY <1>1, <1>13 DEF DropsOrdered, Turn, Current
  <2> QED BY <2>1 DEF IInv, DropsOrdered, Unfinished
<1> QED BY <1>15, <1>16, <1>19, <1>21, <1>22, <1>23 DEF IInv

(* Destroying an object keeps the invariant: its list is the last to be   *)
(* emptied, so no user of it outlives the list.                           *)
LEMMA DestroyStep ==
  ASSUME IInv, NEW o \in Objects, Destroy(o)
  PROVE  IInv'
<1> DEFINE ds == [dev.destroyed EXCEPT ![dev.index] = @ \cup {o}]
<1>1. /\ dev.lock = "free" /\ dev.index < dev.count /\ obj[o] = "live"
      /\ obj' = [obj EXCEPT ![o] = "dead"] /\ dev' = [dev EXCEPT !.destroyed = ds]
      /\ cmd' = cmd /\ app' = app /\ completed' = completed
  BY DEF Destroy, Unlocked
<1>2. /\ dev \in DevType /\ dev.index \in Slots /\ dev.destroyed \in [Slots -> SUBSET Objects]
      /\ obj \in [Objects -> {"live", "dead", "freed"}]
  BY DEF IInv, TypeOK, DevType
<1>3. ds \in [Slots -> SUBSET Objects] BY <1>2
<1>4. \A f \in Slots, p \in Objects :
        p \in ds[f] <=> p \in dev.destroyed[f] \/ (p = o /\ f = dev.index)
  BY <1>2
<1> HIDE DEF ds
<1>5. /\ dev' \in DevType /\ dev'.destroyed = ds
      /\ dev'.lock = dev.lock /\ dev'.index = dev.index /\ dev'.count = dev.count
      /\ dev'.counter = dev.counter /\ dev'.timeline = dev.timeline /\ dev'.subs = dev.subs
      /\ dev'.fence = dev.fence /\ dev'.at = dev.at
  BY <1>1, <1>2, <1>3, Zenon DEF DevType
<1>6. obj'[o] = "dead" /\ \A p \in Objects \ {o} : obj'[p] = obj[p]
  BY <1>1, <1>2
<1>7. TypeOK'
  <2>1. obj' \in [Objects -> {"live", "dead", "freed"}] BY <1>1, <1>2
  <2> QED BY <1>1, <1>5, <2>1 DEF IInv, TypeOK
<1>8. FencesSubmitted' /\ CurrentFrame' /\ CmdsCovered'
  BY <1>1, <1>5 DEF IInv, FencesSubmitted, CurrentFrame, Recording, CmdsCovered, Unfinished,
                    Covered, Executed, Done
<1>9. DroppedOnce'
  <2>1. \A f \in Slots : o \notin dev.destroyed[f] BY <1>1 DEF IInv, DroppedOnce
  <2> QED BY <1>1, <1>2, <1>4, <1>5, <1>6, <2>1 DEF IInv, DroppedOnce
<1>10. DropsOrdered'
  <2> SUFFICES ASSUME NEW p \in Objects, NEW c \in Cmds, p \in cmd[c].uses, Unfinished(c)
               PROVE  /\ obj'[p] # "freed"
                      /\ \A f \in Slots : p \in ds[f] => Turn(cmd[c].home) <= Turn(f)
    BY <1>1, <1>5 DEF DropsOrdered, Unfinished, Turn, Current
  <2>1. obj'[p] # "freed" /\ \A f \in Slots : p \in dev.destroyed[f] => Turn(cmd[c].home) <= Turn(f)
    BY <1>6 DEF IInv, DropsOrdered
  <2>2. Turn(cmd[c].home) <= Turn(dev.index)
    <3>1. /\ cmd[c].home < dev.count /\ cmd[c].home \in Nat
          /\ dev.index \in Nat /\ dev.count \in Nat
      BY <1>2, DevFields DEF IInv, CmdsCovered, TypeOK, CmdType, Slots
    <3> QED BY <1>1, <3>1 DEF Turn, Current
  <2> QED BY <1>4, <2>1, <2>2
<1> QED BY <1>7, <1>8, <1>9, <1>10 DEF IInv

(* DRAIN_FRAME_LOCK returns only when nothing is being recorded.          *)
LEMMA NothingRecorded ==
  ASSUME IInv, Drained
  PROVE  Recording = {}
BY CmdsAssumption, FS_Subset, FS_EmptySet DEF IInv, CurrentFrame, Recording, Drained

(* A frame-pushing call up to the point where it blocks keeps the         *)
(* invariant: EndFrameNolock covers all that was pending.                 *)
LEMMA BlockStep ==
  ASSUME IInv, Drained, NEW op \in {"next", "idle", "init"},
         dev' \in DevType, dev'.lock = op,
         dev'.index = IF op = "next" THEN NextIndex(dev) ELSE dev.index,
         dev'.counter = EndFrame(dev).counter, dev'.count = EndFrame(dev).count,
         dev'.timeline = EndFrame(dev).timeline, dev'.fence = EndFrame(dev).fence,
         dev'.subs = EndFrame(dev).subs, dev'.at = EndFrame(dev).at,
         dev'.destroyed = EndFrame(dev).destroyed,
         cmd' = cmd, obj' = obj, app' = app, completed' = completed
  PROVE  IInv'
<1> DEFINE e == EndFrame(dev)
<1>1. dev \in DevType /\ Good(dev) BY IInvGood DEF Good
<1>2. Submits(dev, e) /\ \A t \in Types : e.subs[dev.index][t] = {}
  BY <1>1, EndFrameSubmits
<1> HIDE DEF e
<1>3. /\ dev'.counter = dev.counter /\ dev'.count = dev.count /\ dev'.destroyed = dev.destroyed
      /\ dev'.timeline = e.timeline /\ dev'.fence = e.fence /\ dev'.subs = e.subs /\ dev'.at = e.at
      /\ e.index = dev.index /\ e \in DevType /\ Good(e)
  BY <1>2 DEF Submits, Good, e
<1>4. /\ dev.lock = "free" /\ dev.index < dev.count /\ dev.counter = 0
      /\ dev.index \in Nat /\ dev.count \in Nat /\ dev.index \in Slots
  BY <1>1, DevFields DEF Drained, Unlocked, Slots
<1>5. dev'.index < dev'.count /\ Current' = Current
  BY <1>3, <1>4 DEF NextIndex, Current
<1>6. TypeOK' BY DEF IInv, TypeOK
<1>7. FencesSubmitted' BY <1>3 DEF FencesSubmitted, Good, Fenced
<1>8. \A f \in Slots, t \in Types : e.subs[f][t] = {}
  <2> SUFFICES ASSUME NEW f \in Slots, NEW t \in Types PROVE e.subs[f][t] = {} OBVIOUS
  <2>1. CASE f = dev.index BY <1>2, <2>1
  <2>2. CASE f # dev.index
    <3>1. dev.subs[f][t] = {} BY <2>2 DEF IInv, CurrentFrame
    <3> QED BY <1>2, <3>1 DEF Submits
  <2> QED BY <2>1, <2>2
<1>9. CurrentFrame'
  <2>1. Recording' = {} BY NothingRecorded DEF Recording
  <2> QED BY <1>3, <1>4, <1>5, <1>8, <2>1, FS_EmptySet DEF CurrentFrame
<1>10. CmdsCovered'
  <2> SUFFICES ASSUME NEW c \in Cmds
               PROVE  /\ cmd[c].status = "submitted" => Covered(c)'
                      /\ cmd[c].status = "reset" => Executed(c)'
    BY <1>3 DEF CmdsCovered, Unfinished, IInv
  <2>1. /\ cmd[c].home \in Slots /\ dev.at[c][1] \in Types /\ dev.at[c][2] \in Nat
    BY <1>1, DevFields DEF IInv, TypeOK, CmdType
  <2>2. CASE Queued(dev, c) /\ Sent(e, c)
    <3>1. cmd[c].home = dev.index /\ cmd[c].status = "submitted"
      BY <1>4, <2>2 DEF Queued, IInv, CurrentFrame
    <3>2. dev'.at[c][2] > 0 /\ dev'.at[c][2] <= dev'.fence[cmd'[c].home][dev'.at[c][1]]
      BY <1>3, <2>2, <3>1 DEF Sent
    <3> QED BY <3>1, <3>2 DEF Covered
  <2>3. CASE /\ e.at[c] = dev.at[c]
             /\ \A f \in Slots, t \in Types : c \in dev.subs[f][t] => c \in e.subs[f][t]
    <3>1. cmd[c].status = "submitted" => Covered(c)'
      <4> SUFFICES ASSUME cmd[c].status = "submitted" PROVE Covered(c)' OBVIOUS
      <4>1. dev.at[c][2] > 0 /\ dev.at[c][2] <= dev.fence[cmd[c].home][dev.at[c][1]]
        BY <1>8, <2>1, <2>3 DEF IInv, CmdsCovered, Covered
      <4>2. dev.fence[cmd[c].home][dev.at[c][1]] <= e.fence[cmd[c].home][dev.at[c][1]]
        BY <1>2, <2>1 DEF Submits
      <4>3. /\ dev.fence[cmd[c].home][dev.at[c][1]] \in Nat
            /\ e.fence[cmd[c].home][dev.at[c][1]] \in Nat
        BY <1>1, <1>3, <2>1, DevFields
      <4>4. dev'.at[c][2] > 0 /\ dev'.at[c][2] <= dev'.fence[cmd'[c].home][dev'.at[c][1]]
        BY <1>3, <2>1, <2>3, <4>1, <4>2, <4>3
      <4> QED BY <4>4, Zenon DEF Covered
    <3>2. cmd[c].status = "reset" => Executed(c)'
      BY <1>3, <2>3 DEF IInv, CmdsCovered, Executed, Done
    <3> QED BY <3>1, <3>2
  <2> QED BY <1>2, <2>2, <2>3 DEF Submits
<1>11. DroppedOnce' BY <1>3 DEF IInv, DroppedOnce
<1>12. DropsOrdered' BY <1>3, <1>5 DEF IInv, DropsOrdered, Unfinished, Turn
<1> QED BY <1>6, <1>7, <1>9, <1>10, <1>11, <1>12 DEF IInv

(* PerFrame::Begin empties the lists of its frames and nothing else.      *)
LEMMA BeginListsType ==
  ASSUME NEW d \in DevType, NEW S
  PROVE  /\ BeginLists(d, S) \in DevType
         /\ BeginLists(d, S).lock = d.lock /\ BeginLists(d, S).index = d.index
         /\ BeginLists(d, S).count = d.count /\ BeginLists(d, S).counter = d.counter
         /\ BeginLists(d, S).timeline = d.timeline /\ BeginLists(d, S).subs = d.subs
         /\ BeginLists(d, S).fence = d.fence /\ BeginLists(d, S).at = d.at
         /\ BeginLists(d, S).destroyed = [f \in Slots |-> IF f \in S THEN {} ELSE d.destroyed[f]]
<1> DEFINE
  cleared(list) == [f \in Slots |-> IF f \in S THEN {} ELSE list[f]]
  wf == cleared(d.waitFences)
  re == cleared(d.recycle)
  ds == cleared(d.destroyed)
  bl == cleared(d.blocks)
  e == [d EXCEPT !.waitFences = wf, !.recycle = re, !.destroyed = ds, !.blocks = bl]
<1>1. wf \in [Slots -> SUBSET Batches] /\ re \in [Slots -> SUBSET Batches] BY DEF DevType
<1>2. ds \in [Slots -> SUBSET Objects] /\ bl \in [Slots -> SUBSET Cmds] BY DEF DevType
<1>3. BeginLists(d, S) = e BY DEF BeginLists
<1> HIDE DEF wf, re, ds, bl
<1>4. /\ e \in DevType
      /\ e.lock = d.lock /\ e.index = d.index /\ e.count = d.count /\ e.counter = d.counter
      /\ e.timeline = d.timeline /\ e.subs = d.subs /\ e.fence = d.fence /\ e.at = d.at
      /\ e.destroyed = ds
  BY <1>1, <1>2, Zenon DEF DevType
<1> QED BY <1>3, <1>4 DEF ds

(* PerFrame::Begin resets the command buffers of its frames and no        *)
(* others.                                                                *)
LEMMA BeginCmdsFields ==
  ASSUME cmd \in [Cmds -> CmdType], NEW S, BeginCmds(S)
  PROVE  /\ cmd' \in [Cmds -> CmdType]
         /\ \A c \in Cmds :
              /\ cmd'[c].home = cmd[c].home /\ cmd'[c].uses = cmd[c].uses
              /\ cmd'[c].status = IF cmd[c].status \in {"recording", "submitted"} /\ cmd[c].home \in S
                                  THEN "reset" ELSE cmd[c].status
<1> SUFFICES ASSUME NEW c \in Cmds
             PROVE  /\ cmd'[c] \in CmdType
                    /\ cmd'[c].home = cmd[c].home /\ cmd'[c].uses = cmd[c].uses
                    /\ cmd'[c].status = IF cmd[c].status \in {"recording", "submitted"} /\ cmd[c].home \in S
                                        THEN "reset" ELSE cmd[c].status
  BY DEF BeginCmds
<1> DEFINE
  st == IF cmd[c].status \in {"recording", "submitted"} /\ cmd[c].home \in S
        THEN "reset" ELSE cmd[c].status
  bl == IF \E f \in S : c \in dev.blocks[f] THEN "recycled" ELSE cmd[c].block
<1>1. cmd[c] \in CmdType OBVIOUS
<1>2. cmd'[c] = [cmd[c] EXCEPT !.status = st, !.block = bl]
  BY DEF BeginCmds
<1>3. /\ st \in {"idle", "recording", "submitted", "reset"}
      /\ bl \in {"none", "vbo", "ubo", "given", "recycled"}
  BY <1>1 DEF CmdType
<1> HIDE DEF st, bl
<1>4. /\ cmd'[c] \in CmdType /\ cmd'[c].status = st
      /\ cmd'[c].home = cmd[c].home /\ cmd'[c].uses = cmd[c].uses
  BY <1>1, <1>2, <1>3, Zenon DEF CmdType
<1> QED BY <1>4 DEF st

(* PerFrame::Begin frees the objects in the lists of its frames and no    *)
(* others.                                                                *)
LEMMA BeginObjectsFields ==
  ASSUME obj \in [Objects -> {"live", "dead", "freed"}], NEW S, BeginObjects(S)
  PROVE  /\ obj' \in [Objects -> {"live", "dead", "freed"}]
         /\ \A o \in Objects :
              obj'[o] = IF \E f \in S : o \in dev.destroyed[f] THEN "freed" ELSE obj[o]
BY DEF BeginObjects

(* PerFrame::Begin keeps the invariant, provided that what it waited for  *)
(* is all that the frame submitted.                                       *)
LEMMA BeginStep ==
  ASSUME IInv, BeginFrame, \A t \in Types : dev.fence[dev.index][t] <= completed[t]
  PROVE  IInv'
<1> DEFINE i == dev.index
           b == BeginLists(dev, {i})
<1>1. /\ dev.lock = "next" /\ dev' = [b EXCEPT !.lock = "free"]
      /\ BeginCmds({i}) /\ BeginObjects({i}) /\ app' = app /\ completed' = completed
  BY DEF BeginFrame
<1>2. /\ dev \in DevType /\ cmd \in [Cmds -> CmdType]
      /\ obj \in [Objects -> {"live", "dead", "freed"}] /\ completed \in [Types -> Nat]
  BY DEF IInv, TypeOK
<1>3. /\ b \in DevType /\ b.index = i /\ b.count = dev.count /\ b.counter = dev.counter
      /\ b.timeline = dev.timeline /\ b.subs = dev.subs /\ b.fence = dev.fence /\ b.at = dev.at
      /\ b.destroyed = [f \in Slots |-> IF f \in {i} THEN {} ELSE dev.destroyed[f]]
  BY <1>2, BeginListsType
<1> HIDE DEF b
<1>4. /\ dev' \in DevType /\ dev'.lock = "free" /\ dev'.index = i /\ dev'.count = dev.count
      /\ dev'.counter = dev.counter /\ dev'.timeline = dev.timeline /\ dev'.subs = dev.subs
      /\ dev'.fence = dev.fence /\ dev'.at = dev.at
      /\ \A f \in Slots : dev'.destroyed[f] = IF f = i THEN {} ELSE dev.destroyed[f]
  <2>1. /\ dev' \in DevType /\ dev'.lock = "free" /\ dev'.index = b.index /\ dev'.count = b.count
        /\ dev'.counter = b.counter /\ dev'.timeline = b.timeline /\ dev'.subs = b.subs
        /\ dev'.fence = b.fence /\ dev'.at = b.at /\ dev'.destroyed = b.destroyed
    BY <1>1, <1>3, Zenon DEF DevType
  <2> QED BY <1>3, <2>1
<1>5. /\ cmd' \in [Cmds -> CmdType]
      /\ \A c \in Cmds :
           /\ cmd'[c].home = cmd[c].home /\ cmd'[c].uses = cmd[c].uses
           /\ cmd'[c].status = IF cmd[c].status \in {"recording", "submitted"} /\ cmd[c].home = i
                               THEN "reset" ELSE cmd[c].status
  BY <1>1, <1>2, BeginCmdsFields
<1>6. /\ obj' \in [Objects -> {"live", "dead", "freed"}]
      /\ \A o \in Objects : obj'[o] = IF o \in dev.destroyed[i] THEN "freed" ELSE obj[o]
  BY <1>1, <1>2, BeginObjectsFields
<1>7. /\ i < dev.count /\ i \in Nat /\ dev.count \in Nat /\ i \in Slots
      /\ \A f \in Slots, t \in Types : dev.subs[f][t] = {}
      /\ Recording = {}
  <2>1. \A f \in Slots, t \in Types : dev.subs[f][t] = {}
    BY <1>1, <1>2, DevFields DEF IInv, CurrentFrame
  <2> QED BY <1>1, <1>2, <2>1, DevFields DEF IInv, CurrentFrame, Slots
<1>8. TypeOK' BY <1>1, <1>4, <1>5, <1>6 DEF IInv, TypeOK
<1>9. FencesSubmitted' BY <1>4 DEF IInv, FencesSubmitted
<1>10. CurrentFrame'
  <2>1. Recording' = {} BY <1>5, <1>7 DEF Recording
  <2> QED BY <1>4, <1>7, <2>1 DEF IInv, CurrentFrame
<1>11. CmdsCovered'
  <2> SUFFICES ASSUME NEW c \in Cmds
               PROVE  /\ cmd'[c].status = "idle" => cmd'[c].uses = {}
                      /\ cmd'[c].status \in {"recording", "submitted"} => cmd'[c].home < dev.count
                      /\ cmd'[c].status = "submitted" => Covered(c)'
                      /\ cmd'[c].status = "reset" => Executed(c)'
    BY <1>4 DEF CmdsCovered, Unfinished
  <2>1. /\ cmd[c].home \in Slots /\ dev.at[c][1] \in Types /\ dev.at[c][2] \in Nat
    BY <1>2, DevFields DEF CmdType
  <2>2. cmd[c].status # "recording" BY <1>7 DEF Recording
  <2>3. cmd[c].status = "submitted" =>
          dev.at[c][2] > 0 /\ dev.at[c][2] <= dev.fence[cmd[c].home][dev.at[c][1]]
    BY <1>7, <2>1 DEF IInv, CmdsCovered, Covered
  <2>4. CASE cmd[c].status = "submitted" /\ cmd[c].home = i
    <3>1. dev.at[c][2] <= completed[dev.at[c][1]]
      <4>1. dev.fence[i][dev.at[c][1]] <= completed[dev.at[c][1]] BY <2>1
      <4>2. dev.fence[i][dev.at[c][1]] \in Nat /\ completed[dev.at[c][1]] \in Nat
        BY <1>2, <1>7, <2>1, DevFields
      <4> QED BY <2>1, <2>3, <2>4, <4>1, <4>2
    <3>2. Executed(c)' BY <1>1, <1>4, <2>3, <2>4, <3>1 DEF Executed, Done
    <3> QED BY <1>5, <2>4, <3>2
  <2>5. CASE ~(cmd[c].status = "submitted" /\ cmd[c].home = i)
    <3>1. cmd'[c].status = cmd[c].status BY <1>5, <2>2, <2>5
    <3>2. cmd[c].status = "submitted" => Covered(c)'
      BY <1>4, <1>5, <2>3 DEF Covered
    <3>3. cmd[c].status = "reset" => Executed(c)'
      BY <1>1, <1>4 DEF IInv, CmdsCovered, Executed, Done
    <3> QED BY <1>5, <3>1, <3>2, <3>3 DEF IInv, CmdsCovered, Unfinished
  <2> QED BY <2>4, <2>5
<1>12. DroppedOnce'
  BY <1>4, <1>6, <1>7 DEF IInv, DroppedOnce
<1>13. DropsOrdered'
  <2> DEFINE turn(f) == IF f > i THEN f - i ELSE f + dev.count - i
  <2> SUFFICES ASSUME NEW o \in Objects, NEW c \in Cmds, o \in cmd[c].uses,
                      cmd'[c].status \in {"recording", "submitted"}
               PROVE  /\ obj'[o] # "freed"
                      /\ \A f \in Slots : o \in dev'.destroyed[f] => turn(cmd[c].home) <= turn(f)
    BY <1>4, <1>5 DEF DropsOrdered, Unfinished, Turn, Current
  <2>1. /\ cmd[c].home # i /\ Unfinished(c) /\ cmd[c].home < dev.count
        /\ cmd[c].home \in Slots /\ cmd[c].home \in Nat
    BY <1>2, <1>5 DEF IInv, CmdsCovered, Unfinished, CmdType, Slots
  <2>2. /\ obj[o] # "freed"
        /\ \A f \in Slots : o \in dev.destroyed[f] => f < dev.count /\ Turn(cmd[c].home) <= Turn(f)
    BY <2>1 DEF IInv, DropsOrdered, DroppedOnce
  <2>3. Turn(i) = 1 BY <1>1, <1>7 DEF Turn, Current
  <2>4. \A f \in Slots : f < dev.count /\ f # i => turn(f) = Turn(f) - 1 /\ Turn(f) \in Nat /\ Turn(f) > 1
    BY <1>1, <1>7 DEF Turn, Current, Slots
  <2>5. o \notin dev.destroyed[i] BY <1>7, <2>1, <2>2, <2>3, <2>4
  <2>6. obj'[o] # "freed" BY <1>6, <2>2, <2>5
  <2>7. ASSUME NEW f \in Slots, o \in dev'.destroyed[f]
        PROVE  turn(cmd[c].home) <= turn(f)
    <3>1. f # i /\ o \in dev.destroyed[f] BY <1>4, <2>7
    <3> HIDE DEF turn
    <3> QED BY <2>1, <2>2, <2>4, <3>1
  <2> QED BY <2>6, <2>7
<1> QED BY <1>8, <1>9, <1>10, <1>11, <1>12, <1>13 DEF IInv

(* After vkDeviceWaitIdle every frame may begin anew: WaitIdle and        *)
(* InitFrameContexts keep the invariant.                                  *)
LEMMA IdleStep ==
  ASSUME IInv, NEW op \in {"idle", "init"}, IdleReached(op),
         NEW S, 0 .. dev.count - 1 \subseteq S,
         dev' \in DevType, dev'.lock = "free",
         dev'.counter = dev.counter, dev'.timeline = dev.timeline,
         dev'.subs = dev.subs, dev'.at = dev.at,
         \A f \in Slots, t \in Types : dev'.fence[f][t] \in {0, dev.fence[f][t]},
         dev'.destroyed = [f \in Slots |-> IF f \in S THEN {} ELSE dev.destroyed[f]]
  PROVE  IInv'
<1> DEFINE frames == 0 .. dev.count - 1
<1>1. /\ dev.lock # "free" /\ \A t \in Types : completed[t] = dev.timeline[t]
      /\ BeginCmds(frames) /\ BeginObjects(frames) /\ app' = app /\ completed' = completed
  BY DEF IdleReached
<1>2. /\ dev \in DevType /\ cmd \in [Cmds -> CmdType]
      /\ obj \in [Objects -> {"live", "dead", "freed"}] /\ completed \in [Types -> Nat]
      /\ dev.count \in Nat
  BY DevFields DEF IInv, TypeOK
<1>3. /\ cmd' \in [Cmds -> CmdType]
      /\ \A c \in Cmds :
           /\ cmd'[c].home = cmd[c].home /\ cmd'[c].uses = cmd[c].uses
           /\ cmd'[c].status = IF cmd[c].status \in {"recording", "submitted"} /\ cmd[c].home \in frames
                               THEN "reset" ELSE cmd[c].status
  BY <1>1, <1>2, BeginCmdsFields
<1>4. obj' \in [Objects -> {"live", "dead", "freed"}]
  BY <1>1, <1>2, BeginObjectsFields
<1>5. /\ \A f \in Slots, t \in Types : dev.subs[f][t] = {}
      /\ Recording = {}
  <2>1. \A f \in Slots, t \in Types : dev.subs[f][t] = {}
    BY <1>1, <1>2, DevFields DEF IInv, CurrentFrame
  <2> QED BY <1>1, <2>1 DEF IInv, CurrentFrame
<1>6. \A f \in Slots : dev'.destroyed[f] = {}
  <2> SUFFICES ASSUME NEW f \in Slots PROVE dev'.destroyed[f] = {} OBVIOUS
  <2>1. CASE f \in S BY <2>1
  <2>2. CASE f \notin S
    <3>1. f \in Nat /\ f >= dev.count BY <1>2, <2>2 DEF Slots
    <3>2. \A o \in dev.destroyed[f] : o \in Objects BY <1>2 DEF DevType
    <3>3. dev.destroyed[f] = {} BY <1>2, <3>1, <3>2 DEF IInv, DroppedOnce
    <3> QED BY <2>2, <3>3
  <2> QED BY <2>1, <2>2
<1>7. \A c \in Cmds : cmd'[c].status \in {"idle", "reset"}
  <2> SUFFICES ASSUME NEW c \in Cmds PROVE cmd'[c].status \in {"idle", "reset"} OBVIOUS
  <2>1. cmd[c].status \in {"idle", "recording", "submitted", "reset"} /\ cmd[c].home \in Nat
    BY <1>2 DEF CmdType, Slots
  <2>2. cmd[c].status \in {"recording", "submitted"} => cmd[c].home \in frames
    BY <1>2, <2>1 DEF IInv, CmdsCovered, Unfinished
  <2> QED BY <1>3, <2>1, <2>2
<1>8. TypeOK' BY <1>1, <1>3, <1>4 DEF IInv, TypeOK
<1>9. FencesSubmitted'
  <2> SUFFICES ASSUME NEW f \in Slots, NEW t \in Types
               PROVE  dev'.fence[f][t] <= dev.timeline[t]
    BY DEF FencesSubmitted
  <2>1. dev.fence[f][t] <= dev.timeline[t] /\ dev.timeline[t] \in Nat
    BY <1>2, DevFields DEF IInv, FencesSubmitted
  <2> QED BY <2>1
<1>10. CurrentFrame'
  <2>1. Recording' = {} BY <1>7 DEF Recording
  <2> QED BY <1>5, <2>1 DEF IInv, CurrentFrame
<1>11. CmdsCovered'
  <2> SUFFICES ASSUME NEW c \in Cmds
               PROVE  /\ cmd'[c].status = "idle" => cmd'[c].uses = {}
                      /\ cmd'[c].status = "reset" => Executed(c)'
    BY <1>7 DEF CmdsCovered, Unfinished
  <2>1. /\ cmd[c].home \in Slots /\ dev.at[c][1] \in Types /\ dev.at[c][2] \in Nat
    BY <1>2, DevFields DEF CmdType
  <2>2. CASE cmd[c].status = "submitted"
    <3>1. dev.at[c][2] > 0 /\ dev.at[c][2] <= dev.fence[cmd[c].home][dev.at[c][1]]
      BY <1>5, <2>1, <2>2 DEF IInv, CmdsCovered, Covered
    <3>2. dev.fence[cmd[c].home][dev.at[c][1]] <= dev.timeline[dev.at[c][1]]
      BY <2>1 DEF IInv, FencesSubmitted
    <3>3. /\ dev.fence[cmd[c].home][dev.at[c][1]] \in Nat
          /\ dev.timeline[dev.at[c][1]] \in Nat
      BY <1>2, <2>1, DevFields
    <3>4. dev.at[c][2] <= completed[dev.at[c][1]] BY <1>1, <2>1, <3>1, <3>2, <3>3
    <3>5. Executed(c)' BY <1>1, <3>1, <3>4 DEF Executed, Done
    <3>6. cmd'[c].status = "reset" BY <1>3, <1>7, <2>2
    <3> QED BY <3>5, <3>6
  <2>3. CASE cmd[c].status # "submitted"
    <3>1. cmd'[c].status = cmd[c].status BY <1>3, <1>5, <2>3 DEF Recording
    <3>2. cmd[c].status = "reset" => Executed(c)'
      BY <1>1 DEF IInv, CmdsCovered, Executed, Done
    <3> QED BY <1>3, <3>1, <3>2 DEF IInv, CmdsCovered
  <2> QED BY <2>2, <2>3
<1>12. DroppedOnce' BY <1>6 DEF DroppedOnce
<1>13. DropsOrdered' BY <1>7 DEF DropsOrdered, Unfinished
<1> QED BY <1>8, <1>9, <1>10, <1>11, <1>12, <1>13 DEF IInv

(* ClearWaitSemaphores changes nothing the invariant speaks of.           *)
LEMMA ClearWaitSemaphoresType ==
  ASSUME NEW d \in DevType
  PROVE  /\ ClearWaitSemaphores(d) \in DevType
         /\ ClearWaitSemaphores(d).counter = d.counter
         /\ ClearWaitSemaphores(d).timeline = d.timeline
         /\ ClearWaitSemaphores(d).subs = d.subs /\ ClearWaitSemaphores(d).fence = d.fence
         /\ ClearWaitSemaphores(d).at = d.at /\ ClearWaitSemaphores(d).destroyed = d.destroyed
<1> DEFINE
  wa == [t \in Types |-> {}]
  handles == UNION {d.waits[t] : t \in Types}
  lost == IF ~Timeline THEN d.lostTimelines ELSE d.lostTimelines \cup {s[1] : s \in handles}
  e == [d EXCEPT !.waits = wa, !.lostTimelines = lost]
<1>1. wa \in [Types -> SUBSET Waits] OBVIOUS
<1>2. handles \in SUBSET Waits /\ d.lostTimelines \in SUBSET Types BY DEF DevType
<1>3. \A s \in handles : s[1] \in Types BY <1>2 DEF Waits
<1> HIDE DEF handles
<1>4. lost \in SUBSET Types BY <1>2, <1>3
<1>5. ClearWaitSemaphores(d) = e BY DEF ClearWaitSemaphores, handles
<1> HIDE DEF wa, lost
<1>6. /\ e \in DevType /\ e.counter = d.counter /\ e.timeline = d.timeline /\ e.subs = d.subs
      /\ e.fence = d.fence /\ e.at = d.at /\ e.destroyed = d.destroyed
  BY <1>1, <1>4, Zenon DEF DevType
<1> QED BY <1>5, <1>6

(* WaitIdle keeps the invariant.                                          *)
LEMMA WaitIdleDoneStep ==
  ASSUME IInv, WaitIdleDone
  PROVE  IInv'
<1> DEFINE S == 0 .. dev.count - 1
           e == ClearWaitSemaphores(dev)
           b == BeginLists(e, S)
<1>1. dev \in DevType BY DEF IInv, TypeOK
<1>2. IdleReached("idle") /\ dev' = [b EXCEPT !.lock = "free"]
  BY DEF WaitIdleDone
<1>3. /\ e \in DevType /\ e.counter = dev.counter /\ e.timeline = dev.timeline
      /\ e.subs = dev.subs /\ e.fence = dev.fence /\ e.at = dev.at /\ e.destroyed = dev.destroyed
  BY <1>1, ClearWaitSemaphoresType
<1> HIDE DEF e
<1>4. /\ b \in DevType /\ b.counter = e.counter /\ b.timeline = e.timeline
      /\ b.subs = e.subs /\ b.fence = e.fence /\ b.at = e.at
      /\ b.destroyed = [f \in Slots |-> IF f \in S THEN {} ELSE e.destroyed[f]]
  BY <1>3, BeginListsType
<1> HIDE DEF b
<1>5. /\ dev' \in DevType /\ dev'.lock = "free" /\ dev'.counter = b.counter
      /\ dev'.timeline = b.timeline /\ dev'.subs = b.subs /\ dev'.fence = b.fence
      /\ dev'.at = b.at /\ dev'.destroyed = b.destroyed
  BY <1>2, <1>4, Zenon DEF DevType
<1>6. \A f \in Slots, t \in Types : dev'.fence[f][t] \in {0, dev.fence[f][t]}
  BY <1>3, <1>4, <1>5
<1>7. dev'.destroyed = [f \in Slots |-> IF f \in S THEN {} ELSE dev.destroyed[f]]
  BY <1>3, <1>4, <1>5
<1>8. dev'.lock = "free" /\ dev'.counter = dev.counter /\ dev'.timeline = dev.timeline
      /\ dev'.subs = dev.subs /\ dev'.at = dev.at
  BY <1>3, <1>4, <1>5
<1>9. 0 .. dev.count - 1 \subseteq S OBVIOUS
<1> HIDE DEF S
<1> QED BY <1>2, <1>5, <1>6, <1>7, <1>8, <1>9, IdleStep, Zenon

(* InitFrameContexts keeps the invariant, even if it leaves               *)
(* frame_context_index out of range.                                      *)
LEMMA InitFrameContextsStep ==
  ASSUME IInv, NEW n \in FrameCounts, InitFrameContexts(n)
  PROVE  IInv'
<1> DEFINE e == ClearWaitSemaphores(dev)
           b == BeginLists(e, Slots)
           fe == [f \in Slots |-> [t \in Types |-> 0]]
<1>1. dev \in DevType BY DEF IInv, TypeOK
<1>2. IdleReached("init") /\ dev' = [b EXCEPT !.lock = "free", !.count = n, !.fence = fe]
  BY DEF InitFrameContexts
<1>3. /\ e \in DevType /\ e.counter = dev.counter /\ e.timeline = dev.timeline
      /\ e.subs = dev.subs /\ e.at = dev.at /\ e.destroyed = dev.destroyed
  BY <1>1, ClearWaitSemaphoresType
<1> HIDE DEF e
<1>4. /\ b \in DevType /\ b.counter = e.counter /\ b.timeline = e.timeline
      /\ b.subs = e.subs /\ b.at = e.at
      /\ b.destroyed = [f \in Slots |-> IF f \in Slots THEN {} ELSE e.destroyed[f]]
  BY <1>3, BeginListsType
<1>5. fe \in [Slots -> [Types -> Nat]] /\ n \in 1 .. MaxFrames BY FramesAssumption
<1>6. \A f \in Slots, t \in Types : fe[f][t] = 0 OBVIOUS
<1> HIDE DEF b, fe
<1>7. /\ dev' \in DevType /\ dev'.lock = "free" /\ dev'.counter = b.counter
      /\ dev'.timeline = b.timeline /\ dev'.subs = b.subs /\ dev'.fence = fe
      /\ dev'.at = b.at /\ dev'.destroyed = b.destroyed
  BY <1>2, <1>4, <1>5, Zenon DEF DevType
<1>8. 0 .. dev.count - 1 \subseteq Slots
  BY <1>1, DevFields, FramesAssumption DEF Slots
<1>9. \A f \in Slots, t \in Types : dev'.fence[f][t] \in {0, dev.fence[f][t]} BY <1>6, <1>7
<1>10. dev'.destroyed = [f \in Slots |-> IF f \in Slots THEN {} ELSE dev.destroyed[f]]
  BY <1>3, <1>4, <1>7
<1>11. dev'.lock = "free" /\ dev'.counter = dev.counter /\ dev'.timeline = dev.timeline
       /\ dev'.subs = dev.subs /\ dev'.at = dev.at
  BY <1>3, <1>4, <1>7
<1> QED BY <1>2, <1>7, <1>8, <1>9, <1>10, <1>11, IdleStep, Zenon

(* Giving up a block while recording keeps the invariant.                 *)
LEMMA RequestBlockStep ==
  ASSUME IInv, NEW c \in Cmds, RequestBlock(c)
  PROVE  IInv'
<1>1. Submits(dev, dev') BY IInvGood, GiveUpBlockSubmits DEF RequestBlock
<1>2. /\ cmd \in [Cmds -> CmdType] /\ cmd' = [cmd EXCEPT ![c].block = "given"]
      /\ completed \in [Types -> Nat]
      /\ obj' = obj /\ app' = app /\ completed' = completed
  BY DEF RequestBlock, IInv, TypeOK
<1>3. cmd' \in [Cmds -> CmdType] BY <1>2 DEF CmdType
<1>4. \A b \in Cmds : /\ cmd'[b].status = cmd[b].status
                      /\ cmd'[b].home = cmd[b].home /\ cmd'[b].uses = cmd[b].uses
  BY <1>2 DEF CmdType
<1>5. TypeOK' BY <1>1, <1>2, <1>3 DEF IInv, TypeOK, Submits, Good
<1> QED BY <1>1, <1>2, <1>4, <1>5, SubmissionStep

(* SubmitEmpty keeps the invariant.                                       *)
LEMMA SubmitEmptyStep ==
  ASSUME IInv, NEW t \in Types, NEW demand, SubmitEmpty(t, demand)
  PROVE  IInv'
<1> DEFINE flushed == IF t = "transfer" THEN dev ELSE FlushTransfer(dev)
           sent == SubmitQueue(flushed, t, demand # "none")
<1>1. /\ dev' = sent /\ Handles(demand, <<t, sent.timeline[t]>>)
      /\ cmd' = cmd /\ obj' = obj /\ completed' = completed
  BY DEF SubmitEmpty
<1>2. Good(dev) BY IInvGood
<1>3. Submits(dev, flushed) BY <1>2, FlushTransferSubmits, SubmitsReflexive
<1>4. Good(flushed) BY <1>3 DEF Submits
<1> HIDE DEF flushed
<1>5. (demand # "none") \in BOOLEAN OBVIOUS
<1>6. Submits(flushed, sent) BY <1>4, <1>5, SubmitQueueSubmits
<1> HIDE DEF sent
<1>7. Submits(dev, sent) BY <1>2, <1>3, <1>6, SubmitsTransitive
<1>8. sent \in DevType BY <1>7 DEF Submits, Good
<1>9. <<t, sent.timeline[t]>> \in Batches BY <1>8, DevFields DEF Batches
<1>10. TypeOK' BY <1>1, <1>8, <1>9, HandlesType DEF IInv, TypeOK
<1>11. \A u \in Types : completed[u] <= completed[u] BY DEF IInv, TypeOK
<1> QED BY <1>1, <1>7, <1>10, <1>11, SubmissionStep

(* AddWaitSemaphore keeps the invariant, whether it flushes or not.       *)
LEMMA AddWaitSemaphoreStep ==
  ASSUME IInv, NEW t \in Types, NEW s, NEW stages \in WaitStages, NEW flush \in BOOLEAN,
         AddWaitSemaphore(t, s, stages, flush)
  PROVE  IInv'
<1> DEFINE d == IF flush THEN FlushType(dev, t) ELSE dev
<1> DEFINE at == [u \in Types |-> IF u = t THEN stages ELSE {}]
<1>1. /\ dev' = AddWaits(d, at, s) /\ s \in app.semaphores
      /\ app' = [app EXCEPT !.semaphores = @ \ {s}]
      /\ cmd' = cmd /\ obj' = obj /\ completed' = completed
  BY DEF AddWaitSemaphore
<1>2. Good(dev) BY IInvGood
<1>3. Submits(dev, d) BY <1>2, FlushTypeSubmits, SubmitsReflexive
<1>4. Good(d) BY <1>3 DEF Submits
<1> HIDE DEF d
<1>5. s \in Batches /\ at \in [Types -> SUBSET Stages]
  BY <1>1, WaitsAssumption DEF IInv, TypeOK
<1> HIDE DEF at
<1>6. Submits(d, dev') BY <1>1, <1>4, <1>5, AddWaitsSubmits
<1>7. Submits(dev, dev') BY <1>2, <1>3, <1>6, SubmitsTransitive
<1>8. app' \in [semaphores : SUBSET Batches, fences : SUBSET Batches]
  BY <1>1 DEF IInv, TypeOK
<1>9. TypeOK' BY <1>1, <1>7, <1>8 DEF IInv, TypeOK, Submits, Good
<1>10. \A u \in Types : completed[u] <= completed[u] BY DEF IInv, TypeOK
<1> QED BY <1>1, <1>7, <1>9, <1>10, SubmissionStep

(* Steps that leave what a frame has recorded and submitted alone.         *)
LEMMA QuietStep ==
  ASSUME IInv, dev' \in DevType,
         dev'.lock = dev.lock, dev'.counter = dev.counter, dev'.index = dev.index,
         dev'.count = dev.count, dev'.destroyed = dev.destroyed, dev'.timeline = dev.timeline,
         dev'.fence = dev.fence, dev'.subs = dev.subs, dev'.at = dev.at,
         cmd' = cmd, obj' = obj, completed' \in [Types -> Nat],
         app' \in [semaphores : SUBSET Batches, fences : SUBSET Batches],
         \A t \in Types : completed[t] <= completed'[t]
  PROVE  IInv'
<1>1. Submits(dev, dev') BY IInvGood, SameSubmits
<1>2. TypeOK' BY DEF IInv, TypeOK
<1> QED BY <1>1, <1>2, SubmissionStep

(* Dropping a semaphore or a fence keeps the invariant.                   *)
LEMMA DropSyncStep ==
  ASSUME IInv, NEW b \in Batches,
         NEW keep \in BOOLEAN,
         dev' = [dev EXCEPT !.recycle[dev.index] = IF keep THEN @ ELSE @ \cup {b}],
         cmd' = cmd, obj' = obj, completed' = completed,
         app' \in [semaphores : SUBSET Batches, fences : SUBSET Batches]
  PROVE  IInv'
<1> DEFINE re == [dev.recycle EXCEPT ![dev.index] = IF keep THEN @ ELSE @ \cup {b}]
<1>1. dev \in DevType /\ completed \in [Types -> Nat] BY DEF IInv, TypeOK
<1>2. re \in [Slots -> SUBSET Batches]
  <2>1. dev.recycle \in [Slots -> SUBSET Batches] /\ dev.index \in Slots BY <1>1 DEF DevType
  <2>2. dev.recycle[dev.index] \cup {b} \in SUBSET Batches BY <2>1
  <2> QED BY <2>1, <2>2
<1>3. dev' = [dev EXCEPT !.recycle = re] OBVIOUS
<1> HIDE DEF re
<1>4. /\ dev' \in DevType
      /\ dev'.lock = dev.lock /\ dev'.counter = dev.counter /\ dev'.index = dev.index
      /\ dev'.count = dev.count /\ dev'.destroyed = dev.destroyed /\ dev'.timeline = dev.timeline
      /\ dev'.fence = dev.fence /\ dev'.subs = dev.subs /\ dev'.at = dev.at
  BY <1>1, <1>2, <1>3, Zenon DEF DevType
<1>5. \A t \in Types : completed[t] <= completed'[t] BY <1>1
<1> QED BY <1>1, <1>4, <1>5, QuietStep

(* Dropping a semaphore handle keeps the invariant.                       *)
LEMMA DropSemaphoreStep ==
  ASSUME IInv, NEW s \in app.semaphores, DropSemaphore(s)
  PROVE  IInv'
<1>1. s \in Batches /\ app' \in [semaphores : SUBSET Batches, fences : SUBSET Batches]
  BY DEF DropSemaphore, IInv, TypeOK
<1> QED BY <1>1, ModeAssumption, DropSyncStep DEF DropSemaphore

(* Dropping a fence handle keeps the invariant.                           *)
LEMMA DropFenceStep ==
  ASSUME IInv, NEW f \in app.fences, DropFence(f)
  PROVE  IInv'
<1>1. f \in Batches /\ app' \in [semaphores : SUBSET Batches, fences : SUBSET Batches]
  BY DEF DropFence, IInv, TypeOK
<1>2. dev' = [dev EXCEPT !.recycle[dev.index] = IF FALSE THEN @ ELSE @ \cup {f}]
  BY DEF DropFence
<1> QED BY <1>1, <1>2, FALSE \in BOOLEAN, DropSyncStep DEF DropFence

(* The GPU completing a batch keeps the invariant.                        *)
LEMMA CompleteStep ==
  ASSUME IInv, NEW t \in Types, Complete(t)
  PROVE  IInv'
<1> DEFINE qu == [dev.queue EXCEPT ![t] = Tail(@)]
<1>1. /\ dev \in DevType /\ dev.queue \in [Types -> Seq(SUBSET Waits)]
      /\ completed \in [Types -> Nat]
  BY DEF IInv, TypeOK, DevType
<1>2. /\ dev.queue[t] # <<>> /\ completed' = [completed EXCEPT ![t] = @ + 1]
      /\ dev' = [dev EXCEPT !.queue = qu] /\ cmd' = cmd /\ obj' = obj /\ app' = app
  BY DEF Complete
<1>3. qu \in [Types -> Seq(SUBSET Waits)] BY <1>1, <1>2
<1> HIDE DEF qu
<1>4. /\ dev' \in DevType
      /\ dev'.lock = dev.lock /\ dev'.counter = dev.counter /\ dev'.index = dev.index
      /\ dev'.count = dev.count /\ dev'.destroyed = dev.destroyed /\ dev'.timeline = dev.timeline
      /\ dev'.fence = dev.fence /\ dev'.subs = dev.subs /\ dev'.at = dev.at
  BY <1>1, <1>2, <1>3, Zenon DEF DevType
<1>5. /\ completed' \in [Types -> Nat] /\ \A u \in Types : completed[u] <= completed'[u]
      /\ app' \in [semaphores : SUBSET Batches, fences : SUBSET Batches]
  BY <1>1, <1>2 DEF IInv, TypeOK
<1> QED BY <1>2, <1>4, <1>5, QuietStep

(* The calls that end a frame keep the invariant.                         *)
LEMMA EndFrameStep ==
  ASSUME IInv, \/ EndFrameContext \/ NextFrameContext \/ WaitIdle("idle") \/ WaitIdle("init")
  PROVE  IInv'
<1> DEFINE e == EndFrame(dev)
<1>1. Good(dev) /\ dev \in DevType BY IInvGood DEF Good
<1>2. Submits(dev, e) BY <1>1, EndFrameSubmits
<1>3. e \in DevType /\ e.index = dev.index BY <1>2 DEF Submits, Good
<1>4. CASE EndFrameContext
  <2>1. TypeOK' BY <1>3, <1>4 DEF EndFrameContext, IInv, TypeOK
  <2>2. \A t \in Types : completed[t] <= completed'[t]
    BY <1>4 DEF EndFrameContext, IInv, TypeOK
  <2> QED BY <1>2, <1>4, <2>1, <2>2, SubmissionStep DEF EndFrameContext
<1>5. CASE NextFrameContext
  <2>1. /\ Drained /\ dev' = [e EXCEPT !.index = NextIndex(dev), !.lock = "next"]
        /\ cmd' = cmd /\ obj' = obj /\ app' = app /\ completed' = completed
    BY <1>5 DEF NextFrameContext
  <2>2. NextIndex(dev) \in Slots
    BY <1>1, DevFields, FramesAssumption DEF NextIndex, Slots
  <2> HIDE DEF e
  <2>3. /\ dev' \in DevType /\ dev'.lock = "next" /\ dev'.index = NextIndex(dev)
        /\ dev'.counter = e.counter /\ dev'.count = e.count /\ dev'.timeline = e.timeline
        /\ dev'.fence = e.fence /\ dev'.subs = e.subs /\ dev'.at = e.at
        /\ dev'.destroyed = e.destroyed
    BY <1>3, <2>1, <2>2, Zenon DEF DevType
  <2> QED BY <2>1, <2>3, BlockStep DEF e
<1>6. ASSUME NEW op \in {"idle", "init"}, WaitIdle(op)
      PROVE  IInv'
  <2>1. /\ Drained /\ dev' = [e EXCEPT !.lock = op]
        /\ cmd' = cmd /\ obj' = obj /\ app' = app /\ completed' = completed
    BY <1>6 DEF WaitIdle
  <2> HIDE DEF e
  <2>2. /\ dev' \in DevType /\ dev'.lock = op /\ dev'.index = e.index
        /\ dev'.counter = e.counter /\ dev'.count = e.count /\ dev'.timeline = e.timeline
        /\ dev'.fence = e.fence /\ dev'.subs = e.subs /\ dev'.at = e.at
        /\ dev'.destroyed = e.destroyed
    BY <1>3, <2>1, Zenon DEF DevType
  <2> QED BY <1>3, <2>1, <2>2, BlockStep DEF e
<1> QED BY <1>4, <1>5, <1>6

-----------------------------------------------------------------------------
(* Every step keeps the invariant, provided that PerFrame::Begin has      *)
(* waited for the whole frame.                                            *)
LEMMA NextStep ==
  ASSUME IInv, [Next]_vars,
         BeginFrame => \A t \in Types : dev.fence[dev.index][t] <= completed[t]
  PROVE  IInv'
<1>1. CASE AnyThread
  <2>1. CASE \E c \in Cmds : Record(c) \/ RequestBlock(c) \/ Finish(c)
    BY <2>1, RecordStep, RequestBlockStep, FinishStep DEF Finish
  <2>2. CASE \E t \in Types, demand \in Demands \cup {"none"} : SubmitEmpty(t, demand)
    BY <2>2, SubmitEmptyStep
  <2>3. CASE \E t \in Types, s \in app.semaphores, stages \in WaitStages, flush \in BOOLEAN :
               AddWaitSemaphore(t, s, stages, flush)
    BY <2>3, AddWaitSemaphoreStep
  <2>4. CASE FlushFrame
    <3>1. Submits(dev, dev') BY <2>4, IInvGood, FlushAllSubmits DEF FlushFrame
    <3>2. TypeOK' BY <2>4, <3>1 DEF FlushFrame, Submits, Good, IInv, TypeOK
    <3>3. \A t \in Types : completed[t] <= completed'[t] BY <2>4 DEF FlushFrame, IInv, TypeOK
    <3> QED BY <2>4, <3>1, <3>2, <3>3, SubmissionStep DEF FlushFrame
  <2>5. CASE \E o \in Objects : Destroy(o) BY <2>5, DestroyStep
  <2>6. CASE \E s \in app.semaphores : DropSemaphore(s) BY <2>6, DropSemaphoreStep
  <2>7. CASE \E f \in app.fences : DropFence(f) BY <2>7, DropFenceStep
  <2> QED BY <1>1, <2>1, <2>2, <2>3, <2>4, <2>5, <2>6, <2>7 DEF AnyThread
<1>2. CASE FramePushing
  <2>1. CASE BeginFrame BY <2>1, BeginStep
  <2>2. CASE WaitIdleDone BY <2>2, WaitIdleDoneStep
  <2>3. CASE \E n \in FrameCounts : InitFrameContexts(n) BY <2>3, InitFrameContextsStep
  <2> QED BY <1>2, <2>1, <2>2, <2>3, EndFrameStep DEF FramePushing
<1>3. CASE \E t \in Types : Complete(t) BY <1>3, CompleteStep
<1>4. CASE UNCHANGED vars
  <2>1. dev \in DevType /\ \A t \in Types : completed[t] <= completed[t] BY DEF IInv, TypeOK
  <2> QED BY <1>4, <2>1, QuietStep DEF vars, IInv, TypeOK
<1> QED BY <1>1, <1>2, <1>3, <1>4 DEF Next

(* The invariant implies the safety properties.                           *)
LEMMA IInvSafe == IInv => TypeOK /\ NoUseAfterFree /\ CommandPoolSafe
<1> SUFFICES ASSUME IInv PROVE NoUseAfterFree /\ CommandPoolSafe BY DEF IInv
<1>1. \A c \in Cmds : cmd[c].status \in {"idle", "recording", "submitted", "reset"}
  BY DEF IInv, TypeOK, CmdType
<1> QED BY <1>1 DEF IInv, CmdsCovered, DropsOrdered, Unfinished, NoUseAfterFree, CommandPoolSafe

(* In either synchronisation mode: if every frame is over when            *)
(* PerFrame::Begin has waited (FrameIsOver), the inductive invariant      *)
(* always holds.                                                          *)
THEOREM InductiveInvariant ==
  Spec /\ FrameIsOver => []IInv
<1>1. ASSUME IInv, [Next]_vars,
             [dev.lock = "next" /\ dev'.lock = "free"
                => \A t \in Types : dev.fence[dev.index][t] <= completed[t]]_vars
      PROVE  IInv'
  <2>1. BeginFrame => \A t \in Types : dev.fence[dev.index][t] <= completed[t]
    <3> SUFFICES ASSUME BeginFrame PROVE \A t \in Types : dev.fence[dev.index][t] <= completed[t]
      OBVIOUS
    <3>1. BeginLists(dev, {dev.index}) \in DevType BY <1>1, BeginListsType DEF IInv, TypeOK
    <3>2. dev.lock = "next" /\ dev' = [BeginLists(dev, {dev.index}) EXCEPT !.lock = "free"]
      BY DEF BeginFrame
    <3>3. dev'.lock = "free" BY <3>1, <3>2, Zenon DEF DevType
    <3> QED BY <1>1, <3>2, <3>3 DEF vars
  <2> QED BY <1>1, <2>1, NextStep
<1> QED BY <1>1, Initially, PTL DEF Spec, FrameIsOver

(* With timeline semaphores, PerFrame::Begin waits for the three timeline *)
(* values of the frame, and the inductive invariant always holds.         *)
THEOREM TimelineInvariant ==
  ASSUME Timeline = TRUE
  PROVE  Spec => []IInv
<1>1. ASSUME IInv, [Next]_vars PROVE IInv'
  BY <1>1, NextStep DEF BeginFrame, FrameFinished
<1> QED BY <1>1, Initially, PTL DEF Spec

(* With timeline semaphores a frame is over when PerFrame::Begin has      *)
(* waited, and only PerFrame::Begin ends the wait.                        *)
THEOREM TimelineFrameIsOver ==
  ASSUME Timeline = TRUE
  PROVE  Spec => FrameIsOver
<1>1. ASSUME IInv, [Next]_vars
      PROVE  [dev.lock = "next" /\ dev'.lock = "free"
                => \A t \in Types : dev.fence[dev.index][t] <= completed[t]]_vars
  <2> SUFFICES ASSUME dev.lock = "next", dev'.lock = "free", Next
               PROVE  \A t \in Types : dev.fence[dev.index][t] <= completed[t]
    BY <1>1
  <2>1. ~Unlocked BY DEF Unlocked
  <2>2. ~AnyThread
    BY <2>1 DEF AnyThread, Record, RequestCommandBuffer, RequestBlock, Finish, Submit, SubmitEmpty,
                AddWaitSemaphore, FlushFrame, Destroy, DropSemaphore, DropFence
  <2>3. ~\E t \in Types : Complete(t)
    BY <1>1, Zenon DEF Complete, IInv, TypeOK, DevType
  <2>4. BeginFrame
    BY <2>1, <2>2, <2>3 DEF Next, FramePushing, EndFrameContext, NextFrameContext, WaitIdle,
                            Drained, WaitIdleDone, InitFrameContexts, IdleReached
  <2> QED BY <2>4 DEF BeginFrame, FrameFinished
<1> QED BY <1>1, TimelineInvariant, PTL DEF Spec, FrameIsOver

(* With timeline semaphores every field of Device keeps its type; that    *)
(* lock.counter never goes below zero needs the whole count of command    *)
(* buffers being recorded.                                                *)
THEOREM TypeCorrect == ASSUME Timeline = TRUE PROVE Spec => []TypeOK
BY TimelineInvariant, IInvSafe, PTL

(* No object is freed while a command buffer that uses it is being        *)
(* recorded, is pending or is being executed: with any number of frame    *)
(* contexts, queues that share a VkQueue or not, and objects dropped by   *)
(* any thread at any time.                                                *)
THEOREM NoUseAfterFreeHolds == Spec /\ FrameIsOver => []NoUseAfterFree
BY InductiveInvariant, IInvSafe, PTL

(* PerFrame::Begin resets a command pool only when all its command        *)
(* buffers have been executed.                                            *)
THEOREM CommandPoolSafeHolds == Spec /\ FrameIsOver => []CommandPoolSafe
BY InductiveInvariant, IInvSafe, PTL
=============================================================================
