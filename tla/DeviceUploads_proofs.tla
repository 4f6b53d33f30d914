------------------------- MODULE DeviceUploads_proofs -------------------------
(***************************************************************************)
(* Linear blocks and their copies: what is copied before it is read, when  *)
(* a block is handed out again, and that a frame leaves nothing behind.    *)
(*                                                                         *)
(* The copies are slipped in by whatever submission comes next, and their  *)
(* readers wait for them in three ways: by a semaphore, by the order of a  *)
(* VkQueue, or because an earlier batch of their queue did.  CopyPrecedes  *)
(* follows a copy through these; it is shown operator by operator for the  *)
(* values of dev that a call builds up (Ready), and then for each action.  *)
(***************************************************************************)
EXTENDS DeviceSync_proofs

(* A value of dev between two steps of a call that submits.                *)
Ready(d, R) ==
  /\ Sound(d) /\ completed \in [Types -> Nat]
  /\ \A c \in Cmds : cmd[c].type \in Types /\ cmd[c].reads \subseteq Stages
  /\ BlocksPending(d, R) /\ CopiesOrdered(d) /\ WaitsOwed(d)

(* Blocks that are to be copied or were.                                   *)
InCopy(d, c) == c \in d.vbo \cup d.ubo \cup d.staged \/ d.copyAt[c][2] > 0

(* From d to e no block and no copy was lost or made up.                   *)
Carries(d, e) ==
  /\ e.blocks = d.blocks /\ e.vbo \cup e.ubo \subseteq d.vbo \cup d.ubo
  /\ \A c \in Cmds :
       /\ InCopy(e, c) <=> InCopy(d, c)
       /\ d.copyAt[c][2] > 0 => e.copyAt[c] = d.copyAt[c]

LEMMA CarriesTransitive ==
  ASSUME NEW d, NEW e, NEW g, Carries(d, e), Carries(e, g)
  PROVE  Carries(d, g)
<1>1. ASSUME NEW c \in Cmds, d.copyAt[c][2] > 0 PROVE g.copyAt[c] = d.copyAt[c]
  <2>1. e.copyAt[c] = d.copyAt[c] BY <1>1 DEF Carries
  <2>2. e.copyAt[c][2] > 0 BY <1>1, <2>1
  <2> QED BY <2>1, <2>2 DEF Carries
<1>2. g.vbo \cup g.ubo \subseteq d.vbo \cup d.ubo /\ g.blocks = d.blocks BY DEF Carries
<1>3. \A c \in Cmds : InCopy(g, c) <=> InCopy(d, c) BY Zenon DEF Carries
<1> QED BY <1>1, <1>2, <1>3, Zenon DEF Carries

-----------------------------------------------------------------------------
(* A batch that waits for a copy stays where it is when others are added.  *)
LEMMA BehindKept ==
  ASSUME completed \in [Types -> Nat], NEW d \in DevType, NEW e \in DevType, NEW t \in Types,
         Len(d.queue[t]) <= Len(e.queue[t]),
         \A n \in 1 .. Len(d.queue[t]) : e.queue[t][n] = d.queue[t][n],
         NEW last \in Nat, NEW newLast \in Nat, last <= newLast, NEW copy, NEW stages,
         Behind(d, t, last, copy, stages)
  PROVE  Behind(e, t, newLast, copy, stages)
<1>1. PICK n \in 1 .. Len(d.queue[t]) :
        /\ completed[t] + n <= last
        /\ \E w \in d.queue[t][n] : w[1] = copy[1] /\ copy[2] <= w[2] /\ stages \subseteq w[3]
  BY DEF Behind
<1>2. Len(d.queue[t]) \in Nat /\ Len(e.queue[t]) \in Nat /\ completed[t] \in Nat BY SyncFields
<1>3. n \in 1 .. Len(e.queue[t]) /\ completed[t] + n <= newLast BY <1>1, <1>2
<1>4. e.queue[t][n] = d.queue[t][n] OBVIOUS
<1> QED BY <1>1, <1>3, <1>4, Zenon DEF Behind

(* The batch that is added waits for what t was told to wait for, and for  *)
(* the last batches of the types that share its VkQueue.                   *)
LEMMA BehindAdded ==
  ASSUME completed \in [Types -> Nat], NEW d \in DevType, QueueLengths(d), NEW t \in Types,
         NEW e, Values(d, t, e), NEW w \in d.waits[t] \cup QueueOrder(d, t),
         NEW copy, w[1] = copy[1], copy[2] <= w[2], NEW stages, stages \subseteq w[3]
  PROVE  Behind(e, t, d.timeline[t] + 1, copy, stages)
<1> DEFINE n == Len(d.queue[t]) + 1
<1>1. Len(d.queue[t]) \in Nat /\ completed[t] \in Nat /\ d.timeline[t] \in Nat
  BY SyncFields, DevFields
<1>2. d.timeline[t] = completed[t] + Len(d.queue[t]) BY DEF QueueLengths
<1>3. n \in 1 .. Len(e.queue[t]) /\ completed[t] + n <= d.timeline[t] + 1
  <2>1. Len(e.queue[t]) = Len(d.queue[t]) + 1 BY DEF Values
  <2>2. completed[t] + n = d.timeline[t] + 1 BY <1>1, <1>2
  <2>3. n \in Nat /\ 1 <= n /\ d.timeline[t] + 1 \in Nat BY <1>1
  <2>4. n = Len(e.queue[t]) BY <2>1
  <2> HIDE DEF n
  <2> QED BY <2>2, <2>3, <2>4
<1>4. w \in e.queue[t][n] BY DEF Values
<1> HIDE DEF n
<1> QED BY <1>3, <1>4, Zenon DEF Behind

(* A copy's barrier holds back what its readers can be made to wait at.    *)
LEMMA BarrierHolds ==
  ASSUME NEW c \in Cmds, cmd[c].type \in Types, cmd[c].type # "transfer",
         cmd[c].reads \subseteq Stages, SameVkQueue(c)
  PROVE  AwaitedReads(c) \subseteq BarrierStages
<1>1. CASE VkQueueOf["transfer"] = VkQueueOf["graphics"]
  BY <1>1 DEF AwaitedReads, BarrierStages
<1>2. CASE VkQueueOf["transfer"] # VkQueueOf["graphics"]
  <2>1. cmd[c].type = "compute" BY <1>2 DEF SameVkQueue, Types
  <2>2. VkQueueOf["transfer"] = VkQueueOf["compute"] BY <2>1 DEF SameVkQueue
  <2>3. BarrierStages = ComputeStages BY <1>2, <2>2 DEF BarrierStages
  <2>4. AwaitedReads(c) \subseteq ComputeStages BY <2>1 DEF AwaitedReads, QueueStages
  <2> QED BY <2>3, <2>4
<1> QED BY <1>1, <1>2

(* One vkQueueSubmit keeps every earlier copy ahead of its readers: it may *)
(* submit the reader, or give a waiting queue another batch before it.     *)
LEMMA EnqueuePrecedes ==
  ASSUME completed \in [Types -> Nat], NEW d, Sound(d), CopiesOrdered(d), NEW t \in Types,
         NEW e, Values(d, t, e), e \in DevType,
         NEW c \in Cmds, cmd[c].type \in Types, cmd[c].reads \subseteq Stages,
         d.copyAt[c][2] > 0, e.copyAt[c] = d.copyAt[c]
  PROVE  CopyPrecedes(e, c)
<1> DEFINE copy == d.copyAt[c]
           u == cmd[c].type
           reads == AwaitedReads(c)
<1>1. d \in DevType /\ d.index \in Slots /\ QueueLengths(d) BY DevFields DEF Sound, Good
<1>2. /\ copy[1] = "transfer" /\ copy[2] <= d.timeline["transfer"] /\ u # "transfer"
      /\ CopyPrecedes(d, c)
  BY DEF CopiesOrdered
<1>3. d.timeline[u] \in Nat /\ e.timeline[u] \in Nat /\ d.timeline["transfer"] \in Nat /\ copy \in Batches
      /\ "transfer" \in Types
  BY <1>1, DevFields, SyncFields DEF Types
<1>4. e.timeline[u] = IF u = t THEN d.timeline[t] + 1 ELSE d.timeline[u] BY DEF Values
<1>5. u \in Types OBVIOUS
<1>6. /\ Len(d.queue[u]) <= Len(e.queue[u])
      /\ \A n \in 1 .. Len(d.queue[u]) : e.queue[u][n] = d.queue[u][n]
  <2>1. Len(d.queue[u]) \in Nat BY <1>1, SyncFields
  <2>2. Len(e.queue[u]) = IF u = t THEN Len(d.queue[t]) + 1 ELSE Len(d.queue[u]) BY DEF Values
  <2>3. \A n \in 1 .. Len(d.queue[u]) : e.queue[u][n] = d.queue[u][n] BY DEF Values
  <2>4. Len(d.queue[u]) <= Len(e.queue[u])
    <3>1. CASE u = t BY <2>1, <2>2, <3>1
    <3>2. CASE u # t BY <2>1, <2>2, <3>2
    <3> QED BY <3>1, <3>2
  <2> QED BY <2>3, <2>4
<1>7. CASE Done(copy) BY <1>7 DEF CopyPrecedes
<1>8. CASE d.at[c][2] > 0 /\ ~Done(copy)
  <2>1. c \notin d.subs[d.index][t] BY <1>1, <1>8 DEF Sound, NotYetSent
  <2>2. e.at[c] = d.at[c] BY <2>1 DEF Values
  <2>3. d.at[c][2] \in Nat BY <1>1, DevFields
  <2>4. d.at[c][2] # 0 BY <1>8, <2>3
  <2>5. Behind(d, u, d.at[c][2], copy, reads) BY <1>2, <1>8, <2>4 DEF CopyPrecedes
  <2>6. Behind(e, u, d.at[c][2], copy, reads)
    <3>1. d.at[c][2] <= d.at[c][2] BY <2>3
    <3> HIDE DEF u, copy, reads
    <3> QED BY <1>1, <1>6, <2>3, <2>5, <3>1, <1>5, BehindKept
  <2>7. e.at[c][2] # 0 /\ Behind(e, u, e.at[c][2], e.copyAt[c], reads) BY <2>2, <2>4, <2>6
  <2>8. (IF e.at[c][2] = 0 THEN e.timeline[u] ELSE e.at[c][2]) = e.at[c][2] BY <2>7
  <2>9. Behind(e, u, IF e.at[c][2] = 0 THEN e.timeline[u] ELSE e.at[c][2], e.copyAt[c], reads)
    BY <2>7, <2>8
  <2> QED BY <2>9 DEF CopyPrecedes
<1>9. CASE d.at[c][2] = 0 /\ ~Done(copy)
  <2>1. CASE c \in d.subs[d.index][t]
    <3>1. u = t /\ e.at[c] = <<t, d.timeline[t] + 1>>
      <4>1. u = t BY <1>1, <2>1 DEF Sound, NotYetSent
      <4> QED BY <2>1, <4>1 DEF Values
    <3>2. e.at[c][2] = d.timeline[t] + 1 /\ e.at[c][2] # 0 BY <1>3, <3>1
    <3> SUFFICES Behind(e, u, d.timeline[t] + 1, copy, reads) BY <3>2 DEF CopyPrecedes
    <3>3. CASE Behind(d, u, d.timeline[u], copy, reads)
      <4>1. d.timeline[u] <= d.timeline[t] + 1 /\ d.timeline[t] + 1 \in Nat BY <1>3, <3>1
      <4> HIDE DEF u, copy, reads
      <4> QED BY <1>1, <1>3, <1>6, <1>5, <3>3, <4>1, BehindKept
    <3>4. CASE \E w \in d.waits[t] : BatchOf(w) = copy /\ reads \subseteq w[3]
      <4>1. PICK w \in d.waits[t] : BatchOf(w) = copy /\ reads \subseteq w[3] BY <3>4
      <4>2. w[1] = copy[1] /\ copy[2] <= w[2] BY <1>3, <4>1, SyncFields DEF BatchOf
      <4> HIDE DEF copy, reads
      <4>3. Behind(e, t, d.timeline[t] + 1, copy, reads) BY <1>1, <4>1, <4>2, BehindAdded
      <4> QED BY <3>1, <4>3
    <3>5. CASE SameVkQueue(c)
      <4> DEFINE w == <<"transfer", d.timeline["transfer"], BarrierStages>>
      <4>1. "transfer" \in Types \ {t} /\ VkQueueOf["transfer"] = VkQueueOf[t]
        BY <1>2, <1>3, <3>1, <3>5 DEF SameVkQueue
      <4>2. w \in QueueOrder(d, t) BY <4>1, Zenon DEF QueueOrder
      <4>3. w[1] = copy[1] /\ copy[2] <= w[2] BY <1>2
      <4>4. reads \subseteq w[3] BY <1>2, <3>5, BarrierHolds
      <4> HIDE DEF w, copy, reads
      <4>5. Behind(e, t, d.timeline[t] + 1, copy, reads) BY <1>1, <4>2, <4>3, <4>4, BehindAdded
      <4> QED BY <3>1, <4>5
    <3> QED BY <1>2, <1>9, <3>1, <3>3, <3>4, <3>5 DEF CopyPrecedes
  <2>2. CASE c \notin d.subs[d.index][t]
    <3>1. e.at[c][2] = 0 BY <1>9, <2>2 DEF Values
    <3>2. CASE SameVkQueue(c) BY <3>1, <3>2 DEF CopyPrecedes
    <3>3. CASE (\E w \in d.waits[u] : BatchOf(w) = copy /\ reads \subseteq w[3]) /\ u # t
      <4>1. e.waits[u] = d.waits[u] BY <3>3 DEF Values
      <4> QED BY <3>1, <3>3, <4>1 DEF CopyPrecedes
    <3>4. CASE (\E w \in d.waits[u] : BatchOf(w) = copy /\ reads \subseteq w[3]) /\ u = t
      <4>1. PICK w \in d.waits[t] : BatchOf(w) = copy /\ reads \subseteq w[3] BY <3>4
      <4>2. w[1] = copy[1] /\ copy[2] <= w[2] BY <1>3, <4>1, SyncFields DEF BatchOf
      <4>3. Behind(e, t, d.timeline[t] + 1, copy, reads)
        <5> HIDE DEF copy, reads
        <5> QED BY <1>1, <4>1, <4>2, BehindAdded
      <4> QED BY <1>4, <3>1, <3>4, <4>3 DEF CopyPrecedes
    <3>5. CASE Behind(d, u, d.timeline[u], copy, reads)
      <4>1. d.timeline[u] <= e.timeline[u] BY <1>3, <1>4
      <4>2. Behind(e, u, e.timeline[u], copy, reads)
        <5> HIDE DEF u, copy, reads
        <5> QED BY <1>1, <1>3, <1>6, <1>5, <3>5, <4>1, BehindKept
      <4> QED BY <3>1, <4>2 DEF CopyPrecedes
    <3> QED BY <1>2, <1>9, <3>2, <3>3, <3>4, <3>5 DEF CopyPrecedes
  <2> QED BY <2>1, <2>2
<1>10. d.at[c][2] > 0 \/ d.at[c][2] = 0 BY <1>1, DevFields
<1> QED BY <1>7, <1>8, <1>9, <1>10

(* What is given to a queue with no copies to be made, and what is copied, *)
(* stay in order.                                                          *)
LEMMA EnqueueReady ==
  ASSUME NEW R, NEW d, Ready(d, R), NEW t \in Types,
         t = "transfer" \/ d.vbo \cup d.ubo \cup d.staged = {}
  PROVE  Ready(Enqueue(d, t), R) /\ Carries(d, Enqueue(d, t))
<1> DEFINE e == Enqueue(d, t)
           batch == <<t, d.timeline[t] + 1>>
<1>1. /\ completed \in [Types -> Nat] /\ Sound(d) /\ d \in DevType /\ d.index \in Slots
      /\ \A c \in Cmds : cmd[c].type \in Types /\ cmd[c].reads \subseteq Stages
  BY DevFields DEF Ready, Sound, Good
<1>2. Advances(d, e) /\ Values(d, t, e) /\ Changes(d, t, e) BY <1>1, EnqueueFacts
<1> HIDE DEF e
<1>3. Sound(e) /\ e \in DevType BY <1>2, AdvancedSound
<1>4. BlocksPending(d, R) /\ CopiesOrdered(d) /\ WaitsOwed(d) BY DEF Ready
<1>5. batch[1] = t /\ batch[2] = d.timeline[t] + 1 /\ batch[2] > 0 /\ d.timeline[t] \in Nat
  BY <1>1, DevFields
<1>6. d.vbo \subseteq Cmds /\ d.ubo \subseteq Cmds /\ d.staged \subseteq Cmds BY <1>1, SyncFields
<1>7. /\ e.blocks = d.blocks /\ e.vbo = d.vbo /\ e.ubo = d.ubo /\ e.index = d.index
      /\ e.staged = IF t = "transfer" THEN {} ELSE d.staged
  BY <1>2 DEF Changes
<1>8. ASSUME NEW c \in Cmds
      PROVE  /\ e.at[c] = IF c \in d.subs[d.index][t] THEN batch ELSE d.at[c]
             /\ e.copyAt[c] = IF t = "transfer" /\ c \in d.staged THEN batch ELSE d.copyAt[c]
             /\ c \in d.subs[d.index][t] => cmd[c].type = t /\ d.at[c][2] = 0
             /\ d.copyAt[c][2] > 0 => e.copyAt[c] = d.copyAt[c]
             /\ d.copyAt[c][2] \in Nat
  <2>1. /\ e.at[c] = IF c \in d.subs[d.index][t] THEN batch ELSE d.at[c]
        /\ e.copyAt[c] = IF t = "transfer" /\ c \in d.staged THEN batch ELSE d.copyAt[c]
    BY <1>2 DEF Values
  <2>2. c \in d.subs[d.index][t] => cmd[c].type = t /\ d.at[c][2] = 0
    BY <1>1 DEF Sound, NotYetSent
  <2>3. d.copyAt[c][2] \in Nat BY <1>1, SyncFields
  <2>4. d.copyAt[c][2] > 0 => c \notin d.staged BY <1>4, <2>3 DEF BlocksPending
  <2> HIDE DEF batch
  <2> QED BY <2>1, <2>2, <2>3, <2>4
<1> HIDE DEF batch
<1>9. BlocksPending(e, R)
  <2>1. CASE t # "transfer" BY <1>7, <2>1 DEF BlocksPending
  <2>2. CASE t = "transfer"
    <3>1. e.staged = {} BY <1>7, <2>2
    <3>2. ASSUME NEW c \in d.vbo \cup d.ubo
          PROVE  /\ c \in Cmds /\ e.at[c][2] = 0 /\ e.copyAt[c][2] = 0 /\ cmd[c].type # "transfer"
                 /\ c \in R \/ c \in e.subs[e.index][cmd[c].type]
      <4>1. c \in Cmds /\ c \notin d.staged /\ cmd[c].type # t /\ cmd[c].type \in Types
            /\ d.at[c][2] = 0 /\ d.copyAt[c][2] = 0
        BY <1>1, <1>4, <1>6, <2>2 DEF BlocksPending
      <4>2. e.at[c] = d.at[c] /\ e.copyAt[c] = d.copyAt[c] BY <1>8, <4>1
      <4>3. e.subs[e.index][cmd[c].type] = d.subs[d.index][cmd[c].type]
        BY <1>1, <1>2, <1>7, <4>1 DEF Values
      <4> QED BY <1>4, <2>2, <4>1, <4>2, <4>3 DEF BlocksPending
    <3>3. /\ \A c \in d.vbo : VertexReader(c) /\ cmd[c].reads \subseteq PossibleStages({"vbo"})
          /\ \A c \in d.ubo : cmd[c].reads \subseteq PossibleStages({"ubo"})
      BY <1>4 DEF BlocksPending
    <3> QED BY <1>7, <3>1, <3>2, <3>3 DEF BlocksPending
  <2> QED BY <2>1, <2>2
<1>10. ASSUME NEW c \in Cmds
       PROVE  /\ e.at[c][2] > 0 => e.at[c][1] = cmd[c].type
              /\ e.copyAt[c][2] > 0 =>
                   /\ e.copyAt[c][1] = "transfer" /\ e.copyAt[c][2] <= e.timeline["transfer"]
                   /\ cmd[c].type # "transfer" /\ CopyPrecedes(e, c)
  <2>1. e.at[c][2] > 0 => e.at[c][1] = cmd[c].type
    <3>1. d.at[c][2] > 0 => d.at[c][1] = cmd[c].type BY <1>4 DEF CopiesOrdered
    <3> QED BY <1>5, <1>8, <3>1
  <2>2. "transfer" \in Types /\ d.timeline["transfer"] \in Nat
        /\ e.timeline["transfer"] = IF t = "transfer" THEN d.timeline["transfer"] + 1
                                    ELSE d.timeline["transfer"]
    BY <1>1, <1>2, DevFields DEF Types, Values
  <2>3. CASE d.copyAt[c][2] > 0
    <3>1. e.copyAt[c] = d.copyAt[c] BY <1>8, <2>3
    <3>2. /\ d.copyAt[c][1] = "transfer" /\ d.copyAt[c][2] <= d.timeline["transfer"]
          /\ cmd[c].type # "transfer"
      BY <1>4, <2>3 DEF CopiesOrdered
    <3>3. CopyPrecedes(e, c) BY <1>1, <1>2, <1>3, <1>4, <2>3, <3>1, EnqueuePrecedes
    <3>4. d.copyAt[c][2] <= e.timeline["transfer"] BY <1>8, <2>2, <3>2
    <3> QED BY <2>1, <3>1, <3>2, <3>3, <3>4
  <2>4. CASE t = "transfer" /\ c \in d.staged
    <3>1. e.copyAt[c] = batch BY <1>8, <2>4
    <3>2. cmd[c].type # "transfer" /\ d.at[c][2] = 0 /\ SameVkQueue(c)
      BY <1>4, <2>4 DEF BlocksPending
    <3>3. e.at[c] = d.at[c] BY <1>8, <2>4, <3>2
    <3>4. CopyPrecedes(e, c) BY <3>2, <3>3 DEF CopyPrecedes
    <3>5. e.copyAt[c][1] = "transfer" /\ e.copyAt[c][2] <= e.timeline["transfer"]
      BY <1>5, <2>2, <2>4, <3>1
    <3> QED BY <2>1, <3>2, <3>4, <3>5
  <2>5. CASE ~(d.copyAt[c][2] > 0) /\ ~(t = "transfer" /\ c \in d.staged)
    <3>1. e.copyAt[c] = d.copyAt[c] BY <1>8, <2>5
    <3> QED BY <2>1, <2>5, <3>1
  <2> QED BY <2>3, <2>4, <2>5
<1>11. CopiesOrdered(e) BY <1>10 DEF CopiesOrdered
<1>12. WaitsOwed(e)
  <2> SUFFICES ASSUME NEW u \in Types, e.waits[u] # {} PROVE e.needFence[u] BY DEF WaitsOwed
  <2>1. u # t BY <1>2 DEF Values
  <2>2. e.waits[u] = d.waits[u] /\ e.needFence[u] = d.needFence[u] BY <1>2, <2>1 DEF Values
  <2> QED BY <1>4, <2>2 DEF WaitsOwed
<1>13. Carries(d, e)
  <2>1. ASSUME NEW c \in Cmds PROVE InCopy(e, c) <=> InCopy(d, c)
    <3>1. CASE t = "transfer" /\ c \in d.staged
      <4>1. e.copyAt[c][2] > 0 BY <1>5, <1>8, <3>1
      <4> QED BY <3>1, <4>1 DEF InCopy
    <3>2. CASE ~(t = "transfer" /\ c \in d.staged)
      <4>1. e.copyAt[c] = d.copyAt[c] /\ (c \in e.staged <=> c \in d.staged) BY <1>7, <1>8, <3>2
      <4> QED BY <1>7, <4>1 DEF InCopy
    <3> QED BY <3>1, <3>2
  <2> QED BY <1>7, <1>8, <2>1 DEF Carries
<1> QED BY <1>1, <1>3, <1>9, <1>11, <1>12, <1>13 DEF Ready, e

(* More to wait for disturbs nothing.                                      *)
LEMMA AddWaitsReady ==
  ASSUME NEW R, NEW d, Ready(d, R), NEW stages \in [Types -> SUBSET Stages], NEW s \in Batches
  PROVE  Ready(AddWaits(d, stages, s), R) /\ Carries(d, AddWaits(d, stages, s))
<1> DEFINE e == AddWaits(d, stages, s)
<1>1. /\ completed \in [Types -> Nat] /\ Sound(d) /\ d \in DevType
      /\ \A c \in Cmds : cmd[c].type \in Types /\ cmd[c].reads \subseteq Stages
      /\ BlocksPending(d, R) /\ CopiesOrdered(d) /\ WaitsOwed(d)
  BY DEF Ready, Sound, Good
<1>2. WaitsAdded(d, stages, s, e) /\ Sound(e) BY <1>1, AddWaitsFields, AddWaitsAdvances, AdvancedSound
<1> HIDE DEF e
<1>3. /\ e.index = d.index /\ e.blocks = d.blocks /\ e.timeline = d.timeline /\ e.subs = d.subs
      /\ e.at = d.at /\ e.copyAt = d.copyAt /\ e.queue = d.queue
      /\ e.vbo = d.vbo /\ e.ubo = d.ubo /\ e.staged = d.staged
      /\ \A t \in Types : /\ d.waits[t] \subseteq e.waits[t]
                          /\ stages[t] = {} => e.waits[t] = d.waits[t]
                          /\ e.needFence[t] <=> d.needFence[t] \/ stages[t] # {}
  BY <1>2 DEF WaitsAdded
<1>4. BlocksPending(e, R) BY <1>1, <1>3 DEF BlocksPending
<1>5. \A c \in Cmds : CopyPrecedes(d, c) => CopyPrecedes(e, c)
  BY <1>1, <1>3 DEF CopyPrecedes, Behind
<1>6. CopiesOrdered(e) BY <1>1, <1>3, <1>5 DEF CopiesOrdered
<1>7. WaitsOwed(e) BY <1>1, <1>3 DEF WaitsOwed
<1>8. Carries(d, e) BY <1>3 DEF Carries, InCopy
<1> QED BY <1>1, <1>2, <1>4, <1>6, <1>7, <1>8 DEF Ready, e

(* SubmitStaging makes the queue of whoever reads a block wait at all its  *)
(* stages that read it and that the queue can wait at, if there is no      *)
(* order between them.                                                     *)
LEMMA ReaderAwaited ==
  ASSUME NEW R, NEW d, BlocksPending(d, R), NEW c \in d.vbo \cup d.ubo, cmd[c].type \in Types
  PROVE  \/ SameVkQueue(c)
         \/ /\ cmd[c].type \in StagingWaiters(d)
            /\ AwaitedReads(c) \subseteq StagingWaits(Usage(d))[cmd[c].type]
<1> DEFINE t == cmd[c].type
<1> SUFFICES ASSUME ~SameVkQueue(c)
             PROVE  /\ t \in StagingWaiters(d)
                    /\ AwaitedReads(c) \subseteq StagingWaits(Usage(d))[t]
  OBVIOUS
<1>1. t \in {"graphics", "compute"} BY DEF BlocksPending, Types
<1>2. StagingWaits(Usage(d))[t] = VisibleStages(t, Usage(d)) BY DEF StagingWaits, SameVkQueue
<1>3. VisibleStages(t, Usage(d)) # {}
  <2>1. CASE t = "graphics" BY <2>1 DEF VisibleStages, PossibleStages, Usage
  <2>2. CASE t = "compute"
    <3>1. c \notin d.vbo BY <2>2 DEF BlocksPending, VertexReader, SameVkQueue
    <3>2. "ubo" \in Usage(d) BY <3>1 DEF Usage
    <3>3. "compute" \in VisibleStages(t, Usage(d))
      BY <2>2, <3>2 DEF VisibleStages, PossibleStages, ComputeStages
    <3> QED BY <3>3
  <2> QED BY <1>1, <2>1, <2>2
<1>4. cmd[c].reads \subseteq PossibleStages(Usage(d))
  BY DEF BlocksPending, PossibleStages, Usage
<1>5. AwaitedReads(c) \subseteq VisibleStages(t, Usage(d))
  BY <1>4 DEF AwaitedReads, QueueStages, VisibleStages
<1> QED BY <1>2, <1>3, <1>5 DEF StagingWaiters

(* SyncBufferBlocks: whoever reads a block waits for the copy, or follows  *)
(* it in the order of a VkQueue.                                           *)
LEMMA SyncBufferBlocksReady ==
  ASSUME NEW R, NEW d, Ready(d, R), d.staged = {}
  PROVE  Ready(SyncBufferBlocks(d), R) /\ Carries(d, SyncBufferBlocks(d))
<1> DEFINE
  blocks == d.vbo \cup d.ubo
  ts == StagingWaiters(d)
  stages == StagingWaits(Usage(d))
  copied == [d EXCEPT !.staged = @ \cup blocks, !.vbo = {}, !.ubo = {}]
  sent == IF ts = {} THEN copied ELSE Enqueue(copied, "transfer")
  s == <<"transfer", sent.timeline["transfer"]>>
  e == AddWaits(sent, stages, s)
<1>1. /\ "transfer" \in Types /\ stages \in [Types -> SUBSET Stages]
      /\ ts = {t \in Types : stages[t] # {}}
  BY StagingWaitsType DEF Types, StagingWaiters
<1>2. SyncBufferBlocks(d) = IF blocks = {} THEN d ELSE e
  <2>1. ts = {} <=> \A t \in Types : stages[t] = {} BY <1>1
  <2> HIDE DEF ts
  <2> QED BY <2>1 DEF SyncBufferBlocks
<1>3. /\ completed \in [Types -> Nat] /\ Sound(d) /\ d \in DevType /\ d.index \in Slots
      /\ \A c \in Cmds : cmd[c].type \in Types /\ cmd[c].reads \subseteq Stages
      /\ BlocksPending(d, R) /\ CopiesOrdered(d) /\ WaitsOwed(d)
  BY DevFields DEF Ready, Sound, Good
<1>4. copied = Copied(d) BY <1>3, Zenon DEF Copied, DevType
<1>5. ASSUME NEW c \in blocks
      PROVE  /\ c \in Cmds /\ d.at[c][2] = 0 /\ d.copyAt[c][2] = 0 /\ cmd[c].type # "transfer"
             /\ \/ SameVkQueue(c)
                \/ cmd[c].type \in ts /\ AwaitedReads(c) \subseteq stages[cmd[c].type]
  <2>1. c \in Cmds BY <1>3, SyncFields
  <2>2. d.at[c][2] = 0 /\ d.copyAt[c][2] = 0 /\ cmd[c].type # "transfer" BY <1>3 DEF BlocksPending
  <2>3. cmd[c].type \in Types BY <1>3, <2>1
  <2> QED BY <1>3, <2>1, <2>2, <2>3, ReaderAwaited
<1> HIDE DEF ts, stages, copied
<1>6. CopiesRecorded(d, copied) /\ Sound(copied) /\ copied \in DevType
  BY <1>3, <1>4, CopiedFields, CopiedAdvances, AdvancedSound
<1>7. /\ copied.index = d.index /\ copied.blocks = d.blocks /\ copied.timeline = d.timeline
      /\ copied.subs = d.subs /\ copied.at = d.at /\ copied.copyAt = d.copyAt
      /\ copied.queue = d.queue /\ copied.waits = d.waits /\ copied.needFence = d.needFence
      /\ copied.vbo = {} /\ copied.ubo = {} /\ copied.staged = blocks
  BY <1>6 DEF CopiesRecorded
<1>8. CopiesOrdered(copied) /\ WaitsOwed(copied) /\ Carries(d, copied)
  <2>1. \A c \in Cmds : CopyPrecedes(d, c) => CopyPrecedes(copied, c)
    BY <1>7 DEF CopyPrecedes, Behind
  <2>2. CopiesOrdered(copied) BY <1>3, <1>7, <2>1 DEF CopiesOrdered
  <2>3. WaitsOwed(copied) BY <1>3, <1>7 DEF WaitsOwed
  <2>4. Carries(d, copied) BY <1>7 DEF Carries, InCopy
  <2> QED BY <2>2, <2>3, <2>4
<1>9. CASE blocks = {}
  <2>1. Carries(d, d) BY DEF Carries
  <2> QED BY <1>2, <1>9, <2>1
<1>10. CASE blocks # {} /\ ts = {}
  <2>1. BlocksPending(copied, R) BY <1>5, <1>7, <1>10 DEF BlocksPending
  <2>2. Ready(copied, R) BY <1>3, <1>6, <1>8, <2>1 DEF Ready
  <2>3. sent = copied BY <1>10
  <2>4. s \in Batches BY <1>1, <1>6, <2>3, DevFields DEF Batches
  <2> HIDE DEF sent, s
  <2>5. Ready(e, R) /\ Carries(copied, e) BY <1>1, <2>2, <2>3, <2>4, AddWaitsReady
  <2> QED BY <1>2, <1>8, <1>10, <2>5, CarriesTransitive
<1>11. CASE blocks # {} /\ ts # {}
  <2>1. sent = Enqueue(copied, "transfer") BY <1>11
  <2> HIDE DEF sent
  <2>2. /\ Advances(copied, sent) /\ Values(copied, "transfer", sent) /\ Changes(copied, "transfer", sent)
    BY <1>1, <1>3, <1>6, <2>1, EnqueueFacts
  <2>3. Sound(sent) /\ sent \in DevType BY <2>2, AdvancedSound
  <2>4. /\ sent.vbo = {} /\ sent.ubo = {} /\ sent.staged = {} /\ sent.blocks = d.blocks
    BY <1>7, <2>2 DEF Changes
  <2>5. s \in Batches /\ s[1] = "transfer" /\ s[2] = sent.timeline["transfer"]
        /\ sent.timeline["transfer"] = d.timeline["transfer"] + 1 /\ d.timeline["transfer"] \in Nat
        /\ <<"transfer", d.timeline["transfer"] + 1>> = s
    <3>1. sent.timeline["transfer"] = d.timeline["transfer"] + 1 BY <1>1, <1>7, <2>2 DEF Values
    <3>2. d.timeline["transfer"] \in Nat BY <1>1, <1>3, DevFields
    <3> QED BY <1>1, <3>1, <3>2 DEF Batches
  <2> HIDE DEF s
  <2>6. WaitsAdded(sent, stages, s, e) /\ Sound(e)
    BY <1>1, <1>3, <2>3, <2>5, AddWaitsFields, AddWaitsAdvances, AdvancedSound
  <2> HIDE DEF e
  <2>7. /\ e.blocks = d.blocks /\ e.timeline = sent.timeline
        /\ e.at = sent.at /\ e.copyAt = sent.copyAt /\ e.queue = sent.queue
        /\ e.vbo = {} /\ e.ubo = {} /\ e.staged = {}
        /\ \A t \in Types : /\ sent.waits[t] \subseteq e.waits[t]
                            /\ t \notin ts => e.waits[t] = sent.waits[t]
                            /\ t \in ts => <<s[1], s[2], stages[t]>> \in e.waits[t]
                            /\ e.needFence[t] <=> sent.needFence[t] \/ t \in ts
    BY <1>1, <2>4, <2>6 DEF WaitsAdded
  <2>8. ASSUME NEW c \in Cmds
        PROVE  /\ c \in copied.subs[copied.index]["transfer"] => cmd[c].type = "transfer" /\ d.at[c][2] = 0
               /\ e.at[c] = IF c \in copied.subs[copied.index]["transfer"] THEN s ELSE d.at[c]
               /\ e.copyAt[c] = IF c \in blocks THEN s ELSE d.copyAt[c]
               /\ d.copyAt[c][2] \in Nat /\ (d.copyAt[c][2] > 0 => c \notin blocks)
    <3>1. c \in copied.subs[copied.index]["transfer"] => cmd[c].type = "transfer" /\ d.at[c][2] = 0
      BY <1>1, <1>3, <1>7 DEF Sound, NotYetSent
    <3>2. /\ e.at[c] = IF c \in copied.subs[copied.index]["transfer"] THEN s ELSE d.at[c]
          /\ e.copyAt[c] = IF c \in blocks THEN s ELSE d.copyAt[c]
      BY <1>7, <2>2, <2>5, <2>7 DEF Values
    <3>3. d.copyAt[c][2] \in Nat BY <1>3, SyncFields
    <3>4. d.copyAt[c][2] > 0 => c \notin blocks BY <1>5, <3>3
    <3> QED BY <3>1, <3>2, <3>3, <3>4
  <2>9. BlocksPending(e, R) BY <2>7 DEF BlocksPending
  <2>10. ASSUME NEW c \in Cmds
         PROVE  /\ e.at[c][2] > 0 => e.at[c][1] = cmd[c].type
                /\ e.copyAt[c][2] > 0 =>
                     /\ e.copyAt[c][1] = "transfer" /\ e.copyAt[c][2] <= e.timeline["transfer"]
                     /\ cmd[c].type # "transfer" /\ CopyPrecedes(e, c)
    <3>1. e.at[c][2] > 0 => e.at[c][1] = cmd[c].type
      <4>1. d.at[c][2] > 0 => d.at[c][1] = cmd[c].type BY <1>3 DEF CopiesOrdered
      <4> QED BY <2>5, <2>8, <4>1
    <3>2. CASE c \in blocks
      <4>1. e.copyAt[c] = s /\ e.at[c] = d.at[c] BY <1>5, <2>8, <3>2
      <4>2. /\ d.at[c][2] = 0 /\ cmd[c].type # "transfer" /\ cmd[c].type \in Types
            /\ \/ SameVkQueue(c)
               \/ cmd[c].type \in ts /\ AwaitedReads(c) \subseteq stages[cmd[c].type]
        BY <1>3, <1>5, <3>2
      <4>3. CopyPrecedes(e, c)
        <5>1. CASE SameVkQueue(c) BY <4>1, <4>2, <5>1 DEF CopyPrecedes
        <5>2. CASE cmd[c].type \in ts /\ AwaitedReads(c) \subseteq stages[cmd[c].type]
          <6> DEFINE w == <<s[1], s[2], stages[cmd[c].type]>>
          <6>1. w \in e.waits[cmd[c].type] BY <2>7, <4>2, <5>2
          <6>2. BatchOf(w) = s /\ AwaitedReads(c) \subseteq w[3] BY <2>5, <5>2 DEF BatchOf, Batches
          <6> HIDE DEF w
          <6> QED BY <4>1, <4>2, <6>1, <6>2 DEF CopyPrecedes
        <5> QED BY <4>2, <5>1, <5>2
      <4>4. s[2] <= e.timeline["transfer"] BY <2>5, <2>7
      <4> QED BY <2>5, <3>1, <4>1, <4>2, <4>3, <4>4
    <3>3. CASE c \notin blocks /\ d.copyAt[c][2] > 0
      <4>1. e.copyAt[c] = d.copyAt[c] BY <2>8, <3>3
      <4>2. sent.copyAt[c] = copied.copyAt[c] BY <1>7, <2>7, <4>1
      <4>3. CopyPrecedes(sent, c)
        BY <1>1, <1>3, <1>6, <1>7, <1>8, <2>2, <2>3, <3>3, <4>2, EnqueuePrecedes
      <4>4. CopyPrecedes(e, c)
        <5>1. cmd[c].type \in Types BY <1>3
        <5>2. sent.waits[cmd[c].type] \subseteq e.waits[cmd[c].type] BY <2>7, <5>1
        <5> QED BY <2>7, <4>3, <5>2 DEF CopyPrecedes, Behind
      <4>5. /\ d.copyAt[c][1] = "transfer" /\ d.copyAt[c][2] <= d.timeline["transfer"]
            /\ cmd[c].type # "transfer"
        BY <1>3, <3>3 DEF CopiesOrdered
      <4>6. d.copyAt[c][2] <= e.timeline["transfer"] BY <2>5, <2>7, <2>8, <4>5
      <4> QED BY <3>1, <4>1, <4>4, <4>5, <4>6
    <3>4. CASE c \notin blocks /\ ~(d.copyAt[c][2] > 0) BY <2>8, <3>1, <3>4
    <3> QED BY <3>2, <3>3, <3>4
  <2>11. CopiesOrdered(e) BY <2>10 DEF CopiesOrdered
  <2>12. WaitsOwed(e)
    <3> SUFFICES ASSUME NEW u \in Types, e.waits[u] # {}, u \notin ts PROVE sent.needFence[u]
      BY <2>7 DEF WaitsOwed
    <3>1. sent.waits[u] # {} /\ u # "transfer" BY <2>2, <2>7 DEF Values
    <3>2. copied.waits[u] # {} /\ sent.needFence[u] = copied.needFence[u] BY <2>2, <3>1 DEF Values
    <3> QED BY <1>8, <3>2 DEF WaitsOwed
  <2>13. Carries(d, e)
    <3>1. ASSUME NEW c \in Cmds PROVE InCopy(e, c) <=> InCopy(d, c)
      <4>1. CASE c \in blocks BY <2>5, <2>8, <4>1 DEF InCopy
      <4>2. CASE c \notin blocks
        <5>1. e.copyAt[c] = d.copyAt[c] BY <2>8, <4>2
        <5> QED BY <2>7, <4>2, <5>1 DEF InCopy
      <4> QED BY <4>1, <4>2
    <3> QED BY <2>7, <2>8, <3>1 DEF Carries
  <2> QED BY <1>2, <1>3, <1>11, <2>6, <2>9, <2>11, <2>12, <2>13 DEF Ready
<1> QED BY <1>9, <1>10, <1>11

-----------------------------------------------------------------------------
(* The calls that submit are made of these steps.                          *)
Orderly(d, R, e) == Ready(e, R) /\ Carries(d, e) /\ e.staged = {}

LEMMA OrderlyReflexive ==
  ASSUME NEW R, NEW d, Ready(d, R), d.staged = {}
  PROVE  Orderly(d, R, d)
BY DEF Orderly, Carries

LEMMA OrderlyTransitive ==
  ASSUME NEW R, NEW d, NEW e, NEW g, Orderly(d, R, e), Orderly(e, R, g)
  PROVE  Orderly(d, R, g)
BY CarriesTransitive DEF Orderly

LEMMA FlushTransferReady ==
  ASSUME NEW R, NEW d, Ready(d, R), d.staged = {}
  PROVE  Orderly(d, R, FlushTransfer(d))
<1> DEFINE g == SyncBufferBlocks(d)
           e == FlushTransfer(d)
<1>1. "transfer" \in Types BY DEF Types
<1>2. Ready(g, R) /\ Carries(d, g) BY SyncBufferBlocksReady
<1>3. e = IF Pending(g, "transfer") THEN Enqueue(g, "transfer") ELSE g
  BY DEF FlushTransfer, SubmitPending
<1>4. e.staged = {}
  <2>1. TransferFlushed(d, FlushTransfer(d)) BY FlushTransferFacts DEF Ready
  <2> QED BY <2>1 DEF TransferFlushed
<1> HIDE DEF g, e
<1>5. CASE e = g BY <1>2, <1>4, <1>5 DEF Orderly, e
<1>6. CASE e = Enqueue(g, "transfer")
  <2>1. Ready(e, R) /\ Carries(g, e) BY <1>1, <1>2, <1>6, EnqueueReady
  <2> QED BY <1>2, <1>4, <2>1, CarriesTransitive DEF Orderly, e
<1> QED BY <1>3, <1>5, <1>6

LEMMA SubmitQueueReady ==
  ASSUME NEW R, NEW d, Ready(d, R), d.staged = {}, NEW t \in Types, NEW demand \in BOOLEAN
  PROVE  Orderly(d, R, SubmitQueue(d, t, demand))
<1> DEFINE g == IF t = "transfer" THEN d ELSE FlushTransfer(d)
           e == SubmitQueue(d, t, demand)
<1>1. Orderly(d, R, g) BY OrderlyReflexive, FlushTransferReady
<1>2. t = "transfer" \/ g.vbo \cup g.ubo \cup g.staged = {}
  <2>1. TransferFlushed(d, FlushTransfer(d)) BY FlushTransferFacts DEF Ready
  <2> QED BY <2>1 DEF TransferFlushed
<1>3. e = IF Pending(g, t) \/ demand THEN Enqueue(g, t) ELSE g BY DEF SubmitQueue, SubmitPending
<1>4. g.staged = {} BY <1>1 DEF Orderly
<1> HIDE DEF g, e
<1>5. CASE e = g BY <1>1, <1>5 DEF e
<1>6. CASE e = Enqueue(g, t)
  <2>1. Ready(e, R) /\ Carries(g, e) BY <1>1, <1>2, <1>6, EnqueueReady DEF Orderly
  <2>2. e.staged = {}
    <3>1. Good(g) BY <1>1 DEF Orderly, Ready, Sound
    <3>2. Changes(g, t, e) BY <1>6, <3>1, EnqueueChanges
    <3> QED BY <1>4, <3>2 DEF Changes
  <2>3. Orderly(g, R, e) BY <2>1, <2>2 DEF Orderly
  <2> QED BY <1>1, <2>3, OrderlyTransitive DEF e
<1> QED BY <1>3, <1>5, <1>6

LEMMA FlushTypeReady ==
  ASSUME NEW R, NEW d, Ready(d, R), d.staged = {}, NEW t \in Types
  PROVE  Orderly(d, R, FlushType(d, t))
BY FlushTransferReady, SubmitQueueReady, FALSE \in BOOLEAN DEF FlushType

LEMMA FlushAllReady ==
  ASSUME NEW R, NEW d, Ready(d, R), d.staged = {}
  PROVE  Orderly(d, R, FlushAll(d))
<1> DEFINE e == FlushTransfer(d)
           g == FlushType(e, "graphics")
<1>1. "graphics" \in Types /\ "compute" \in Types BY DEF Types
<1>2. Orderly(d, R, e) BY FlushTransferReady
<1> HIDE DEF e
<1>3. Orderly(e, R, g) BY <1>1, <1>2, FlushTypeReady DEF Orderly
<1> HIDE DEF g
<1>4. Orderly(g, R, FlushType(g, "compute")) BY <1>1, <1>3, FlushTypeReady DEF Orderly
<1> QED BY <1>2, <1>3, <1>4, OrderlyTransitive DEF FlushAll, e, g

(* Taking the fence of a queue that waits for nothing more.                *)
LEMMA FrameFenceReady ==
  ASSUME NEW R, NEW d, Ready(d, R), d.staged = {}, NEW t \in Types,
         d.waits[t] = {}, d.fence[d.index][t] = d.timeline[t]
  PROVE  Orderly(d, R, FrameFence(d, t))
<1> DEFINE e == FrameFence(d, t)
<1>1. /\ completed \in [Types -> Nat] /\ Sound(d) /\ d \in DevType
      /\ \A c \in Cmds : cmd[c].type \in Types /\ cmd[c].reads \subseteq Stages
      /\ BlocksPending(d, R) /\ CopiesOrdered(d) /\ WaitsOwed(d)
  BY DEF Ready, Sound, Good
<1>2. FenceTaken(d, t, e) /\ Sound(e)
  BY <1>1, FrameFenceFields, FrameFenceAdvances, AdvancedSound
<1> HIDE DEF e
<1>3. /\ e.index = d.index /\ e.blocks = d.blocks /\ e.timeline = d.timeline /\ e.subs = d.subs
      /\ e.at = d.at /\ e.copyAt = d.copyAt /\ e.queue = d.queue /\ e.waits = d.waits
      /\ e.vbo = d.vbo /\ e.ubo = d.ubo /\ e.staged = d.staged
      /\ \A u \in Types : u # t => e.needFence[u] = d.needFence[u]
  BY <1>2 DEF FenceTaken
<1>4. BlocksPending(e, R) BY <1>1, <1>3 DEF BlocksPending
<1>5. \A c \in Cmds : CopyPrecedes(d, c) => CopyPrecedes(e, c)
  BY <1>1, <1>3 DEF CopyPrecedes, Behind
<1>6. CopiesOrdered(e) BY <1>1, <1>3, <1>5 DEF CopiesOrdered
<1>7. WaitsOwed(e) BY <1>1, <1>3 DEF WaitsOwed
<1>8. Carries(d, e) BY <1>3 DEF Carries, InCopy
<1> QED BY <1>1, <1>2, <1>3, <1>4, <1>6, <1>7, <1>8 DEF Orderly, Ready, e

LEMMA EndQueueReady ==
  ASSUME NEW R, NEW d, Ready(d, R), d.staged = {}, NEW t \in Types
  PROVE  Orderly(d, R, EndQueue(d, t))
<1> DEFINE g == IF t = "transfer" THEN d ELSE FlushTransfer(d)
           y == SubmitQueue(d, t, TRUE)
<1>1. Orderly(d, R, y) BY SubmitQueueReady, TRUE \in BOOLEAN
<1>2. y = Enqueue(g, t) BY DEF SubmitQueue, SubmitPending
<1>3. Sound(g) /\ completed \in [Types -> Nat]
  BY OrderlyReflexive, FlushTransferReady DEF Orderly, Ready
<1> HIDE DEF g, y
<1>4. Values(g, t, y) /\ Changes(g, t, y) BY <1>2, <1>3, EnqueueFacts
<1>5. g.index \in Slots BY <1>3, DevFields DEF Sound, Good
<1>6. y.waits[t] = {} /\ y.fence[y.index][t] = y.timeline[t] BY <1>4, <1>5 DEF Values, Changes
<1>7. Orderly(y, R, FrameFence(y, t)) BY <1>1, <1>6, FrameFenceReady DEF Orderly
<1>8. Orderly(d, R, FrameFence(y, t)) BY <1>1, <1>7, OrderlyTransitive
<1> QED BY <1>8, OrderlyReflexive DEF EndQueue, y

LEMMA EndFrameReady ==
  ASSUME NEW R, NEW d, Ready(d, R), d.staged = {}
  PROVE  Orderly(d, R, EndFrame(d))
<1> DEFINE e == EndQueue(d, "transfer")
           g == EndQueue(e, "graphics")
<1>1. "transfer" \in Types /\ "graphics" \in Types /\ "compute" \in Types BY DEF Types
<1>2. Orderly(d, R, e) BY <1>1, EndQueueReady
<1> HIDE DEF e
<1>3. Orderly(e, R, g) BY <1>1, <1>2, EndQueueReady DEF Orderly
<1> HIDE DEF g
<1>4. Orderly(g, R, EndQueue(g, "compute")) BY <1>1, <1>3, EndQueueReady DEF Orderly
<1> QED BY <1>2, <1>3, <1>4, OrderlyTransitive DEF EndFrame, e, g

-----------------------------------------------------------------------------
(* The invariants give the lemmas above what they assume.                  *)
LEMMA InvariantReady ==
  ASSUME IInv, SyncInv, UploadInv, Unlocked
  PROVE  Ready(dev, Recording) /\ dev.staged = {}
<1>1. Sound(dev) /\ completed \in [Types -> Nat] BY InvariantSound
<1>2. \A c \in Cmds : cmd[c].type \in Types /\ cmd[c].reads \subseteq Stages BY DEF IInv, TypeOK, CmdType
<1> QED BY <1>1, <1>2 DEF Ready, UploadInv, SyncInv

(* What c reads is fixed when it is requested.                             *)
LEMMA ReadsKept ==
  ASSUME NEW c \in Cmds, cmd'[c].type = cmd[c].type, cmd'[c].reads = cmd[c].reads
  PROVE  AwaitedReads(c)' = AwaitedReads(c)
BY DEF AwaitedReads, QueueStages

(* A value in order stays so when the commands change, but for their types,*)
(* as long as the commands whose blocks are to be copied are still there.  *)
LEMMA ReachedUploads ==
  ASSUME NEW e, NEW R, Ready(e, R), e.staged = {}, dev' \in DevType,
         completed' = completed,
         \A c \in Cmds : cmd'[c].type = cmd[c].type /\ cmd'[c].reads = cmd[c].reads,
         dev'.timeline = e.timeline, dev'.queue = e.queue, dev'.waits = e.waits,
         dev'.needFence = e.needFence, dev'.subs = e.subs, dev'.at = e.at, dev'.copyAt = e.copyAt,
         dev'.vbo = e.vbo, dev'.ubo = e.ubo, dev'.staged = e.staged,
         \/ dev'.index = e.index /\ \A c \in R : c \in Recording' \/ c \notin e.vbo \cup e.ubo
         \/ e.vbo \cup e.ubo = {},
         BlockStates', BlockRecycleSafe'
  PROVE  UploadInv'
<1>1. /\ completed \in [Types -> Nat] /\ e \in DevType
      /\ BlocksPending(e, R) /\ CopiesOrdered(e) /\ WaitsOwed(e)
  BY DEF Ready, Sound, Good
<1>2. e.vbo \subseteq Cmds /\ e.ubo \subseteq Cmds BY <1>1, SyncFields
<1>3. WaitsOwed(dev)' BY <1>1 DEF WaitsOwed
<1>4. BlocksPending(dev, Recording)'
  <2>1. ASSUME NEW c \in e.vbo \cup e.ubo
        PROVE  /\ e.at[c][2] = 0 /\ e.copyAt[c][2] = 0 /\ cmd'[c].type # "transfer"
               /\ c \in Recording' \/ c \in e.subs[e.index][cmd'[c].type]
               /\ dev'.index = e.index
    <3>1. c \in Cmds /\ cmd'[c].type = cmd[c].type BY <1>2
    <3>2. /\ e.at[c][2] = 0 /\ e.copyAt[c][2] = 0 /\ cmd[c].type # "transfer"
          /\ c \in R \/ c \in e.subs[e.index][cmd[c].type]
      BY <1>1 DEF BlocksPending
    <3> QED BY <3>1, <3>2
  <2>2. ASSUME NEW c \in e.vbo PROVE VertexReader(c)' /\ cmd'[c].reads \subseteq PossibleStages({"vbo"})
    <3>1. /\ cmd'[c].type = cmd[c].type /\ VertexReader(c)
          /\ cmd'[c].reads = cmd[c].reads /\ cmd[c].reads \subseteq PossibleStages({"vbo"})
      BY <1>1, <1>2 DEF BlocksPending
    <3> QED BY <3>1 DEF VertexReader
  <2>3. ASSUME NEW c \in e.ubo PROVE cmd'[c].reads \subseteq PossibleStages({"ubo"})
    BY <1>1, <1>2 DEF BlocksPending
  <2> QED BY <2>1, <2>2, <2>3 DEF BlocksPending
<1>5. CopiesOrdered(dev)'
  <2> SUFFICES ASSUME NEW c \in Cmds
               PROVE  /\ e.at[c][2] > 0 => e.at[c][1] = cmd[c].type
                      /\ e.copyAt[c][2] > 0 =>
                           /\ e.copyAt[c][1] = "transfer" /\ e.copyAt[c][2] <= e.timeline["transfer"]
                           /\ cmd[c].type # "transfer" /\ CopyPrecedes(dev, c)'
    BY DEF CopiesOrdered
  <2>1. CopyPrecedes(e, c) => CopyPrecedes(dev, c)'
    <3>1. cmd'[c].type = cmd[c].type OBVIOUS
    <3>2. SameVkQueue(c)' <=> SameVkQueue(c) BY <3>1 DEF SameVkQueue
    <3>3. AwaitedReads(c)' = AwaitedReads(c) BY ReadsKept
    <3> QED BY <3>1, <3>2, <3>3 DEF CopyPrecedes, Behind, Done
  <2> QED BY <1>1, <2>1 DEF CopiesOrdered
<1> QED BY <1>3, <1>4, <1>5 DEF UploadInv

(* Submitting changes nothing in the life of a block.                      *)
LEMMA KeptStates ==
  ASSUME IInv, SyncInv, UploadInv, NEW e, NEW R, Orderly(dev, R, e), Advances(dev, e),
         cmd' = cmd, completed' = completed, dev'.count = dev.count,
         dev'.at = e.at, dev'.copyAt = e.copyAt, dev'.vbo = e.vbo, dev'.ubo = e.ubo,
         dev'.blocks = e.blocks
  PROVE  BlockStates' /\ BlockRecycleSafe'
<1>1. /\ e.blocks = dev.blocks /\ e.vbo \cup e.ubo \subseteq dev.vbo \cup dev.ubo
      /\ e.staged = {} /\ dev.staged = {} /\ dev \in DevType /\ e \in DevType
  BY AdvancedSound DEF Orderly, Carries, SyncInv, IInv, TypeOK
<1>2. ASSUME NEW c \in Cmds
      PROVE  /\ c \in e.vbo \cup e.ubo \/ e.copyAt[c][2] > 0
                  <=> c \in dev.vbo \cup dev.ubo \/ dev.copyAt[c][2] > 0
             /\ dev.copyAt[c][2] > 0 => e.copyAt[c] = dev.copyAt[c]
             /\ dev.at[c][2] > 0 => e.at[c] = dev.at[c]
  <2>1. InCopy(e, c) <=> InCopy(dev, c) BY DEF Orderly, Carries
  <2>2. dev.copyAt[c][2] > 0 => e.copyAt[c] = dev.copyAt[c] BY DEF Orderly, Carries
  <2>3. e.at[c] = dev.at[c] \/ dev.at[c][2] = 0 BY DEF Advances
  <2> QED BY <1>1, <2>1, <2>2, <2>3, DevFields DEF InCopy
<1>3. BlockStates BY DEF UploadInv
<1>4. BlockStates'
  <2>1. ASSUME NEW c \in Cmds
        PROVE  /\ cmd[c].block = "given" /\ Discrete => c \in e.vbo \cup e.ubo \/ e.copyAt[c][2] > 0
               /\ e.copyAt[c][2] > 0 => cmd[c].block \in {"given", "recycled"}
    BY <1>2, <1>3 DEF BlockStates
  <2>2. \A c \in e.vbo \cup e.ubo : cmd[c].block = "given" BY <1>1, <1>3 DEF BlockStates
  <2>3. \A f \in Slots : \A c \in e.blocks[f] :
          f < dev.count /\ cmd[c].home = f /\ Unfinished(c) /\ cmd[c].block = "given"
    BY <1>1, <1>3 DEF BlockStates
  <2>4. \A c \in Cmds : /\ Unfinished(c)' <=> Unfinished(c)
                        /\ VertexReader(c)' <=> VertexReader(c)
                        /\ AwaitedReads(c)' = AwaitedReads(c)
    BY ReadsKept DEF Unfinished, VertexReader
  <2>5. \A f \in Slots : e.blocks[f] \subseteq Cmds BY <1>1 DEF DevType
  <2> QED BY <1>3, <2>1, <2>2, <2>3, <2>4, <2>5 DEF BlockStates
<1>5. BlockRecycleSafe'
  <2> SUFFICES ASSUME NEW c \in Cmds, cmd[c].block = "recycled"
               PROVE  Executed(c)' /\ (Discrete => Uploaded(c)')
    BY DEF BlockRecycleSafe
  <2>1. Executed(c) /\ (Discrete => Uploaded(c)) BY DEF UploadInv, BlockRecycleSafe
  <2> QED BY <1>2, <2>1 DEF Executed, Uploaded, Done
<1> QED BY <1>4, <1>5

(* A call that only submits keeps the invariant.                           *)
LEMMA FlushedUploads ==
  ASSUME IInv, SyncInv, UploadInv, Unlocked, Orderly(dev, Recording, dev'), Advances(dev, dev'),
         cmd' = cmd, completed' = completed
  PROVE  UploadInv'
<1>1. /\ Ready(dev', Recording) /\ dev'.staged = {} /\ dev' \in DevType /\ dev'.count = dev.count
  BY AdvancedSound DEF Orderly
<1>2. BlockStates' /\ BlockRecycleSafe' BY <1>1, KeptStates
<1>3. Recording' = Recording BY DEF Recording
<1> QED BY <1>1, <1>2, <1>3, ReachedUploads

LEMMA SubmitEmptyUploads ==
  ASSUME IInv, SyncInv, UploadInv, NEW t \in Types, NEW demand, SubmitEmpty(t, demand)
  PROVE  UploadInv'
<1> DEFINE flushed == IF t = "transfer" THEN dev ELSE FlushTransfer(dev)
           sent == SubmitQueue(flushed, t, demand # "none")
<1>1. Unlocked /\ dev' = sent /\ cmd' = cmd /\ completed' = completed BY DEF SubmitEmpty
<1>2. Ready(dev, Recording) /\ dev.staged = {} BY <1>1, InvariantReady
<1>3. Sound(dev) /\ completed \in [Types -> Nat] BY <1>1, InvariantSound
<1>4. Orderly(dev, Recording, flushed) /\ Flushes(dev, flushed)
  BY <1>2, <1>3, OrderlyReflexive, FlushTransferReady, FlushTransferFlushes, FlushesReflexive
<1> HIDE DEF flushed
<1>5. (demand # "none") \in BOOLEAN OBVIOUS
<1>6. Ready(flushed, Recording) /\ flushed.staged = {} /\ Sound(flushed)
  BY <1>4 DEF Orderly, Ready
<1>7. Orderly(flushed, Recording, sent) /\ Flushes(flushed, sent)
  BY <1>3, <1>5, <1>6, SubmitQueueReady, SubmitQueueFacts DEF QueueSubmitted
<1> HIDE DEF sent
<1>8. Orderly(dev, Recording, sent) /\ Flushes(dev, sent)
  BY <1>3, <1>4, <1>7, OrderlyTransitive, FlushesTransitive
<1> QED BY <1>1, <1>8, FlushedUploads DEF Flushes

LEMMA AddWaitSemaphoreUploads ==
  ASSUME IInv, SyncInv, UploadInv, NEW t \in Types, NEW s, NEW stages \in WaitStages,
         NEW flush \in BOOLEAN, AddWaitSemaphore(t, s, stages, flush)
  PROVE  UploadInv'
<1> DEFINE d == IF flush THEN FlushType(dev, t) ELSE dev
           at == [u \in Types |-> IF u = t THEN stages ELSE {}]
<1>1. /\ Unlocked /\ dev' = AddWaits(d, at, s) /\ s \in app.semaphores
      /\ cmd' = cmd /\ completed' = completed
  BY DEF AddWaitSemaphore
<1>2. Ready(dev, Recording) /\ dev.staged = {} BY <1>1, InvariantReady
<1>3. Sound(dev) /\ completed \in [Types -> Nat] BY <1>1, InvariantSound
<1>4. Orderly(dev, Recording, d) /\ Flushes(dev, d)
  BY <1>2, <1>3, OrderlyReflexive, FlushTypeReady, FlushTypeFlushes, FlushesReflexive
<1> HIDE DEF d
<1>5. Ready(d, Recording) /\ d.staged = {} /\ Sound(d) /\ d \in DevType
  BY <1>4 DEF Orderly, Ready, Sound, Good
<1>6. s \in Batches /\ at \in [Types -> SUBSET Stages]
  BY <1>1, WaitsAssumption DEF IInv, TypeOK
<1> HIDE DEF at
<1>7. WaitsAdded(d, at, s, dev') /\ Advances(d, dev')
  BY <1>1, <1>3, <1>5, <1>6, AddWaitsFields, AddWaitsAdvances
<1>8. Ready(dev', Recording) /\ Carries(d, dev') BY <1>1, <1>5, <1>6, AddWaitsReady
<1>9. Orderly(d, Recording, dev') BY <1>5, <1>7, <1>8 DEF Orderly, WaitsAdded
<1>10. Orderly(dev, Recording, dev') BY <1>4, <1>9, OrderlyTransitive
<1>11. Advances(dev, dev') BY <1>3, <1>4, <1>7, AdvancesTransitive DEF Flushes
<1> QED BY <1>1, <1>10, <1>11, FlushedUploads

LEMMA FlushFrameUploads ==
  ASSUME IInv, SyncInv, UploadInv, FlushFrame
  PROVE  UploadInv'
<1>1. Unlocked /\ dev' = FlushAll(dev) /\ cmd' = cmd /\ completed' = completed BY DEF FlushFrame
<1>2. Orderly(dev, Recording, dev') BY <1>1, InvariantReady, FlushAllReady
<1>3. Advances(dev, dev') BY <1>1, InvariantSound, FlushAllFlushes DEF Flushes
<1> QED BY <1>1, <1>2, <1>3, FlushedUploads

(* When a frame has been ended no block is left to be copied.              *)
LEMMA EndFrameUploads ==
  ASSUME IInv, SyncInv, UploadInv, IInv',
         EndFrameContext \/ NextFrameContext \/ WaitIdle("idle") \/ WaitIdle("init")
  PROVE  UploadInv'
<1> DEFINE e == EndFrame(dev)
<1>1. Drained /\ Unlocked /\ cmd' = cmd /\ completed' = completed
  BY DEF EndFrameContext, NextFrameContext, WaitIdle, Drained
<1>2. Sound(dev) /\ completed \in [Types -> Nat] BY <1>1, InvariantSound
<1>3. Recording = {} /\ \A c \in Cmds : cmd[c].status # "recording"
  BY <1>1, NothingRecorded DEF Recording
<1>4. Orderly(dev, Recording, e) BY <1>1, InvariantReady, EndFrameReady
<1>5. Flushes(dev, e) BY <1>2, <1>3, EndFrameFacts DEF SyncInv
<1>6. Advances(dev, e) /\ e \in DevType /\ e.index = dev.index /\ e.count = dev.count
      /\ Ready(e, Recording) /\ e.staged = {}
  BY <1>4, <1>5, AdvancedSound DEF Flushes, Orderly
<1>7. \A t \in Types : e.subs[dev.index][t] = {} BY <1>2, EndFrameSubmits DEF Sound
<1>8. e.vbo \cup e.ubo = {}
  <2> SUFFICES ASSUME NEW c \in e.vbo \cup e.ubo PROVE FALSE OBVIOUS
  <2>1. c \in Cmds BY <1>6, SyncFields
  <2>2. cmd[c].type \in Types BY <1>6, <2>1 DEF Ready
  <2>3. c \in e.subs[e.index][cmd[c].type] BY <1>3, <1>6 DEF Ready, BlocksPending
  <2> QED BY <1>6, <1>7, <2>2, <2>3
<1> HIDE DEF e
<1>9. CASE EndFrameContext
  BY <1>1, <1>4, <1>6, <1>9, FlushedUploads DEF EndFrameContext, e
<1>10. ASSUME NEW i \in Slots, NEW op \in {"next", "idle", "init"},
              dev' = [e EXCEPT !.index = i, !.lock = op]
       PROVE  UploadInv'
  <2>1. /\ dev' \in DevType /\ dev'.count = e.count /\ dev'.timeline = e.timeline
        /\ dev'.queue = e.queue /\ dev'.waits = e.waits /\ dev'.needFence = e.needFence
        /\ dev'.subs = e.subs /\ dev'.at = e.at /\ dev'.copyAt = e.copyAt
    BY <1>6, <1>10, Zenon DEF DevType
  <2>2. dev'.vbo = e.vbo /\ dev'.ubo = e.ubo /\ dev'.staged = e.staged /\ dev'.blocks = e.blocks
    BY <1>6, <1>10, Zenon DEF DevType
  <2>3. BlockStates' /\ BlockRecycleSafe' BY <1>1, <1>4, <1>6, <2>1, <2>2, KeptStates
  <2> QED BY <1>1, <1>6, <1>8, <2>1, <2>2, <2>3, ReachedUploads
<1>11. CASE NextFrameContext
  <2>1. dev' = [e EXCEPT !.index = NextIndex(dev), !.lock = "next"]
    BY <1>11 DEF NextFrameContext, e
  <2>2. NextIndex(dev) \in Slots
    BY <1>1, DevFields, FramesAssumption DEF NextIndex, Slots, Unlocked, IInv, TypeOK
  <2> QED BY <1>10, <2>1, <2>2
<1>12. ASSUME NEW op \in {"idle", "init"}, WaitIdle(op)
       PROVE  UploadInv'
  <2>1. dev' = [e EXCEPT !.lock = op] BY <1>12 DEF WaitIdle, e
  <2>2. e.index \in Slots BY <1>6, DevFields
  <2>3. dev' = [e EXCEPT !.index = e.index, !.lock = op] BY <1>6, <2>1, Zenon DEF DevType
  <2> QED BY <1>10, <2>2, <2>3
<1> QED BY <1>9, <1>11, <1>12

-----------------------------------------------------------------------------
(* A step that leaves the queues, the copies and the commands alone.       *)
LEMMA QuietUploads ==
  ASSUME UploadInv, cmd' = cmd, completed' = completed,
         dev'.index = dev.index, dev'.count = dev.count, dev'.timeline = dev.timeline,
         dev'.queue = dev.queue, dev'.waits = dev.waits, dev'.needFence = dev.needFence,
         dev'.subs = dev.subs, dev'.at = dev.at, dev'.copyAt = dev.copyAt,
         dev'.vbo = dev.vbo, dev'.ubo = dev.ubo, dev'.staged = dev.staged, dev'.blocks = dev.blocks
  PROVE  UploadInv'
<1>1. WaitsOwed(dev)' BY DEF UploadInv, WaitsOwed
<1>2. Recording' = Recording BY DEF Recording
<1>3. BlocksPending(dev, Recording)'
  BY <1>2 DEF UploadInv, BlocksPending, VertexReader, SameVkQueue
<1>4. \A c \in Cmds : /\ AwaitedReads(c)' = AwaitedReads(c)
                      /\ CopyPrecedes(dev, c)' <=> CopyPrecedes(dev, c)
  BY ReadsKept DEF CopyPrecedes, Behind, Done, SameVkQueue
<1>5. CopiesOrdered(dev)' BY <1>4 DEF UploadInv, CopiesOrdered
<1>6. BlockStates' BY <1>4 DEF UploadInv, BlockStates, VertexReader, Unfinished
<1>7. BlockRecycleSafe' BY DEF UploadInv, BlockRecycleSafe, Executed, Uploaded, Done
<1> QED BY <1>1, <1>3, <1>5, <1>6, <1>7 DEF UploadInv

LEMMA DestroyUploads ==
  ASSUME IInv, UploadInv, NEW o \in Objects, Destroy(o)
  PROVE  UploadInv'
<1> DEFINE ds == [dev.destroyed EXCEPT ![dev.index] = @ \cup {o}]
<1>1. dev' = [dev EXCEPT !.destroyed = ds] /\ cmd' = cmd /\ completed' = completed
  BY DEF Destroy
<1>2. dev \in DevType BY DEF IInv, TypeOK
<1> HIDE DEF ds
<1>3. /\ dev'.index = dev.index /\ dev'.count = dev.count /\ dev'.timeline = dev.timeline
      /\ dev'.queue = dev.queue /\ dev'.waits = dev.waits /\ dev'.needFence = dev.needFence
      /\ dev'.subs = dev.subs
  BY <1>1, <1>2, Zenon DEF DevType
<1>4. /\ dev'.at = dev.at /\ dev'.copyAt = dev.copyAt /\ dev'.vbo = dev.vbo /\ dev'.ubo = dev.ubo
      /\ dev'.staged = dev.staged /\ dev'.blocks = dev.blocks
  BY <1>1, <1>2, Zenon DEF DevType
<1> QED BY <1>1, <1>3, <1>4, QuietUploads

LEMMA DropUploads ==
  ASSUME IInv, UploadInv,
         (\E s \in app.semaphores : DropSemaphore(s)) \/ (\E f \in app.fences : DropFence(f))
  PROVE  UploadInv'
<1> DEFINE grown(set) == [dev.recycle EXCEPT ![dev.index] = set]
<1>1. /\ \E set : dev' = [dev EXCEPT !.recycle = grown(set)]
      /\ cmd' = cmd /\ completed' = completed
  BY DEF DropSemaphore, DropFence
<1>2. dev \in DevType BY DEF IInv, TypeOK
<1> HIDE DEF grown
<1>3. PICK re : dev' = [dev EXCEPT !.recycle = re] BY <1>1
<1>4. /\ dev'.index = dev.index /\ dev'.count = dev.count /\ dev'.timeline = dev.timeline
      /\ dev'.queue = dev.queue /\ dev'.waits = dev.waits /\ dev'.needFence = dev.needFence
      /\ dev'.subs = dev.subs
  BY <1>2, <1>3, Zenon DEF DevType
<1>5. /\ dev'.at = dev.at /\ dev'.copyAt = dev.copyAt /\ dev'.vbo = dev.vbo /\ dev'.ubo = dev.ubo
      /\ dev'.staged = dev.staged /\ dev'.blocks = dev.blocks
  BY <1>2, <1>3, Zenon DEF DevType
<1> QED BY <1>1, <1>4, <1>5, QuietUploads

(* Commands that are requested have no block to be copied yet, and get one *)
(* only if they draw or dispatch.                                          *)
LEMMA RecordUploads ==
  ASSUME BlockReaders, VertexCopiesAwaited, IInv, SyncInv, UploadInv, NEW c \in Cmds, Record(c)
  PROVE  UploadInv'
<1>1. PICK w \in Work[c] :
        RequestCommandBuffer(c, PhysicalType(w[1]), w[2], w[3],
                             PossibleStages({w[3]}) \cap CommandStages(w[1]))
  BY DEF Record
<1> DEFINE t == PhysicalType(w[1])
           reads == PossibleStages({w[3]}) \cap CommandStages(w[1])
           recorded == [status |-> "recording", type |-> t, home |-> dev.index,
                        uses |-> w[2], block |-> w[3], reads |-> reads]
<1>2. /\ cmd[c].status = "idle" /\ cmd' = [cmd EXCEPT ![c] = recorded]
      /\ dev' = [dev EXCEPT !.counter = dev.counter + 1] /\ completed' = completed
  BY <1>1 DEF RequestCommandBuffer
<1>3. /\ dev \in DevType /\ cmd \in [Cmds -> CmdType] /\ dev.index \in Slots
      /\ WaitsOwed(dev) /\ BlocksPending(dev, Recording) /\ CopiesOrdered(dev)
      /\ BlockStates /\ BlockRecycleSafe
  BY DevFields DEF IInv, TypeOK, UploadInv
<1>4. /\ dev'.index = dev.index /\ dev'.count = dev.count /\ dev'.timeline = dev.timeline
      /\ dev'.queue = dev.queue /\ dev'.waits = dev.waits /\ dev'.needFence = dev.needFence
      /\ dev'.subs = dev.subs
  BY <1>2, <1>3, Zenon DEF DevType
<1>5. /\ dev'.at = dev.at /\ dev'.copyAt = dev.copyAt /\ dev'.vbo = dev.vbo /\ dev'.ubo = dev.ubo
      /\ dev'.staged = dev.staged /\ dev'.blocks = dev.blocks
  BY <1>2, <1>3, Zenon DEF DevType
<1>6. /\ \A b \in Cmds \ {c} : cmd'[b] = cmd[b]
      /\ cmd'[c].status = "recording" /\ cmd'[c].type = t /\ cmd'[c].block = w[3]
      /\ cmd'[c].reads = reads
  BY <1>2, <1>3
<1>7. /\ w[1] \in RequestTypes /\ w[3] \in {"none", "vbo", "ubo"}
      /\ w[3] # "none" => t # "transfer"
      /\ w[3] = "none" => reads = {}
      /\ reads \subseteq PossibleStages({w[3]})
      /\ Discrete /\ ReadersAwaited => reads = reads \cap QueueStages(t)
      /\ Discrete /\ w[3] = "vbo" => t = "graphics" \/ VkQueueOf["compute"] = VkQueueOf["transfer"]
  <2>1. w \in RequestTypes \X (SUBSET Objects) \X {"none", "vbo", "ubo"} BY WorkAssumption
  <2>2. w[3] # "none" => w[1] # "transfer" BY DEF BlockReaders
  <2>3. w[1] # "transfer" => t # "transfer" BY DEF PhysicalType
  <2>4. w[3] = "none" => reads = {} BY DEF PossibleStages
  <2>5. Discrete /\ ReadersAwaited => reads = reads \cap QueueStages(t)
    <3> SUFFICES ASSUME Discrete, ReadersAwaited, w[3] # "none", t = "compute"
                 PROVE  reads \subseteq ComputeStages
      BY <2>4 DEF QueueStages, PossibleStages, Stages
    <3>1. w[1] # "asyncGraphics"
      BY DEF ReadersAwaited
    <3>2. w[1] = "compute" BY <3>1 DEF PhysicalType
    <3> QED BY <3>2 DEF CommandStages
  <2> QED BY <2>1, <2>2, <2>3, <2>4, <2>5 DEF VertexCopiesAwaited
<1>8. /\ dev.at[c][2] = 0 /\ cmd[c].block = "none" /\ ~(dev.copyAt[c][2] > 0)
      /\ c \notin dev.vbo \cup dev.ubo /\ dev.staged = {} /\ \A f \in Slots : c \notin dev.blocks[f]
  BY <1>2, <1>3 DEF SyncInv, BlockStates
<1>9. dev.vbo \subseteq Cmds /\ dev.ubo \subseteq Cmds /\ \A f \in Slots : dev.blocks[f] \subseteq Cmds
  BY <1>3 DEF DevType
<1>10. Recording \subseteq Recording'
  <2> SUFFICES ASSUME NEW b \in Recording PROVE cmd'[b].status = "recording" BY DEF Recording
  <2> QED BY <1>6 DEF Recording
<1> HIDE DEF t, reads
<1>11. WaitsOwed(dev)' BY <1>3, <1>4 DEF WaitsOwed
<1>12. BlocksPending(dev, Recording)'
  <2>1. ASSUME NEW b \in dev.vbo \cup dev.ubo
        PROVE  /\ dev.at[b][2] = 0 /\ dev.copyAt[b][2] = 0 /\ cmd'[b].type # "transfer"
               /\ b \in Recording' \/ b \in dev.subs[dev.index][cmd'[b].type]
               /\ b \in dev.vbo => VertexReader(b)' /\ cmd'[b].reads \subseteq PossibleStages({"vbo"})
               /\ b \in dev.ubo => cmd'[b].reads \subseteq PossibleStages({"ubo"})
    <3>1. cmd'[b] = cmd[b] BY <1>6, <1>8, <1>9
    <3> QED BY <1>3, <1>10, <3>1 DEF BlocksPending, VertexReader
  <2> QED BY <1>4, <1>5, <1>8, <2>1 DEF BlocksPending
<1>13. CopiesOrdered(dev)'
  <2> SUFFICES ASSUME NEW b \in Cmds, b # c
               PROVE  /\ dev.at[b][2] > 0 => dev.at[b][1] = cmd[b].type
                      /\ dev.copyAt[b][2] > 0 =>
                           /\ dev.copyAt[b][1] = "transfer" /\ dev.copyAt[b][2] <= dev.timeline["transfer"]
                           /\ cmd[b].type # "transfer" /\ CopyPrecedes(dev, b)'
    BY <1>4, <1>5, <1>6, <1>8 DEF CopiesOrdered
  <2>1. CopyPrecedes(dev, b) => CopyPrecedes(dev, b)'
    <3>1. cmd'[b] = cmd[b] BY <1>6
    <3>2. AwaitedReads(b)' = AwaitedReads(b) BY <3>1, ReadsKept
    <3> QED BY <1>2, <1>4, <1>5, <3>1, <3>2 DEF CopyPrecedes, Behind, Done, SameVkQueue
  <2> QED BY <1>3, <2>1 DEF CopiesOrdered
<1>14. BlockStates'
  <2>1. ASSUME NEW b \in Cmds
        PROVE  /\ cmd'[b].status = "idle" => cmd'[b].block = "none"
               /\ cmd'[b].block = "none" => cmd'[b].reads = {}
               /\ cmd'[b].block \in {"vbo", "ubo"} =>
                    /\ cmd'[b].status = "recording" /\ cmd'[b].type # "transfer"
                    /\ cmd'[b].reads \subseteq PossibleStages({cmd'[b].block})
               /\ Discrete /\ ReadersAwaited => cmd'[b].reads = AwaitedReads(b)'
               /\ cmd'[b].block = "vbo" /\ Discrete => VertexReader(b)'
               /\ cmd'[b].block = "given" /\ Discrete => b \in dev.vbo \cup dev.ubo \/ dev.copyAt[b][2] > 0
               /\ dev.copyAt[b][2] > 0 => cmd'[b].block \in {"given", "recycled"}
    <3>1. CASE b = c
      <4>1. AwaitedReads(c)' = reads \cap QueueStages(t) BY <1>6 DEF AwaitedReads
      <4>2. /\ w[3] = "none" => cmd'[c].reads = {}
            /\ cmd'[c].reads \subseteq PossibleStages({w[3]})
            /\ Discrete /\ ReadersAwaited => cmd'[c].reads = AwaitedReads(c)'
        BY <1>6, <1>7, <4>1
      <4>3. cmd'[c].block = "vbo" /\ Discrete => VertexReader(c)' BY <1>6, <1>7 DEF VertexReader
      <4>4. /\ cmd'[c].status = "recording" /\ cmd'[c].type = t /\ cmd'[c].block = w[3]
            /\ w[3] # "none" => t # "transfer"
            /\ w[3] \in {"none", "vbo", "ubo"}
        BY <1>6, <1>7
      <4> QED BY <1>8, <3>1, <4>2, <4>3, <4>4
    <3>2. CASE b # c
      <4>1. cmd'[b] = cmd[b] BY <1>6, <3>2
      <4>2. AwaitedReads(b)' = AwaitedReads(b) BY <4>1, ReadsKept
      <4>3. /\ cmd[b].status = "idle" => cmd[b].block = "none"
            /\ cmd[b].block = "none" => cmd[b].reads = {}
            /\ cmd[b].block \in {"vbo", "ubo"} =>
                 /\ cmd[b].status = "recording" /\ cmd[b].type # "transfer"
                 /\ cmd[b].reads \subseteq PossibleStages({cmd[b].block})
            /\ Discrete /\ ReadersAwaited => cmd[b].reads = AwaitedReads(b)
            /\ cmd[b].block = "vbo" /\ Discrete => VertexReader(b)
            /\ cmd[b].block = "given" /\ Discrete => b \in dev.vbo \cup dev.ubo \/ dev.copyAt[b][2] > 0
            /\ dev.copyAt[b][2] > 0 => cmd[b].block \in {"given", "recycled"}
        BY <1>3 DEF BlockStates
      <4>4. VertexReader(b)' <=> VertexReader(b) BY <4>1 DEF VertexReader
      <4> QED BY <4>1, <4>2, <4>3, <4>4
    <3> QED BY <3>1, <3>2
  <2>2. \A b \in dev.vbo \cup dev.ubo : cmd'[b].block = "given"
    BY <1>3, <1>6, <1>8, <1>9 DEF BlockStates
  <2>3. ASSUME NEW f \in Slots, NEW b \in dev.blocks[f]
        PROVE  f < dev.count /\ cmd'[b].home = f /\ Unfinished(b)' /\ cmd'[b].block = "given"
    <3>1. cmd'[b] = cmd[b] BY <1>6, <1>8, <1>9
    <3> QED BY <1>3, <3>1 DEF BlockStates, Unfinished
  <2> QED BY <1>4, <1>5, <2>1, <2>2, <2>3 DEF BlockStates
<1>15. BlockRecycleSafe'
  <2> SUFFICES ASSUME NEW b \in Cmds, cmd'[b].block = "recycled"
               PROVE  Executed(b)' /\ (Discrete => Uploaded(b)')
    BY DEF BlockRecycleSafe
  <2>1. cmd[b].block = "recycled" BY <1>6, <1>7
  <2> QED BY <1>2, <1>3, <1>5, <2>1 DEF BlockRecycleSafe, Executed, Uploaded, Done
<1> QED BY <1>11, <1>12, <1>13, <1>14, <1>15 DEF UploadInv

(* The block that c held is given up, and its copy is still to be made.    *)
GivenUp(c, e) ==
  /\ e.at = dev.at /\ e.copyAt = dev.copyAt /\ e.staged = dev.staged
  /\ e.vbo = IF Discrete /\ cmd[c].block = "vbo" THEN dev.vbo \cup {c} ELSE dev.vbo
  /\ e.ubo = IF Discrete /\ cmd[c].block = "ubo" THEN dev.ubo \cup {c} ELSE dev.ubo
  /\ \A f \in Slots :
       e.blocks[f] = IF f = dev.index /\ cmd[c].block \in {"vbo", "ubo"} THEN dev.blocks[f] \cup {c}
                     ELSE dev.blocks[f]

(* Giving up a block is as good a start for submitting.                    *)
LEMMA GivenReady ==
  ASSUME IInv, SyncInv, UploadInv, Unlocked, NEW c \in Cmds, cmd[c].status = "recording",
         NEW e, Sound(e), GivenUp(c, e), e.index = dev.index, e.timeline = dev.timeline,
         e.queue = dev.queue, e.waits = dev.waits, e.needFence = dev.needFence,
         \A t \in Types : dev.subs[dev.index][t] \subseteq e.subs[dev.index][t],
         NEW R, \A b \in Recording : b \in R \/ (b = c /\ c \in e.subs[dev.index][cmd[c].type])
  PROVE  Ready(e, R)
<1>1. /\ Ready(dev, Recording) /\ dev.staged = {} /\ dev \in DevType /\ c \in Recording
      /\ \A b \in Cmds : cmd[b].type \in Types /\ cmd[b].reads \subseteq Stages
      /\ BlocksPending(dev, Recording) /\ CopiesOrdered(dev) /\ WaitsOwed(dev) /\ BlockStates
  BY InvariantReady DEF IInv, TypeOK, CmdType, Recording, UploadInv
<1>2. dev.vbo \subseteq Cmds /\ dev.ubo \subseteq Cmds BY <1>1, SyncFields
<1>3. /\ e.at = dev.at /\ e.copyAt = dev.copyAt /\ e.staged = {}
      /\ \A b \in e.vbo : b \in dev.vbo \/ (b = c /\ Discrete /\ cmd[c].block = "vbo")
      /\ \A b \in e.ubo : b \in dev.ubo \/ (b = c /\ Discrete /\ cmd[c].block = "ubo")
  BY <1>1 DEF GivenUp
<1>4. BlocksPending(e, R)
  <2>1. ASSUME NEW b \in e.vbo \cup e.ubo
        PROVE  /\ dev.at[b][2] = 0 /\ dev.copyAt[b][2] = 0 /\ cmd[b].type # "transfer"
               /\ b \in R \/ b \in e.subs[dev.index][cmd[b].type]
               /\ b \in e.vbo => VertexReader(b) /\ cmd[b].reads \subseteq PossibleStages({"vbo"})
               /\ b \in e.ubo => cmd[b].reads \subseteq PossibleStages({"ubo"})
    <3>1. b \in Cmds BY <1>2, <1>3
    <3>2. b \in Recording => b \in R \/ b \in e.subs[dev.index][cmd[b].type] OBVIOUS
    <3>3. b \in e.vbo => VertexReader(b) /\ cmd[b].reads \subseteq PossibleStages({"vbo"})
      <4>1. CASE b \in dev.vbo BY <1>1, <4>1 DEF BlocksPending
      <4>2. CASE Discrete /\ cmd[b].block = "vbo" BY <1>1, <3>1, <4>2 DEF BlockStates
      <4> QED BY <1>3, <4>1, <4>2
    <3>4. b \in e.ubo => cmd[b].reads \subseteq PossibleStages({"ubo"})
      <4>1. CASE b \in dev.ubo BY <1>1, <4>1 DEF BlocksPending
      <4>2. CASE Discrete /\ cmd[b].block = "ubo" BY <1>1, <3>1, <4>2 DEF BlockStates
      <4> QED BY <1>3, <4>1, <4>2
    <3>5. CASE b \in dev.vbo \cup dev.ubo
      <4>1. /\ dev.at[b][2] = 0 /\ dev.copyAt[b][2] = 0 /\ cmd[b].type # "transfer"
            /\ b \in Recording \/ b \in dev.subs[dev.index][cmd[b].type]
        BY <1>1, <3>5 DEF BlocksPending
      <4> QED BY <1>1, <3>1, <3>2, <3>3, <3>4, <4>1
    <3>6. CASE b = c /\ Discrete /\ cmd[c].block \in {"vbo", "ubo"}
      <4>1. dev.at[c][2] = 0 BY DEF SyncInv
      <4>2. cmd[c].type # "transfer" BY <1>1, <3>6 DEF BlockStates
      <4>3. dev.copyAt[c][2] = 0
        <5>1. ~(dev.copyAt[c][2] > 0) BY <1>1, <3>6 DEF BlockStates
        <5>2. dev.copyAt[c][2] \in Nat BY <1>1, SyncFields
        <5> QED BY <5>1, <5>2
      <4> QED BY <1>1, <3>2, <3>6, <3>3, <3>4, <4>1, <4>2, <4>3
    <3> QED BY <1>3, <3>5, <3>6
  <2> QED BY <1>3, <2>1 DEF BlocksPending
<1>5. \A b \in Cmds : CopyPrecedes(dev, b) => CopyPrecedes(e, b)
  BY <1>3 DEF CopyPrecedes, Behind
<1>6. CopiesOrdered(e) BY <1>1, <1>3, <1>5 DEF CopiesOrdered
<1>7. WaitsOwed(e) BY <1>1 DEF WaitsOwed
<1> QED BY <1>1, <1>4, <1>6, <1>7 DEF Ready

(* The life of the block that c held, and of the others.                   *)
LEMMA GivenStates ==
  ASSUME IInv, SyncInv, UploadInv, Unlocked, NEW c \in Cmds, cmd[c].status = "recording",
         NEW e, GivenUp(c, e), NEW g, Carries(e, g), g.staged = {}, g \in DevType,
         \A b \in Cmds : dev.at[b][2] > 0 => g.at[b] = dev.at[b],
         \A b \in Cmds : /\ cmd'[b].type = cmd[b].type /\ cmd'[b].home = cmd[b].home
                         /\ cmd'[b].reads = cmd[b].reads
                         /\ cmd'[b].status = cmd[b].status \/ (b = c /\ cmd'[b].status = "submitted")
                         /\ cmd'[b].block = IF b = c THEN BlockGiven(cmd[c].block) ELSE cmd[b].block,
         completed' = completed, dev'.count = dev.count, dev'.at = g.at, dev'.copyAt = g.copyAt,
         dev'.vbo = g.vbo, dev'.ubo = g.ubo, dev'.blocks = g.blocks
  PROVE  BlockStates' /\ BlockRecycleSafe'
<1>1. /\ dev \in DevType /\ BlockStates /\ BlockRecycleSafe /\ dev.staged = {}
      /\ dev.vbo \subseteq Cmds /\ dev.ubo \subseteq Cmds
      /\ cmd[c].home = dev.index /\ dev.index < dev.count
  <2>1. c \in Recording BY DEF Recording
  <2>2. dev \in DevType BY DEF IInv, TypeOK
  <2> QED BY <2>1, <2>2, SyncFields DEF IInv, CurrentFrame, UploadInv, SyncInv, Unlocked
<1>2. g.blocks = e.blocks /\ g.vbo \cup g.ubo \subseteq e.vbo \cup e.ubo BY DEF Carries
<1>3. ASSUME NEW b \in Cmds
      PROVE  /\ b \in e.vbo \cup e.ubo <=>
                  b \in dev.vbo \cup dev.ubo \/ (b = c /\ Discrete /\ cmd[c].block \in {"vbo", "ubo"})
             /\ b \in g.vbo \cup g.ubo \/ g.copyAt[b][2] > 0
                  <=> b \in e.vbo \cup e.ubo \/ dev.copyAt[b][2] > 0
             /\ dev.copyAt[b][2] > 0 => g.copyAt[b] = dev.copyAt[b]
  <2>1. b \in e.vbo <=> b \in dev.vbo \/ (b = c /\ Discrete /\ cmd[c].block = "vbo") BY DEF GivenUp
  <2>2. b \in e.ubo <=> b \in dev.ubo \/ (b = c /\ Discrete /\ cmd[c].block = "ubo") BY DEF GivenUp
  <2>3. e.copyAt[b] = dev.copyAt[b] /\ e.staged = {} BY <1>1 DEF GivenUp
  <2>4. (InCopy(g, b) <=> InCopy(e, b)) /\ (e.copyAt[b][2] > 0 => g.copyAt[b] = e.copyAt[b])
    BY DEF Carries
  <2> QED BY <2>1, <2>2, <2>3, <2>4 DEF InCopy
<1>4. \A b \in Cmds : cmd'[b].block = IF b = c /\ cmd[c].block \in {"vbo", "ubo"} THEN "given"
                                      ELSE cmd[b].block
  BY DEF BlockGiven
<1>5. BlockStates'
  <2>1. ASSUME NEW b \in Cmds
        PROVE  /\ cmd'[b].status = "idle" => cmd'[b].block = "none"
               /\ cmd'[b].block = "none" => cmd'[b].reads = {}
               /\ cmd'[b].block \in {"vbo", "ubo"} =>
                    /\ cmd'[b].status = "recording" /\ cmd'[b].type # "transfer"
                    /\ cmd'[b].reads \subseteq PossibleStages({cmd'[b].block})
               /\ Discrete /\ ReadersAwaited => cmd'[b].reads = AwaitedReads(b)'
               /\ cmd'[b].block = "vbo" /\ Discrete => VertexReader(b)'
    <3>1. /\ VertexReader(b)' <=> VertexReader(b)
          /\ cmd'[b].type = cmd[b].type /\ cmd'[b].reads = cmd[b].reads
          /\ AwaitedReads(b)' = AwaitedReads(b)
      BY ReadsKept DEF VertexReader
    <3>2. /\ cmd[b].status = "idle" => cmd[b].block = "none"
          /\ cmd[b].block = "none" => cmd[b].reads = {}
          /\ cmd[b].block \in {"vbo", "ubo"} =>
               /\ cmd[b].status = "recording" /\ cmd[b].type # "transfer"
               /\ cmd[b].reads \subseteq PossibleStages({cmd[b].block})
          /\ Discrete /\ ReadersAwaited => cmd[b].reads = AwaitedReads(b)
          /\ cmd[b].block = "vbo" /\ Discrete => VertexReader(b)
      BY <1>1 DEF BlockStates
    <3>3. CASE b = c
      <4>1. cmd'[c].status \in {"recording", "submitted"} OBVIOUS
      <4>2. cmd'[c].block \notin {"vbo", "ubo"} BY <1>4
      <4>3. cmd'[c].block = "none" => cmd[c].block = "none" BY <1>4
      <4> QED BY <3>1, <3>2, <3>3, <4>1, <4>2, <4>3
    <3>4. CASE b # c
      <4>1. cmd'[b].status = cmd[b].status /\ cmd'[b].block = cmd[b].block BY <3>4
      <4> QED BY <3>1, <3>2, <4>1
    <3> QED BY <3>3, <3>4
  <2>2. ASSUME NEW b \in Cmds
        PROVE  /\ cmd'[b].block = "given" /\ Discrete => b \in g.vbo \cup g.ubo \/ g.copyAt[b][2] > 0
               /\ g.copyAt[b][2] > 0 => cmd'[b].block \in {"given", "recycled"}
               /\ b \in g.vbo \cup g.ubo => cmd'[b].block = "given"
    <3>1. /\ cmd[b].block = "given" /\ Discrete => b \in dev.vbo \cup dev.ubo \/ dev.copyAt[b][2] > 0
          /\ dev.copyAt[b][2] > 0 => cmd[b].block \in {"given", "recycled"}
          /\ b \in dev.vbo \cup dev.ubo => cmd[b].block = "given"
      BY <1>1 DEF BlockStates
    <3>2. b \in g.vbo \cup g.ubo => b \in e.vbo \cup e.ubo BY <1>2
    <3> QED BY <1>3, <1>4, <3>1, <3>2
  <2>3. ASSUME NEW f \in Slots, NEW b \in g.blocks[f]
        PROVE  f < dev.count /\ cmd'[b].home = f /\ Unfinished(b)' /\ cmd'[b].block = "given"
    <3>1. b \in dev.blocks[f] \/ (b = c /\ f = dev.index /\ cmd[c].block \in {"vbo", "ubo"})
      <4>1. b \in e.blocks[f] BY <1>2
      <4>2. e.blocks[f] = IF f = dev.index /\ cmd[c].block \in {"vbo", "ubo"}
                          THEN dev.blocks[f] \cup {c} ELSE dev.blocks[f]
        BY DEF GivenUp
      <4> QED BY <4>1, <4>2
    <3>2. dev.blocks[f] \subseteq Cmds BY <1>1 DEF DevType
    <3>3. b \in dev.blocks[f] =>
            f < dev.count /\ cmd[b].home = f /\ Unfinished(b) /\ cmd[b].block = "given"
      BY <1>1 DEF BlockStates
    <3>4. b \in Cmds BY <3>1, <3>2
    <3>5. Unfinished(b)' <=> Unfinished(b) BY <3>4 DEF Unfinished
    <3>6. Unfinished(c) BY DEF Unfinished
    <3> QED BY <1>1, <1>4, <3>1, <3>3, <3>4, <3>5, <3>6
  <2>4. \A b \in g.vbo \cup g.ubo : b \in Cmds BY SyncFields
  <2> QED BY <2>1, <2>2, <2>3, <2>4 DEF BlockStates
<1>6. BlockRecycleSafe'
  <2> SUFFICES ASSUME NEW b \in Cmds, cmd'[b].block = "recycled"
               PROVE  Executed(b)' /\ (Discrete => Uploaded(b)')
    BY DEF BlockRecycleSafe
  <2>1. cmd[b].block = "recycled" BY <1>4
  <2>2. Executed(b) /\ (Discrete => Uploaded(b)) BY <1>1, <2>1 DEF BlockRecycleSafe
  <2> QED BY <1>3, <2>2 DEF Executed, Uploaded, Done
<1> QED BY <1>5, <1>6

LEMMA RequestBlockUploads ==
  ASSUME IInv, SyncInv, UploadInv, NEW c \in Cmds, RequestBlock(c)
  PROVE  UploadInv'
<1>1. /\ Unlocked /\ cmd[c].status = "recording" /\ cmd[c].block \in {"vbo", "ubo"}
      /\ dev' = GiveUpBlock(dev, c) /\ cmd' = [cmd EXCEPT ![c].block = "given"]
      /\ completed' = completed
  BY DEF RequestBlock
<1>2. dev \in DevType /\ cmd \in [Cmds -> CmdType] BY DEF IInv, TypeOK
<1>3. BlockGivenUp(dev, c, dev') BY <1>1, <1>2, GiveUpBlockFields
<1>4. /\ GivenUp(c, dev') /\ dev' \in DevType /\ dev'.index = dev.index /\ dev'.count = dev.count
      /\ dev'.lock = dev.lock /\ dev'.timeline = dev.timeline /\ dev'.queue = dev.queue
      /\ dev'.fence = dev.fence /\ dev'.waitFences = dev.waitFences /\ dev'.at = dev.at
      /\ dev'.waits = dev.waits /\ dev'.needFence = dev.needFence /\ dev'.subs = dev.subs
      /\ dev'.staged = {}
  BY <1>3 DEF BlockGivenUp, GivenUp, SyncInv
<1>5. Sound(dev')
  <2>1. Sound(dev) BY <1>1, InvariantSound
  <2>2. Good(dev') BY <1>4, <2>1 DEF Sound, Good, Fenced
  <2>3. QueueLengths(dev') /\ LatestCovered(dev') /\ NotYetSent(dev')
    BY <1>4, <2>1 DEF Sound, QueueLengths, LatestCovered, NotYetSent
  <2>4. ~Timeline => FramesFenced(dev') BY <1>4, <2>1 DEF Sound, FramesFenced, FenceCovers
  <2> QED BY <1>4, <2>1, <2>2, <2>3, <2>4 DEF Sound
<1>6. Ready(dev', Recording) BY <1>1, <1>4, <1>5, GivenReady
<1>7. Carries(dev', dev') BY DEF Carries
<1>8. \A b \in Cmds : /\ cmd'[b].type = cmd[b].type /\ cmd'[b].home = cmd[b].home
                      /\ cmd'[b].reads = cmd[b].reads /\ cmd'[b].status = cmd[b].status
                      /\ cmd'[b].block = IF b = c THEN BlockGiven(cmd[c].block) ELSE cmd[b].block
  BY <1>1, <1>2 DEF CmdType, BlockGiven
<1>9. BlockStates' /\ BlockRecycleSafe'
  <2>1. \A b \in Cmds : dev.at[b][2] > 0 => dev'.at[b] = dev.at[b] BY <1>4
  <2> QED BY <1>1, <1>4, <1>7, <1>8, <2>1, GivenStates
<1>10. Recording' = Recording BY <1>8 DEF Recording
<1> QED BY <1>1, <1>4, <1>6, <1>8, <1>9, <1>10, ReachedUploads

(* Submit: the block is given up, the commands are pending, and so are the *)
(* copies until the queues are flushed.                                    *)
LEMMA FinishUploads ==
  ASSUME IInv, SyncInv, UploadInv, NEW c \in Cmds, NEW demand, Submit(c, demand), dev' \in DevType
  PROVE  UploadInv'
<1> DEFINE t == cmd[c].type
           ended == Ended(dev, c)
           sent == IF demand = "none" THEN ended ELSE SubmitQueue(ended, t, TRUE)
           R == Recording \ {c}
<1>1. /\ Unlocked /\ cmd[c].status = "recording"
      /\ dev' = [sent EXCEPT !.counter = sent.counter - 1]
      /\ cmd' = [cmd EXCEPT ![c].status = "submitted", ![c].block = BlockGiven(@)]
      /\ completed' = completed
  BY DEF Submit, Ended
<1>2. dev \in DevType /\ cmd \in [Cmds -> CmdType] /\ t \in Types /\ dev.index \in Slots
  BY DevFields DEF IInv, TypeOK, CmdType
<1>3. Sound(dev) /\ completed \in [Types -> Nat] BY <1>1, InvariantSound
<1>4. CommandEnded(dev, c, ended) BY <1>2, EndedFields
<1> HIDE DEF ended
<1>5. /\ GivenUp(c, ended) /\ ended \in DevType /\ ended.index = dev.index /\ ended.lock = dev.lock
      /\ ended.count = dev.count /\ ended.timeline = dev.timeline /\ ended.queue = dev.queue
      /\ ended.fence = dev.fence /\ ended.waitFences = dev.waitFences /\ ended.at = dev.at
      /\ ended.waits = dev.waits /\ ended.needFence = dev.needFence /\ ended.staged = {}
  BY <1>4 DEF CommandEnded, GivenUp, SyncInv
<1>6. \A f \in Slots, u \in Types :
        ended.subs[f][u] = IF f = dev.index /\ u = t THEN dev.subs[f][u] \cup {c} ELSE dev.subs[f][u]
  BY <1>4 DEF CommandEnded
<1>7. Sound(ended)
  <2>1. Good(ended) BY <1>3, <1>5 DEF Sound, Good, Fenced
  <2>2. QueueLengths(ended) /\ LatestCovered(ended)
    BY <1>3, <1>5 DEF Sound, QueueLengths, LatestCovered
  <2>3. NotYetSent(ended)
    <3> SUFFICES ASSUME NEW f \in Slots, NEW u \in Types, NEW b \in ended.subs[f][u]
                 PROVE  f = dev.index /\ cmd[b].type = u /\ dev.at[b][2] = 0
      BY <1>5 DEF NotYetSent
    <3>1. ended.subs[f][u] = IF f = dev.index /\ u = t THEN dev.subs[f][u] \cup {c} ELSE dev.subs[f][u]
      BY <1>6
    <3>2. b \in dev.subs[f][u] \/ (b = c /\ f = dev.index /\ u = t) BY <3>1
    <3>3. dev.at[c][2] = 0 BY <1>1 DEF SyncInv
    <3>4. b \in dev.subs[f][u] => f = dev.index /\ cmd[b].type = u /\ dev.at[b][2] = 0
      BY <1>3 DEF Sound, NotYetSent
    <3> QED BY <3>2, <3>3, <3>4
  <2>4. ~Timeline => FramesFenced(ended) BY <1>3, <1>5 DEF Sound, FramesFenced, FenceCovers
  <2> QED BY <1>3, <1>5, <2>1, <2>2, <2>3, <2>4 DEF Sound
<1>8. Ready(ended, R)
  <2>1. \A u \in Types : dev.subs[dev.index][u] \subseteq ended.subs[dev.index][u]
    <3> SUFFICES ASSUME NEW u \in Types PROVE dev.subs[dev.index][u] \subseteq ended.subs[dev.index][u]
      OBVIOUS
    <3>1. ended.subs[dev.index][u] = IF u = t THEN dev.subs[dev.index][u] \cup {c}
                                     ELSE dev.subs[dev.index][u]
      BY <1>2, <1>6
    <3> QED BY <3>1
  <2>2. c \in ended.subs[dev.index][t]
    <3>1. ended.subs[dev.index][t] = dev.subs[dev.index][t] \cup {c} BY <1>2, <1>6
    <3> QED BY <3>1
  <2>3. \A b \in Recording : b \in R \/ (b = c /\ c \in ended.subs[dev.index][t]) BY <2>2
  <2> QED BY <1>1, <1>5, <1>7, <2>1, <2>3, GivenReady
<1>9. Orderly(ended, R, sent) /\ Advances(ended, sent)
  <2>1. CASE demand = "none" BY <1>5, <1>7, <1>8, <2>1, OrderlyReflexive, AdvancesReflexive
  <2>2. CASE demand # "none"
    <3>1. sent = SubmitQueue(ended, t, TRUE) BY <2>2
    <3>2. TRUE \in BOOLEAN OBVIOUS
    <3> HIDE DEF sent, R
    <3>3. Orderly(ended, R, sent) BY <1>2, <1>5, <1>8, <3>1, <3>2, SubmitQueueReady
    <3>4. QueueSubmitted(ended, t, sent) BY <1>2, <1>3, <1>7, <3>1, <3>2, SubmitQueueFacts
    <3> QED BY <3>3, <3>4 DEF QueueSubmitted, Flushes
  <2> QED BY <2>1, <2>2
<1> HIDE DEF sent, R
<1>10. /\ Ready(sent, R) /\ Carries(ended, sent) /\ sent.staged = {}
       /\ sent \in DevType /\ sent.index = dev.index /\ sent.count = dev.count
  BY <1>5, <1>9, AdvancedSound DEF Orderly
<1>11. /\ dev'.index = sent.index /\ dev'.count = sent.count /\ dev'.timeline = sent.timeline
       /\ dev'.queue = sent.queue /\ dev'.waits = sent.waits /\ dev'.needFence = sent.needFence
       /\ dev'.subs = sent.subs
  BY <1>1, <1>10, Zenon DEF DevType
<1>12. /\ dev'.at = sent.at /\ dev'.copyAt = sent.copyAt /\ dev'.vbo = sent.vbo
       /\ dev'.ubo = sent.ubo /\ dev'.staged = sent.staged /\ dev'.blocks = sent.blocks
  BY <1>1, <1>10, Zenon DEF DevType
<1>13. \A b \in Cmds :
         /\ cmd'[b].type = cmd[b].type /\ cmd'[b].home = cmd[b].home
         /\ cmd'[b].reads = cmd[b].reads
         /\ cmd'[b].status = IF b = c THEN "submitted" ELSE cmd[b].status
         /\ cmd'[b].block = IF b = c THEN BlockGiven(cmd[c].block) ELSE cmd[b].block
  <2> HIDE DEF t
  <2> SUFFICES ASSUME NEW b \in Cmds
               PROVE  /\ cmd'[b].type = cmd[b].type /\ cmd'[b].home = cmd[b].home
                      /\ cmd'[b].reads = cmd[b].reads
                      /\ cmd'[b].status = IF b = c THEN "submitted" ELSE cmd[b].status
                      /\ cmd'[b].block = IF b = c THEN BlockGiven(cmd[c].block) ELSE cmd[b].block
    OBVIOUS
  <2>1. cmd[b] \in CmdType BY <1>2
  <2>2. CASE b # c BY <1>1, <1>2, <2>2
  <2>3. CASE b = c
    <3>1. cmd'[c] = [cmd[c] EXCEPT !.status = "submitted", !.block = BlockGiven(cmd[c].block)]
      BY <1>1, <1>2
    <3> QED BY <2>1, <2>3, <3>1, Zenon DEF CmdType
  <2> QED BY <2>2, <2>3
<1>14. BlockStates' /\ BlockRecycleSafe'
  <2>1. \A b \in Cmds : dev.at[b][2] > 0 => sent.at[b] = dev.at[b]
    <3> SUFFICES ASSUME NEW b \in Cmds, dev.at[b][2] > 0 PROVE sent.at[b] = dev.at[b] OBVIOUS
    <3>1. sent.at[b] = ended.at[b] \/ ended.at[b][2] = 0 BY <1>9 DEF Advances
    <3> QED BY <1>5, <3>1
  <2>2. \A b \in Cmds :
          /\ cmd'[b].type = cmd[b].type /\ cmd'[b].home = cmd[b].home
          /\ cmd'[b].reads = cmd[b].reads
          /\ cmd'[b].status = cmd[b].status \/ (b = c /\ cmd'[b].status = "submitted")
          /\ cmd'[b].block = IF b = c THEN BlockGiven(cmd[c].block) ELSE cmd[b].block
    BY <1>13
  <2>3. dev'.count = dev.count BY <1>10, <1>11
  <2>4. /\ dev'.at = sent.at /\ dev'.copyAt = sent.copyAt /\ dev'.vbo = sent.vbo
        /\ dev'.ubo = sent.ubo /\ dev'.blocks = sent.blocks
    BY <1>12
  <2>5. Unlocked /\ cmd[c].status = "recording" /\ completed' = completed BY <1>1
  <2>6. GivenUp(c, ended) BY <1>5
  <2>7. Carries(ended, sent) /\ sent.staged = {} /\ sent \in DevType BY <1>10
  <2> QED BY <2>1, <2>2, <2>3, <2>4, <2>5, <2>6, <2>7, GivenStates
<1>15. \A b \in R : b \in Recording' \/ b \notin sent.vbo \cup sent.ubo
  <2> SUFFICES ASSUME NEW b \in R PROVE cmd'[b].status = "recording" /\ b \in Cmds
    BY DEF Recording
  <2>1. b \in Cmds /\ b # c /\ cmd[b].status = "recording" BY DEF R, Recording
  <2> QED BY <1>13, <2>1
<1>16. \A b \in Cmds : cmd'[b].type = cmd[b].type /\ cmd'[b].reads = cmd[b].reads BY <1>13
<1> QED BY <1>1, <1>10, <1>11, <1>12, <1>14, <1>15, <1>16, ReachedUploads

-----------------------------------------------------------------------------
(* What the invariant is for.  A frame that has ended has nothing left to  *)
(* copy, because its commands are all submitted.                           *)
LEMMA FrameEmptied ==
  ASSUME IInv, SyncInv, UploadInv, dev.lock # "free"
  PROVE  /\ Recording = {} /\ dev.vbo = {} /\ dev.ubo = {} /\ dev.staged = {}
         /\ \A f \in Slots, t \in Types : dev.subs[f][t] = {}
<1>1. dev \in DevType /\ cmd \in [Cmds -> CmdType] /\ dev.index \in Slots
  BY DevFields DEF IInv, TypeOK
<1>2. Recording = {} /\ \A f \in Slots, t \in Types : dev.subs[f][t] = {}
  BY <1>1, DevFields DEF IInv, CurrentFrame
<1>3. ASSUME NEW c \in dev.vbo \cup dev.ubo PROVE FALSE
  <2>1. c \in Cmds BY <1>1, SyncFields
  <2>2. cmd[c].type \in Types BY <1>1, <2>1 DEF CmdType
  <2>3. c \in Recording \/ c \in dev.subs[dev.index][cmd[c].type] BY DEF UploadInv, BlocksPending
  <2> QED BY <1>1, <1>2, <2>2, <2>3
<1> QED BY <1>2, <1>3 DEF SyncInv

(* A batch that still has to execute stands behind the copy; so whatever   *)
(* has executed did so after it.                                           *)
LEMMA ExecutedUploaded ==
  ASSUME IInv, UploadInv, Discrete, NEW c \in Cmds, cmd[c].block = "given", Executed(c)
  PROVE  Uploaded(c)
<1> DEFINE t == cmd[c].type
           copy == dev.copyAt[c]
<1>1. dev \in DevType /\ completed \in [Types -> Nat] /\ t \in Types
  BY DEF IInv, TypeOK, CmdType
<1>2. dev.at[c][2] \in Nat /\ dev.at[c][2] > 0 /\ dev.at[c][2] <= completed[t] /\ completed[t] \in Nat
  BY <1>1, DevFields DEF Executed, Done, UploadInv, CopiesOrdered
<1>3. c \notin dev.vbo \cup dev.ubo BY <1>2 DEF UploadInv, BlocksPending
<1>4. copy[2] > 0 BY <1>3 DEF UploadInv, BlockStates
<1>5. CopyPrecedes(dev, c) BY <1>4 DEF UploadInv, CopiesOrdered
<1>6. ~Behind(dev, t, dev.at[c][2], copy, AwaitedReads(c))
  <2> SUFFICES ASSUME NEW n \in 1 .. Len(dev.queue[t]), completed[t] + n <= dev.at[c][2] PROVE FALSE
    BY DEF Behind
  <2>1. n \in Nat /\ n > 0 BY <1>1, SyncFields
  <2> QED BY <1>2, <2>1
<1> QED BY <1>2, <1>4, <1>5, <1>6 DEF CopyPrecedes, Uploaded

LEMMA UploadInvSafe ==
  ASSUME IInv, SyncInv, UploadInv
  PROVE  BlockRecycleSafe /\ NothingLeftBehind
<1>1. BlockRecycleSafe BY DEF UploadInv
<1>2. NothingLeftBehind BY FrameEmptied DEF NothingLeftBehind, UploadInv, WaitsOwed
<1> QED BY <1>1, <1>2

(* While the copy is not complete, the batch that waits for it holds back  *)
(* every stage that reads the block, if the queue waits at all of them.    *)
LEMMA ReadersHeldBack ==
  ASSUME ReadersAwaited, IInv, SyncInv, UploadInv
  PROVE  UploadBeforeUse
<1> SUFFICES ASSUME Discrete, NEW c \in Cmds, dev.at[c][2] > 0, NEW stage \in cmd[c].reads,
                    ~Uploaded(c)
             PROVE  HeldBack(c, stage)
  BY DEF UploadBeforeUse
<1> DEFINE t == cmd[c].type
           copy == dev.copyAt[c]
           last == dev.at[c][2]
           reads == AwaitedReads(c)
<1>1. /\ dev \in DevType /\ completed \in [Types -> Nat] /\ t \in Types /\ cmd[c] \in CmdType
      /\ BlockStates /\ BlockRecycleSafe /\ CopiesOrdered(dev)
  BY DEF IInv, TypeOK, CmdType, UploadInv
<1>2. last \in Nat /\ last # 0 /\ copy \in Batches /\ dev.queue[t] \in Seq(SUBSET Waits)
  BY <1>1, DevFields, SyncFields
<1>3. cmd[c].block = "given"
  <2>1. cmd[c].block \in {"none", "vbo", "ubo", "given", "recycled"} BY <1>1 DEF CmdType
  <2>2. cmd[c].status # "recording" BY <1>2 DEF SyncInv
  <2>3. cmd[c].block # "none" /\ cmd[c].block \notin {"vbo", "ubo"} BY <1>1, <2>2 DEF BlockStates
  <2>4. cmd[c].block # "recycled" BY <1>1 DEF BlockRecycleSafe
  <2> QED BY <2>1, <2>3, <2>4
<1>4. copy[2] > 0
  <2>1. c \notin dev.vbo \cup dev.ubo BY <1>2 DEF UploadInv, BlocksPending
  <2> QED BY <1>1, <1>3, <2>1 DEF BlockStates
<1>5. ~Done(copy) BY <1>4 DEF Uploaded
<1>6. Behind(dev, t, last, copy, reads)
  <2>1. CopyPrecedes(dev, c) BY <1>1, <1>4 DEF CopiesOrdered
  <2> QED BY <1>2, <1>5, <2>1 DEF CopyPrecedes
<1>7. stage \in reads BY <1>1 DEF BlockStates
<1> HIDE DEF copy, last, reads
<1>8. PICK n \in 1 .. Len(dev.queue[t]) :
        /\ completed[t] + n <= last
        /\ \E w \in dev.queue[t][n] : w[1] = copy[1] /\ copy[2] <= w[2] /\ reads \subseteq w[3]
  BY <1>6 DEF Behind
<1>9. PICK w \in dev.queue[t][n] : w[1] = copy[1] /\ copy[2] <= w[2] /\ reads \subseteq w[3]
  BY <1>8
<1>10. ~Done(w)
  <2>1. w \in Waits BY <1>2
  <2>2. /\ w[1] \in Types /\ w[2] \in Nat /\ copy[2] \in Nat /\ completed[w[1]] \in Nat
    BY <1>1, <1>2, <2>1 DEF Waits, Batches
  <2> QED BY <1>5, <1>9, <2>2 DEF Done
<1>11. stage \in w[3] BY <1>7, <1>9
<1> QED BY <1>8, <1>10, <1>11 DEF HeldBack, last

-----------------------------------------------------------------------------
(* PerFrame::Begin for the frames of S: the blocks that come back are of   *)
(* commands it resets, which have executed, and so have their copies.      *)
LEMMA BegunUploads ==
  ASSUME IInv, SyncInv, UploadInv, IInv', NEW S \in SUBSET Slots, dev.lock # "free", BeginCmds(S),
         completed' = completed, dev'.timeline = dev.timeline, dev'.queue = dev.queue,
         dev'.needFence = dev.needFence, dev'.at = dev.at, dev'.copyAt = dev.copyAt,
         dev'.vbo = dev.vbo, dev'.ubo = dev.ubo, dev'.staged = dev.staged,
         \/ dev'.waits = dev.waits
         \/ \A t \in Types : dev'.waits[t] = {} /\ completed[t] = dev.timeline[t],
         \A f \in Slots : /\ dev'.blocks[f] = IF f \in S THEN {} ELSE dev.blocks[f]
                          /\ f < dev.count /\ f \notin S => f < dev'.count
  PROVE  UploadInv'
<1>1. /\ dev \in DevType /\ cmd \in [Cmds -> CmdType] /\ completed \in [Types -> Nat]
      /\ BlockStates /\ BlockRecycleSafe /\ CopiesOrdered(dev) /\ WaitsOwed(dev)
  BY DEF IInv, TypeOK, UploadInv
<1>2. Recording = {} /\ dev.vbo = {} /\ dev.ubo = {} /\ dev.staged = {} BY FrameEmptied
<1>3. \A c \in Cmds :
        /\ cmd'[c].type = cmd[c].type /\ cmd'[c].home = cmd[c].home
        /\ AwaitedReads(c)' = AwaitedReads(c) /\ cmd'[c].reads = cmd[c].reads
        /\ cmd'[c].status \in {"idle", "recording"} => cmd'[c].status = cmd[c].status
        /\ cmd'[c].status = IF Unfinished(c) /\ cmd[c].home \in S THEN "reset" ELSE cmd[c].status
        /\ cmd'[c].block = IF \E f \in S : c \in dev.blocks[f] THEN "recycled" ELSE cmd[c].block
  BY <1>1, BeginCmdsFields, BeginCmdsBlocks, ReadsKept DEF Unfinished
<1>4. ASSUME NEW c \in Cmds, NEW f \in S, c \in dev.blocks[f]
      PROVE  cmd[c].home = f /\ Unfinished(c) /\ cmd[c].block = "given"
  BY <1>1, <1>4 DEF BlockStates
<1>5. WaitsOwed(dev)' BY <1>1 DEF WaitsOwed
<1>6. BlocksPending(dev, Recording)' BY <1>2 DEF BlocksPending
<1>7. CopiesOrdered(dev)'
  <2> SUFFICES ASSUME NEW c \in Cmds
               PROVE  /\ dev.at[c][2] > 0 => dev.at[c][1] = cmd[c].type
                      /\ dev.copyAt[c][2] > 0 =>
                           /\ dev.copyAt[c][1] = "transfer"
                           /\ dev.copyAt[c][2] <= dev.timeline["transfer"]
                           /\ cmd[c].type # "transfer" /\ CopyPrecedes(dev, c)'
    BY <1>3 DEF CopiesOrdered
  <2>1. CASE dev'.waits = dev.waits
    <3>1. SameVkQueue(c)' <=> SameVkQueue(c) BY <1>3 DEF SameVkQueue
    <3>2. CopyPrecedes(dev, c) => CopyPrecedes(dev, c)'
      BY <1>3, <2>1, <3>1 DEF CopyPrecedes, Behind, Done
    <3> QED BY <1>1, <3>2 DEF CopiesOrdered
  <2>2. CASE \A t \in Types : completed[t] = dev.timeline[t]
    <3>1. dev.copyAt[c][2] > 0 => Done(dev.copyAt[c])'
      BY <1>1, <2>2 DEF CopiesOrdered, Done, Types
    <3>2. Done(dev.copyAt[c])' => CopyPrecedes(dev, c)' BY DEF CopyPrecedes
    <3> QED BY <1>1, <3>1, <3>2 DEF CopiesOrdered
  <2> QED BY <2>1, <2>2
<1>8. BlockStates'
  <2>1. ASSUME NEW c \in Cmds
        PROVE  /\ cmd'[c].status = "idle" => cmd'[c].block = "none"
               /\ cmd'[c].block = "none" => cmd'[c].reads = {}
               /\ cmd'[c].block \notin {"vbo", "ubo"}
               /\ Discrete /\ ReadersAwaited => cmd'[c].reads = AwaitedReads(c)'
               /\ cmd'[c].block = "given" /\ Discrete => dev.copyAt[c][2] > 0
               /\ dev.copyAt[c][2] > 0 => cmd'[c].block \in {"given", "recycled"}
    <3>1. cmd[c].status # "recording" BY <1>2 DEF Recording
    <3>2. /\ cmd[c].status = "idle" => cmd[c].block = "none"
          /\ cmd[c].block = "none" => cmd[c].reads = {}
          /\ cmd[c].block \notin {"vbo", "ubo"}
          /\ Discrete /\ ReadersAwaited => cmd[c].reads = AwaitedReads(c)
          /\ cmd[c].block = "given" /\ Discrete => dev.copyAt[c][2] > 0
          /\ dev.copyAt[c][2] > 0 => cmd[c].block \in {"given", "recycled"}
      BY <1>1, <1>2, <3>1 DEF BlockStates
    <3>3. CASE \E f \in S : c \in dev.blocks[f]
      <4>1. cmd'[c].block = "recycled" /\ Unfinished(c) BY <1>3, <1>4, <3>3
      <4> QED BY <1>3, <3>2, <4>1 DEF Unfinished
    <3>4. CASE ~\E f \in S : c \in dev.blocks[f]
      <4>1. cmd'[c].block = cmd[c].block BY <1>3, <3>4
      <4> QED BY <1>3, <3>2, <4>1
    <3> QED BY <3>3, <3>4
  <2>2. ASSUME NEW f \in Slots, NEW c \in dev'.blocks[f]
        PROVE  f < dev'.count /\ cmd'[c].home = f /\ Unfinished(c)' /\ cmd'[c].block = "given"
    <3>1. f \notin S /\ c \in dev.blocks[f]
      <4>1. dev'.blocks[f] = IF f \in S THEN {} ELSE dev.blocks[f] OBVIOUS
      <4> QED BY <4>1
    <3>2. c \in Cmds BY <1>1, <3>1 DEF DevType
    <3>3. f < dev.count /\ cmd[c].home = f /\ Unfinished(c) /\ cmd[c].block = "given"
      BY <1>1, <3>1 DEF BlockStates
    <3>4. ~\E g \in S : c \in dev.blocks[g] BY <1>4, <3>1, <3>2, <3>3
    <3>5. cmd'[c].block = cmd[c].block /\ cmd'[c].status = cmd[c].status /\ cmd'[c].home = cmd[c].home
      BY <1>3, <3>1, <3>2, <3>3, <3>4
    <3>6. f < dev'.count BY <3>1, <3>3
    <3> QED BY <3>3, <3>5, <3>6 DEF Unfinished
  <2> QED BY <1>2, <2>1, <2>2 DEF BlockStates
<1>9. BlockRecycleSafe'
  <2> SUFFICES ASSUME NEW c \in Cmds, cmd'[c].block = "recycled"
               PROVE  Executed(c)' /\ (Discrete => Uploaded(c)')
    BY DEF BlockRecycleSafe
  <2>1. (Executed(c)' <=> Executed(c)) /\ (Uploaded(c)' <=> Uploaded(c))
    BY DEF Executed, Uploaded, Done
  <2>2. CASE cmd[c].block = "recycled" BY <1>1, <2>1, <2>2 DEF BlockRecycleSafe
  <2>3. CASE cmd[c].block # "recycled"
    <3>1. PICK f \in S : c \in dev.blocks[f] BY <1>3, <2>3
    <3>2. cmd[c].home = f /\ Unfinished(c) /\ cmd[c].block = "given" BY <1>4, <3>1
    <3>3. cmd'[c].status = "reset" BY <1>3, <3>2
    <3>4. Executed(c)' BY <3>3 DEF IInv, CmdsCovered
    <3> QED BY <2>1, <3>2, <3>4, ExecutedUploaded
  <2> QED BY <2>2, <2>3
<1> QED BY <1>5, <1>6, <1>7, <1>8, <1>9 DEF UploadInv

LEMMA BeginUploads ==
  ASSUME IInv, SyncInv, UploadInv, IInv', BeginFrame
  PROVE  UploadInv'
<1> DEFINE i == dev.index
           b == BeginLists(dev, {i})
<1>1. /\ dev.lock = "next" /\ dev' = [b EXCEPT !.lock = "free"]
      /\ BeginCmds({i}) /\ completed' = completed
  BY DEF BeginFrame
<1>2. dev \in DevType /\ i \in Slots BY DevFields DEF IInv, TypeOK
<1>3. ListsBegun(dev, {i}, b) BY <1>2, BeginListsFields
<1> HIDE DEF b
<1>4. /\ dev'.count = b.count /\ dev'.timeline = b.timeline /\ dev'.queue = b.queue
      /\ dev'.needFence = b.needFence /\ dev'.at = b.at /\ dev'.copyAt = b.copyAt
  BY <1>1, <1>3, Zenon DEF DevType, ListsBegun
<1>5. /\ dev'.vbo = b.vbo /\ dev'.ubo = b.ubo /\ dev'.staged = b.staged
      /\ dev'.waits = b.waits /\ dev'.blocks = b.blocks
  BY <1>1, <1>3, Zenon DEF DevType, ListsBegun
<1>6. /\ dev'.count = dev.count /\ dev'.timeline = dev.timeline /\ dev'.queue = dev.queue
      /\ dev'.needFence = dev.needFence /\ dev'.at = dev.at /\ dev'.copyAt = dev.copyAt
      /\ dev'.vbo = dev.vbo /\ dev'.ubo = dev.ubo /\ dev'.staged = dev.staged
      /\ dev'.waits = dev.waits
      /\ \A f \in Slots : dev'.blocks[f] = IF f \in {i} THEN {} ELSE dev.blocks[f]
  BY <1>3, <1>4, <1>5 DEF ListsBegun
<1>7. {i} \in SUBSET Slots /\ dev.lock # "free" BY <1>1, <1>2
<1> QED BY <1>1, <1>6, <1>7, BegunUploads

LEMMA WaitIdleDoneUploads ==
  ASSUME IInv, SyncInv, UploadInv, IInv', WaitIdleDone
  PROVE  UploadInv'
<1> DEFINE S == 0 .. dev.count - 1
           e == ClearWaitSemaphores(dev)
           b == BeginLists(e, S)
<1>1. dev \in DevType BY DEF IInv, TypeOK
<1>2. /\ dev.lock = "idle" /\ \A t \in Types : completed[t] = dev.timeline[t]
      /\ BeginCmds(S) /\ completed' = completed /\ dev' = [b EXCEPT !.lock = "free"]
  BY DEF WaitIdleDone, IdleReached
<1>3. WaitsCleared(dev, e) BY <1>1, ClearWaitSemaphoresFields
<1> HIDE DEF e
<1>4. ListsBegun(e, S, b) BY <1>3, BeginListsFields DEF WaitsCleared
<1> HIDE DEF b
<1>5. /\ dev'.count = b.count /\ dev'.timeline = b.timeline /\ dev'.queue = b.queue
      /\ dev'.needFence = b.needFence /\ dev'.at = b.at /\ dev'.copyAt = b.copyAt
  BY <1>2, <1>4, Zenon DEF DevType, ListsBegun
<1>6. /\ dev'.vbo = b.vbo /\ dev'.ubo = b.ubo /\ dev'.staged = b.staged
      /\ dev'.waits = b.waits /\ dev'.blocks = b.blocks
  BY <1>2, <1>4, Zenon DEF DevType, ListsBegun
<1>7. /\ dev'.count = dev.count /\ dev'.timeline = dev.timeline /\ dev'.queue = dev.queue
      /\ dev'.needFence = dev.needFence /\ dev'.at = dev.at /\ dev'.copyAt = dev.copyAt
      /\ dev'.vbo = dev.vbo /\ dev'.ubo = dev.ubo /\ dev'.staged = dev.staged
      /\ \A t \in Types : dev'.waits[t] = {}
      /\ \A f \in Slots : dev'.blocks[f] = IF f \in S THEN {} ELSE dev.blocks[f]
  BY <1>3, <1>4, <1>5, <1>6 DEF WaitsCleared, ListsBegun
<1>8. S \in SUBSET Slots /\ dev.lock # "free"
  BY <1>1, <1>2, DevFields, FramesAssumption DEF Slots
<1> HIDE DEF S
<1> QED BY <1>2, <1>7, <1>8, BegunUploads

(* No frame that does not exist has a list of blocks, so the begin of those *)
(* that do, for WaitIdle, empties all.                                     *)
LEMMA InitFrameContextsUploads ==
  ASSUME IInv, SyncInv, UploadInv, IInv', NEW n \in FrameCounts, InitFrameContexts(n)
  PROVE  UploadInv'
<1> DEFINE S == 0 .. dev.count - 1
           e == ClearWaitSemaphores(dev)
           b == BeginLists(e, Slots)
           fe == [f \in Slots |-> [t \in Types |-> 0]]
<1>1. dev \in DevType BY DEF IInv, TypeOK
<1>2. /\ dev.lock = "init" /\ \A t \in Types : completed[t] = dev.timeline[t]
      /\ BeginCmds(S) /\ completed' = completed
      /\ dev' = [b EXCEPT !.lock = "free", !.count = n, !.fence = fe]
  BY DEF InitFrameContexts, IdleReached
<1>3. WaitsCleared(dev, e) BY <1>1, ClearWaitSemaphoresFields
<1> HIDE DEF e
<1>4. ListsBegun(e, Slots, b) BY <1>3, BeginListsFields DEF WaitsCleared
<1> HIDE DEF b, fe
<1>5. /\ dev'.timeline = b.timeline /\ dev'.queue = b.queue
      /\ dev'.needFence = b.needFence /\ dev'.at = b.at /\ dev'.copyAt = b.copyAt
  BY <1>2, <1>4, Zenon DEF DevType, ListsBegun
<1>6. /\ dev'.vbo = b.vbo /\ dev'.ubo = b.ubo /\ dev'.staged = b.staged
      /\ dev'.waits = b.waits /\ dev'.blocks = b.blocks
  BY <1>2, <1>4, Zenon DEF DevType, ListsBegun
<1>7. /\ dev'.timeline = dev.timeline /\ dev'.queue = dev.queue
      /\ dev'.needFence = dev.needFence /\ dev'.at = dev.at /\ dev'.copyAt = dev.copyAt
      /\ dev'.vbo = dev.vbo /\ dev'.ubo = dev.ubo /\ dev'.staged = dev.staged
      /\ \A t \in Types : dev'.waits[t] = {}
      /\ \A f \in Slots : dev'.blocks[f] = {}
  BY <1>3, <1>4, <1>5, <1>6 DEF WaitsCleared, ListsBegun
<1>8. S \in SUBSET Slots /\ dev.lock # "free" /\ \A f \in Slots : f < dev.count => f \in S
  BY <1>1, <1>2, DevFields, FramesAssumption DEF Slots
<1>9. \A f \in Slots : f \notin S => dev.blocks[f] = {} BY <1>8 DEF UploadInv, BlockStates
<1> HIDE DEF S
<1>10. \A f \in Slots : /\ dev'.blocks[f] = IF f \in S THEN {} ELSE dev.blocks[f]
                        /\ f < dev.count /\ f \notin S => f < dev'.count
  BY <1>7, <1>8, <1>9
<1> QED BY <1>2, <1>7, <1>8, <1>10, BegunUploads

-----------------------------------------------------------------------------
(* The GPU completes the oldest batch of a queue.  If that is the batch    *)
(* that stood between a copy and its reader, the copy is complete.         *)
LEMMA CompleteUploads ==
  ASSUME IInv, SyncInv, UploadInv, NEW t \in Types, Complete(t)
  PROVE  UploadInv'
<1>1. /\ dev \in DevType /\ completed \in [Types -> Nat] /\ QueueLengths(dev)
      /\ BlockStates /\ BlockRecycleSafe /\ CopiesOrdered(dev)
  BY DEF IInv, TypeOK, SyncInv, UploadInv
<1>2. /\ cmd' = cmd /\ dev'.lock = dev.lock /\ dev'.index = dev.index /\ dev'.count = dev.count
      /\ dev'.timeline = dev.timeline /\ dev'.subs = dev.subs /\ dev'.at = dev.at
      /\ dev'.vbo = dev.vbo /\ dev'.ubo = dev.ubo /\ dev'.staged = dev.staged
      /\ dev'.needFence = dev.needFence /\ dev'.blocks = dev.blocks /\ dev'.waits = dev.waits
      /\ dev'.copyAt = dev.copyAt
  BY <1>1, CompletedFields
<1>3. /\ \A b \in dev.queue[t][1] : Done(b)
      /\ \A u \in Types :
           /\ completed'[u] = IF u = t THEN completed[u] + 1 ELSE completed[u]
           /\ Len(dev'.queue[u]) = IF u = t THEN Len(dev.queue[u]) - 1 ELSE Len(dev.queue[u])
           /\ \A n \in 1 .. Len(dev'.queue[u]) :
                dev'.queue[u][n] = IF u = t THEN dev.queue[u][n + 1] ELSE dev.queue[u][n]
  BY <1>1, CompletedFields
<1>4. \A u \in Types : completed[u] \in Nat /\ completed[u] <= completed'[u]
                       /\ completed'[u] \in Nat /\ Len(dev.queue[u]) \in Nat
  BY <1>1, <1>3, SyncFields
<1>5. \A b \in Batches : Done(b) => Done(b)' BY <1>4 DEF Done, Batches
<1>6. ASSUME NEW c \in Cmds, NEW u \in Types, NEW last,
             Behind(dev, u, last, dev.copyAt[c], AwaitedReads(c))
      PROVE  Behind(dev, u, last, dev.copyAt[c], AwaitedReads(c))' \/ Done(dev.copyAt[c])
  <2> DEFINE copy == dev.copyAt[c]
             reads == AwaitedReads(c)
  <2>1. PICK n \in 1 .. Len(dev.queue[u]) :
          /\ completed[u] + n <= last
          /\ \E w \in dev.queue[u][n] : w[1] = copy[1] /\ copy[2] <= w[2] /\ reads \subseteq w[3]
    BY <1>6 DEF Behind
  <2>2. PICK w \in dev.queue[u][n] : w[1] = copy[1] /\ copy[2] <= w[2] /\ reads \subseteq w[3]
    BY <2>1
  <2>3. copy[1] \in Types /\ copy[2] \in Nat /\ copy = dev'.copyAt[c] /\ reads = AwaitedReads(c)'
    BY <1>1, <1>2, SyncFields, ReadsKept DEF Batches
  <2> HIDE DEF copy, reads
  <2>4. CASE u # t
    <3>1. completed'[u] = completed[u] /\ Len(dev'.queue[u]) = Len(dev.queue[u]) BY <1>3, <2>4
    <3>2. n \in 1 .. Len(dev'.queue[u]) /\ completed'[u] + n <= last BY <2>1, <3>1
    <3>3. dev'.queue[u][n] = dev.queue[u][n] BY <1>3, <2>4, <3>2
    <3>4. w \in dev'.queue[u][n] BY <3>3
    <3> QED BY <2>2, <2>3, <3>2, <3>4, Zenon DEF Behind, copy, reads
  <2>5. CASE u = t /\ n = 1
    <3>1. Done(w) BY <1>3, <2>5
    <3>2. w[1] \in Types /\ w[2] \in Nat
      <4>1. dev.queue[u][n] \in SUBSET Waits BY <1>1, SyncFields
      <4> QED BY <4>1 DEF Waits
    <3>3. copy[2] <= completed[copy[1]]
      BY <1>4, <2>2, <2>3, <3>1, <3>2 DEF Done
    <3> QED BY <3>3 DEF Done, copy
  <2>6. CASE u = t /\ n # 1
    <3>1. /\ completed'[u] = completed[u] + 1 /\ Len(dev'.queue[u]) = Len(dev.queue[u]) - 1
          /\ completed[u] \in Nat /\ Len(dev.queue[u]) \in Nat
      BY <1>3, <1>4, <2>6
    <3>2. n - 1 \in 1 .. Len(dev'.queue[u]) BY <2>6, <3>1
    <3>3. completed'[u] + (n - 1) = completed[u] + n /\ (n - 1) + 1 = n BY <3>1
    <3>4. dev'.queue[u][n - 1] = dev.queue[u][n] BY <1>3, <2>6, <3>2, <3>3
    <3>5. completed'[u] + (n - 1) <= last BY <2>1, <3>3
    <3>6. w \in dev'.queue[u][n - 1] BY <3>4
    <3> QED BY <2>2, <2>3, <3>2, <3>5, <3>6, Zenon DEF Behind, copy, reads
  <2> QED BY <2>4, <2>5, <2>6
<1>7. ASSUME NEW c \in Cmds, CopyPrecedes(dev, c)
      PROVE  CopyPrecedes(dev, c)'
  <2>1. dev.copyAt[c] \in Batches /\ cmd[c].type \in Types
    BY <1>1, SyncFields DEF IInv, TypeOK, CmdType
  <2>2. CASE Done(dev.copyAt[c]) BY <1>2, <1>5, <2>1, <2>2 DEF CopyPrecedes
  <2>3. CASE /\ dev.at[c][2] = 0
             /\ \/ SameVkQueue(c)
                \/ \E w \in dev.waits[cmd[c].type] : BatchOf(w) = dev.copyAt[c] /\ AwaitedReads(c) \subseteq w[3]
    <3>1. AwaitedReads(c)' = AwaitedReads(c) BY <1>2, ReadsKept
    <3> QED BY <1>2, <2>3, <3>1 DEF CopyPrecedes, SameVkQueue
  <2> DEFINE last == IF dev.at[c][2] = 0 THEN dev.timeline[cmd[c].type] ELSE dev.at[c][2]
  <2>4. CASE Behind(dev, cmd[c].type, last, dev.copyAt[c], AwaitedReads(c))
    <3>1. last = IF dev'.at[c][2] = 0 THEN dev'.timeline[cmd'[c].type] ELSE dev'.at[c][2]
      BY <1>2
    <3> HIDE DEF last
    <3>2. PICK k : k = last OBVIOUS
    <3> PICK u \in Types : u = cmd[c].type BY <2>1
    <3>3. Behind(dev, u, k, dev.copyAt[c], AwaitedReads(c))' \/ Done(dev.copyAt[c]) BY <1>6, <2>4, <3>2
    <3>4. u = cmd'[c].type /\ k = IF dev'.at[c][2] = 0 THEN dev'.timeline[u] ELSE dev'.at[c][2]
      BY <1>2, <3>1, <3>2
    <3> QED BY <1>2, <2>2, <3>3, <3>4 DEF CopyPrecedes
  <2> QED BY <1>7, <2>2, <2>3, <2>4 DEF CopyPrecedes
<1>8. CopiesOrdered(dev)' BY <1>1, <1>2, <1>7 DEF CopiesOrdered
<1>9. WaitsOwed(dev)' BY <1>2 DEF UploadInv, WaitsOwed
<1>10. BlocksPending(dev, Recording)'
  BY <1>2 DEF UploadInv, BlocksPending, Recording, VertexReader, SameVkQueue
<1>11. BlockStates'
  <2>1. \A c \in Cmds : AwaitedReads(c)' = AwaitedReads(c) BY <1>2, ReadsKept
  <2> QED BY <1>1, <1>2, <2>1 DEF BlockStates, Unfinished, VertexReader
<1>12. BlockRecycleSafe'
  <2> SUFFICES ASSUME NEW c \in Cmds, cmd[c].block = "recycled"
               PROVE  Executed(c)' /\ (Discrete => Uploaded(c)')
    BY <1>2 DEF BlockRecycleSafe
  <2>1. Executed(c) /\ (Discrete => Uploaded(c)) BY <1>1 DEF BlockRecycleSafe
  <2>2. dev.at[c] \in Batches /\ dev.copyAt[c] \in Batches BY <1>1, SyncFields
  <2>3. Done(dev.at[c]) => Done(dev.at[c])' BY <1>2, <1>5, <2>2 DEF Done
  <2>4. Done(dev.copyAt[c]) => Done(dev.copyAt[c])' BY <1>2, <1>5, <2>2 DEF Done
  <2> QED BY <1>2, <2>1, <2>3, <2>4 DEF Executed, Uploaded
<1> QED BY <1>8, <1>9, <1>10, <1>11, <1>12 DEF UploadInv

-----------------------------------------------------------------------------
(* A new device has no blocks and no copies.                               *)
LEMMA InitiallyUploaded == Init => UploadInv
<1> SUFFICES ASSUME Init PROVE UploadInv OBVIOUS
<1> USE FramesAssumption
<1>1. /\ dev.waits = [t \in Types |-> {}] /\ dev.blocks = [f \in Slots |-> {}]
      /\ dev.vbo = {} /\ dev.ubo = {} /\ dev.staged = {}
  BY DEF Init
<1>2. dev.at = [c \in Cmds |-> NoBatch] /\ dev.copyAt = [c \in Cmds |-> NoBatch] BY DEF Init
<1>3. \A c \in Cmds : dev.at[c][2] = 0 /\ dev.copyAt[c][2] = 0 BY <1>2 DEF NoBatch
<1>4. \A c \in Cmds : cmd[c].block = "none" /\ cmd[c].reads = {} /\ AwaitedReads(c) = {}
  BY DEF Init, AwaitedReads
<1>5. WaitsOwed(dev) BY <1>1 DEF WaitsOwed
<1>6. BlocksPending(dev, Recording) BY <1>1 DEF BlocksPending
<1>7. CopiesOrdered(dev) BY <1>3 DEF CopiesOrdered
<1>8. BlockStates
  <2>1. \A c \in Cmds : ~(dev.copyAt[c][2] > 0) BY <1>3
  <2>2. dev.vbo \cup dev.ubo = {} /\ \A f \in Slots : dev.blocks[f] = {} BY <1>1
  <2> QED BY <1>4, <2>1, <2>2 DEF BlockStates
<1>9. BlockRecycleSafe BY <1>4 DEF BlockRecycleSafe
<1> QED BY <1>5, <1>6, <1>7, <1>8, <1>9 DEF UploadInv

(* Every step keeps the three invariants.                                  *)
LEMMA UploadStep ==
  ASSUME BlockReaders, VertexCopiesAwaited, IInv, SyncInv, UploadInv, [Next]_vars
  PROVE  IInv' /\ SyncInv' /\ UploadInv'
<1>1. IInv' /\ SyncInv' BY SyncNextStep
<1> SUFFICES UploadInv' BY <1>1
<1>2. dev' \in DevType BY <1>1 DEF IInv, TypeOK
<1>3. CASE AnyThread
  <2>1. CASE \E c \in Cmds : Record(c) \/ RequestBlock(c) \/ Finish(c)
    BY <1>2, <2>1, RecordUploads, RequestBlockUploads, FinishUploads DEF Finish
  <2>2. CASE \E t \in Types, demand \in Demands \cup {"none"} : SubmitEmpty(t, demand)
    BY <2>2, SubmitEmptyUploads
  <2>3. CASE \E t \in Types, s \in app.semaphores, stages \in WaitStages, flush \in BOOLEAN :
               AddWaitSemaphore(t, s, stages, flush)
    BY <2>3, AddWaitSemaphoreUploads
  <2>4. CASE FlushFrame BY <2>4, FlushFrameUploads
  <2>5. CASE \E o \in Objects : Destroy(o) BY <2>5, DestroyUploads
  <2>6. CASE (\E s \in app.semaphores : DropSemaphore(s)) \/ (\E f \in app.fences : DropFence(f))
    BY <2>6, DropUploads
  <2> QED BY <1>3, <2>1, <2>2, <2>3, <2>4, <2>5, <2>6 DEF AnyThread
<1>4. CASE FramePushing
  <2>1. CASE BeginFrame BY <1>1, <2>1, BeginUploads
  <2>2. CASE WaitIdleDone BY <1>1, <2>2, WaitIdleDoneUploads
  <2>3. CASE \E n \in FrameCounts : InitFrameContexts(n) BY <1>1, <2>3, InitFrameContextsUploads
  <2> QED BY <1>1, <1>4, <2>1, <2>2, <2>3, EndFrameUploads DEF FramePushing
<1>5. CASE \E t \in Types : Complete(t) BY <1>5, CompleteUploads
<1>6. CASE UNCHANGED vars BY <1>6, QuietUploads DEF vars
<1> QED BY <1>1, <1>3, <1>4, <1>5, <1>6 DEF Next

-----------------------------------------------------------------------------
(* If only draws and dispatches read blocks, and those that dispatch with  *)
(* vertex data share the VkQueue of the copies, the life of every block is *)
(* as UploadInv says, in both modes.                                       *)
THEOREM UploadInvariant ==
  ASSUME BlockReaders, VertexCopiesAwaited
  PROVE  Spec => [](IInv /\ SyncInv /\ UploadInv)
<1>1. Init => IInv /\ SyncInv /\ UploadInv BY Initially, InitiallySound, InitiallyUploaded
<1>2. IInv /\ SyncInv /\ UploadInv /\ [Next]_vars => (IInv /\ SyncInv /\ UploadInv)' BY UploadStep
<1> QED BY <1>1, <1>2, PTL DEF Spec

(* SubmitStaging (device_submission.cpp:483) makes the right queues wait   *)
(* at the right stages: unless async graphics work reads blocks on another *)
(* queue than graphics, no stage that reads a vertex or uniform block may  *)
(* begin before the copy that fills it, whichever VkQueues the device has. *)
THEOREM CopiesPrecedeReaders ==
  ASSUME BlockReaders, VertexCopiesAwaited, ReadersAwaited
  PROVE  Spec => []UploadBeforeUse
<1>1. IInv /\ SyncInv /\ UploadInv => UploadBeforeUse BY ReadersHeldBack
<1> QED BY <1>1, UploadInvariant, PTL

(* PerFrame::Begin (device_frame_contexts.cpp:405) recycles a block only   *)
(* when both its readers and its copy are complete, though it waits for    *)
(* neither of them by name.                                                *)
THEOREM BlocksComeBackIdle ==
  ASSUME BlockReaders, VertexCopiesAwaited
  PROVE  Spec => []BlockRecycleSafe
BY UploadInvariant, UploadInvSafe, PTL

(* EndFrameNolock (device_frame_contexts.cpp:96) ends the queues in an     *)
(* order that leaves no submission, no copy and no owed wait behind.       *)
THEOREM FramesLeaveNothing ==
  ASSUME BlockReaders, VertexCopiesAwaited
  PROVE  Spec => []NothingLeftBehind
BY UploadInvariant, UploadInvSafe, PTL
=============================================================================
