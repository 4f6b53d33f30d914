-------------------------- MODULE DeviceSubmission --------------------------
(***************************************************************************)
(* The core of Vulkan::Device: the ring of frame contexts, the three queue *)
(* types with their pending submissions and wait semaphores, the staging   *)
(* (DMA) copies that are slipped in before the work that needs them, and   *)
(* the deferred deletion that rides on all of it.                          *)
(*                                                                         *)
(* Every action below is one public call of Device, executed while         *)
(* DeviceLock::lock is held, so it is atomic; NextFrameContext, WaitIdle   *)
(* and InitFrameContexts are two steps because they block on the GPU, with *)
(* the lock held, in between.  The GPU is the environment: it completes    *)
(* the batches of a queue in order, each once what it waits on has         *)
(* completed.  Completing in order is the latest a driver may signal.      *)
(* The commands of a batch may begin earlier: a semaphore holds back only  *)
(* the pipeline stages it is waited for at, see HeldBack.                  *)
(*                                                                         *)
(* A batch (one vkQueueSubmit) is named by its queue type and the value    *)
(* QueueData::current_timeline got for it: <<type, value>>.  A semaphore,  *)
(* a fence and a timeline value are all known by the batch that signals    *)
(* them.  Commands that touch the swapchain belong to another module.      *)
(***************************************************************************)
EXTENDS Naturals, Sequences, FiniteSets

CONSTANTS
  Cmds,         (* command buffers the application may request, each once    *)
  Objects,      (* destroyable objects: buffers, images, views, ...          *)
  Work,         (* what each may record: <<queue type, objects, block>>      *)
  Demands,      (* what submissions may ask for: "fence", "semaphore"        *)
  WaitStages,   (* the sets of stages at which the application makes a queue *)
                (* wait for a semaphore                                      *)
  MaxFrames,    (* no more frame contexts than this are ever created         *)
  FrameCounts,  (* the counts the application passes to InitFrameContexts    *)
  Timeline,     (* TRUE iff the driver has timeline semaphores               *)
  VkQueueOf,    (* the VkQueue behind each queue type                        *)
  FamilyOf,     (* ... and its queue family                                  *)
  Discrete,     (* TRUE iff buffer blocks need a CPU to GPU copy             *)
  MaxEmpty      (* bound: no SubmitEmpty on a queue with more batches        *)

Types == {"graphics", "compute", "transfer"}
Slots == 0 .. MaxFrames - 1
Batches == Types \X Nat

(* The pipeline stages that blocks tell apart: vertex and index input, the *)
(* vertex and fragment shaders, compute shaders, and all the others.       *)
Stages == {"vertexInput", "graphicsShader", "compute", "other"}

(* An entry of wait_semaphores with its entry of wait_stages.              *)
Waits == Types \X Nat \X SUBSET Stages
BatchOf(wait) == <<wait[1], wait[2]>>

RequestTypes == Types \cup {"asyncGraphics"}

ASSUME CmdsAssumption == IsFiniteSet(Cmds)
ASSUME WorkAssumption ==
  /\ Work \in [Cmds -> SUBSET (RequestTypes \X (SUBSET Objects) \X {"none", "vbo", "ubo"})]
  /\ Demands \subseteq {"fence", "semaphore"}
ASSUME WaitsAssumption == WaitStages \subseteq SUBSET Stages \ {{}}
ASSUME FramesAssumption ==
  MaxFrames \in Nat \ {0} /\ FrameCounts \subseteq 1 .. MaxFrames /\ FrameCounts # {}
ASSUME ModeAssumption == Timeline \in BOOLEAN /\ Discrete \in BOOLEAN
ASSUME QueueAssumption == DOMAIN VkQueueOf = Types /\ DOMAIN FamilyOf = Types

VARIABLES
  dev,        (* the fields of Device that DeviceLock::lock guards           *)
  cmd,        (* the command buffers                                         *)
  obj,        (* Objects: "live", "dead" (in a PerFrame list) or "freed"     *)
  app,        (* semaphores and fences the application holds                 *)
  completed   (* per queue type, the value the GPU has reached               *)

vars == <<dev, cmd, obj, app, completed>>

(* The GPU has completed the batch b, or what the wait b is for.           *)
Done(b) == b[2] <= completed[b[1]]
Recording == {c \in Cmds : cmd[c].status = "recording"}

(* Device::GetPhysicalQueueType: only AsyncGraphics is corrected.          *)
PhysicalType(t) ==
  IF t # "asyncGraphics" THEN t
  ELSE IF FamilyOf["graphics"] = FamilyOf["compute"] /\ VkQueueOf["graphics"] # VkQueueOf["compute"]
       THEN "compute" ELSE "graphics"

(* BufferUsageToPossibleStages, for a buffer of these kinds of blocks.     *)
PossibleStages(usage) ==
  (IF "vbo" \in usage THEN {"vertexInput"} ELSE {})
    \cup (IF "ubo" \in usage THEN {"graphicsShader", "compute"} ELSE {})

(* The stages that commands of each type have.                             *)
ComputeStages == {"compute", "other"}
CommandStages(request) ==
  CASE request = "compute" -> ComputeStages
    [] request = "transfer" -> {"other"}
    [] OTHER -> Stages

-----------------------------------------------------------------------------
(* What the queues are made to wait for, and at which stages.              *)

(* compute_stages is masked in SubmitStaging, graphics_stages is not.      *)
VisibleStages(t, usage) ==
  IF t = "compute" THEN PossibleStages(usage) \cap ComputeStages ELSE PossibleStages(usage)

(* Mutant: graphics_stages is masked, and compute_stages is not.           *)
BugStagingWaits(usage) ==
  [t \in Types |->
     IF VkQueueOf[t] = VkQueueOf["transfer"] THEN {}
     ELSE IF t = "graphics" THEN PossibleStages(usage) \cap ComputeStages ELSE PossibleStages(usage)]
(* Mutant: compute shaders are missing in the mask of compute_stages.      *)
BugStagingCompute(usage) ==
  [t \in Types |->
     IF VkQueueOf[t] = VkQueueOf["transfer"] THEN {}
     ELSE VisibleStages(t, usage) \ (IF t = "compute" THEN {"compute"} ELSE {})]
(* The stages at which SubmitStaging makes the other queues wait for a     *)
(* copy, none where it does not.                                           *)
StagingWaits(usage) ==
  [t \in Types |-> IF VkQueueOf[t] = VkQueueOf["transfer"] THEN {} ELSE VisibleStages(t, usage)]

(* The barrier that SubmitStaging ends a copy with holds back what follows *)
(* on its VkQueue, on a compute queue at the stages of compute_stages.     *)
(* Stages outside the usage are kept: no reader of the block has them.     *)
BarrierStages ==
  IF VkQueueOf["transfer"] = VkQueueOf["graphics"] THEN Stages
  ELSE IF VkQueueOf["transfer"] = VkQueueOf["compute"] THEN ComputeStages ELSE {}

(* Batches of queue types that share a VkQueue keep their order.  Of these *)
(* only the copies hold anything back until they are complete.             *)
QueueOrder(d, t) ==
  {<<u, d.timeline[u], IF u = "transfer" THEN BarrierStages ELSE {}>> :
     u \in {u \in Types \ {t} : VkQueueOf[u] = VkQueueOf[t]}}

(* Mutant: a queue with wait semaphores is not marked as needing a fence.  *)
BugAddWaits(d, stages, s) ==
  [d EXCEPT !.waits = [t \in Types |-> IF stages[t] = {} THEN @[t]
                                       ELSE @[t] \cup {<<s[1], s[2], stages[t]>>}]]
(* AddWaitSemaphoreNolock without a flush, for each queue type that is to  *)
(* wait for s at some stages.                                              *)
AddWaits(d, stages, s) ==
  [d EXCEPT !.waits = [t \in Types |-> IF stages[t] = {} THEN @[t]
                                       ELSE @[t] \cup {<<s[1], s[2], stages[t]>>}],
            !.needFence = [t \in Types |-> @[t] \/ stages[t] # {}]]

-----------------------------------------------------------------------------
(* Submission to one queue.                                                *)

Pending(d, t) == d.subs[d.index][t] # {} \/ (t = "transfer" /\ d.staged # {})

(* Mutant: the timeline value is not recorded in the frame.                *)
BugCoverFence(d, t) == [d EXCEPT !.needFence[t] = @ \/ ~Timeline]
(* Mutant: no fence is asked for without timeline semaphores.              *)
BugCoverNeed(d, t) == [d EXCEPT !.fence[d.index][t] = d.timeline[t]]
(* The frame will have to wait for the latest batch of t: by its timeline  *)
(* value, or else by a fence that is still to be asked for.                *)
CoverFrame(d, t) ==
  [d EXCEPT !.fence[d.index][t] = d.timeline[t],
            !.needFence[t] = @ \/ ~Timeline]

(* The vkQueueSubmit half of SubmitQueue and SubmitEmptyInner: everything  *)
(* pending on t becomes one batch that consumes t's wait semaphores.       *)
Enqueue(d, t) ==
  LET batch == <<t, d.timeline[t] + 1>>
      sent == [d EXCEPT
        !.timeline[t] = @ + 1,
        !.queue[t] = Append(@, d.waits[t] \cup QueueOrder(d, t)),
        !.waits[t] = {},
        !.recycle[d.index] = IF Timeline \/ d.waits[t] = {} THEN @ ELSE @ \cup {batch},
        !.subs[d.index][t] = {},
        !.staged = IF t = "transfer" THEN {} ELSE @,
        !.at = [c \in Cmds |-> IF c \in d.subs[d.index][t] THEN batch ELSE @[c]],
        !.copyAt = [c \in Cmds |-> IF t = "transfer" /\ c \in d.staged THEN batch ELSE @[c]]]
  IN CoverFrame(sent, t)

(* SubmitQueue once transfers are flushed; demand says that the caller     *)
(* wants a fence or semaphores, so that an empty batch is submitted too.   *)
SubmitPending(d, t, demand) == IF Pending(d, t) \/ demand THEN Enqueue(d, t) ELSE d

(* The usage that SyncBufferBlocks gathers from the blocks to be copied.   *)
Usage(d) == (IF d.vbo # {} THEN {"vbo"} ELSE {}) \cup (IF d.ubo # {} THEN {"ubo"} ELSE {})

(* SyncBufferBlocks and the SubmitStaging it ends in (flush = false).      *)
SyncBufferBlocks(d) ==
  LET blocks == d.vbo \cup d.ubo
      stages == StagingWaits(Usage(d))
      copied == [d EXCEPT !.staged = @ \cup blocks, !.vbo = {}, !.ubo = {}]
      sent == IF \A t \in Types : stages[t] = {} THEN copied ELSE Enqueue(copied, "transfer")
  IN IF blocks = {} THEN d ELSE AddWaits(sent, stages, <<"transfer", sent.timeline["transfer"]>>)

FlushTransfer(d) == SubmitPending(SyncBufferBlocks(d), "transfer", FALSE)

(* Mutant: transfers are not flushed before other queues.                  *)
BugSubmitQueue(d, t, demand) == SubmitPending(d, t, demand)
SubmitQueue(d, t, demand) ==
  SubmitPending(IF t = "transfer" THEN d ELSE FlushTransfer(d), t, demand)

FlushType(d, t) == IF t = "transfer" THEN FlushTransfer(d) ELSE SubmitQueue(d, t, FALSE)

FlushAll(d) == FlushType(FlushType(FlushTransfer(d), "graphics"), "compute")

(* Mutant: EndFrame only looks at need_fence, not at submissions.          *)
BugEndQueueSubmissions(d, t) ==
  IF d.needFence[t] THEN [SubmitQueue(d, t, TRUE) EXCEPT !.needFence[t] = FALSE] ELSE d
(* EndFrameNolock, one queue type at a time: a fence that covers all of    *)
(* the type's submissions in the frame, if there is anything to cover.     *)
FrameFence(d, t) ==
  [d EXCEPT !.needFence[t] = FALSE,
            !.waitFences[d.index] = IF Timeline THEN @ ELSE @ \cup {<<t, d.timeline[t]>>},
            !.recycle[d.index] = IF Timeline THEN @ ELSE @ \cup {<<t, d.timeline[t]>>}]
(* Mutant: the fence is not added to wait_and_recycle_fences.              *)
BugEndQueueWaitFences(d, t) ==
  LET fenced == FrameFence(SubmitQueue(d, t, TRUE), t)
  IN IF d.needFence[t] \/ Pending(d, t) THEN [fenced EXCEPT !.waitFences = d.waitFences] ELSE d
EndQueue(d, t) ==
  IF d.needFence[t] \/ Pending(d, t) THEN FrameFence(SubmitQueue(d, t, TRUE), t) ELSE d

(* Mutant: EndFrame forgets the transfer queue.                            *)
BugEndFrame(d) == EndQueue(EndQueue(d, "graphics"), "compute")
EndFrame(d) == EndQueue(EndQueue(EndQueue(d, "transfer"), "graphics"), "compute")

-----------------------------------------------------------------------------
(* Calls that may come from any thread at any time.                        *)

Unlocked == dev.lock = "free" /\ dev.index < dev.count

(* reads: the stages at which the commands that c will hold read block.    *)
RequestCommandBuffer(c, t, uses, block, reads) ==
  /\ Unlocked
  /\ cmd[c].status = "idle"
  /\ \A o \in uses : obj[o] = "live"
  /\ cmd' = [cmd EXCEPT ![c] = [status |-> "recording", type |-> t, home |-> dev.index,
                                uses |-> uses, block |-> block, reads |-> reads]]
  /\ dev' = [dev EXCEPT !.counter = @ + 1]
  /\ UNCHANGED <<obj, app, completed>>

(* RequestBlock: the block c holds has been written and is given up.       *)
GiveUpBlock(d, c) ==
  LET kind == cmd[c].block
  IN [d EXCEPT !.vbo = IF Discrete /\ kind = "vbo" THEN @ \cup {c} ELSE @,
               !.ubo = IF Discrete /\ kind = "ubo" THEN @ \cup {c} ELSE @,
               !.blocks[d.index] = IF kind \in {"vbo", "ubo"} THEN @ \cup {c} ELSE @]

BlockGiven(kind) == IF kind \in {"vbo", "ubo"} THEN "given" ELSE kind

(* While recording, a block that is full is given up for a new one.        *)
RequestBlock(c) ==
  /\ Unlocked
  /\ cmd[c].status = "recording" /\ cmd[c].block \in {"vbo", "ubo"}
  /\ dev' = GiveUpBlock(dev, c)
  /\ cmd' = [cmd EXCEPT ![c].block = "given"]
  /\ UNCHANGED <<obj, app, completed>>

(* The handles a submission returns: demand is "none", "fence" or          *)
(* "semaphore", b the batch that signals it.                               *)
Handles(demand, b) ==
  app' = [app EXCEPT !.semaphores = IF demand = "semaphore" THEN @ \cup {b} ELSE @,
                     !.fences = IF demand = "fence" /\ ~Timeline THEN @ \cup {b} ELSE @]

Submit(c, demand) ==
  /\ Unlocked
  /\ cmd[c].status = "recording"
  /\ LET t == cmd[c].type
         ended == [GiveUpBlock(dev, c) EXCEPT !.subs[dev.index][t] = @ \cup {c}]
         sent == IF demand = "none" THEN ended ELSE SubmitQueue(ended, t, TRUE)
     IN /\ dev' = [sent EXCEPT !.counter = @ - 1]
        /\ Handles(demand, <<t, sent.timeline[t]>>)
  /\ cmd' = [cmd EXCEPT ![c].status = "submitted", ![c].block = BlockGiven(@)]
  /\ UNCHANGED <<obj, completed>>

SubmitEmpty(t, demand) ==
  /\ Unlocked
  /\ dev.timeline[t] < MaxEmpty
  /\ LET flushed == IF t = "transfer" THEN dev ELSE FlushTransfer(dev)
         sent == SubmitQueue(flushed, t, demand # "none")
     IN dev' = sent /\ Handles(demand, <<t, sent.timeline[t]>>)
  /\ UNCHANGED <<cmd, obj, completed>>

AddWaitSemaphore(t, s, stages, flush) ==
  /\ Unlocked
  /\ s \in app.semaphores
  /\ LET d == IF flush THEN FlushType(dev, t) ELSE dev
     IN dev' = AddWaits(d, [u \in Types |-> IF u = t THEN stages ELSE {}], s)
  /\ app' = [app EXCEPT !.semaphores = @ \ {s}]
  /\ UNCHANGED <<cmd, obj, completed>>

FlushFrame ==
  /\ Unlocked
  /\ dev' = FlushAll(dev)
  /\ UNCHANGED <<cmd, obj, app, completed>>

(* The last reference to an object goes away: Destroy{Buffer,Image,...}.   *)
Destroy(o) ==
  /\ Unlocked
  /\ obj[o] = "live"
  /\ obj' = [obj EXCEPT ![o] = "dead"]
  /\ dev' = [dev EXCEPT !.destroyed[dev.index] = @ \cup {o}]
  /\ UNCHANGED <<cmd, app, completed>>

(* A semaphore handle is dropped before anything waits for it.  Only a     *)
(* binary semaphore is owned by its handle.                                *)
DropSemaphore(s) ==
  /\ Unlocked
  /\ s \in app.semaphores
  /\ app' = [app EXCEPT !.semaphores = @ \ {s}]
  /\ dev' = [dev EXCEPT !.recycle[dev.index] = IF Timeline THEN @ ELSE @ \cup {s}]
  /\ UNCHANGED <<cmd, obj, completed>>

(* A VkFence handle is dropped without having been waited for.             *)
DropFence(f) ==
  /\ Unlocked
  /\ f \in app.fences
  /\ app' = [app EXCEPT !.fences = @ \ {f}]
  /\ dev' = [dev EXCEPT !.recycle[dev.index] = @ \cup {f}]
  /\ UNCHANGED <<cmd, obj, completed>>

-----------------------------------------------------------------------------
(* Frame pushing.  DRAIN_FRAME_LOCK waits until no command buffer is being *)
(* recorded.                                                               *)

Drained == Unlocked /\ dev.counter = 0

(* Mutant: Begin does not wait for the compute queue.                      *)
BugFinishedCompute(f) ==
  \A t \in Types \ {"compute"} : dev.fence[f][t] <= completed[t]
(* What PerFrame::Begin blocks on.                                         *)
FrameFinished(f) ==
  IF Timeline THEN \A t \in Types : dev.fence[f][t] <= completed[t]
  ELSE \A b \in dev.waitFences[f] : Done(b)

(* PerFrame::Begin for every frame of S, after its wait.                   *)
BeginCmds(S) ==
  cmd' = [c \in Cmds |->
            [cmd[c] EXCEPT
               !.status = IF @ \in {"recording", "submitted"} /\ cmd[c].home \in S THEN "reset" ELSE @,
               !.block = IF \E f \in S : c \in dev.blocks[f] THEN "recycled" ELSE @]]

(* Mutant: Begin frees what any frame was told to destroy.                 *)
BugBeginObjects(S) ==
  obj' = [o \in Objects |-> IF obj[o] = "dead" THEN "freed" ELSE obj[o]]
BeginObjects(S) ==
  obj' = [o \in Objects |-> IF \E f \in S : o \in dev.destroyed[f] THEN "freed" ELSE obj[o]]

(* Mutant: Begin recycles the sync objects of every frame.                 *)
BugBeginLists(d, S) == [d EXCEPT !.recycle = [f \in Slots |-> {}]]
BeginLists(d, S) ==
  LET cleared(list) == [f \in Slots |-> IF f \in S THEN {} ELSE list[f]]
  IN [d EXCEPT !.waitFences = cleared(@), !.recycle = cleared(@),
               !.destroyed = cleared(@), !.blocks = cleared(@)]

(* Mutant: the ring does not wrap.                                         *)
BugNextIndexStays(d) == IF d.index + 1 >= d.count THEN d.index ELSE d.index + 1
NextIndex(d) == IF d.index + 1 >= d.count THEN 0 ELSE d.index + 1

EndFrameContext ==
  /\ Drained
  /\ dev' = EndFrame(dev)
  /\ UNCHANGED <<cmd, obj, app, completed>>

(* Mutant: the frame is not ended before the next begins.                  *)
BugNextFrameContext ==
  /\ Drained
  /\ dev' = [dev EXCEPT !.index = NextIndex(dev), !.lock = "next"]
  /\ UNCHANGED <<cmd, obj, app, completed>>
NextFrameContext ==
  /\ Drained
  /\ dev' = [EndFrame(dev) EXCEPT !.index = NextIndex(dev), !.lock = "next"]
  /\ UNCHANGED <<cmd, obj, app, completed>>

BeginFrame ==
  /\ dev.lock = "next"
  /\ FrameFinished(dev.index)
  /\ dev' = [BeginLists(dev, {dev.index}) EXCEPT !.lock = "free"]
  /\ BeginCmds({dev.index})
  /\ BeginObjects({dev.index})
  /\ UNCHANGED <<app, completed>>

WaitIdle(op) ==
  /\ Drained
  /\ dev' = [EndFrame(dev) EXCEPT !.lock = op]
  /\ UNCHANGED <<cmd, obj, app, completed>>

(* ClearWaitSemaphores destroys whatever each waiting handle consumes: a   *)
(* binary semaphore of its own, or the timeline semaphore of a queue.      *)
ClearWaitSemaphores(d) ==
  [d EXCEPT !.waits = [t \in Types |-> {}],
            !.lostTimelines = IF ~Timeline THEN @
                              ELSE @ \cup {s[1] : s \in UNION {d.waits[t] : t \in Types}}]

(* vkDeviceWaitIdle returns: every frame begins anew without its fences.   *)
IdleReached(op) ==
  /\ dev.lock = op
  /\ \A t \in Types : completed[t] = dev.timeline[t]
  /\ BeginCmds(0 .. dev.count - 1)
  /\ BeginObjects(0 .. dev.count - 1)
  /\ UNCHANGED <<app, completed>>

WaitIdleDone ==
  /\ IdleReached("idle")
  /\ dev' = [BeginLists(ClearWaitSemaphores(dev), 0 .. dev.count - 1) EXCEPT !.lock = "free"]

(* InitFrameContexts destroys all frame contexts and creates n new ones.   *)
InitFrameContexts(n) ==
  /\ IdleReached("init")
  /\ dev' = [BeginLists(ClearWaitSemaphores(dev), Slots) EXCEPT
               !.lock = "free", !.count = n,
               !.fence = [f \in Slots |-> [t \in Types |-> 0]]]

-----------------------------------------------------------------------------
(* The GPU.                                                                *)

Complete(t) ==
  /\ dev.queue[t] # <<>>
  /\ \A b \in Head(dev.queue[t]) : Done(b)
  /\ completed' = [completed EXCEPT ![t] = @ + 1]
  /\ dev' = [dev EXCEPT !.queue[t] = Tail(@)]
  /\ UNCHANGED <<cmd, obj, app>>

-----------------------------------------------------------------------------
NoBatch == <<"graphics", 0>>

Init ==
  /\ dev \in [lock : {"free"}, counter : {0}, index : {0}, count : FrameCounts,
              timeline : {[t \in Types |-> 0]},
              queue : {[t \in Types |-> <<>>]},
              waits : {[t \in Types |-> {}]},
              needFence : {[t \in Types |-> FALSE]},
              subs : {[f \in Slots |-> [t \in Types |-> {}]]},
              fence : {[f \in Slots |-> [t \in Types |-> 0]]},
              waitFences : {[f \in Slots |-> {}]},
              recycle : {[f \in Slots |-> {}]},
              destroyed : {[f \in Slots |-> {}]},
              blocks : {[f \in Slots |-> {}]},
              vbo : {{}}, ubo : {{}}, staged : {{}}, lostTimelines : {{}},
              at : {[c \in Cmds |-> NoBatch]},
              copyAt : {[c \in Cmds |-> NoBatch]}]
  /\ cmd = [c \in Cmds |-> [status |-> "idle", type |-> "graphics", home |-> 0,
                            uses |-> {}, block |-> "none", reads |-> {}]]
  /\ obj = [o \in Objects |-> "live"]
  /\ app = [semaphores |-> {}, fences |-> {}]
  /\ completed = [t \in Types |-> 0]

Record(c) ==
  \E w \in Work[c] :
    RequestCommandBuffer(c, PhysicalType(w[1]), w[2], w[3],
                         PossibleStages({w[3]}) \cap CommandStages(w[1]))

Finish(c) == \E demand \in Demands \cup {"none"} : Submit(c, demand)

AnyThread ==
  \/ \E c \in Cmds : Record(c) \/ RequestBlock(c) \/ Finish(c)
  \/ \E t \in Types, demand \in Demands \cup {"none"} : SubmitEmpty(t, demand)
  \/ \E t \in Types, s \in app.semaphores, stages \in WaitStages, flush \in BOOLEAN :
       AddWaitSemaphore(t, s, stages, flush)
  \/ FlushFrame
  \/ \E o \in Objects : Destroy(o)
  \/ \E s \in app.semaphores : DropSemaphore(s)
  \/ \E f \in app.fences : DropFence(f)

FramePushing ==
  \/ EndFrameContext
  \/ NextFrameContext
  \/ BeginFrame
  \/ WaitIdle("idle")
  \/ WaitIdleDone
  \/ WaitIdle("init")
  \/ \E n \in FrameCounts : InitFrameContexts(n)

Next == AnyThread \/ FramePushing \/ \E t \in Types : Complete(t)

Spec == Init /\ [][Next]_vars

(* The GPU keeps working and the blocking waits return; the application    *)
(* submits what it records (doc/basics.md:92) and keeps starting frames.   *)
(* The last two conjuncts are WF_vars(Finish(c)) and                       *)
(* WF_vars(NextFrameContext) with ENABLED written out: TLC's ENABLED does  *)
(* not share the value of an operator's argument.                          *)
Fairness ==
  /\ \A t \in Types : WF_vars(Complete(t))
  /\ WF_vars(BeginFrame)
  /\ WF_vars(WaitIdleDone)
  /\ WF_vars(\E n \in FrameCounts : InitFrameContexts(n))
  /\ \A c \in Cmds : []<>~(Unlocked /\ cmd[c].status = "recording") \/ []<><<Finish(c)>>_vars
  /\ []<>~Drained \/ []<><<NextFrameContext>>_vars

FairSpec == Spec /\ Fairness

-----------------------------------------------------------------------------
(* Properties.                                                             *)

(* Every field has its type; dev has exactly the fields DevType names.     *)
DevType ==
  [lock : {"free", "next", "idle", "init"}, counter : Nat, index : Slots, count : 1 .. MaxFrames,
   timeline : [Types -> Nat], queue : [Types -> Seq(SUBSET Waits)],
   waits : [Types -> SUBSET Waits], needFence : [Types -> BOOLEAN],
   subs : [Slots -> [Types -> SUBSET Cmds]], fence : [Slots -> [Types -> Nat]],
   waitFences : [Slots -> SUBSET Batches], recycle : [Slots -> SUBSET Batches],
   destroyed : [Slots -> SUBSET Objects], blocks : [Slots -> SUBSET Cmds],
   vbo : SUBSET Cmds, ubo : SUBSET Cmds, staged : SUBSET Cmds, lostTimelines : SUBSET Types,
   at : [Cmds -> Batches], copyAt : [Cmds -> Batches]]

CmdType ==
  [status : {"idle", "recording", "submitted", "reset"}, type : Types, home : Slots,
   uses : SUBSET Objects, block : {"none", "vbo", "ubo", "given", "recycled"},
   reads : SUBSET Stages]

TypeOK ==
  /\ dev \in DevType
  /\ cmd \in [Cmds -> CmdType]
  /\ obj \in [Objects -> {"live", "dead", "freed"}]
  /\ app \in [semaphores : SUBSET Batches, fences : SUBSET Batches]
  /\ completed \in [Types -> Nat]

Executed(c) == dev.at[c][2] > 0 /\ Done(dev.at[c])
Uploaded(c) == dev.copyAt[c][2] > 0 /\ Done(dev.copyAt[c])

(* doc/basics.md:133: deallocation is deferred "until we know that any     *)
(* possible work is complete".  No object is freed by PerFrame::Begin      *)
(* while a command buffer that uses it is being recorded, waits to be      *)
(* submitted or has not been completed by the GPU.                         *)
NoUseAfterFree ==
  \A o \in Objects, c \in Cmds :
    obj[o] = "freed" /\ o \in cmd[c].uses => Executed(c)

(* The same as a refinement: seen from outside, the frame contexts, fences *)
(* and lists are an implementation of DeferredDeletion, in which an object *)
(* dies once, is never used again once dropped and is freed once.          *)
Deletion == INSTANCE DeferredDeletion WITH
  work <- [c \in Cmds |-> IF cmd[c].status = "idle" THEN "idle"
                          ELSE IF Executed(c) THEN "executed" ELSE "inFlight"],
  uses <- [c \in Cmds |-> cmd[c].uses]

ImplementsDeletion == Deletion!Spec

(* vkResetCommandPool is legal only when no command buffer of the pool is  *)
(* being recorded or pending: PerFrame::Begin resets a pool only when all  *)
(* its command buffers have been submitted and completed.                  *)
CommandPoolSafe == \A c \in Cmds : cmd[c].status = "reset" => Executed(c)

(* PerFrame::Begin hands a vertex or uniform block out again only when the *)
(* commands that read it are complete and so is the copy from its staging  *)
(* half.                                                                   *)
BlockRecycleSafe ==
  \A c \in Cmds : cmd[c].block = "recycled" => Executed(c) /\ (Discrete => Uploaded(c))

(* The GPU may not begin a stage of c: a batch up to its own, in the order *)
(* of its queue, waits at that stage for something that is not complete.   *)
(* (A wait of another type's batch on the same VkQueue would count too; it *)
(* is not needed, see CopyPrecedes.)                                       *)
HeldBack(c, stage) ==
  LET t == cmd[c].type
  IN \E n \in 1 .. Len(dev.queue[t]) :
       /\ completed[t] + n <= dev.at[c][2]
       /\ \E w \in dev.queue[t][n] : stage \in w[3] /\ ~Done(w)

(* On a GPU without host-visible local memory, the stages that read a      *)
(* block may begin only after the copy that fills it, whichever queue they *)
(* are on and whichever submission the copy was slipped in by: as          *)
(* SubmitStaging says, there is "no need for a barrier as smeaphores will  *)
(* take care of it" (device_submission.cpp:533).                           *)
UploadBeforeUse ==
  Discrete =>
    \A c \in Cmds : dev.at[c][2] > 0 =>
      \A stage \in cmd[c].reads : HeldBack(c, stage) \/ Uploaded(c)

(* "Make sure we have a fence which covers all submissions in the frame"   *)
(* (device_frame_contexts.cpp:96): once PerFrame::Begin has waited, every  *)
(* batch of the frame is complete, though without timeline semaphores only *)
(* some of them have a fence of their own.                                 *)
FrameIsOver ==
  [][dev.lock = "next" /\ dev'.lock = "free"
       => \A t \in Types : dev.fence[dev.index][t] <= completed[t]]_vars

(* A binary semaphore or fence is recycled only when the batch that waits  *)
(* for it or signals it is complete.                                       *)
SyncObjectsIdle ==
  [][\A f \in Slots : \A b \in dev.recycle[f] \ dev'.recycle[f] : Done(b)]_vars

(* When a frame ends nothing is left behind: no command buffer and no copy *)
(* of a block stays unsubmitted, in whatever order the queues were ended,  *)
(* and a queue that was told to wait for a semaphore will be ended too.    *)
NothingLeftBehind ==
  dev.lock # "free" =>
    /\ \A t \in Types : dev.waits[t] # {} => dev.needFence[t]
    /\ dev.vbo = {} /\ dev.ubo = {} /\ dev.staged = {}
    /\ \A f \in Slots, t \in Types : dev.subs[f][t] = {}

(* Every semaphore handed to AddWaitSemaphore is consumed by a submission  *)
(* even if the application never submits anything else to that queue.      *)
WaitsConsumed == \A t \in Types : dev.waits[t] # {} ~> dev.waits[t] = {}

(* Whatever is submitted is executed, though the command buffers of a      *)
(* queue may have to wait for the end of the frame to be handed to the GPU *)
(* and then for copies and batches of other queues.                        *)
WorkExecuted == \A c \in Cmds : cmd[c].status = "submitted" ~> Executed(c)

(* A dropped object is freed if the application keeps starting frames.     *)
Reclaimed == \A o \in Objects : obj[o] = "dead" ~> obj[o] = "freed"

(* device.cpp:484, of the queue timeline semaphores: "Make sure we don't    *)
(* accidentally try to wait for these after we destroy the semaphores."    *)
NoWaitOnLostTimeline == dev.lock = "next" => dev.lostTimelines = {}
-----------------------------------------------------------------------------
(* The inductive invariant behind NoUseAfterFree and CommandPoolSafe.      *)

(* The slot work is recorded into, and the number of PerFrame::Begin calls *)
(* until a slot begins again.                                              *)
Current ==
  IF dev.lock = "next" THEN IF dev.index = 0 THEN dev.count - 1 ELSE dev.index - 1
  ELSE dev.index
Turn(f) == IF f > Current THEN f - Current ELSE f + dev.count - Current

Unfinished(c) == cmd[c].status \in {"recording", "submitted"}

(* A frame's fence values have been submitted.                             *)
FencesSubmitted == \A f \in Slots, t \in Types : dev.fence[f][t] <= dev.timeline[t]

(* Only command buffers of the current frame are recorded or pending, and  *)
(* none while a frame-pushing call blocks.                                 *)
CurrentFrame ==
  /\ dev.lock # "free" => dev.index < dev.count
  /\ dev.counter = Cardinality(Recording)
  /\ \A c \in Recording : dev.lock = "free" /\ cmd[c].home = dev.index
  /\ \A f \in Slots, t \in Types : \A c \in dev.subs[f][t] :
       dev.lock = "free" /\ f = dev.index /\ cmd[c].status = "submitted" /\ cmd[c].home = f

(* A submitted command buffer is pending or in a batch that the fence      *)
(* values of its frame cover; a reset one has been executed.               *)
Covered(c) ==
  \/ \E t \in Types : c \in dev.subs[cmd[c].home][t]
  \/ dev.at[c][2] > 0 /\ dev.at[c][2] <= dev.fence[cmd[c].home][dev.at[c][1]]

CmdsCovered ==
  \A c \in Cmds :
    /\ cmd[c].status = "idle" => cmd[c].uses = {}
    /\ Unfinished(c) => cmd[c].home < dev.count
    /\ cmd[c].status = "submitted" => Covered(c)
    /\ cmd[c].status = "reset" => Executed(c)

(* A dropped object waits in the list of one frame context.                *)
DroppedOnce ==
  \A o \in Objects, f \in Slots : o \in dev.destroyed[f] =>
    obj[o] = "dead" /\ f < dev.count /\ \A g \in Slots : o \in dev.destroyed[g] => g = f

(* Whoever still uses a dropped object was recorded in a frame that begins *)
(* again no later than the frame the object was dropped in.                *)
DropsOrdered ==
  \A o \in Objects, c \in Cmds : o \in cmd[c].uses /\ Unfinished(c) =>
    /\ obj[o] # "freed"
    /\ \A f \in Slots : o \in dev.destroyed[f] => Turn(cmd[c].home) <= Turn(f)

(* All of it: the types, and what PerFrame::Begin (device_frame_contexts.cpp *)
(* :344) relies on when it frees and resets what a frame holds.            *)
IInv == TypeOK /\ FencesSubmitted /\ CurrentFrame /\ CmdsCovered /\ DroppedOnce /\ DropsOrdered
-----------------------------------------------------------------------------
(* The inductive invariant behind FrameIsOver and SyncObjectsIdle.  Its    *)
(* parts speak of a value d of dev, because the calls that submit build up *)
(* such values in several steps.                                           *)

(* The GPU has what was submitted and not completed.                       *)
QueueLengths(d) == \A t \in Types : d.timeline[t] = completed[t] + Len(d.queue[t])

(* A pending command buffer is in the list of its type, and in no batch.   *)
NotYetSent(d) ==
  \A f \in Slots, t \in Types : \A c \in d.subs[f][t] :
    f = d.index /\ cmd[c].type = t /\ d.at[c][2] = 0

(* The latest batch of a type is complete or covered by a frame.           *)
LatestCovered(d) ==
  \A t \in Types :
    d.timeline[t] <= completed[t] \/ \E f \in Slots : f < d.count /\ d.timeline[t] <= d.fence[f][t]

(* When the fences that frame f waits for are signalled, its last batch of *)
(* type t is complete: it has a fence, or a batch that has one waits for   *)
(* it.                                                                     *)
FenceCovers(d, f, t) ==
  LET last == <<t, d.fence[f][t]>>
  IN \/ Done(last)
     \/ last \in d.waitFences[f]
     \/ \E b \in d.waitFences[f] :
          /\ ~Done(b) /\ b[2] <= d.timeline[b[1]]
          /\ \E w \in d.queue[b[1]][b[2] - completed[b[1]]] : BatchOf(w) = last

(* Without timeline semaphores every frame is covered so, the current one  *)
(* once its end has asked for the fences it needs.                         *)
FramesFenced(d) ==
  \A f \in Slots, t \in Types :
    FenceCovers(d, f, t) \/ (d.lock = "free" /\ f = d.index /\ d.needFence[t])

(* Vertex data is drawn with by the graphics queue, or by one that         *)
(* completes the copies first anyway: nothing makes another compute queue  *)
(* wait.                                                                   *)
VertexCopiesAwaited ==
  \A c \in Cmds : \A w \in Work[c] : Discrete /\ w[3] = "vbo" =>
    PhysicalType(w[1]) = "graphics" \/ VkQueueOf["compute"] = VkQueueOf["transfer"]

(* A vertex block to be copied belongs to graphics commands that the       *)
(* current frame will submit.                                              *)
VerticesPending(d) ==
  VkQueueOf["compute"] # VkQueueOf["transfer"] =>
    /\ \A c \in Cmds : Discrete /\ cmd[c].block = "vbo" => cmd[c].type = "graphics"
    /\ \A c \in d.vbo :
         /\ cmd[c].type = "graphics"
         /\ cmd[c].status = "recording" \/ c \in d.subs[d.index]["graphics"]

(* Handles are of submitted batches; those in a frame's list belong to it  *)
(* or to a frame that begins again no later.                               *)
HandlesKnown == \A b \in app.semaphores \cup app.fences : b[2] <= dev.timeline[b[1]]
RecycleOrdered ==
  \A f \in Slots : \A b \in dev.recycle[f] :
    /\ f < dev.count
    /\ \/ Done(b)
       \/ \E g \in Slots : g < dev.count /\ b[2] <= dev.fence[g][b[1]] /\ Turn(g) <= Turn(f)

(* All of it: every batch is covered by the frame it belongs to, and every *)
(* frame by fences, until PerFrame::Begin has waited for them              *)
(* (device_frame_contexts.cpp:96 and :350).                                *)
SyncInv ==
  /\ QueueLengths(dev) /\ NotYetSent(dev) /\ LatestCovered(dev)
  /\ \A c \in Cmds : cmd[c].status \in {"idle", "recording"} => dev.at[c][2] = 0
  /\ HandlesKnown /\ RecycleOrdered /\ dev.staged = {}
  /\ ~Timeline => FramesFenced(dev) /\ VerticesPending(dev)
-----------------------------------------------------------------------------
(* The inductive invariant behind UploadBeforeUse, BlockRecycleSafe and    *)
(* NothingLeftBehind.                                                      *)

(* Only draws and dispatches read blocks.                                  *)
BlockReaders == \A c \in Cmds : \A w \in Work[c] : w[3] # "none" => w[1] # "transfer"

(* Async graphics work that reads blocks runs on the graphics queue: a     *)
(* compute queue is not made to wait at its vertex and fragment stages.    *)
ReadersAwaited ==
  \A c \in Cmds : \A w \in Work[c] :
    Discrete /\ w[3] # "none" => w[1] # "asyncGraphics" \/ PhysicalType(w[1]) = "graphics"

(* The reads of c that its queue can be made to wait at.                   *)
QueueStages(t) == IF t = "compute" THEN ComputeStages ELSE Stages
AwaitedReads(c) == cmd[c].reads \cap QueueStages(cmd[c].type)

(* A queue that has semaphores to wait for will be ended with the frame.   *)
WaitsOwed(d) == \A t \in Types : d.waits[t] # {} => d.needFence[t]

(* Graphics and compute commands whose copies SubmitStaging is right to    *)
(* let follow in the order of a VkQueue.                                   *)
SameVkQueue(c) == VkQueueOf[cmd[c].type] = VkQueueOf["transfer"]
VertexReader(c) == cmd[c].type = "graphics" \/ VkQueueOf["compute"] = VkQueueOf["transfer"]

(* Blocks still to be copied belong to commands that are recorded (in R)   *)
(* or pending, so a submission of their type, which flushes the copies, is *)
(* still to come.  A copy that is recorded and not submitted needs no      *)
(* semaphore.                                                              *)
BlocksPending(d, R) ==
  /\ d.staged = {} \/ d.vbo \cup d.ubo = {}
  /\ \A c \in d.vbo \cup d.ubo \cup d.staged :
       d.at[c][2] = 0 /\ d.copyAt[c][2] = 0 /\ cmd[c].type # "transfer"
  /\ \A c \in d.vbo \cup d.ubo : c \in R \/ c \in d.subs[d.index][cmd[c].type]
  /\ \A c \in d.vbo : VertexReader(c) /\ cmd[c].reads \subseteq PossibleStages({"vbo"})
  /\ \A c \in d.ubo : cmd[c].reads \subseteq PossibleStages({"ubo"})
  /\ \A c \in d.staged : SameVkQueue(c)

(* A batch of t no later than the value last still has to execute, and     *)
(* waits at these stages for the batch copy or for a later one of its      *)
(* queue.                                                                  *)
Behind(d, t, last, copy, stages) ==
  \E n \in 1 .. Len(d.queue[t]) :
    /\ completed[t] + n <= last
    /\ \E w \in d.queue[t][n] : w[1] = copy[1] /\ copy[2] <= w[2] /\ stages \subseteq w[3]

(* What stands between the reader of a block and the copy: the copy is     *)
(* complete; or the reader is not submitted and will be ordered after it;  *)
(* or a batch no later than the reader's waits for the copy, at the stages *)
(* of the reader that its queue can be made to wait at.                    *)
CopyPrecedes(d, c) ==
  LET copy == d.copyAt[c]
      t == cmd[c].type
  IN \/ Done(copy)
     \/ /\ d.at[c][2] = 0
        /\ SameVkQueue(c) \/ \E w \in d.waits[t] : BatchOf(w) = copy /\ AwaitedReads(c) \subseteq w[3]
     \/ Behind(d, t, IF d.at[c][2] = 0 THEN d.timeline[t] ELSE d.at[c][2], copy, AwaitedReads(c))

CopiesOrdered(d) ==
  \A c \in Cmds :
    /\ d.at[c][2] > 0 => d.at[c][1] = cmd[c].type
    /\ d.copyAt[c][2] > 0 =>
         /\ d.copyAt[c][1] = "transfer" /\ d.copyAt[c][2] <= d.timeline["transfer"]
         /\ cmd[c].type # "transfer" /\ CopyPrecedes(d, c)

(* The life of a block: it is filled while its commands are recorded,      *)
(* given up, copied, and recycled with the frame of its commands.          *)
BlockStates ==
  /\ \A c \in Cmds :
       /\ cmd[c].status = "idle" => cmd[c].block = "none"
       /\ cmd[c].block = "none" => cmd[c].reads = {}
       /\ cmd[c].block \in {"vbo", "ubo"} =>
            /\ cmd[c].status = "recording" /\ cmd[c].type # "transfer"
            /\ cmd[c].reads \subseteq PossibleStages({cmd[c].block})
       /\ Discrete /\ ReadersAwaited => cmd[c].reads = AwaitedReads(c)
       /\ cmd[c].block = "vbo" /\ Discrete => VertexReader(c)
       /\ cmd[c].block = "given" /\ Discrete => c \in dev.vbo \cup dev.ubo \/ dev.copyAt[c][2] > 0
       /\ dev.copyAt[c][2] > 0 => cmd[c].block \in {"given", "recycled"}
  /\ \A c \in dev.vbo \cup dev.ubo : cmd[c].block = "given"
  /\ \A f \in Slots : \A c \in dev.blocks[f] :
       f < dev.count /\ cmd[c].home = f /\ Unfinished(c) /\ cmd[c].block = "given"

(* All of it: a copy precedes whatever reads its block, and a block comes  *)
(* back after both (SubmitStaging, device_submission.cpp:483, and          *)
(* PerFrame::Begin, device_frame_contexts.cpp:405).                        *)
UploadInv ==
  /\ WaitsOwed(dev) /\ BlocksPending(dev, Recording) /\ CopiesOrdered(dev)
  /\ BlockStates /\ BlockRecycleSafe
=============================================================================
