# Verification of QuantumVk

QuantumVk (`src/quantumvk`) is a C++17 middleware over Vulkan derived from
Granite: it hands out buffers, images and command buffers, submits work to up to
three queues, and decides by itself when an object, a command pool, a block of
memory, a semaphore or a fence may be reused. The repository has no tests, and
what it promises is in `doc/basics.md`, `doc/wsi.md` and the comments. This
directory keeps TLA+ models of it, checked by TLC and, where that is worth it,
proved by TLAPS.

Contents: [inventory](#inventory) - [modules](#modules) - [clients](#clients) -
[runs](#runs) - [proofs](#proofs) - [findings](#findings) -
[not modelled](#not-modelled) - [plan](#plan).

## Inventory

Paths are relative to `src/quantumvk/`. H marks what is hard to test.

| Component | State | Operations | Interacts with | Must hold |
|---|---|---|---|---|
| **Frame contexts** `vulkan/device_frame_contexts.cpp`, `device.hpp` (`PerFrame`, `DeviceLock`) | ring of `PerFrame`: command pools, submissions, timeline values, fences, lists of dead objects and blocks; `frame_context_index`; the counter of command buffers being recorded | `EndFrameContext`, `NextFrameContext`, `WaitIdle`, `InitFrameContexts`, `Destroy*`, `Recycle*`, `PerFrame::Begin` | everything that owns a Vulkan object drops it here | H: nothing is freed or reset while the GPU may use it; everything dropped is freed eventually |
| **Queue submission** `vulkan/device_submission.cpp` | `QueueData` x 3: wait semaphores, `need_fence`, timeline value | `RequestCommandBuffer`, `Submit`, `SubmitEmpty`, `AddWaitSemaphore`, `FlushFrame`, `SubmitQueue`, `SubmitStaging`, `SubmitVisible`, `SubmitSecondary` | frame contexts, DMA queues, WSI semaphores, the GPU | H: copies run before their readers; nothing is left behind at the end of a frame; no circular wait |
| **Linear blocks and DMA** `memory/buffer_pool.*`, `device.cpp` (`RequestBlock`) | `dma.vbo/ibo/ubo`, blocks per frame, free blocks | `RequestVertexBlock` ..., `SyncBufferBlocks`, `RecycleBlock` | command buffers fill blocks, submission copies them | H: a block is handed out again only when its readers and its copy are done |
| **Sync objects** `vulkan/sync/*` | handle states (signalled, observed), free lists | `FenceHolder::Wait/WaitTimeout`, destructors, `Consume`, managers | frame contexts recycle them | H: recycled only when idle; no parallel wait for a `VkFence` |
| **Command pools** `vulkan/command_pool.*` | index into the buffers of a pool | `RequestCommandBuffer`, `Begin` | frame contexts, thread indices | reset only when idle; one thread per pool |
| **Task graph** `threading/thread_group.*` | dependency counts, ready queue, condition variables | `create_task`, `add_dependency`, `flush`, `wait`, `wait_idle`, `stop`, worker loop | thread indices of the device | H: a task runs once, after its dependencies; waits return |
| **Command buffer state** `vulkan/command_buffer.*` | dirty bits, bindings, pipeline and render pass state | `Bind*`, `Set*`, `Begin/EndRenderPass`, `Draw*`, `Dispatch*` | programs, descriptor caches, blocks | a draw sees every state set before it |
| **WSI** `vulkan/wsi/wsi.*` | swapchain, acquire and release semaphores, `has_acquired_swapchain_index` | `BeginFrame`, `EndFrame`, resize, deinit | submission, platform | H: each acquired image is presented once; a semaphore is never lost |
| **WSI timing** `vulkan/wsi/wsi_timing.*` | past present timings | pacing | driver timestamps | arithmetic |
| **Caches** `graphics/descriptor_set.*`, `graphics/render_pass.*`, `utils/temporary_hashmap.hpp` | rings of nodes hashed by key | `request`, `emplace`, `begin_frame`, `clear` | frame contexts rotate them | H: a node handed out this frame is not recycled this frame |
| **Programs and shaders** `graphics/shader.*` | pipelines, layouts, list of active programs | create, destroy, pipeline lookup | frame contexts, `program_lock` | H: freed only when unused; the lists are locked |
| **Resources** `device_resources.cpp`, `images/*`, `memory/buffer.*` | layouts and owners of an image | `CreateImage`, `CreateBuffer`, uploads, mip generation | submission (`SubmitStaging`, `SubmitVisible`) | an upload is visible where the resource is used |
| **Context** `vulkan/context.*` | queue families and indices | queue selection | device | each queue type gets a queue that can do its work |
| **Pools, maps, locks** `utils/*` | intrusive counters, object pools, hash maps, `RWSpinLock` | allocate/free, probe/grow, lock/unlock | everything | H: mutual exclusion; no lost or doubled object |
| **Formats, helpers** | none | formulas and tables | | |
| **Third party** `extern*` | | | | not modelled |

Concurrency. `QM_VULKAN_MT` is on by default. One mutex, `DeviceLock::lock`,
serialises all public calls of `Device`; the calls that push frames first wait
on a condition variable until no command buffer is being recorded
(`DRAIN_FRAME_LOCK`). The header asks for the frame-pushing calls to come from
one thread and lets the submission calls come "from any thread at any time". The
GPU runs beside all of it and answers through timeline semaphores or fences. What
does not go through that mutex (task graph, spin locks, programs, fence waits) is
listed with the hazards in `PROJECT.json`.

## Modules

### DeviceSubmission

The core of `Device`: frame contexts, submission, DMA copies, deferred deletion.

| Variable | In the code |
|---|---|
| `dev.lock` | who holds `DeviceLock::lock` while blocked on the GPU: `free`, `next` (in `NextFrameContext`), `idle`, `init` (in `WaitIdleNolock` for `WaitIdle`, `InitFrameContexts`) |
| `dev.counter`, `index`, `count` | `lock.counter`, `frame_context_index`, `per_frame.size()` |
| `dev.timeline`, `waits`, `needFence` | `QueueData::current_timeline`, `wait_semaphores` with `wait_stages`, `need_fence` |
| `dev.subs`, `fence`, `waitFences` | `PerFrame::*_submissions`, `timeline_fence_*`, `wait_fences` |
| `dev.recycle` | `recycle_fences`, `recycled_semaphores` and `destroyed_semaphores` together |
| `dev.destroyed`, `blocks` | the `destroyed_*` lists; `vbo_blocks`, `ibo_blocks`, `ubo_blocks` |
| `dev.vbo`, `ubo`, `staged` | `dma.vbo` (index blocks behave like vertex blocks), `dma.ubo`, and copies recorded by `SyncBufferBlocks` and still in `transfer_submissions` |
| `dev.queue` | what each queue has been given: per batch, the batches it waits for and the pipeline stages that wait |
| `dev.at`, `copyAt` | the batch that executes a command buffer, and the batch that copies its block: history, read only by properties and the GPU's completion |
| `dev.lostTimelines` | queues whose timeline semaphore `ClearWaitSemaphores` destroyed: history |
| `cmd` | command buffers: status, queue type, the frame of their pool, the objects they use, their linear block and the stages that read it |
| `obj`, `app`, `completed` | objects; semaphore and fence handles the application holds; the timeline value each queue has reached |

A batch, one `vkQueueSubmit`, is the pair of its queue type and its timeline
value; the semaphores, the fence and the timeline value it signals are all that
pair. Each public call is one action with all the nested calls it makes
(`SubmitQueue` -> `FlushFrame(AsyncTransfer)` -> `SyncBufferBlocks` ->
`SubmitStaging` -> `SubmitNolock` -> `SubmitQueue` are operators applied one after
the other to the record `dev`), because it runs under the mutex. The three calls
that block on the GPU with the mutex held are split at that point:
`NextFrameContext`/`BeginFrame`, `WaitIdle`/`WaitIdleDone` and
`WaitIdle("init")`/`InitFrameContexts`. `Complete(t)` is the GPU: a queue executes
its batches in order, each when the batches it waits for are complete: whatever the stages
of a wait, neither a timeline value nor a fence is signalled before the batches
waited for and the earlier ones of its queue are complete. (`Done` is that comparison with what the
GPU has signalled.) The commands of a batch may begin earlier. A semaphore holds back only
the stages it is waited for at, and those of the later batches of its queue: a stage of a command buffer
is `HeldBack` while a batch up to its own waits at that stage for something
incomplete. `UploadBeforeUse` says that a stage that reads a block is held back until the
block is copied. Queue types that share a `VkQueue` keep their submission
order, and the barrier at the end of a copy holds back the stages it names (`QueueOrder`,
`BarrierStages`).

Abstractions. Pipeline stages are grouped into vertex input, graphics shaders, compute
shaders and the rest, which no block is read by; access masks are left out, as they go with the stages.
All kinds of
destroyable objects are one kind. A block that was given up is represented by the
command buffer that wrote it, and `recycled` means that `PerFrame::Begin` returned
it to its pool or that `WaitIdle` released it. Each command buffer and object is used once, which loses
nothing since a recycled `VkCommandBuffer` or handle is a new one to the
application. `SubmitVisible` is in `ResourceUpload`, the
swapchain semaphores of `SubmitQueue` in `WSI`; secondary command buffers and
fence waits by the application are not modelled.

Operators whose name begins with `Bug` are the mutants that `PROJECT.json` lists:
each is a plausible mistake in the definition after it, and shows that a property can fail.

### DeferredDeletion

What `doc/basics.md:131-138` promises, without frames, fences or queues: an object
may be dropped at any time; it is freed when no command buffer that uses it is
unfinished; work never starts on an object that was dropped. `DeviceSubmission`
implements it under the mapping `Deletion`: checked by TLC as `ImplementsDeletion`, and
proved as `DeletionImplemented`.

### MCDeviceSubmission

Constants for TLC: queue topologies and what the command buffers record.

### TaskGraph

`Quantum::ThreadGroup`. Only the ready queue, `done` and the counters are
locked or atomic, so the module is not one action per call: every thread has an
`agenda`, the steps it has still to take, and a step replaces itself by the
steps of the calls it makes (`task_completed` -> `notify_dependees` ->
`dependency_satisfied` -> `move_to_ready_tasks`, across groups). `group` holds the
fields of `TaskGroup` and `TaskDeps`, `pool` the counters and flags of
`ThreadGroup`. `all`, `after`, `notified` and `ran` are history. A condition
variable whose predicate is written under its mutex (`ready_tasks`, `done`) is a guard;
`wait_idle` reads two counters that are not, so falling asleep, being woken and
the order of the two loads are steps. One client thread calls; it waits only for
what it has flushed, as no one else would flush it. With `DependeesFirst` it flushes
dependees before what they depend on, the only order in which `flush` and
`dependency_satisfied` never meet; without, see the findings. The step `satisfy` carries
the group that is over as well as the one that is told: the code passes only the
latter, the former is history for the invariant.

`MCTaskGraph` gives the task graphs for TLC.

### DescriptorSets and CommandBuffer

`CommandBuffer` is the state tracking of `Vulkan::CommandBuffer`: `cmd` is what the
object believes (`dirty`, `dirtySets`, `dirtyVbos`, the bound program, pipeline,
sets, static and dynamic state), `gpu` what the recorded Vulkan commands have
bound. Every setter, preset, `SetProgram`, `Draw`, `Dispatch`, `Begin`/`End` of a
render pass, `NextSubpass`, `SaveState`/`RestoreState`, and the secondary command
buffers of one thread, are actions. A draw is the whole of `FlushRenderState`: the
pipeline is looked up or built, sets are flushed or only rebound with new dynamic
offsets, push constants, dynamic state and vertex buffers follow the dirty bits.
`DescriptorSets` is `UniformManager`: which fields of a binding are hashed
(`HashedFields`), which are written (`WrittenFields`), and a `TemporaryHashmap`
of sets, a ring per frame over a list of vacant nodes.

The properties compare each draw with a reference that applies all state at
every draw: the pipeline is built from the state in force (`DrawSeesPipeline`),
the bound sets contain what was last given (`DrawSeesBindings`), push constants,
dynamic state and vertex buffers are the current ones (`DrawSeesState`), and no set
is written while commands use it (`SetsNotRewritten`).

Abstractions. `words` stands for the fixed-function fields that no operator
treats apart. Pipelines are identified with their hash; a hash is injective.
After `vkCmdExecuteCommands` the bound state is undefined, as in Vulkan.
`RebindDescriptorSet` uses element 0's dynamic offset, and no layout here has an
array of dynamic buffers. Descriptor pools never run out.
`Frames <= RingSize` is an assumption: `InitFrameContexts` does not enforce it,
and with more frame contexts than ring slots a set would be reused too early.

### HashMap, RenderPass, RWSpinLock and RenderPassCache

How threads get render passes, framebuffers and attachments. `HashMap` is
`IntrusiveHashMapHolder` (open addressing with a bounded probe sequence, growth and
reinsertion, removal) and `TemporaryHashmap` over it. `RenderPass` is the constructor of
`RenderPass`: layouts, preserved attachments and subpass dependencies computed
from a `RenderPassInfo`. `RWSpinLock` has one action per atomic instruction.
`RenderPassCache` composes them: threads run `BeginRenderPass`, each look-up,
insertion and unlock a step of its own, so two threads race to construct the
same pass; frames begin and `WaitIdle` clears the caches between render passes.
`Thread(t)` is the next step of one thread.

Abstractions. A hash stands for what was hashed (`hashed`), with values chosen so
that different inputs meet in the same slots (`HashOrder`). Persistent attachments share
the code of transient ones. Multiview, the stencil aspect and clear values are left
out. `WaitsFor` gives a source stage the meaning it has in Vulkan: it waits for the
logically earlier stages too.

### WSI

The presentation loop with the acquire and release semaphores that `Device` keeps
for the frame, `SubmitQueue`'s split of a submission at the first command that
uses the swapchain, and the semaphore lists of the frame contexts. The environment
is one queue (`ExecuteBatch`) and the presentation engine (`SignalAcquire`,
`ExecutePresent`). Each wait of the calling thread is a value of `pc`; the retry
loop of `BlockingInitSwapchain` is a loop of steps, so the GPU runs in between.
`SetPresentMode` stands for every setting that rebuilds the swapchain.

Abstractions. Handles are interchangeable and there are five of them; with six the
same properties hold (806 216 states, by hand). The workaround
`wsi_acquire_barrier_is_expensive` is chosen at the start. `vkDeviceWaitIdle` also
waits for queued presents. A failing present still queues its wait. The surface is
lost and found between frames; while there is none the retry loop stutters.
External frames are not modelled. The settings `AcquireResults` and `InitResults`
say what the driver may answer; see the findings for the two answers the run leaves out.

### QueueSelection and ResourceUpload

`QueueSelection` is the choice of queue families, indices and counts in
`Context::CreateDevice`. `ResourceUpload` is `Device::CreateBuffer` and
`CreateImageFromStagingBuffer`: for a GPU and a create info, the `script` is the
sequence of `Submit` and `AddWaitSemaphore` calls the function makes, each with the
commands it recorded (copies, mipmap blits, layout transitions, releases and
acquisitions of ownership). `Step` makes the next call under the device lock, `SubmitOther` lets another
thread flush or end a frame in between, `Use` is the application using the handle as
one of its owners. Each `VkQueue` executes what it was given in any order that its
waits and barriers allow for the stage concerned (`Follows`), so the model finds a
missing barrier, not only a missing semaphore.

Abstractions. Stages are grouped into indirect, graphics, compute and transfer, and
stages a queue does not have are ignored; access masks are left out; an
allocation that fails returns null and records nothing; staged buffers are in
memory the host cannot see.

### DeviceSubmission_proofs, DeviceSync_proofs, DeviceUploads_proofs, TaskGraph_proofs, WSI_proofs, CommandBuffer_proofs, RenderPassCache_proofs, ResourceUpload_proofs

The theorems below and their lemmas.

## Clients

What the models assume of the application, where the headers or docs ask for it or
nothing else would make sense: frame-pushing calls come from one thread; every
command buffer is submitted; `BeginFrame` and `WaitIdle` run when no command buffer is
open (`DRAIN_FRAME_LOCK`); a command buffer uses the swapchain only until a
submission of the frame has opened it, since `SubmitQueue` adds the release
semaphore once per frame (`device_submission.cpp:662`); two open command buffers of one
thread do not share a program, whose resource arrays and early returns they would
share; a task group is flushed before what it depends on.

## Runs

Deadlock is checked except in `commandBuffer`, `renderPassCache` and
`resourceUpload` and the findings of the first two, whose clients finish.

| Run | Instance | What it shows |
|---|---|---|
| `timeline` | timeline semaphores, three queues, 2 draws + 1 dispatch sharing an object, 2 frames | no stage reads a block before its copy, no use after free, the inductive invariant `IInv` (`TypeOK` is its first conjunct), pool reset, block recycling, nothing left behind, and the refinement of `DeferredDeletion` |
| `legacy` | binary semaphores and fences, copies on the `VkQueue` of graphics and compute in a family of its own, a draw or a copy beside a dispatch, fence and semaphore handles, 2 frames | copies precede the stages that read them where only some batches have a fence, `FrameIsOver` and the invariant `SyncInv` behind it, and that fences and semaphores are idle when recycled |
| `liveness` | timeline semaphores, a draw and a dispatch, an empty submission per queue, 2 frames | waits are consumed, work is executed, objects are freed |
| `lostTimeline` | one dispatch | a finding |
| `taskGraph` | three groups, one of them empty, any of three dependencies, three tasks, two workers, dependees flushed first | the inductive invariant `TaskInv` (`TypeOK` is its first conjunct): a task runs once and after its dependencies, a group is reported once and when it is over, `stop` drains the queue, the assertions of `thread_group.cpp` hold, groups finish and calls return |
| `taskGraphRace` | two groups, any order of flushing | a finding |
| `commandBuffer` | nine kinds of client, each of which mixes a few groups of calls (sets and frames, blending, specialisation and push constants, save and restore, vertex buffers, index buffers, secondary command buffers) over five programs | the inductive invariant `CommandInv` (`TypeOK` is its first conjunct): a draw sees the pipeline, bindings and state that were set; sets in use are not written; the maps keep their accounts |
| `staleSampler` | a program with a separate sampler | a finding |
| `wsi` | two frame contexts, two images, five handles | the inductive invariant `WSIInv` (`TypeOK` is its first conjunct): every semaphore that is waited for has one signal and no handle is reused with one outstanding; images are drawn to while owned; the assertions of a frame hold |
| `renderPassCache` | one thread with every valid choice among 3528 passes of up to three subpasses, and two threads with a few small passes, tables that start with two slots | no two owners of the lock, tables and rings are sound, a thread gets the pass it described and a compatible framebuffer, its subpasses are synchronised and keep their attachments, and requests return |
| `inputDependency` | a pass whose second subpass only reads | a finding |
| `resourceUpload` | five GPUs, 83 choices of resource and owners (355 cases), two uses | initial data, layouts and ownership are right whenever a command can execute; waits have a stage; the queues exist |

Bounds, and why they are enough.

- Two or three command buffers and one object (none in `legacy`, where deletion follows
  from `FrameIsOver`): the hazards are about one object or one block, the command buffer that uses it and one that makes another queue
  flush at an awkward time.
- `WaitStages` is one set of stages, without any that blocks are read at: what the application waits for
  says nothing about copies, which it does not know of.
- Queues: `timeline` copies on a queue of its own and makes the others wait by semaphores,
  `legacy` copies on the graphics queue with a barrier and a semaphore for compute; `QueueSelection` chooses both.
  What it may choose instead, two queues of one family with copies and compute on the second, passes with the properties of `legacy`
  and async graphics work without blocks beside a dispatch (2 448 380 states, by hand).
- Two frames: with two, a frame is recycled while the other one is recorded, which is
  the closest race.
- `MaxEmpty` bounds the guard of `SubmitEmpty`, which the application could call for ever;
  the number of batches, hence `completed` and `timeline`, is bounded by it, by the
  command buffers and by the waits they cause. `NextFrameContext` never stops.
- `MaxFrames` bounds the frame contexts that `InitFrameContexts` creates.
- There is no symmetry set there: command buffers differ in what they record. In `wsi`
  handles and images are symmetric.
- `commandBuffer`: two values of every datum show whether it is dropped, mixed up or
  stale; `MaxCalls` bounds the setter calls between two flushes, two being enough
  to overwrite, undo, or set one thing before another. `Details`, the range or layout a
  descriptor is given with, has one value only, so the run does not exercise changes of it; with two, the
  client `Converting` by itself passes (29 129 states, by hand), and the theorems cover any. Splitting the calls over
  kinds of client keeps pairs of features that do not interact apart.
- `wsi`: a queue of two batches while the next frame is recorded; two images, so that
  one is presented while the other is acquired.
- `renderPassCache`: two slots, one probe and hashes that collide make the table grow
  several times; `RingSize` 2 and `MaxFrames` 2 let a node expire. Three subpasses
  give a use, a gap and a later use.
- `resourceUpload`: the GPUs cover shared, clamped, dedicated and unpresentable
  families; three mip levels give a level that is both written and read by blits; two uses
  race with each other and with the last barrier.

Fairness (`Fairness`, in the `liveness` run only): the GPU completes what it can
(`Complete`); blocking waits return (`BeginFrame`, `WaitIdleDone`,
`InitFrameContexts`); a command buffer being recorded is submitted, because
`doc/basics.md:92` and `:107` require that of the application; frames keep being
started, which `doc/basics.md:136` says is needed to reclaim memory. All are weak
fairness. The last two are spelled out as `[]<>` formulas only because TLC evaluates
`ENABLED` of those actions slowly. Nothing is assumed about objects being
dropped, waits being added or frames being ended early.

In `taskGraph` every worker is weakly fair, and so is the client inside a call
(`InCall`); nothing makes it call. Two workers and an empty group between two others are
what it takes for one thread to settle a chain of groups while another completes
tasks; the second task of `g1` makes the last one decide. `MaxStarts` bounds `start`.

In `renderPassCache` every thread is weakly fair (`FairSpec`, spelled out with
`Ready(t) = ENABLED Thread(t)`); a spinning thread is ready, so fairness alone does not
let it in: the property holds because holders release the lock. With an unbounded stream of readers
a writer would starve (`read_write_lock.hpp:41`); the workloads are finite.

## Proofs

`DeviceSubmission_proofs` proves, for any number of command buffers, objects and
frame contexts, any assignment of queue types to queues and either kind of GPU memory:

| Theorem | Statement |
|---|---|
| `InductiveInvariant` | `Spec /\ FrameIsOver => []IInv` |
| `NoUseAfterFreeHolds` | `Spec /\ FrameIsOver => []NoUseAfterFree` |
| `CommandPoolSafeHolds` | `Spec /\ FrameIsOver => []CommandPoolSafe` |
| `TimelineFrameIsOver` | `Timeline = TRUE => (Spec => FrameIsOver)` |
| `TimelineInvariant` | `Timeline = TRUE => (Spec => []IInv)` |
| `TypeCorrect` | `Timeline = TRUE => (Spec => []TypeOK)` |

These separate "the frame is over when `Begin` goes on" from "so it is safe to free".
`DeviceSync_proofs` proves the first half in both synchronisation modes, and with it
the rest, under `Timeline = TRUE \/ VertexCopiesAwaited`:

| Theorem | Statement |
|---|---|
| `SyncInvariant` | `Spec => [](IInv /\ SyncInv)` |
| `FrameIsOverHolds` | `Spec => FrameIsOver` |
| `ObjectsSafe`, `PoolsSafe`, `TypesKept` | `Spec => []NoUseAfterFree`, `[]CommandPoolSafe`, `[]TypeOK` |
| `SyncObjectsIdleHolds` | `Spec => SyncObjectsIdle` |
| `DeletionImplemented` | `Spec => ImplementsDeletion` |

Assumptions: those the constants name (`CmdsAssumption` ... `QueueAssumption`);
`Cmds` is finite because `lock.counter` counts command buffers. `VertexCopiesAwaited`
says that vertex blocks are drawn with by the graphics queue only, or that the
compute queue is the `VkQueue` that copies them. Without it and without timeline
semaphores the theorems are false, which TLC shows with async graphics work that draws with a
vertex block on one family of three queues: see the second list of the findings. With
timeline semaphores they need no hypothesis, since every batch has a value to wait for.

The argument. `NoUseAfterFree` is not inductive: that a frame waits for its own
batches says nothing of a command buffer recorded in another frame that uses
the object. `IInv` adds

- `FencesSubmitted`: a frame's timeline values have been submitted;
- `CurrentFrame`: all recording and pending command buffers are in the current
  frame, none while a frame-pushing call blocks, and `lock.counter` counts the former;
- `CmdsCovered`: a submitted command buffer is pending or in a batch that
  its own frame's timeline values cover; a reset one has been executed;
- `DroppedOnce`: a dropped object is in the list of one live frame context;
- `DropsOrdered`: whoever still uses a dropped object was recorded in a frame
  whose turn (`Turn`, the number of `Begin` calls until it comes round) is not
  later than the turn of the frame the object was dropped in. It holds when the object is
  dropped because the current frame has the latest turn, and it is
  preserved because turns advance together. When a frame begins, the
  objects it frees have users only in frames with the same turn, itself.

TLC checks `IInv` as an invariant in `timeline` and the proof of its
preservation has a lemma per action. All the nested flushes are handled once:
each operator on `dev` is shown to be a "submission" (`Submits`), a transitive
relation that says timelines and the current frame's values only grow together, and command
buffers only move from pending to covered.

`FrameIsOver` is not inductive either: without timeline semaphores most batches have
no fence, and are known to be complete only because a later batch that has one waits
for them. `SyncInv` adds

- `QueueLengths`: what was submitted is complete or in its queue, so a batch
  that is not complete has a place there;
- `NotYetSent`: pending command buffers are in the current frame's list of their type,
  and in no batch;
- `LatestCovered`: the latest batch of each type is complete or is the one some
  frame waits for, so no batch escapes from all frames;
- `FramesFenced`: the last batch of every type in a frame is complete, has a fence
  among those the frame waits for, or is waited for by a batch that has one
  (`FenceCovers`); the current frame may instead still have `need_fence` set;
- `VerticesPending`: vertex blocks to be copied belong to graphics commands of the
  current frame, so ending the frame submits a graphics batch after the copies;
- `HandlesKnown`, `RecycleOrdered`: handles are of submitted batches, and one in
  a frame's list is of a batch that is covered by a frame that begins no later.

The relation for the nested calls is now `Advances` (queues and lists only grow, and what is
added is covered by the current frame), with `Flushes` for whole calls (no copy stays recorded
and unsubmitted, no vertex block is parted from its commands). `EndFrame` needs an argument of its own: ending graphics or compute
may submit copies to the transfer queue after that was ended, which sets its `need_fence`
again with nobody left to look at it. The copies are covered all the same, because
the queue that is being ended waits for them or shares
their `VkQueue`, and its batch gets a fence; `VerticesPending` is what rules out the case where neither is true.
For the refinement, `IInv` and `SyncInv` say that a step of the GPU executes
only submitted command buffers, that a dropped object stays unused by new work, and that
what `BeginFrame` and `WaitIdle` free has no unfinished user.

`DeviceUploads_proofs` proves what concerns linear blocks, in both modes, for any
queues and with or without host-visible device memory, under `BlockReaders` and `VertexCopiesAwaited`:

| Theorem | Further hypothesis | Statement |
|---|---|---|
| `UploadInvariant` | | `Spec => [](IInv /\ SyncInv /\ UploadInv)` |
| `CopiesPrecedeReaders` | `ReadersAwaited` | `Spec => []UploadBeforeUse` |
| `BlocksComeBackIdle` | | `Spec => []BlockRecycleSafe` |
| `FramesLeaveNothing` | | `Spec => []NothingLeftBehind` |

`BlockReaders` says that transfer commands have no blocks: only draws and dispatches
read them. `VertexCopiesAwaited` is needed with timeline semaphores too, because without it
no queue may be told to wait for the copy (the same finding). `ReadersAwaited` says that async graphics
work that reads blocks is not sent to the compute queue; without it that queue waits, but not at
the stages that read (see the findings). That a block is recycled too early or a copy left behind is
excluded without it, as a batch completes after what it waits for at whatever stage. TLC evaluates the three to `TRUE` for
the constants of `timeline`, `legacy` and `liveness`.

`UploadBeforeUse` says nothing of a reader that was not submitted yet, and `SubmitStaging`
makes it wait in one of three ways: by a semaphore that its queue is told to wait for, by the order of a
shared `VkQueue`, or through an earlier batch of its own queue that consumed the semaphore. `UploadInv` adds

- `CopiesOrdered`: for every copy that was submitted, one of these stands between it and its
  reader until it is complete (`CopyPrecedes`; `Behind` is a batch that still has
  to execute, no later than the reader's, and waits for the copy or a later one), at all stages of the
  reader that its queue can be made to wait at (`AwaitedReads`; with `ReadersAwaited`, all that read);
- `BlocksPending`: a block to be copied belongs to commands that are recorded or
  pending, so a submission that flushes the copy first is still to come;
- `WaitsOwed`: a queue that was told to wait has `need_fence` set, so it will be ended;
- `BlockStates`: a block is written while its commands are recorded, given up, copied, and
  stays in the list of its commands' frame until that frame begins; its readers have no stages
  but those of the usage that `SyncBufferBlocks` passes on.

A value of `dev` half-way through a call is `Ready` if it satisfies these, and a nested call
is `Orderly` if it keeps it so and loses no block or copy; every nested call is. The hard case is
`EndFrame`, where ending the compute queue may slip in copies after the graphics commands of the
frame were submitted. Those copies come too late for no one: a graphics or compute submission takes all blocks
that were given up with it, so a reader that was submitted has no block left to copy.
TLC checks `UploadInv` with
the constants of `timeline`, `legacy` and `liveness` (by hand; its consequences are properties of the first two).

`TaskGraph_proofs` proves, for any number of groups, tasks, edges and workers and any
`MaxStarts`, under `DependeesFirst = TRUE`:

| Theorem | Statement |
|---|---|
| `TaskInvariant` | `Spec => []TaskInv` |
| `TaskOnceHolds` | `Spec => []TaskOnce` |
| `ReportedOnceOverHolds` | `Spec => []ReportedOnceOver` |
| `AfterDependenciesHolds` | `Spec => []AfterDependencies` |
| `NoCounterUnderflows` | `Spec => []AssertionsHold` |
| `StopDrainsHolds` | `Spec => StopDrains` |

Without `DependeesFirst` the first five are false: TLC refutes each with the constants of `taskGraphRace`.
The edges may be any relation, circles included: groups in a circle cannot be flushed in this order.

None of the properties is inductive, because they say nothing of the steps that threads
still have to take: whoever brings a counter to zero decides on that alone to move the tasks
or to report the group. `TaskInv` speaks of these steps:

- `Counted`: `dependency_count` is the number of dependencies that have not told the group yet
  (`Open`: not reported, or the step that tells it is still in an agenda), and `count`
  the number of tasks that have not been counted as completed (`Unfinished`);
- `StepsSound`: no step that releases, reports, tells, runs or completes is in agendas twice,
  and each finds its group or task in the state it expects;
- `Reported`: a group is released with all its tasks finished exactly when it has been
  reported or one thread is about to;
- `DependeesListed`: a group that is not over lists each of its dependees once, so
  `notify_dependees` tells each of them once;
- `TaskPlaces`: a task is in its group's list, in the ready queue, with one worker, or has run;
- `FlushedInOrder`: dependees are flushed first, so no set of flushed groups waits in a circle;
- `Stopping`: `kill` and `join` are the client's last steps, and a dead pool without
  workers has an empty queue.

A lemma per action shows that it keeps `GraphInv` (all but `Stopping`); a step is taken out of an
agenda and others are put in (`Turns`), and what that does to the steps that are there is
proved once for all actions. `StopDrains` follows from the state at the join: no step
is left and the queue is empty, so among the groups that are not over one would, by
`FlushedInOrder`, wait for none of the others, and would have been released, run and reported.

`WSI_proofs` proves, for any number of handles, images and frame contexts and any `MaxCommands`
and `MaxBatches`, under `Survivable`:

| Theorem | Statement |
|---|---|
| `PresentationInvariant` | `Spec => []WSIInv` |
| `SemaphoresTruthfulHolds` | `Spec => []SemaphoresTruthful` |
| `ImagesOwnedHolds` | `Spec => []ImagesOwned` |
| `PresentAssertionsHold` | `Spec => []AssertionsHold` |

`Survivable` says that the driver gives neither of the two answers that the run `wsi` leaves out:
a suboptimal acquire, and `vkGetSwapchainImagesKHR` failing after the swapchain was created.
The first violates `SemaphoresTruthful`, the second `AssertionsHold` (see the findings). All other failures, of an acquire, of a
present or of any other step of creating a swapchain, are covered.

`SemaphoresTruthful` compares the signals and waits of a handle with the objects that hold it now. It
is not inductive: a step that moves a handle has to know that no second object, free list
or frame holds it too, and a frame that recycles it has to know which batches may still wait. `WSIInv` says this:

- `Control`: where the code is, what `has_acquired_swapchain_index` and `swapchain` say, which semaphores
  are already gone, and that the queue is drained once a swapchain is torn down;
- `FrameSemaphores`: the frame holds its acquire semaphore until the first submission that
  uses the swapchain, and its release semaphore from then on;
- `KeptOnce`: a handle is in one place only (`Spots`): vacant, on a list of one frame, with one image, the acquire
  or the release semaphore, or in the hands of the function that runs;
- `Meaning`: the place says what is outstanding: nothing for a vacant handle, a signal nobody waits for
  for the frame's semaphores, a wait for each signal for one that will be recycled, and
  only in batches of the frame that will recycle it;
- `SignalledOnce`, `AwaitedOnce`: at most one signal and one wait, and a wait has its signal;
- `Presented`, `Ordered`: an image has one present at a time, the acquire semaphore of its last turn is
  waited for before it is acquired anew, and the release semaphore is signalled behind all that draws.

That a handle stays where it is, or moves from one place to another, is proved once (`StaysPut`,
`MovesTo`); each action then has a lemma that goes through the handles it moves and
leaves the others to these.

`CommandBuffer_proofs` proves, for any programs, slots, passes, clients, values and ring
size, any number of setter calls, and any number of frame contexts up to the ring size:

| Theorem | Hypothesis | Statement |
|---|---|---|
| `TrackingInvariant` | | `Spec => []TrackInv` |
| `DrawSeesStateHolds` | | `Spec => []DrawSeesState` |
| `MapsAccountedHolds` | | `Spec => []MapsAccounted` |
| `SetsNotRewrittenHolds` | | `Spec => SetsNotRewritten` |
| `DrawSeesPipelineHolds` | `PipelineHashCovers` | `Spec => []DrawSeesPipeline` |
| `DrawSeesBindingsHolds` | `SetHashCovers` | `Spec => []DrawSeesBindings` |
| `CommandInvariant` | both | `Spec => []CommandInv` |

Assumptions: `ValueAssumption` says that `None` is not a program, a pass or a hash and that the
layouts and passes name slots and cookies of the model, `ClientAssumption` that clients set fields
to values of their type, `FrameAssumption` that there are no more frame contexts than rings,
without which `SetsNotRewritten` is false. The hypotheses name what the hashes leave out.
`PipelineHashCovers`: the client does not set the write mask
other than by presets, and no blend factor is one minus the constant. `SetHashCovers`: no program has a
sampler apart from its image, or an array of uniform buffers. Each is needed: with
such a setting or slot added to `MCCommandBuffer`, TLC violates the property, while
`TrackInv` still holds. The instances of `commandBuffer` satisfy both.

A draw skips the command for whatever is not dirty, so the properties say nothing until one
knows what a bit that is not set means. `TrackInv` says that, between draws as well:

- `Tracked`: what is not dirty is what the recorded commands have bound (the pipeline that is remembered, if its
  hash need not be taken anew; push constants; the dynamic states of that pipeline; vertex and index buffers);
- `SetsTracked`: a set that is not dirty was flushed in this frame, has the hash of what the
  array holds, and is bound;
- `Contexts`: a command buffer that does not record, or whose subpass is recorded elsewhere, remembers
  nothing, so that of all that share the arrays and maps at most one can be misled by a change;
- `Flushed`: a draw leaves nothing dirty that it uses;
- `Stored`: a setter that returns early keeps what matters of what was asked;
- `MapInv`, for each map: vacant list and rings share out the sets, and the map and
  the hashes of the sets in rings are inverse;
- `UsedKept`: a set that the commands of a frame context use is in a ring of an age no greater than
  that of the context (`RingAge`, `FrameAge`), counting the `begin` that a map still owes.

The setters all keep `Tracked` because they mark what they change (`Marked`, proved once, then a lemma for
each setter). For a flush the operators of the hash map are first taken apart, without the command
buffer: `Kept` says that a set whose age is below `RingSize` stays in a ring, grows no older and is not
written, and holds of `begin_frame`, `request`, `request_vacant` and a new pool one after another.
`FrameAge` is below `Frames <= RingSize`, which gives `SetsNotRewritten`. `PipelinesKeyed` and `SetsKeyed`
say that what is found by hash was built, or written, from the same; the hypotheses are used
there alone.

The first part of `RenderPassCache_proofs` is about the operators of `HashMap`, for any initial size and probe count, any list and any
ring. `MapInv` says that the slots keep exactly the listed hashes, each once and where its probes
find it; `Unbroken` that no vacant slot comes before a hash, which an erasure
destroys; `CacheInv` that the rings share the live objects out.

| Theorem | Statement |
|---|---|
| `FoundIsListed` | with `MapInv`, a look-up finds what is listed and nothing else |
| `InsertYieldIs` | `insert_yield` keeps `MapInv` and `Unbroken` and adds one hash. `Unbroken` is needed: it stops at the first vacant slot, so after an erasure it could insert a hash twice; the map of passes is never erased from |
| `InsertReplaceIs` | `insert_replace` of an absent hash keeps `MapInv`, without `Unbroken` |
| `ErasedAllIs` | erasing a ring takes out what it lists |
| `NextFrameIs` | `begin_frame` keeps `CacheInv`, and what stays is what it was |

Growing a table reinserts a whole list, and a frame erases a whole ring. Both are folds, which the
lemmas `ReinsertedChain` and `ErasedChain` unfold into the chain of their steps; what holds
of every step holds of the chain, since there would be a least step at which it fails
(`Least`). So this is induction over data, by a lemma for each fold. That a growth ends (`Roomy` chooses a number
of doublings that must exist) follows from `HashValues`: the largest table has a slot for each
hash of its own (`LargestFits`, `OwnSlot`). In the code a hash has 64 bits and
growth ends as memory does.

The rest of `RenderPassCache_proofs` proves, for any threads, infos, workloads, tables, hashes and ring size:

| Theorem | Hypothesis | Statement |
|---|---|---|
| `LockExcludes` | | any behaviour whose steps are operations of `RWSpinLock` or leave its variables alone satisfies `[]MutualExclusion` |
| `CacheUsesLock` | | the behaviours of `RenderPassCache` are such behaviours |
| `CacheExcludes` | | `Spec => []MutualExclusion` |
| `RequestInvariant` | | `Spec => []RequestInv` |
| `TypesHold`, `MapsSoundHolds` | | `Spec => []TypeOK`, `[]MapsSound` |
| `AttachmentsKeptHolds` | | `Spec => []AttachmentsKept` |
| `PassFitsHolds` | `SamplesTold` | `Spec => []PassFits` |
| `PassSynchronisedHolds` | all infos are `Orderable` | `Spec => []PassSynchronised` |

The lock invariant equates the counter with its holders: twice the readers, those that are
about to back off included, plus one for a writer. Mutual exclusion alone is not inductive, because the
counter that a thread tests says nothing of who raised it.

`RequestInv` adds to it what the tables and the threads' progress have to do with each other:

- `HashersSound`: a hash stands for one input (`Stands`) and an input has one hash;
- `PassesKeyed`, `FramebuffersKeyed`, `AttachmentsKeyed`: the tables satisfy `MapInv` and `CacheInv`, and what
  is under a hash was made from the input that the hash stands for, so the loser of a
  race for a pass finds the pass it would have built;
- `StepOrdered`: who holds the lock has a look-up to do, and who writes has missed;
- `GotWhatItAsked`, `ViewsLive`: what a thread was given stands for its info, and is still there. Frames
  free objects only when no thread is in a render pass (`NoCommandBuffers`), so it is
  there until `EndRenderPass`.

None of the invariants above is inductive without the others: that a found pass fits needs what its hash
stands for, which needs that the map finds it, which needs the lock. Assumptions: those the constants name, and
the bound in `Remember`, a request being possible only while there are hashes to give.

The rest is about one pass, for any number of attachments and subpasses. `WalkIs` says what the
loop of the constructor over the subpasses knows after each round (`WalkedTo`); `WalkOfInfo` says it of an info, `BuildKeeps` and
`BuildSynchronises` of the pass that is built. The thread that records may use a pass
that was built from another info, which agrees in what is hashed (`FieldsTell`); `KeptAgrees`, `SynchronisedAgrees`
and `SamePass` carry the result over. Hypotheses:

- `SamplesTold`: attachments that no hashed field tells apart have the same sample count.
- `Orderable`: a subpass that another follows writes a colour or depth attachment; one that reads an input
  attachment also writes or tests one of those it reads; none is resolved to and read in one
  subpass; only swapchain images come in the layout of the present engine.

All 2983 infos that `renderPassCache` lets a thread begin satisfy both. Each clause is needed: with two infos that
differ in sample counts, a middle subpass that only tests depth, a
resolve attachment that is read, or a plain attachment in the present layout, TLC violates the property, and
`inputDependency` is the remaining clause.

`ResourceUpload_proofs` proves, for any number of families and queues, any resource and any number of levels:

| Theorem | Hypothesis | Statement |
|---|---|---|
| `QueuesCreatedUnless` | a graphics family is found | every queue that is asked for was created, if and only if not `FirstServesBoth` |
| `UploadAssertionsHold` | `Served`, `Waitable` | `Spec => []AssertionsHold` |
| `AccessesSoundHolds` | every case is `Handled` | `Spec => []AccessesSound` |

- `Served`: `CreateDevice` finds a graphics family (otherwise it fails), and not `FirstServesBoth`:
  where family 0 serves compute and transfers and has more than one queue, the second
  is used but not created (see the findings). The first theorem says that this is the only exception.
- `Waitable`: the usage of a resource has stages, and where an owner's queue is not the one that prepares the
  resource, one of them is a stage which that queue is made to wait at. Without it `stages` is empty
  (see the findings).

- `Handled` is what the findings leave: a resource with stages and, where several queues share it, queues that are
  all made to wait for what prepares it. It also bounds the cases of the run. A case that fails just one clause about
  sharing makes TLC violate `AccessesSound`, but for the clause that a wait has a stage, which only `AssertionsHold` needs.

All the cases of the run satisfy all three. The invariant of `UploadAssertionsHold` says that the waits still to be
added have stages, which `Step` keeps because it takes calls away from the front; the work is that each branch of
`Create` builds such a script.

`AccessesSoundHolds` goes by way of a *plan*: the commands of a first queue, if any, the wait of the second for them,
its commands, the types that wait for these, and the states the resource goes through. A plan is good (`Plan`) if each
command has to follow the one before, by a barrier on its queue or the wait between the two, if each finds the state that the
one before leaves, and if each use by the application has to follow the last or waits for it.

1. `CreatePlanned`: every branch of `CreateBuffer` and `CreateImage` carries out a plan. Here
   the barriers and ownership transfers are looked at, and mipmaps for any number of levels: after `k` commands of
   `GenerateMipmap` the first `k \div 2` levels and the one they came from are sources.
2. `OngoingNext`: the invariant `KeepsToPlan` says how far the calls have got (`Opening`, `Copied`, `Waiting`, `Pending`
   or `Landed`: what is in the queues, what is pending, what is waited for), that the GPU kept to the order of each queue
   and to the semaphores (`Closed`), and that it executed the commands up to some one of them, which left the
   resource as planned (`Progress`). It is needed because `AccessesSound` speaks of what is ready and not of
   why nothing before it is left. Another thread that flushes between two calls, which consumes
   a wait early or sends the transfers first, moves from one phase to another.
3. `OngoingSound`: what is ready is then the next command, a use after the last, a wait or a signal, and it is sound.

Only model-checked: the liveness properties. Liveness under fairness and `ENABLED` are out of TLAPS's reach. Library theorems that
take an operator (`NatInduction` and the like) cannot be used, hence the least-step argument above. The modules
have no `RECURSIVE` operators.

## Findings

- `lostTimeline`: `ClearWaitSemaphores` destroys what pending waits consume. With
  timeline semaphores that is the semaphore of a queue. `EndFrameNolock` can leave a
  wait pending, because ending the compute queue slips in copies that make the
  graphics queue, already ended, wait. So: dispatch with uniform data, `WaitIdle`,
  `NextFrameContext` waits for a destroyed semaphore (contrast `device.cpp:484`).
- `taskGraphRace`: a dependency flushed before its dependee may complete while the
  dependee is being flushed. Both threads see `dependency_count == 0` and
  move the dependee's tasks, which then run twice, and `assert(old_tasks > 0)`
  (`thread_group.cpp:41`) fails.
- `staleSampler`: `SetSampler` writes `secondary_cookie`, `FindDescriptorSet` hashes
  `cookie` for a separate sampler, so the set with the old sampler is found again.
- `inputDependency`: a subpass that only reads an input attachment is not
  ordered after the subpass that wrote it, because the flag the dependency is built from is
  not set on that branch. `renderPassCache` keeps to passes where another attachment's use sets it.

Seen while modelling, and kept out of the passing runs by their constants or by the
clients above. Each was shown by TLC with the constant changed unless it says "read".

- Uniform copies: where graphics and compute have two `VkQueue`s of one family, `GetPhysicalQueueType` sends async
  graphics work to the compute queue, which waits for a copy of uniform data at compute, transfer and indirect
  stages only (`device_submission.cpp:496`, `:540`). Its vertex and fragment shaders may read the block before it is
  filled, although "smeaphores will take care of it" (`:533`): with `Cmds = {c1}`, `Work <- AsyncDraw` and
  `FamilyOf <- OneFamily` in `DeviceTimeline.cfg` TLC violates `UploadBeforeUse`. The run `legacy` has no family with
  several queues, `timeline` no async graphics work.
- Vertex copies: where one family has several `VkQueue`s, async graphics work runs on the compute queue, but of
  that queue a copy of vertex or index blocks asks nothing: with a third queue for copies only graphics waits
  (`device_submission.cpp:545`), and where copies share the compute queue the barrier's stages are masked to none.
  The draw may read the block before it is filled: with one command buffer of async graphics work with a vertex block on
  one family of two or three queues TLC violates `UploadBeforeUse`. With three and without timeline semaphores
  the frame may also be taken to be over before the copy is: TLC violates `SyncInv` and `FrameIsOver`.
- Task graph: `wait_idle` may return while tasks are outstanding, because it may load
  `total_tasks` before a task moves its dependees and `completed_tasks` after that task
  was counted. `StopDrains` shows that `stop`, its user in the repository, is not harmed.
- Frames: `InitFrameContexts` with fewer contexts does not reset `frame_context_index`, which
  `Frame()` asserts to be in range (`device.hpp:513`).
- WSI: a suboptimal acquire recycles a semaphore the engine signals (`"suboptimal"` in
  `AcquireResults` violates `SemaphoresTruthful`). A `vkGetSwapchainImagesKHR` that keeps
  failing leaves a swapchain without images behind (`"query"` in `InitResults` violates
  `AssertionsHold`). `DrainSwapchain` resets the frame's semaphores before `WaitIdle`
  submits commands recorded against it, and `BlockingInitSwapchain` has no way out
  without a surface (read).
- Uploads (`Handled` of `ResourceUpload` leaves them out). A shared buffer used on the `VkQueue` that
  filled it: its barrier has no destination stage (`device_resources.cpp:241`) and
  `SubmitVisible` adds no semaphore. Indirect arguments of a compute queue: the wait is
  masked to compute and transfer (`device_submission.cpp:476`, unlike `:496`). A
  shared image prepared on the graphics queue when compute shares that `VkQueue`: the
  transition waits in another list. A shared image with no owner in the graphics
  family. A sampled image whose owners include a transfer queue: the mask is
  empty and `VK_ASSERT(stages != 0)` fails. A GPU whose family 0 serves compute and transfer:
  the second queue is used but `context.cpp:669` asks for one.
  `BarrierPrepareGenerateMipmap` asserts more than one level, which a 1x1 image with mipmaps
  has not (read).
- Pipelines: the write mask (a sixth word behind `words[5]`, `command_buffer.hpp:122`) and the
  blend constant of `ONE_MINUS_CONSTANT_*` factors (`command_buffer.cpp:1070`) are not hashed.
  `SetStencilReference` calls itself (`command_buffer.hpp:732`). The loser of a race in `AddPipeline` leaks its pipeline
  (`shader.cpp:421`) (read).
- Render passes: sample counts are not hashed (`device.cpp:691`); a middle subpass that writes nothing
  gives the next dependency an empty source stage mask (`render_pass.cpp:712-722`); an attachment that is resolved to and read
  in one subpass is put in `GENERAL` but gets no self-dependency (`render_pass.cpp:443-465`). A
  first use as an input replaces the client's initial layout (read).
- Pools: `IntrusiveObjectPool` gives a new object a freed index but appends it to its list, so the
  list keeps a dangling pointer (`intrusive_object_pool.hpp:54`) (read).

## Not modelled

WSI timing (arithmetic on driver timestamps), intrusive pointers and object pools (sequential),
formats and helpers (tables), third-party code (vendored), external frames, multiview,
SPIR-V reflection, image views and samplers, the copy and query commands of
`CommandBuffer` that touch no tracked state, and a lost device, for which
the code has no path. Functions that plainly lack a lock (`fence.cpp:55`,
`device.cpp:582`, `shader.cpp:445`) are listed as hazards: a model would restate
that the lock is missing.

## Plan

Done: submission, frames and deletion, the task graph, command buffer state, WSI, the caches and the spin
lock and uploads, each with proofs. What is left, most valuable first:

1. Secondary command buffers and programs with their deferred deletion.
2. Mip and block size arithmetic against reference definitions.
