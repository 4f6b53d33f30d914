--------------------------------- MODULE WSI ---------------------------------
(***************************************************************************)
(* The presentation loop (src/quantumvk/vulkan/wsi/wsi.cpp) together with  *)
(* the part of Device that keeps the acquire and release semaphores of the *)
(* frame (device.cpp, SubmitQueue of device_submission.cpp), the frame     *)
(* contexts that recycle semaphores, and, as the environment, the queue    *)
(* and the presentation engine.                                            *)
(*                                                                         *)
(* One thread calls the WSI.  Its waits (the fence of a frame context,     *)
(* vkDeviceWaitIdle, vkAcquireNextImageKHR, the retry loop of              *)
(* BlockingInitSwapchain) are the points where the GPU interleaves, so     *)
(* each of them is a value of `pc'; `caller' says which function waits.    *)
(***************************************************************************)
EXTENDS Integers, Sequences, FiniteSets

CONSTANTS
    Handles,          \* the VkSemaphore handles the driver can give out
    None,             \* the null handle, the empty Semaphore
    Frames,           \* number of frame contexts
    Images,           \* the images of a swapchain
    MaxCommands,      \* bound: command buffers recorded between two flushes
    MaxBatches,       \* bound: the client flushes while the queue is shorter
    AcquireResults,   \* what vkAcquireNextImageKHR may return
    InitResults       \* what one InitSwapchain may come to

ASSUME WSIAssumption ==
    /\ Frames \in Nat \ {0}
    /\ MaxCommands \in Nat /\ MaxBatches \in Nat
    /\ None \notin Handles \cup [sem : Handles, signalled : BOOLEAN]
    /\ Images # {}
    /\ AcquireResults \subseteq {"success", "suboptimal", "outOfDate", "error"}
    /\ InitResults \subseteq {"none", "early", "noSurface", "create", "query"}

VARIABLES
    pc,                    \* where the calling thread is
    caller,                \* on whose behalf the swapchain is torn down or made
    surface,               \* surface != VK_NULL_HANDLE
    swapchain,             \* swapchain != VK_NULL_HANDLE
    has_acquired,          \* has_acquired_swapchain_index
    swapchain_index,
    release_semaphores,    \* image -> the Semaphore its last present waited for
    local,                 \* `acquire' of BeginFrame or `release' of EndFrame
    retries,               \* retry_counter of BlockingInitSwapchain
    settings,              \* the wanted and the current mode (or sRGB) setting
    expensive,             \* workarounds.wsi_acquire_barrier_is_expensive
    wsi,                   \* Device::wsi
    frame,                 \* frame_context_index
    recycled, destroyed,   \* the semaphore lists of each PerFrame
    vacant,                \* SemaphoreManager::semaphores
    created,               \* the handles vkCreateSemaphore has made
    pending,               \* recorded command buffers: do they use the swapchain
    queue,                 \* batches the GPU has still to execute
    presents,              \* presents whose semaphore wait is outstanding
    signals,               \* handles whose payload is signalled
    acquiring,             \* handles the presentation engine will signal
    image                  \* what each image of the swapchain is doing

wsiVars == <<surface, swapchain, has_acquired, swapchain_index,
             release_semaphores, retries, settings>>
frameVars == <<frame, recycled, destroyed, vacant, created>>
gpuVars == <<queue, presents, signals, acquiring, image>>
vars == <<pc, caller, wsiVars, local, expensive, wsi, frameVars, pending, gpuVars>>

-----------------------------------------------------------------------------
(* Semaphore objects: a handle and the flag that says it has a signal that *)
(* nobody waits for yet.                                                   *)

Object == [sem : Handles, signalled : BOOLEAN]
Slot == Object \cup {None}

\* Dropping the last reference puts the handle on a list of the current frame:
\* to be destroyed when its signal was never waited for, else to be reused.
Dropped(slots, flag) ==
    {o.sem : o \in {x \in slots \ {None} : x.signalled = flag}}

Drop(slots) ==
    /\ recycled' = [recycled EXCEPT ![frame] = @ \cup Dropped(slots, FALSE)]
    /\ destroyed' = [destroyed EXCEPT ![frame] = @ \cup Dropped(slots, TRUE)]

\* SemaphoreManager::RequestClearedSemaphore: a vacant handle, or a new one.
Cleared == IF vacant # {} THEN vacant ELSE Handles \ created

Take(taken) == /\ vacant' = vacant \ taken
               /\ created' = created \cup taken

\* The objects in release_semaphores, which is empty or has one per image.
Held == {release_semaphores[i] : i \in DOMAIN release_semaphores}

NoImage == [state |-> "gone", sem |-> None]
Free    == [state |-> "engine", sem |-> None]

\* SetAcquireSemaphore.  The slip: the marks of the last frame stay.
BugReset(acquire) == [wsi EXCEPT !.acquire = acquire]

Reset(acquire) ==
    [acquire |-> acquire, release |-> wsi.release, touched |-> FALSE, consumed |-> FALSE]

FrameIds == 0..(Frames - 1)
BatchType == [waits : SUBSET Handles, signals : SUBSET Handles,
              draws : SUBSET Images, frame : FrameIds]
PresentType == [sem : Handles, image : Images]
ImageType == [state : {"gone", "engine", "acquired", "presenting"}, sem : Handles \cup {None}]

TypeOK ==
    /\ pc \in {"ready", "begin", "acquire", "frame", "present",
               "update", "updating", "teardown", "tearing", "init"}
    /\ caller \in {"nobody", "begin", "acquire", "update", "present", "deinit"}
    /\ surface \in BOOLEAN /\ swapchain \in BOOLEAN /\ has_acquired \in BOOLEAN
    /\ swapchain_index \in Images
    /\ release_semaphores = <<>> \/ release_semaphores \in [Images -> Slot]
    /\ local \in Slot
    /\ retries \in 0..3
    /\ settings \in [wanted : BOOLEAN, current : BOOLEAN]
    /\ expensive \in BOOLEAN
    /\ wsi \in [acquire : Slot, release : Slot, touched : BOOLEAN, consumed : BOOLEAN]
    /\ frame \in FrameIds
    /\ recycled \in [FrameIds -> SUBSET Handles]
    /\ destroyed \in [FrameIds -> SUBSET Handles]
    /\ vacant \subseteq created /\ created \subseteq Handles
    /\ pending \in Seq(BOOLEAN) /\ Len(pending) <= MaxCommands
    /\ queue \in Seq(BatchType)
    /\ presents \subseteq PresentType
    /\ signals \subseteq Handles /\ acquiring \subseteq Handles
    /\ image \in [Images -> ImageType]

\* After WSI::Init: a surface, a swapchain the device knows, nothing acquired.
Init ==
    /\ pc = "ready" /\ caller = "nobody"
    /\ surface = TRUE /\ swapchain = TRUE /\ has_acquired = FALSE
    /\ swapchain_index = CHOOSE i \in Images : TRUE
    /\ release_semaphores = [i \in Images |-> None]
    /\ local = None /\ retries = 0
    /\ settings = [wanted |-> TRUE, current |-> TRUE]
    /\ expensive \in BOOLEAN
    /\ wsi = [acquire |-> None, release |-> None, touched |-> FALSE, consumed |-> FALSE]
    /\ frame = 0
    /\ recycled = [f \in FrameIds |-> {}]
    /\ destroyed = recycled
    /\ vacant = {} /\ created = {}
    /\ pending = <<>> /\ queue = <<>>
    /\ presents = {} /\ signals = {} /\ acquiring = {}
    /\ image = [i \in Images |-> Free]

-----------------------------------------------------------------------------
(***************************************************************************)
(* SubmitQueue on the pending command buffers.  The first one that uses    *)
(* the swapchain starts the batch that waits for the acquire semaphore;    *)
(* the commands before it make a batch of their own, which does not wait.  *)
(* The last batch signals a fresh release semaphore.                       *)
(***************************************************************************)
Batch(waits, sigs, draws) ==
    [waits |-> waits, signals |-> sigs, draws |-> draws, frame |-> frame]

Touches == \E i \in DOMAIN pending : pending[i]
OpensFrame == Touches /\ ~wsi.touched /\ ~wsi.consumed

\* No command uses the swapchain, or the frame's semaphores are used already.
SubmitPlain ==
    /\ ~OpensFrame
    /\ queue' = IF pending = <<>> THEN queue
                ELSE Append(queue, Batch({}, {}, IF Touches THEN {swapchain_index} ELSE {}))
    /\ UNCHANGED <<wsi, recycled, vacant, created>>

\* A plausible slip: the batch boundary is forgotten, and the waits of the queue
\* go to the first batch only.
BugSubmitTouching ==
    /\ OpensFrame
    /\ \E release \in Cleared :
         LET waits == Dropped({wsi.acquire}, TRUE)
             early == IF pending[1] THEN <<>> ELSE <<Batch({}, {}, {swapchain_index})>>
         IN /\ queue' = queue \o early \o <<Batch(waits, {release}, {swapchain_index})>>
            /\ recycled' = [recycled EXCEPT ![frame] = @ \cup waits]
            /\ wsi' = [wsi EXCEPT !.acquire = None, !.touched = TRUE, !.consumed = TRUE,
                                  !.release = [sem |-> release, signalled |-> TRUE]]
            /\ Take({release})

SubmitTouching ==
    /\ OpensFrame
    /\ \E release \in Cleared :
         LET waits == Dropped({wsi.acquire}, TRUE)
             early == IF pending[1] THEN <<>> ELSE <<Batch({}, {}, {})>>
         IN /\ queue' = queue \o early \o <<Batch(waits, {release}, {swapchain_index})>>
            /\ recycled' = [recycled EXCEPT ![frame] = @ \cup waits]
            /\ wsi' = [wsi EXCEPT !.acquire = None, !.touched = TRUE, !.consumed = TRUE,
                                  !.release = [sem |-> release, signalled |-> TRUE]]
            /\ Take({release})

EndFrameNolock == pending' = <<>> /\ (SubmitPlain \/ SubmitTouching)

-----------------------------------------------------------------------------
(* The client between the calls of the WSI.  It uses the swapchain only    *)
(* until a submission has opened the frame (README, "Clients").            *)

Record(uses) ==
    /\ pc \in {"ready", "frame"}
    /\ Len(pending) < MaxCommands
    /\ uses => pc = "frame" /\ has_acquired /\ ~wsi.touched
    /\ pending' = Append(pending, uses)
    /\ UNCHANGED <<pc, caller, wsiVars, local, expensive, wsi, frameVars, gpuVars>>

FlushFrame ==
    /\ pc \in {"ready", "frame"} /\ pending # <<>> /\ Len(queue) < MaxBatches
    /\ EndFrameNolock
    /\ UNCHANGED <<pc, caller, wsiVars, local, expensive, frame, destroyed,
                   presents, signals, acquiring, image>>

\* SetPresentMode, SetBackbufferSrgb: applied at once unless an image is held.
SetPresentMode(mode) ==
    /\ pc \in {"ready", "frame"}
    /\ IF ~has_acquired /\ mode # settings.current
       THEN /\ settings' = [wanted |-> mode, current |-> mode]
            /\ pc' = "update" /\ caller' = "update"
       ELSE /\ settings' = [settings EXCEPT !.wanted = mode]
            /\ UNCHANGED <<pc, caller>>
    /\ UNCHANGED <<surface, swapchain, has_acquired, swapchain_index, release_semaphores,
                   retries, local, expensive, wsi, frameVars, pending, gpuVars>>

DeinitSurfaceAndSwapchain ==
    /\ pc = "ready" /\ surface
    /\ pc' = "teardown" /\ caller' = "deinit"
    /\ UNCHANGED <<wsiVars, local, expensive, wsi, frameVars, pending, gpuVars>>

InitSurfaceAndSwapchain ==
    /\ pc = "ready" /\ ~surface
    /\ surface' = TRUE
    /\ pc' = "update" /\ caller' = "update"
    /\ UNCHANGED <<swapchain, has_acquired, swapchain_index, release_semaphores, retries,
                   settings, local, expensive, wsi, frameVars, pending, gpuVars>>

-----------------------------------------------------------------------------
(* BeginFrame.                                                             *)

\* NextFrameContext up to the wait in PerFrame::Begin.
BeginFrame ==
    /\ pc = "ready"
    /\ EndFrameNolock
    /\ frame' = (frame + 1) % Frames
    /\ pc' = "begin"
    /\ UNCHANGED <<caller, wsiVars, local, expensive, destroyed,
                   presents, signals, acquiring, image>>

\* PerFrame::Begin of the frames fs: their semaphores are destroyed or reused.
Begin(fs) ==
    LET gone == UNION {destroyed[f] : f \in fs}
    IN /\ vacant' = vacant \cup UNION {recycled[f] : f \in fs}
       /\ created' = created \ gone
       /\ signals' = signals \ gone
       /\ acquiring' = acquiring \ gone

FrameBegins ==
    /\ pc = "begin"
    /\ \A k \in DOMAIN queue : queue[k].frame # frame
    /\ Begin({frame})
    /\ recycled' = [recycled EXCEPT ![frame] = {}]
    /\ destroyed' = [destroyed EXCEPT ![frame] = {}]
    /\ \E resize \in BOOLEAN :
         IF ~swapchain \/ resize
         THEN pc' = "update" /\ caller' = "begin"
         ELSE pc' = (IF has_acquired THEN "frame" ELSE "acquire") /\ UNCHANGED caller
    /\ UNCHANGED <<wsiVars, local, expensive, wsi, frame, pending, queue, presents, image>>

\* vkAcquireNextImageKHR succeeds: SignalExternal, then SetAcquireSemaphore with
\* the handle itself, or, where the workaround applies, with the semaphore of a
\* submission that waits for it.
AcquireSucceeds ==
    /\ pc = "acquire" /\ "success" \in AcquireResults
    /\ \E i \in Images, s \in Cleared :
         /\ image[i].state = "engine"
         /\ image' = [image EXCEPT ![i] = [state |-> "acquired", sem |-> s]]
         /\ acquiring' = acquiring \cup {s}
         /\ swapchain_index' = i
         /\ destroyed' = [destroyed EXCEPT ![frame] = @ \cup Dropped({wsi.acquire}, TRUE)]
         /\ IF expensive
            THEN \E t \in (IF vacant \ {s} # {} THEN vacant ELSE Handles \ created) \ {s} :
                   /\ queue' = Append(queue, Batch({s}, {t}, {i}))
                   /\ recycled' = [recycled EXCEPT ![frame] = @ \cup {s}]
                   /\ wsi' = Reset([sem |-> t, signalled |-> TRUE])
                   /\ Take({s, t})
            ELSE /\ wsi' = Reset([sem |-> s, signalled |-> TRUE])
                 /\ Take({s})
                 /\ UNCHANGED <<queue, recycled>>
    /\ has_acquired' = TRUE /\ pc' = "frame"
    /\ UNCHANGED <<caller, surface, swapchain, release_semaphores, retries, settings, local,
                   expensive, frame, pending, presents, signals>>

\* The swapchain is out of date or suboptimal.  In the second case the call has
\* succeeded and the semaphore will be signalled, which its object is not told.
AcquireRejected ==
    /\ pc = "acquire"
    /\ \E s \in Cleared :
         /\ Take({s})
         /\ local' = [sem |-> s, signalled |-> FALSE]
         /\ \/ /\ "outOfDate" \in AcquireResults
               /\ UNCHANGED <<acquiring, image>>
            \/ /\ "suboptimal" \in AcquireResults
               /\ acquiring' = acquiring \cup {s}
               /\ \E i \in Images :
                    /\ image[i].state = "engine"
                    /\ image' = [image EXCEPT ![i] = [state |-> "acquired", sem |-> s]]
    /\ retries' = 0
    /\ pc' = "teardown" /\ caller' = "acquire"
    /\ UNCHANGED <<surface, swapchain, has_acquired, swapchain_index, release_semaphores,
                   settings, expensive, wsi, frame, recycled, destroyed, pending, queue,
                   presents, signals>>

AcquireFails ==
    /\ pc = "acquire" /\ "error" \in AcquireResults
    /\ \E s \in Cleared :
         /\ Take({s})
         /\ recycled' = [recycled EXCEPT ![frame] = @ \cup {s}]
    /\ pc' = "ready"
    /\ UNCHANGED <<caller, wsiVars, local, expensive, wsi, frame, destroyed, pending, gpuVars>>

-----------------------------------------------------------------------------
(* EndFrame.                                                               *)

EndFrame ==
    /\ pc = "frame"
    /\ EndFrameNolock
    /\ pc' = "present"
    /\ UNCHANGED <<caller, wsiVars, local, expensive, frame, destroyed,
                   presents, signals, acquiring, image>>

\* The frame did not use the swapchain: the image stays acquired.
NothingToPresent ==
    /\ pc = "present" /\ ~wsi.touched
    /\ pc' = "ready"
    /\ UNCHANGED <<caller, wsiVars, local, expensive, wsi, frameVars, pending, gpuVars>>

Present ==
    /\ presents' = presents \cup {[sem |-> wsi.release.sem, image |-> swapchain_index]}
    /\ image' = [image EXCEPT ![swapchain_index].state = "presenting"]
    /\ wsi' = [wsi EXCEPT !.release = None]
    /\ has_acquired' = FALSE
    /\ UNCHANGED <<surface, swapchain, swapchain_index, expensive, frame, vacant, created,
                   pending, queue, signals, acquiring>>

\* A plausible slip: the release semaphore is dropped as soon as it is presented.
BugPresentSucceeds ==
    /\ pc = "present" /\ wsi.touched
    /\ Present
    /\ recycled' = [recycled EXCEPT ![frame] = @ \cup {wsi.release.sem}]
    /\ IF settings.wanted # settings.current
       THEN pc' = "update" /\ caller' = "update"
       ELSE pc' = "ready" /\ UNCHANGED caller
    /\ settings' = [settings EXCEPT !.current = settings.wanted]
    /\ UNCHANGED <<destroyed, retries, local, release_semaphores>>

\* The present waits for the release semaphore, which is kept until its image
\* is presented again; a changed mode or format then remakes the swapchain.
PresentSucceeds ==
    /\ pc = "present" /\ wsi.touched
    /\ Present
    /\ LET release == [sem |-> wsi.release.sem, signalled |-> FALSE]
       IN /\ release_semaphores' = [release_semaphores EXCEPT ![swapchain_index] = release]
          /\ Drop({release_semaphores[swapchain_index]})
          /\ IF settings.wanted # settings.current
             THEN pc' = "update" /\ caller' = "update" /\ local' = release
             ELSE pc' = "ready" /\ UNCHANGED <<caller, local>>
    /\ settings' = [settings EXCEPT !.current = settings.wanted]
    /\ UNCHANGED retries

\* vkQueuePresentKHR reports suboptimal or out of date; the wait is queued.
PresentFails ==
    /\ pc = "present" /\ wsi.touched
    /\ Present
    /\ local' = wsi.release
    /\ pc' = "teardown" /\ caller' = "present"
    /\ UNCHANGED <<release_semaphores, settings, retries, recycled, destroyed>>

-----------------------------------------------------------------------------
(* UpdateFramebuffer, TearDownSwapchain and BlockingInitSwapchain.         *)

\* DrainSwapchain up to vkDeviceWaitIdle.  An object that `local' refers to as
\* well survives release_semaphores.clear().
DrainSwapchain ==
    /\ pc \in {"update", "teardown"}
    /\ release_semaphores' = <<>>
    /\ Drop((Held \cup {wsi.acquire, wsi.release}) \ {local})
    /\ wsi' = [Reset(None) EXCEPT !.release = None]
    /\ queue' = IF pending = <<>> THEN queue ELSE Append(queue, Batch({}, {}, {}))
    /\ pending' = <<>>
    /\ pc' = IF pc = "update" THEN "updating" ELSE "tearing"
    /\ UNCHANGED <<caller, surface, swapchain, has_acquired, swapchain_index, retries, settings,
                   local, expensive, frame, vacant, created, presents, signals, acquiring, image>>

\* vkDeviceWaitIdle and the Begin of every frame.
Idle == queue = <<>> /\ presents = {}

BeginAll(dropped) ==
    /\ Begin(DOMAIN recycled)
    /\ recycled' = [f \in DOMAIN recycled |-> IF f = frame THEN Dropped(dropped, FALSE) ELSE {}]
    /\ destroyed' = [f \in DOMAIN destroyed |-> IF f = frame THEN Dropped(dropped, TRUE) ELSE {}]

Updated ==
    /\ pc = "updating" /\ Idle
    /\ BeginAll({})
    /\ pc' = "init" /\ retries' = 0
    /\ UNCHANGED <<caller, surface, swapchain, has_acquired, swapchain_index, release_semaphores,
                   settings, local, expensive, wsi, frame, pending, queue, presents, image>>

\* The swapchain is destroyed.  A failed present or DeinitSurfaceAndSwapchain
\* returns; BeginFrame and BlockingInitSwapchain go on to make a new one.
TornDown ==
    /\ pc = "tearing" /\ Idle
    /\ swapchain' = FALSE /\ has_acquired' = FALSE
    /\ image' = [i \in Images |-> NoImage]
    /\ IF caller = "present"
       THEN BeginAll({local}) /\ local' = None
       ELSE BeginAll({}) /\ UNCHANGED local
    /\ surface' = (surface /\ caller # "deinit")
    /\ IF caller \in {"present", "deinit"}
       THEN pc' = "ready" /\ caller' = "nobody"
       ELSE pc' = "init" /\ UNCHANGED caller
    /\ UNCHANGED <<swapchain_index, release_semaphores, retries, settings, expensive,
                   wsi, frame, pending, queue, presents>>

\* BlockingInitSwapchain returns to its caller: BeginFrame goes on when there is
\* a swapchain, its acquire loop only on success.
InitReturns(success) ==
    /\ pc' = IF (caller = "begin" /\ swapchain') \/ (caller = "acquire" /\ success)
             THEN "acquire" ELSE "ready"
    /\ caller' = "nobody"
    /\ Drop({local})
    /\ local' = None
    /\ retries' = 0

\* InitSwapchain and, in the caller, Device::InitSwapchain.
InitSucceeds ==
    /\ pc = "init" /\ surface /\ "none" \in InitResults
    /\ swapchain' = TRUE /\ has_acquired' = FALSE
    /\ image' = [i \in Images |-> Free]
    /\ release_semaphores' = [i \in Images |-> None]
    /\ wsi' = Reset(wsi.acquire)
    /\ InitReturns(TRUE)
    /\ UNCHANGED <<surface, swapchain_index, settings, expensive,
                   frame, vacant, created, pending, queue, presents, signals, acquiring>>

\* The retry counter.  The slip: it is compared before it is incremented.
BugRetriesLeft == retries <= 3

RetriesLeft == retries + 1 <= 3

\* InitSwapchain fails before it touches the swapchain.
FailsEarly ==
    /\ ~surface \/ "early" \in InitResults
    /\ UNCHANGED <<swapchain, has_acquired, image>>

\* vkCreateSwapchainKHR fails.
FailsToCreate ==
    /\ surface /\ "create" \in InitResults
    /\ swapchain' = FALSE /\ has_acquired' = FALSE
    /\ image' = [i \in Images |-> NoImage]

\* The images of the new swapchain cannot be had.
FailsToQuery ==
    /\ surface /\ "query" \in InitResults
    /\ swapchain' = TRUE /\ has_acquired' = FALSE
    /\ image' = [i \in Images |-> Free]

InitFails ==
    /\ pc = "init"
    /\ FailsEarly \/ FailsToCreate \/ FailsToQuery
    /\ IF RetriesLeft
       THEN /\ retries' = retries + 1
            /\ pc' = "teardown"
            /\ UNCHANGED <<caller, local, recycled, destroyed>>
       ELSE InitReturns(FALSE)
    /\ UNCHANGED <<surface, swapchain_index, release_semaphores, settings, expensive, wsi,
                   frame, vacant, created, pending, queue, presents, signals, acquiring>>

-----------------------------------------------------------------------------
(* The environment.                                                        *)

\* The queue executes its batches in order.
ExecuteBatch ==
    /\ queue # <<>>
    /\ Head(queue).waits \subseteq signals
    /\ signals' = (signals \ Head(queue).waits) \cup Head(queue).signals
    /\ image' = [i \in Images |-> IF image[i].sem \in Head(queue).waits
                                  THEN [image[i] EXCEPT !.sem = None] ELSE image[i]]
    /\ queue' = Tail(queue)
    /\ UNCHANGED <<pc, caller, wsiVars, local, expensive, wsi, frameVars, pending, presents,
                   acquiring>>

\* The presentation engine waits for the semaphore of a present, in any order
\* with respect to later batches, and takes the image back.
ExecutePresent ==
    \E p \in presents :
        /\ p.sem \in signals
        /\ signals' = signals \ {p.sem}
        /\ presents' = presents \ {p}
        /\ image' = [image EXCEPT ![p.image] = Free]
        /\ UNCHANGED <<pc, caller, wsiVars, local, expensive, wsi, frameVars, pending, queue,
                       acquiring>>

\* The engine has stopped reading an acquired image.
SignalAcquire ==
    \E s \in acquiring :
        /\ acquiring' = acquiring \ {s}
        /\ signals' = signals \cup {s}
        /\ UNCHANGED <<pc, caller, wsiVars, local, expensive, wsi, frameVars, pending, queue,
                       presents, image>>

Next ==
    \/ \E uses \in BOOLEAN : Record(uses)
    \/ FlushFrame
    \/ \E mode \in BOOLEAN : SetPresentMode(mode)
    \/ DeinitSurfaceAndSwapchain \/ InitSurfaceAndSwapchain
    \/ BeginFrame \/ FrameBegins \/ AcquireSucceeds \/ AcquireRejected \/ AcquireFails
    \/ EndFrame \/ NothingToPresent \/ PresentSucceeds \/ PresentFails
    \/ DrainSwapchain \/ Updated \/ TornDown \/ InitSucceeds \/ InitFails
    \/ ExecuteBatch \/ ExecutePresent \/ SignalAcquire

Spec == Init /\ [][Next]_vars

-----------------------------------------------------------------------------
(* Properties.                                                             *)

\* The signals a handle holds or is promised, and the waits queued for it.
Signals(s) == {<<"payload">> : x \in {s} \cap signals} \cup {<<"engine">> : x \in {s} \cap acquiring}
                \cup {<<"batch", k>> : k \in {k \in DOMAIN queue : s \in queue[k].signals}}
Waits(s) == {<<"batch", k>> : k \in {k \in DOMAIN queue : s \in queue[k].waits}}
              \cup {<<"present", p>> : p \in {p \in presents : p.sem = s}}

Unmatched(s) == Signals(s) # {} /\ Waits(s) = {}

(***************************************************************************)
(* The semaphore objects tell the truth about their handles: every wait    *)
(* that is queued has its one signal, the acquire and release semaphores   *)
(* of the frame have a signal that nobody waits for yet, an object that    *)
(* says it can be reused has no such signal, and a handle that             *)
(* RequestClearedSemaphore may give out, which the code then passes to     *)
(* vkAcquireNextImageKHR or signals in a batch, is unused.                 *)
(***************************************************************************)
SemaphoresTruthful ==
    /\ \A s \in Handles : /\ Cardinality(Waits(s)) <= Cardinality(Signals(s))
                          /\ Cardinality(Signals(s)) <= 1
    /\ \A o \in {wsi.acquire, wsi.release} \ {None} : Unmatched(o.sem)
    /\ \A s \in Dropped(Held \cup {local}, FALSE) :
         ~Unmatched(s)
    /\ \A s \in vacant \cup (Handles \ created) : Signals(s) = {}

(***************************************************************************)
(* A batch draws into a swapchain image only while the application owns    *)
(* it: the image is acquired, the batch or an earlier one waits for the    *)
(* acquire semaphore, and a present of the image waits for a semaphore     *)
(* that this batch or a later one signals.                                 *)
(***************************************************************************)
ImagesOwned ==
    \A k \in DOMAIN queue : \A i \in queue[k].draws :
        /\ image[i].state \in {"acquired", "presenting"}
        /\ image[i].sem # None => \E j \in 1..k : image[i].sem \in queue[j].waits
        /\ \A p \in presents : p.image = i =>
             \E j \in k..Len(queue) : p.sem \in queue[j].signals

(***************************************************************************)
(* The state EndFrame and SetAcquireSemaphore assert or rely on: a frame   *)
(* that has used the swapchain holds a signalled release semaphore when it *)
(* is presented, the image it presents is acquired and belongs to a living *)
(* swapchain, and outside a frame no recorded command uses the swapchain.  *)
(***************************************************************************)
AssertionsHold ==
    /\ wsi.acquire # None => wsi.acquire.signalled /\ has_acquired
    /\ pc = "present" /\ wsi.touched =>
         /\ wsi.release # None /\ wsi.release.signalled
         /\ swapchain_index \in DOMAIN release_semaphores
         /\ has_acquired /\ swapchain /\ image[swapchain_index].state = "acquired"
    /\ pc # "frame" => ~Touches
    /\ pc \in {"frame", "acquire"} => swapchain

-----------------------------------------------------------------------------
(* The inductive invariant behind these, for a driver that answers neither *)
(* "suboptimal" nor "query" (README, "Findings").                          *)

\* Outside UpdateFramebuffer, TearDownSwapchain and BlockingInitSwapchain, and
\* in the middle of DrainSwapchain.
Running == {"ready", "begin", "acquire", "frame", "present"}
Draining == pc \in {"updating", "tearing"}

\* What the flags say of each other and of the place in the code.
Control ==
    /\ pc \in Running => local = None
    /\ local # None => caller # "deinit" /\ (local.signalled <=> caller = "present")
    /\ caller = "present" => pc \in {"teardown", "tearing"}
    /\ has_acquired => swapchain /\ image[swapchain_index].state = "acquired"
    /\ pc \in {"frame", "present"} => has_acquired
    /\ pc = "acquire" => ~has_acquired /\ swapchain
    /\ swapchain /\ pc \in Running => DOMAIN release_semaphores = Images
    /\ pc \notin Running \cup {"update", "teardown"} =>
         /\ release_semaphores = <<>> /\ pending = <<>>
         /\ wsi.acquire = None /\ wsi.release = None
    /\ pc = "init" => queue = <<>> /\ presents = {} /\ (retries > 0 => ~swapchain)

\* The semaphores of the frame: acquire until the first submission that uses the
\* swapchain, release from then on.
FrameSemaphores ==
    /\ wsi.acquire # None => has_acquired /\ ~wsi.touched /\ wsi.acquire.signalled
    /\ wsi.release # None => /\ has_acquired /\ wsi.touched /\ wsi.release.signalled
                             /\ pc \in {"frame", "present"}
    /\ has_acquired /\ pc \in Running =>
         IF wsi.touched THEN wsi.release # None ELSE wsi.acquire # None
    /\ wsi.consumed = wsi.touched
    /\ Touches => pc = "frame" /\ ~wsi.touched

\* Where a handle is kept.  `local' may be one of release_semaphores.
IsOf(o, s) == o # None /\ o.sem = s
Spots(s) ==
    {<<"vacant", 0>> : x \in {s} \cap vacant}
      \cup {<<"recycled", f>> : f \in {f \in FrameIds : s \in recycled[f]}}
      \cup {<<"destroyed", f>> : f \in {f \in FrameIds : s \in destroyed[f]}}
      \cup {<<"held", i>> : i \in {i \in DOMAIN release_semaphores : IsOf(release_semaphores[i], s)}}
      \cup {<<"acquire", 0>> : o \in {o \in {wsi.acquire} : IsOf(o, s)}}
      \cup {<<"release", 0>> : o \in {o \in {wsi.release} : IsOf(o, s)}}
      \cup {<<"local", 0>> : o \in {o \in {local} \ Held : IsOf(o, s)}}
KeptOnce(s) ==
    /\ \A x, y \in Spots(s) : x = y
    /\ Spots(s) # {} => s \in created

\* At most one signal and at most one wait.
Promised(s) == s \in signals \/ s \in acquiring \/ \E k \in DOMAIN queue : s \in queue[k].signals
Awaited(s) == (\E k \in DOMAIN queue : s \in queue[k].waits) \/ \E p \in presents : p.sem = s
SignalledOnce(s) ==
    /\ ~(s \in signals /\ s \in acquiring)
    /\ \A k \in DOMAIN queue : s \in queue[k].signals => s \notin signals /\ s \notin acquiring
    /\ \A k, l \in DOMAIN queue : s \in queue[k].signals /\ s \in queue[l].signals => k = l
AwaitedOnce(s) ==
    /\ \A k, l \in DOMAIN queue : s \in queue[k].waits /\ s \in queue[l].waits => k = l
    /\ \A p, q \in presents : p.sem = s /\ q.sem = s => p = q
    /\ \A k \in DOMAIN queue : \A p \in presents : s \in queue[k].waits => p.sem # s

\* What the place a handle is kept in says of its signal.
Balanced(s) == Awaited(s) <=> Promised(s)
Armed(s) == Promised(s) /\ ~Awaited(s)
AwaitedIn(s, f) ==
    /\ \A k \in DOMAIN queue : s \in queue[k].waits => queue[k].frame = f
    /\ \A p \in presents : p.sem # s
Meaning(s) ==
    /\ s \in vacant \/ s \notin created => ~Promised(s)
    /\ \A f \in FrameIds :
         /\ s \in recycled[f] => Balanced(s) /\ (Draining \/ AwaitedIn(s, f))
         /\ s \in destroyed[f] =>
              ~Awaited(s) /\ (Draining \/ \A k \in DOMAIN queue : s \notin queue[k].signals)
    /\ \A i \in DOMAIN release_semaphores : IsOf(release_semaphores[i], s) =>
         /\ ~release_semaphores[i].signalled /\ Balanced(s)
         /\ \A k \in DOMAIN queue : s \notin queue[k].waits
         /\ \A p \in presents : p.sem = s => p.image = i
    /\ IsOf(wsi.acquire, s) \/ IsOf(wsi.release, s) => Armed(s)
    /\ IsOf(local, s) => Balanced(s)

HandleInv(s) ==
    /\ KeptOnce(s) /\ Meaning(s)
    /\ SignalledOnce(s) /\ AwaitedOnce(s) /\ (Awaited(s) => Promised(s))

\* One present per image, and the order of a frame's batches.
Presented ==
    /\ \A p \in presents : image[p.image].state = "presenting"
    /\ \A p, q \in presents : p.image = q.image => p = q
Ordered ==
    /\ wsi.acquire # None /\ image[swapchain_index].sem \notin {None, wsi.acquire.sem} =>
         \E j \in DOMAIN queue : image[swapchain_index].sem \in queue[j].waits
    /\ wsi.release # None => \A k \in DOMAIN queue : swapchain_index \in queue[k].draws =>
         \E j \in k..Len(queue) : wsi.release.sem \in queue[j].signals

(***************************************************************************)
(* What every call of WSI and Device leaves behind: the flags agree with   *)
(* the place in the code, every semaphore handle is kept in at most one    *)
(* place, which says what signal and what wait of it are outstanding, and  *)
(* the batches of a frame are in order between acquire and present.        *)
(***************************************************************************)
WSIInv ==
    /\ TypeOK /\ Control /\ FrameSemaphores
    /\ \A s \in Handles : HandleInv(s)
    /\ Presented /\ Ordered /\ ImagesOwned
=============================================================================
