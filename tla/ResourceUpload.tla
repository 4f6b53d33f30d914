--------------------------- MODULE ResourceUpload ---------------------------
(***************************************************************************)
(* Device::CreateBuffer and Device::CreateImage with their initial data:   *)
(* the command buffers they record, the queues they submit them to and the *)
(* semaphores between the queues, up to the first uses of the resource by  *)
(* the application.  A call is the sequence of its calls of Submit and     *)
(* AddWaitSemaphore; other threads submit and end frames in between.       *)
(*                                                                         *)
(* The GPU executes what is in a VkQueue in any order that the semaphore   *)
(* waits and pipeline barriers before it allow for its pipeline stage.     *)
(***************************************************************************)
EXTENDS Integers, Sequences, SequencesExt, QueueSelection

CONSTANTS
    Cases,       \* GPUs, sequences of QueueFamilies, each with what is asked for, CreateInfo
    MaxUses      \* how often the application then uses the resource

Types == {"graphics", "compute", "transfer"}
Owners == Types \cup {"asyncGraphics"}

\* Pipeline stages; "graphics" stands for those only a graphics queue has.
Stages == {"indirect", "graphics", "compute", "transfer"}

\* sharing_mode and its owners, the possible stages of the usage, initial data.
CreateInfo ==
    [kind : {"image", "buffer"}, domain : {"device", "host"}, staged : BOOLEAN,
     mips : BOOLEAN, levels : Nat \ {0}, sharing : {"concurrent", "exclusive"},
     owners : (SUBSET Owners) \ {{}}, stages : SUBSET Stages, layout : {"undefined", "initial"}]

\* What CreateBuffer and CreateImage assert of their arguments.
ASSUME CasesAssumption ==
    \A case \in Cases : LET r == case[2] IN
        /\ r \in CreateInfo
        /\ r.sharing = "exclusive" => Cardinality(r.owners) = 1
        /\ r.kind = "image" /\ r.staged => r.layout = "initial"
        /\ r.mips => r.kind = "image" /\ r.levels > 1
        /\ r.kind = "buffer" => r.levels = 1

VARIABLES
    gpu,         \* the GPU
    queues,      \* type -> VkQueue, as a family and an index
    request,     \* the ImageCreateInfo or BufferCreateInfo
    script,      \* the calls CreateImage or CreateBuffer has yet to make
    submissions, \* type -> the commands submitted and not flushed
    waits,       \* type -> wait_semaphores and wait_stages
    vkqueue,     \* VkQueue -> what was submitted to it, in submission order
    done,        \* what the GPU has executed, as <<VkQueue, position>>
    signals,     \* the semaphores signalled
    resource,    \* layout and contents of the levels, owner
    uses         \* uses submitted by the application

vars == <<gpu, queues, request, script, submissions, waits, vkqueue, done, signals, resource, uses>>

-----------------------------------------------------------------------------
(* The device.                                                             *)

Family(type) == queues[type][1]

\* GetPhysicalQueueType, given the queues.
PhysicalOn(q, owner) ==
    CASE owner # "asyncGraphics" -> owner
      [] owner = "asyncGraphics" /\ q["graphics"][1] = q["compute"][1]
                                 /\ q["graphics"] # q["compute"] -> "compute"
      [] OTHER -> "graphics"

Physical(owner) == PhysicalOn(queues, owner)

Concurrent(r) == r.sharing = "concurrent"
Owner(r) == CHOOSE o \in r.owners : TRUE
OwnedBy(r, type) == \E o \in r.owners : Physical(o) = type

\* The queue families of a resource that several may use at once, or none.
Sharing(r) ==
    LET types == {Physical(o) : o \in r.owners}
                   \cup (IF r.staged THEN {"transfer"} ELSE {})
                   \cup (IF r.kind = "image" /\ r.mips THEN {"graphics"} ELSE {})
        families == {Family(t) : t \in types}
    IN  IF Concurrent(r) /\ Cardinality(families) > 1 THEN families ELSE {}

-----------------------------------------------------------------------------
(* What is recorded.                                                       *)

Levels(r) == 0 .. r.levels - 1

Access(stage, reads, read, writes, write) ==
    [op |-> "access", stage |-> stage, reads |-> reads, read |-> read,
     writes |-> writes, write |-> write]

\* A pipeline barrier with a layout transition, from one family to another.
Transfer(levels, old, new, src, dst, from, to) ==
    [op |-> "barrier", levels |-> levels, old |-> old, new |-> new, src |-> src, dst |-> dst,
     from |-> from, to |-> to]

\* CommandBuffer::ImageBarrier; TOP_OF_PIPE and BOTTOM_OF_PIPE are empty masks.
Barrier(levels, old, new, src, dst) == Transfer(levels, old, new, src, dst, Ignored, Ignored)

\* CopyBufferToImage of the levels that are given, CopyBuffer and FillBuffer.
CopyToImage(r) ==
    <<Barrier(Levels(r), "undefined", "transferDst", {}, {"transfer"}),
      Access("transfer", {}, "undefined", IF r.mips THEN {0} ELSE Levels(r), "transferDst")>>
CopyToBuffer == <<Access("transfer", {}, "buffer", {0}, "buffer")>>

PrepareGenerateMipmap(r) ==
    <<Barrier({0}, "transferDst", "transferSrc", {"transfer"}, {"transfer"}),
      Barrier(Levels(r) \ {0}, "undefined", "transferDst", {"transfer"}, {"transfer"})>>

\* Each level is scaled down from the one before it.
GenerateMipmap(r) ==
    [k \in 1 .. 2 * (r.levels - 1) |->
        LET i == (k + 1) \div 2 IN
        IF k % 2 = 1 THEN Access("transfer", {i - 1}, "transferSrc", {i}, "transferDst")
        ELSE Barrier({i}, "transferDst", "transferSrc", {"transfer"}, {"transfer"})]

Mipmaps(r) == IF r.mips THEN PrepareGenerateMipmap(r) \o GenerateMipmap(r) ELSE <<>>
Filled(r) == IF r.mips THEN "transferSrc" ELSE "transferDst"

-----------------------------------------------------------------------------
(* The calls of CreateBuffer and CreateImageFromStagingBuffer.             *)

\* Submit, asking for a semaphore for each of the types that are to wait;
\* AddWaitSemaphore of a type's semaphore with flush.
Submit(type, commands, semaphores) ==
    <<[call |-> "submit", type |-> type, commands |-> commands, semaphores |-> semaphores]>>
AddWait(type, stages) == <<[call |-> "wait", type |-> type, semaphore |-> type, stages |-> stages]>>

\* The stages that another queue is made to wait at.
Visible(type) ==
    CASE type = "graphics" -> Stages
      [] type = "compute"  -> {"compute", "transfer"}
      [] type = "transfer" -> {"transfer"}

\* The types of the set wait, graphics first.
AddWaits(targets, stages) ==
    LET wait(t) == IF t \in targets THEN AddWait(t, stages \cap Visible(t)) ELSE <<>>
    IN  wait("graphics") \o wait("compute") \o wait("transfer")

\* A plausible mistake: to spare the queues that are the graphics queue.
BugSubmitVisible(type, commands, stages, visible) ==
    LET targets == {t \in visible : queues[t] # queues["graphics"]}
    IN  Submit(type, commands, targets) \o AddWaits(targets, stages)

\* SubmitVisible to those of the types that use another VkQueue.
SubmitVisible(type, commands, stages, visible) ==
    LET targets == {t \in visible : queues[t] # queues[type]}
    IN  Submit(type, commands, targets) \o AddWaits(targets, stages)

\* Release the resource to the family of its owner, who waits and acquires it.
HandOver(r, type, recorded, levels, old, new) ==
    LET owner == Physical(Owner(r))
        release == Transfer(levels, old, new, {"transfer"}, {}, Family(type), Family(owner))
        acquire == [release EXCEPT !.src = r.stages, !.dst = r.stages]
    IN  Submit(type, Append(recorded, release), {owner})
          \o AddWait(owner, r.stages)
          \o Submit(owner, <<acquire>>, {})

CreateBuffer(r) ==
    LET owner == Physical(Owner(r))
        flushed == Append(CopyToBuffer, Barrier({0}, "buffer", "buffer", {"transfer"}, {}))
    IN  CASE ~r.staged -> <<>>
          [] r.staged /\ Concurrent(r) ->
               SubmitVisible("transfer", flushed, r.stages,
                             {"transfer"} \cup {t \in {"graphics", "compute"} : OwnedBy(r, t)})
          [] r.staged /\ ~Concurrent(r) /\ Family(owner) = Family("transfer") ->
               Submit("transfer", flushed, {owner}) \o AddWait(owner, r.stages)
          [] OTHER -> HandOver(r, "transfer", CopyToBuffer, {0}, "buffer", "buffer")

\* The layout of a new image, which linear tiling lets the host fill.
Untouched(r) == IF r.domain = "host" THEN "preinitialized" ELSE "undefined"

\* The last barrier, to initial_layout.
Finished(r, old, src, dst) == Barrier(Levels(r), old, r.layout, src, dst)

CreateConcurrentImage(r) ==
    LET mine == {t \in {"compute", "transfer"} : OwnedBy(r, t)}
        after == Mipmaps(r) \o <<Finished(r, Filled(r), {"transfer"}, r.stages)>>
    IN  CASE r.staged /\ ~r.mips ->
               SubmitVisible("transfer", CopyToImage(r) \o after, r.stages,
                             {"transfer"} \cup {t \in {"graphics", "compute"} : OwnedBy(r, t)})
          [] r.staged /\ r.mips /\ queues["transfer"] = queues["graphics"] ->
               SubmitVisible("transfer", CopyToImage(r) \o after, r.stages, {"graphics"} \cup mine)
          [] r.staged /\ r.mips /\ queues["transfer"] # queues["graphics"] ->
               Submit("transfer", CopyToImage(r), {"graphics"}) \o AddWait("graphics", {"transfer"})
                 \o SubmitVisible("graphics", after, r.stages, {"graphics"} \cup mine)
          [] ~r.staged /\ r.layout # "undefined" ->
               SubmitVisible("graphics", <<Finished(r, Untouched(r), {}, r.stages)>>, r.stages,
                             {"graphics"} \cup mine)
          [] OTHER -> <<>>

CreateExclusiveImage(r) ==
    LET owner == Physical(Owner(r))
        filled == CopyToImage(r) \o Mipmaps(r)
    IN  CASE r.staged /\ owner = "graphics" ->
               Submit("graphics", Append(filled, Finished(r, Filled(r), {"transfer"}, r.stages)), {})
          [] r.staged /\ owner # "graphics" /\ Family(owner) = Family("graphics") ->
               Submit("graphics", Append(filled, Finished(r, Filled(r), {"transfer"}, {})), {owner})
                 \o AddWait(owner, r.stages)
          [] r.staged /\ Family(owner) # Family("graphics") ->
               HandOver(r, "graphics", filled, Levels(r), Filled(r), r.layout)
          [] ~r.staged /\ r.layout # "undefined" ->
               Submit(owner, <<Finished(r, Untouched(r), {}, r.stages)>>, {})
          [] OTHER -> <<>>

\* Linear tiling takes neither staged data nor more than one level.
Refused(r) == r.kind = "image" /\ r.domain = "host" /\ (r.staged \/ r.levels > 1)

Create(r) ==
    CASE r.kind = "buffer" -> CreateBuffer(r)
      [] r.kind = "image" /\ Refused(r) -> <<>>
      [] r.kind = "image" /\ ~Refused(r) /\ Concurrent(r) -> CreateConcurrentImage(r)
      [] OTHER -> CreateExclusiveImage(r)

-----------------------------------------------------------------------------
(* Submission.                                                             *)

\* The types SubmitQueue submits for: transfers if some are pending, and the type itself.
Flushed(type, pending, fenced) ==
    {t \in {"transfer", type} : pending[t] # <<>> \/ (t = type /\ fenced)}

(* The waits of a type and its commands go to its VkQueue, transfers first,*)
(* then the signals.                                                       *)
Send(types, pending, type, signal) ==
    LET sent(t, q) == IF t \in types /\ queues[t] = q THEN waits[t] \o pending[t] ELSE <<>>
    IN  /\ vkqueue' = [q \in DOMAIN vkqueue |->
                         vkqueue[q] \o sent("transfer", q)
                           \o (IF type = "transfer" THEN <<>> ELSE sent(type, q))
                           \o (IF queues[type] = q THEN signal ELSE <<>>)]
        /\ submissions' = [t \in Types |-> IF t \in types THEN <<>> ELSE pending[t]]

Unsent(types, t) == IF t \in types THEN <<>> ELSE waits[t]

SubmitCommands(type, commands, semaphores) ==
    LET pending == [submissions EXCEPT ![type] = @ \o commands]
        types == IF semaphores = {} THEN {} ELSE Flushed(type, pending, TRUE)
        signal == IF semaphores = {} THEN <<>> ELSE <<[op |-> "signal", semaphores |-> semaphores]>>
    IN  /\ Send(types, pending, type, signal)
        /\ waits' = [t \in Types |-> Unsent(types, t)]

\* AddWaitSemaphore with flush.
AddWaitSemaphore(type, semaphore, stages) ==
    LET types == Flushed(type, submissions, FALSE)
        wait == [op |-> "wait", semaphore |-> semaphore, dst |-> stages]
    IN  /\ Send(types, submissions, type, <<>>)
        /\ waits' = [t \in Types |-> Unsent(types, t) \o IF t = type THEN <<wait>> ELSE <<>>]

\* The next call of CreateBuffer or CreateImage.
Step ==
    /\ script # <<>>
    /\ LET next == Head(script) IN
         \/ /\ next.call = "submit"
            /\ SubmitCommands(next.type, next.commands, next.semaphores)
         \/ /\ next.call = "wait"
            /\ AddWaitSemaphore(next.type, next.semaphore, next.stages)
    /\ script' = Tail(script)
    /\ UNCHANGED <<gpu, queues, request, done, signals, resource, uses>>

(* Another thread submits something with a fence, or ends the frame, which *)
(* submits what is pending and consumes what is waited for.                *)
SubmitOther(type) ==
    /\ submissions[type] # <<>> \/ waits[type] # <<>>
    /\ LET types == Flushed(type, submissions, TRUE) IN
         /\ Send(types, submissions, type, <<>>)
         /\ waits' = [t \in Types |-> Unsent(types, t)]
    /\ UNCHANGED <<gpu, queues, request, script, done, signals, resource, uses>>

\* The stages of the queues of a GPU that has just the one capability it needs.
Supported(type) ==
    CASE type = "graphics" -> Stages
      [] type = "compute"  -> {"indirect", "compute", "transfer"}
      [] type = "transfer" -> {"transfer"}

Usable == request.kind = "buffer" \/ (request.layout = "initial" /\ ~Refused(request))

\* The layout the application finds the resource in.
Promised == IF request.kind = "buffer" THEN "buffer" ELSE "initial"

\* The application has the handle and uses the resource as one of its owners.
Use(type) ==
    /\ script = <<>> /\ Usable /\ uses < MaxUses
    /\ OwnedBy(request, type)
    /\ \E stage \in request.stages \cap Supported(type) :
         SubmitCommands(type, <<Access(stage, Levels(request), Promised, {}, Promised)>>, {})
    /\ uses' = uses + 1
    /\ UNCHANGED <<gpu, queues, request, script, done, signals, resource>>

-----------------------------------------------------------------------------
(* The GPU.                                                                *)

Items == UNION {{q} \X (DOMAIN vkqueue[q]) : q \in DOMAIN vkqueue}
Item(x) == vkqueue[x[1]][x[2]]

\* What x has to follow among what was submitted to its queue before it.
Follows(x, y) ==
    LET late == Item(x)  early == Item(y) IN
    CASE late.op = "wait" -> FALSE
      [] late.op = "signal" -> TRUE
      [] late.op = "access" -> early.op \in {"wait", "barrier"} /\ late.stage \in early.dst
      [] late.op = "barrier" ->
           \/ early.op = "access" /\ early.stage \in late.src
           \/ early.op \in {"wait", "barrier"} /\ early.dst \cap late.src # {}

Ready(x) ==
    /\ x \notin done
    /\ Item(x).op = "wait" => Item(x).semaphore \in signals
    /\ \A i \in 1 .. x[2] - 1 : <<x[1], i>> \in done \/ ~Follows(x, <<x[1], i>>)

\* Whether commands of the family may touch the resource, which then has it.
Accessible(family) ==
    IF Sharing(request) # {} THEN family \in Sharing(request)
    ELSE resource.owner \in {Ignored, family} /\ resource.heir = Ignored

InLayout(levels, layout) == \A n \in levels : resource.layout[n] = layout

Transitioned(b) == [n \in Levels(request) |-> IF n \in b.levels THEN b.new ELSE resource.layout[n]]

\* What the command relies on: layout, contents and owner of the resource.
Sound(x) ==
    LET c == Item(x)  family == x[1][1] IN
    CASE c.op = "access" ->
           /\ Accessible(family)
           /\ InLayout(c.reads, c.read) /\ InLayout(c.writes, c.write)
           /\ request.staged => c.reads \subseteq resource.data
      [] c.op = "barrier" ->
           /\ c.old # "undefined" => InLayout(c.levels, c.old)
           /\ IF c.from # c.to /\ family = c.to
              THEN resource.owner = c.from /\ resource.heir = c.to
              ELSE Accessible(family)
      [] OTHER -> TRUE

\* What executing it does to the resource.
Effect(x) ==
    LET c == Item(x)
        owner == IF Sharing(request) = {} THEN x[1][1] ELSE Ignored
    IN  CASE c.op = "access" ->
               [resource EXCEPT !.owner = owner, !.data = @ \cup c.writes]
          [] c.op = "barrier" /\ c.from # c.to /\ x[1][1] = c.from ->
               [resource EXCEPT !.owner = owner, !.heir = c.to]
          [] c.op = "barrier" /\ ~(c.from # c.to /\ x[1][1] = c.from) ->
               [resource EXCEPT !.owner = owner, !.heir = Ignored, !.layout = Transitioned(c),
                                !.data = IF c.old = "undefined" THEN @ \ c.levels ELSE @]
          [] OTHER -> resource

Execute ==
    /\ \E x \in Items :
         /\ Ready(x)
         /\ done' = done \cup {x}
         /\ resource' = Effect(x)
         /\ signals' = IF Item(x).op = "signal" THEN signals \cup Item(x).semaphores ELSE signals
    /\ UNCHANGED <<gpu, queues, request, script, submissions, waits, vkqueue, uses>>

-----------------------------------------------------------------------------
Init ==
    /\ \E case \in Cases :
         /\ gpu = case[1] /\ request = case[2]
         /\ queues = Selected(case[1])
    /\ script = Create(request)
    /\ submissions = [t \in Types |-> <<>>] /\ waits = [t \in Types |-> <<>>]
    /\ vkqueue = [q \in Range(queues) |-> <<>>]
    /\ done = {} /\ signals = {}
    /\ LET layout == IF request.kind = "buffer" THEN "buffer" ELSE Untouched(request)
       IN  resource = [layout |-> [n \in Levels(request) |-> layout], data |-> {},
                       owner |-> Ignored, heir |-> Ignored]
    /\ uses = 0

Next == Step \/ Execute \/ \E t \in Types : SubmitOther(t) \/ Use(t)

Spec == Init /\ [][Next]_vars

-----------------------------------------------------------------------------
(* What the code gets right.                                               *)

\* Whether commands are recorded for a resource, and the type that records the last of them.
Prepared(r) == r.staged \/ (r.kind = "image" /\ r.layout # "undefined")
Preparer(q, r) ==
    IF r.staged /\ (~r.mips \/ q["transfer"] = q["graphics"]) THEN "transfer" ELSE "graphics"

(* Whether the queues that share a resource are all made to wait for what  *)
(* prepares it.  They are not if a shared buffer is used on the VkQueue    *)
(* that fills it; if the commands of an image wait in the list of graphics *)
(* for a use submitted to another list of the same VkQueue; if the owners  *)
(* of an image are all outside the family that prepares it; if one of them *)
(* has a stage that it is not made to wait at, or none.                    *)
Handled(q, r) ==
    LET types == {PhysicalOn(q, o) : o \in r.owners}
        prepares == Preparer(q, r)
        others == {t \in types : q[t] # q[prepares]}
    IN  /\ r.stages # {}
        /\ Concurrent(r) /\ Prepared(r) =>
             /\ r.kind = "buffer" => others = types
             /\ prepares = "graphics" => types = {"graphics"} \/ others # {}
             /\ r.staged \/ \E t \in types : q[t][1] = q["graphics"][1]
             /\ \A t \in others : /\ r.stages \cap Visible(t) # {}
                                  /\ r.stages \cap Supported(t) \subseteq Visible(t)

-----------------------------------------------------------------------------
(* Properties.                                                             *)

(* However the GPU overlaps the queues: when a copy, a blit, a barrier or  *)
(* a use by the application can execute, the resource is in the layout it  *)
(* names, holds the data that was passed to CreateImage or CreateBuffer if *)
(* it reads it, and belongs to its queue family.                           *)
AccessesSound == \A x \in Items : Ready(x) => Sound(x)

(* AddWaitSemaphoreNolock asserts that a wait has a stage, and every queue *)
(* that vkGetDeviceQueue is asked for was created.                         *)
AssertionsHold ==
    /\ \A i \in DOMAIN script : script[i].call = "wait" => script[i].stages # {}
    /\ \A t \in Types : queues[t][2] < Created(gpu, queues[t][1])
=============================================================================
