--------------------------- MODULE CommandBuffer ---------------------------
(***************************************************************************)
(* The state tracking of Vulkan::CommandBuffer.  A setter only stores what *)
(* it is given and marks it dirty; a draw or dispatch looks up or builds   *)
(* the pipeline, gets the descriptor sets, and records the Vulkan commands *)
(* for whatever is dirty.  gpu is what the recorded commands have bound,   *)
(* cmd is what the CommandBuffer object believes and was told.             *)
(*                                                                         *)
(* One thread records a primary command buffer and, inside a render pass,  *)
(* a secondary one.  The resource arrays and the descriptor sets belong to *)
(* the program and the thread, and survive the command buffers.            *)
(***************************************************************************)
EXTENDS DescriptorSets

CONSTANTS
  Primary, Secondary,
  Programs,
  Uses,        (* the layout of each program: [compute, attrib, push, spec, slots] *)
  Slots,       (* elements of bindings: [set, binding, index, kind]                *)
  Passes,      (* render passes, with the number of their subpasses                *)
  Attachment,  (* the cookie of the input attachment of a pass                     *)
  Cookies,     (* buffers, views and images                                        *)
  Samplers,
  Details, Offsets, Values,  (* ranges and layouts, dynamic offsets, plain values  *)
  Dynamic,     (* which of "viewport", "scissor", "bias", "stencil" are in play    *)
  Vbos,        (* vertex buffer bindings                                           *)
  Frames,      (* number of frame contexts                                         *)
  Clients,     (* what clients do: [calls, programs, passes, settings, presets],   *)
               (* calls being groups of calls                                      *)
  MaxCalls     (* bound on the setter calls between two flushes                    *)

CmdBufs == {Primary, Secondary}
Sets == {s.set : s \in Slots}
SetsOf(p) == {s.set : s \in Uses[p].slots}
SlotsIn(p, d) == {s \in Uses[p].slots : s.set = d}

(* A pipeline's key, with the program and the state that is hashed.        *)
Words == {"cleared"} \cup UNION {k.presets : k \in Clients}
Factors == {"none", "constant", "oneMinusConstant"}
ComputeHashes == [program : Programs, spec : Values \cup {None}]
GraphicsHashes ==
  [program : Programs, spec : Values \cup {None}, pass : DOMAIN Passes, subpass : Nat,
   words : Words, bias : BOOLEAN, stencil : BOOLEAN, factor : Factors,
   blend : Values \cup {None}, input : UNION {[v -> Values] : v \in SUBSET Vbos}]
Hashes == ComputeHashes \cup GraphicsHashes

(* None is a null pointer, and nothing else; fields start with 0.          *)
ASSUME ValueAssumption ==
  /\ Primary # Secondary
  /\ None \notin {Primary, Secondary} \cup Programs \cup DOMAIN Passes \cup Hashes
  /\ 0 \in Values /\ 0 \in Details /\ 0 \in Offsets /\ Vbos # {}
  /\ Dynamic \subseteq {"viewport", "scissor", "bias", "stencil"}
  /\ \A p \in Programs : Uses[p].slots \subseteq Slots
  /\ \A pass \in DOMAIN Passes : Attachment[pass] \in Cookies
ASSUME ClientAssumption ==
  \A k \in Clients :
    /\ k.programs \subseteq Programs /\ k.passes \subseteq DOMAIN Passes
    /\ k.settings \subseteq ({"bias", "stencil"} \X BOOLEAN) \cup ({"factor"} \X Factors)
                              \cup ({"mask"} \X Nat)

(* A frame must not come round again before the sets used in it expired.   *)
ASSUME FrameAssumption == Frames \in 1 .. RingSize
ASSUME CallAssumption == MaxCalls \in Nat \ {0}

VARIABLES
  client,    (* what the client does, in all that follows                    *)
  cmd,       (* the fields of the command buffers                            *)
  gpu,       (* the Vulkan state their recorded commands leave               *)
  array,     (* per program, the ResourceBindings of this thread             *)
  asked,     (* ... and what the client last gave to each slot               *)
  maps,      (* per program and set, the descriptor sets of this thread      *)
  pipelines, (* Program::pipelines of every program, a function of the hash  *)
  saved,     (* a CommandBufferSavedState of the client                      *)
  frame,     (* frame_context_index                                          *)
  used,      (* per frame context, the descriptor sets its commands use      *)
  drew,      (* the command buffer that has just drawn or dispatched         *)
  calls

vars == <<client, cmd, gpu, array, asked, maps, pipelines, saved, frame, used, drew, calls>>
objects == <<array, asked, maps, pipelines, saved, frame, used>>

-----------------------------------------------------------------------------
(* The fields of a command buffer.                                         *)

Bits == {"static", "pipeline", "vertex", "push"} \cup Dynamic

(* PipelineState: words stands for the fields that have no operator here.  *)
ClearStatic == [words |-> "cleared", bias |-> FALSE, stencil |-> FALSE, factor |-> "none", mask |-> 0]

(* SetOpaqueState, SetQuadState, SetOpaqueSpriteState and                  *)
(* SetTransparentSpriteState.                                              *)
Preset(words) == [ClearStatic EXCEPT !.words = words, !.mask = 1]

(* BeginContext: everything is to be recorded again.                       *)
BeginContext(r) ==
  [r EXCEPT !.dirty = Bits, !.dirtySets = Sets, !.dirtyVbos = Vbos,
            !.pipeline = None, !.program = None, !.index = None,
            !.vbo = [b \in Vbos |-> None]]

(* A command buffer as constructed.                                        *)
NewCommandBuffer ==
  BeginContext([open |-> TRUE, pass |-> None, subpass |-> 0, contents |-> "inline",
    program |-> None, pipeline |-> None, sets |-> [d \in Sets |-> None],
    static |-> ClearStatic, spec |-> [on |-> FALSE, value |-> 0], blend |-> 0,
    dyn |-> [g \in Dynamic |-> 0], push |-> 0,
    attrib |-> CHOOSE b \in Vbos : TRUE, stride |-> [b \in Vbos |-> 0],
    vbo |-> [b \in Vbos |-> None], index |-> None,
    dirty |-> {}, dirtySets |-> {}, dirtyDynamic |-> {}, dirtyVbos |-> {}, active |-> {}])

Closed == [NewCommandBuffer EXCEPT !.open = FALSE]

IsCompute(r) == r.pass = None
Point(r) == IF IsCompute(r) THEN "compute" ELSE "graphics"

(* Vulkan state that no command has set.                                   *)
NothingBound ==
  [pipeline |-> [p \in {"compute", "graphics"} |-> None],
   sets |-> [p \in {"compute", "graphics"} |-> [d \in Sets |-> None]],
   offsets |-> [p \in {"compute", "graphics"} |-> [s \in Slots |-> None]],
   push |-> None, dyn |-> [g \in Dynamic |-> None],
   vbo |-> [b \in Vbos |-> None], index |-> None]

-----------------------------------------------------------------------------
(* Pipelines: what they are built from and the key they are kept under.    *)

NeedsBlendConstant(factor) == factor = "constant"
UsesBlendConstant(factor) == factor \in {"constant", "oneMinusConstant"}

ActiveVbos(r) == IF Uses[r.program].attrib THEN {r.attrib} ELSE {}

SpecOf(r) == IF Uses[r.program].spec /\ r.spec.on THEN r.spec.value ELSE None

(* BuildComputePipeline and BuildGraphicsPipeline.                         *)
ComputeInputs(r) == [program |-> r.program, spec |-> SpecOf(r)]

GraphicsInputs(r) ==
  [program |-> r.program, spec |-> SpecOf(r), pass |-> r.pass, subpass |-> r.subpass,
   static |-> r.static,
   blend |-> IF UsesBlendConstant(r.static.factor) THEN r.blend ELSE None,
   input |-> [b \in ActiveVbos(r) |-> r.stride[b]]]

Inputs(r) == IF IsCompute(r) THEN ComputeInputs(r) ELSE GraphicsInputs(r)

(* UpdateHashComputePipeline and UpdateHashGraphicsPipeline: the write     *)
(* mask lies behind the words that are hashed.                             *)
ComputeHash(r) == [program |-> r.program, spec |-> SpecOf(r)]

GraphicsHash(r) ==
  [program |-> r.program, spec |-> SpecOf(r), pass |-> r.pass, subpass |-> r.subpass,
   words |-> r.static.words, bias |-> r.static.bias, stencil |-> r.static.stencil,
   factor |-> r.static.factor,
   blend |-> IF NeedsBlendConstant(r.static.factor) THEN r.blend ELSE None,
   input |-> [b \in ActiveVbos(r) |-> r.stride[b]]]

PipelineHash(r) == IF IsCompute(r) THEN ComputeHash(r) ELSE GraphicsHash(r)

(* The dynamic states of a pipeline.                                       *)
DynamicOf(static) ==
  {g \in Dynamic : (g = "bias" => static.bias) /\ (g = "stencil" => static.stencil)}

-----------------------------------------------------------------------------
(* FlushComputeState and FlushRenderState.                                 *)

PipelineBits(r) ==
  IF IsCompute(r) THEN {"static", "pipeline"} ELSE {"static", "pipeline", "vertex"}

(* The pipeline is looked up again; it then needs to be built if it is not *)
(* found.                                                                  *)
Stale(r) == r.pipeline = None \/ r.dirty \cap PipelineBits(r) # {}
Found(r) == PipelineHash(r) \in DOMAIN pipelines

Built(r) == IF Found(r) THEN pipelines ELSE With(pipelines, PipelineHash(r), Inputs(r))

(* Mutant: a new pipeline leaves the dynamic state as it is.               *)
BugRebound(r) == r.dirty \ (IF Stale(r) THEN PipelineBits(r) ELSE {})
(* The dirty bits after the pipeline is bound: a change of the pipeline    *)
(* makes the dynamic state dirty.                                          *)
Rebound(r) ==
  (r.dirty \ (IF Stale(r) THEN PipelineBits(r) ELSE {}))
    \cup (IF ~IsCompute(r) /\ Stale(r) /\ r.pipeline # PipelineHash(r) THEN Dynamic ELSE {})

Updated(r) == SetsOf(r.program) \cap r.dirtySets
(* RebindDescriptorSet follows FlushDescriptorSet, which binds as well.    *)
OnlyRebound(r) == (SetsOf(r.program) \cap r.dirtyDynamic) \ Updated(r)

(* The dynamic part of a binding: only uniform buffers have one.           *)
UniformSlots(p) == {s \in Uses[p].slots : s.kind = "uniform"}

HashOf(p, d) == [s \in SlotsIn(p, d) |-> Project(array[p][s], HashedFields(s.kind))]
ContentOf(p, d) == [s \in SlotsIn(p, d) |-> Project(array[p][s], WrittenFields(s.kind))]

FlushedMap(r, d) == Flush(maps[r.program][d], HashOf(r.program, d), ContentOf(r.program, d))
SetFor(r, d) == FlushedMap(r, d).map[HashOf(r.program, d)]

(* A flush that succeeds: what it leaves in the command buffer...          *)
FlushedCmd(r) ==
  [r EXCEPT
    !.pipeline = IF Stale(r) THEN PipelineHash(r) ELSE @,
    !.active = IF Stale(r) /\ ~IsCompute(r) THEN ActiveVbos(r) ELSE @,
    !.sets = [d \in Sets |-> IF d \in Updated(r) THEN SetFor(r, d) ELSE r.sets[d]],
    !.dirtySets = @ \ Updated(r),
    !.dirtyDynamic = (@ \ Updated(r)) \ OnlyRebound(r),
    !.dirty = (Rebound(r) \ {"push"}) \
                (IF IsCompute(r) THEN {} ELSE DynamicOf(r.static)),
    !.dirtyVbos = IF IsCompute(r) THEN @
                  ELSE @ \ (IF Stale(r) THEN ActiveVbos(r) ELSE r.active)]

BoundSet(r, d) == <<r.program, d, IF d \in Updated(r) THEN SetFor(r, d) ELSE r.sets[d]>>

(* ... and in the Vulkan command buffer.  A pipeline without a dynamic     *)
(* state sets that state itself.  RebindDescriptorSet gives every element  *)
(* of a binding the dynamic offset of the first one.                       *)
FlushedGpu(r, g) ==
  LET p == r.program
      pt == Point(r)
      bound == {s \in UniformSlots(p) : s.set \in Updated(r) \cup OnlyRebound(r)}
      vbos == IF Stale(r) THEN ActiveVbos(r) ELSE r.active
  IN [g EXCEPT
       !.pipeline[pt] = IF Stale(r) /\ r.pipeline # PipelineHash(r)
                        THEN Built(r)[PipelineHash(r)] ELSE @,
       !.sets[pt] = [d \in Sets |-> IF d \in Updated(r) \cup OnlyRebound(r)
                                    THEN BoundSet(r, d) ELSE @[d]],
       !.offsets[pt] = [s \in Slots |->
          IF s \notin bound THEN @[s]
          ELSE IF s.set \in Updated(r) THEN array[p][s].dynamic
          ELSE array[p][[s EXCEPT !.index = 0]].dynamic],
       !.push = IF "push" \in r.dirty /\ Uses[p].push THEN r.push ELSE @,
       !.dyn = IF IsCompute(r) THEN @ ELSE
          [d \in Dynamic |-> IF d \notin DynamicOf(r.static) THEN None
                             ELSE IF d \in Rebound(r) THEN r.dyn[d] ELSE @[d]],
       !.vbo = IF IsCompute(r) THEN @ ELSE
          [b \in Vbos |-> IF b \in r.dirtyVbos \cap vbos THEN r.vbo[b] ELSE @[b]]]

(* Mutant: a failed flush keeps the old pipeline.                          *)
BugFailedCmd(r) ==
  [r EXCEPT !.dirty = @ \ PipelineBits(r),
            !.active = IF IsCompute(r) THEN @ ELSE ActiveVbos(r)]
(* A flush that finds no pipeline and cannot, or may not, build one.       *)
FailedCmd(r) ==
  [r EXCEPT !.pipeline = None, !.dirty = @ \ PipelineBits(r),
            !.active = IF IsCompute(r) THEN @ ELSE ActiveVbos(r)]
-----------------------------------------------------------------------------
(* Requesting, ending and submitting command buffers; frames.              *)

Makes(group) == group \in client.calls

(* The client only draws, and sets state to draw with, while the contents  *)
(* of the render pass are inline.                                          *)
Recording(c) == cmd[c].open /\ cmd[c].contents = "inline"

(* A setter of a command buffer that records, and a call that is none.     *)
Setter(c) == Recording(c) /\ calls < MaxCalls /\ calls' = calls + 1 /\ drew' = None
Call(c) == Recording(c) /\ drew' = None /\ UNCHANGED calls
Set(c, r) == cmd' = [cmd EXCEPT ![c] = r]
Dirty(r, bits) == [r EXCEPT !.dirty = @ \cup bits]

RequestCommandBuffer ==
  /\ ~cmd[Primary].open
  /\ Set(Primary, NewCommandBuffer)
  /\ gpu' = [gpu EXCEPT ![Primary] = NothingBound]
  /\ drew' = None /\ calls' = 0
  /\ UNCHANGED <<client, objects>>

(* End and Submit: the commands still run, and use their sets, until the   *)
(* frame context comes round again.                                        *)
EndCommandBuffer ==
  /\ cmd[Primary].open /\ IsCompute(cmd[Primary])
  /\ Set(Primary, Closed)
  /\ gpu' = [gpu EXCEPT ![Primary] = NothingBound]
  /\ drew' = None /\ calls' = 0
  /\ UNCHANGED <<client, objects>>

(* Mutant: the frame context index is not brought back to 0.               *)
BugNextFrameContext ==
  /\ Makes("frames")
  /\ ~cmd[Primary].open
  /\ frame' = frame + 1
  /\ used' = [used EXCEPT ![frame' % Frames] = {}]
  /\ maps' = [p \in Programs |-> [d \in SetsOf(p) |-> [maps[p][d] EXCEPT !.begin = TRUE]]]
  /\ drew' = None
  /\ UNCHANGED <<client, cmd, gpu, array, asked, pipelines, saved, calls>>
(* NextFrameContext: UniformManager::BeginFrame marks the maps of every    *)
(* program; Frame().Begin() has waited for the commands of this context.   *)
NextFrameContext ==
  /\ Makes("frames")
  /\ ~cmd[Primary].open
  /\ frame' = (frame + 1) % Frames
  /\ used' = [used EXCEPT ![frame'] = {}]
  /\ maps' = [p \in Programs |-> [d \in SetsOf(p) |-> [maps[p][d] EXCEPT !.begin = TRUE]]]
  /\ drew' = None
  /\ UNCHANGED <<client, cmd, gpu, array, asked, pipelines, saved, calls>>

(* WaitIdle: nothing runs any more, and UniformManager::Clear gives up the *)
(* sets of every program.                                                  *)
WaitIdle ==
  /\ Makes("frames")
  /\ ~cmd[Primary].open
  /\ used' = [f \in DOMAIN used |-> {}]
  /\ maps' = [p \in Programs |-> [d \in SetsOf(p) |-> ClearMap(maps[p][d])]]
  /\ drew' = None
  /\ UNCHANGED <<client, cmd, gpu, array, asked, pipelines, saved, frame, calls>>

-----------------------------------------------------------------------------
(* Render passes.                                                          *)

BeginRenderPass(pass, contents) ==
  /\ contents = "secondary" => Makes("secondary")
  /\ Call(Primary) /\ IsCompute(cmd[Primary])
  /\ LET r == [cmd[Primary] EXCEPT !.pass = pass, !.subpass = 0, !.contents = contents,
                  !.dyn = [g \in Dynamic |-> IF g \in {"viewport", "scissor"} THEN 0 ELSE @[g]]]
     IN Set(Primary, BeginContext(r))
  /\ UNCHANGED <<client, gpu, objects>>

NextSubpass(contents) ==
  /\ contents = "secondary" => Makes("secondary")
  /\ cmd[Primary].open /\ ~IsCompute(cmd[Primary]) /\ ~cmd[Secondary].open
  /\ cmd[Primary].subpass + 1 < Passes[cmd[Primary].pass]
  /\ Set(Primary, BeginContext([cmd[Primary] EXCEPT !.subpass = @ + 1, !.contents = contents]))
  /\ drew' = None
  /\ UNCHANGED <<client, gpu, objects, calls>>

EndRenderPass ==
  /\ cmd[Primary].open /\ ~IsCompute(cmd[Primary]) /\ ~cmd[Secondary].open
  /\ cmd[Primary].subpass + 1 = Passes[cmd[Primary].pass]
  /\ Set(Primary, BeginContext([cmd[Primary] EXCEPT !.pass = None, !.contents = "inline"]))
  /\ drew' = None
  /\ UNCHANGED <<client, gpu, objects, calls>>

(* RequestSecondaryCommandBuffer, of the subpass that is being recorded.   *)
RequestSecondaryCommandBuffer ==
  LET r == cmd[Primary] IN
  /\ r.open /\ r.contents = "secondary" /\ ~cmd[Secondary].open
  /\ Set(Secondary, BeginContext([NewCommandBuffer EXCEPT !.pass = r.pass,
       !.subpass = r.subpass,
       !.dyn = [g \in Dynamic |-> IF g \in {"viewport", "scissor"} THEN r.dyn[g] ELSE @[g]]]))
  /\ gpu' = [gpu EXCEPT ![Secondary] = NothingBound]
  /\ drew' = None /\ calls' = 0
  /\ UNCHANGED <<client, objects>>

(* SubmitSecondary: vkCmdExecuteCommands leaves no state of the primary    *)
(* command buffer defined.                                                 *)
SubmitSecondary ==
  /\ cmd[Secondary].open
  /\ cmd[Primary].subpass = cmd[Secondary].subpass /\ cmd[Primary].contents = "secondary"
  /\ Set(Secondary, Closed)
  /\ gpu' = [c \in CmdBufs |-> NothingBound]
  /\ drew' = None
  /\ UNCHANGED <<client, objects, calls>>

-----------------------------------------------------------------------------
(* The program and its bindings.                                           *)

(* SetProgram.  The client records a program in one command buffer at a    *)
(* time, for its bindings are shared.                                      *)
SetProgram(c, p) ==
  /\ Call(c)
  /\ p # cmd[c].program
  /\ Uses[p].compute = IsCompute(cmd[c])
  /\ \A d \in CmdBufs \ {c} : cmd[d].open => cmd[d].program # p
  /\ Set(c, Dirty([cmd[c] EXCEPT !.program = p, !.pipeline = None, !.dirtySets = Sets],
                  {"pipeline", "push"} \cup Dynamic))
  /\ UNCHANGED <<client, gpu, objects>>

(* A setter of a binding: what is asked, what is stored, what gets dirty.  *)
Bind(c, s, request, stored, r) ==
  LET p == cmd[c].program IN
  /\ asked' = [asked EXCEPT ![p][s] = request]
  /\ array' = [array EXCEPT ![p][s] = stored]
  /\ Set(c, r)
  /\ UNCHANGED <<client, gpu, maps, pipelines, saved, frame, used>>

Binding(c, s) == Makes("sets") /\ Setter(c) /\ cmd[c].program # None /\ s \in Uses[cmd[c].program].slots
Old(c, s) == array[cmd[c].program][s]

DirtySet(r, s) == [r EXCEPT !.dirtySets = @ \cup {s.set}]
DirtyDynamic(r, s) == [r EXCEPT !.dirtyDynamic = @ \cup {s.set}]

(* SetUniformBuffer: a new offset alone needs no other set.                *)
SetUniformBuffer(c, s, cookie, range, offset) ==
  LET b == [cookie |-> cookie, secondary |-> None, detail |-> range, dynamic |-> offset]
      old == Old(c, s)
  IN /\ Binding(c, s) /\ s.kind = "uniform"
     /\ IF cookie = old.cookie /\ range = old.detail
        THEN Bind(c, s, b, [old EXCEPT !.dynamic = offset],
                  IF old.dynamic # offset THEN DirtyDynamic(cmd[c], s) ELSE cmd[c])
        ELSE Bind(c, s, b, b, DirtySet(cmd[c], s))

SetStorageBuffer(c, s, cookie, detail) ==
  LET b == [cookie |-> cookie, secondary |-> None, detail |-> detail, dynamic |-> 0]
  IN /\ Binding(c, s) /\ s.kind = "storage"
     /\ IF cookie = Old(c, s).cookie /\ detail = Old(c, s).detail
        THEN Bind(c, s, b, Old(c, s), cmd[c])
        ELSE Bind(c, s, b, b, DirtySet(cmd[c], s))

SetBufferView(c, s, cookie) ==
  LET b == [Old(c, s) EXCEPT !.cookie = cookie, !.secondary = None]
  IN /\ Binding(c, s) /\ s.kind = "bufferView"
     /\ Bind(c, s, b, b, IF cookie = Old(c, s).cookie THEN cmd[c] ELSE DirtySet(cmd[c], s))

SetSampler(c, s, sampler) ==
  LET b == [Old(c, s) EXCEPT !.secondary = sampler]
  IN /\ Binding(c, s) /\ s.kind \in {"sampler", "sampledImage"}
     /\ Bind(c, s, b, b, IF sampler = Old(c, s).secondary THEN cmd[c] ELSE DirtySet(cmd[c], s))

ImageKinds == {"sampledImage", "immutableSampler", "separateImage", "storageImage"}

(* SetTexture, for SetSeparateTexture, SetSampledTexture (after SetSampler)*)
(* and SetStorageTexture.                                                  *)
SetTexture(c, s, cookie, layout) ==
  LET b == [Old(c, s) EXCEPT !.cookie = cookie, !.detail = layout]
  IN /\ Binding(c, s) /\ s.kind \in ImageKinds
     /\ Bind(c, s, b, b, IF cookie = Old(c, s).cookie /\ layout = Old(c, s).detail
                         THEN cmd[c] ELSE DirtySet(cmd[c], s))

SetInputAttachments(c, s) ==
  LET b == [Old(c, s) EXCEPT !.cookie = Attachment[cmd[c].pass], !.detail = 0]
  IN /\ Binding(c, s) /\ s.kind = "inputAttachment" /\ ~IsCompute(cmd[c])
     /\ Bind(c, s, b, b, IF b = Old(c, s) THEN cmd[c] ELSE DirtySet(cmd[c], s))

-----------------------------------------------------------------------------
(* The other state.                                                        *)

(* A setter of the command buffer's own fields.                            *)
Store(c, group, r) ==
  /\ Makes(group) /\ Setter(c)
  /\ Set(c, r)
  /\ UNCHANGED <<client, gpu, objects>>

(* The setters of SET_STATIC_STATE.                                        *)
SetStaticState(c, f, v) ==
  Store(c, "static", IF v = cmd[c].static[f] THEN cmd[c]
                     ELSE Dirty([cmd[c] EXCEPT !.static[f] = v], {"static"}))

SetPresetState(c, words) ==
  Store(c, "static", Dirty([cmd[c] EXCEPT !.static = Preset(words)], {"static"}))

SetBlendConstants(c, v) ==
  Store(c, "static", IF v = cmd[c].blend THEN cmd[c]
                     ELSE Dirty([cmd[c] EXCEPT !.blend = v], {"static"}))

SetSpecializationConstantMask(c, on) ==
  Store(c, "spec", IF on = cmd[c].spec.on THEN cmd[c]
                   ELSE Dirty([cmd[c] EXCEPT !.spec.on = on], {"static"}))

(* A constant outside the mask does not matter until the mask changes.     *)
SetSpecializationConstant(c, v) ==
  Store(c, "spec", Dirty([cmd[c] EXCEPT !.spec.value = v],
                         IF v # cmd[c].spec.value /\ cmd[c].spec.on THEN {"static"} ELSE {}))

PushConstants(c, v) ==
  /\ cmd[c].program # None
  /\ Store(c, "push", Dirty([cmd[c] EXCEPT !.push = v], {"push"}))

(* SetViewport, SetScissor, SetDepthBias and the stencil references.       *)
SetDynamicState(c, g, v) ==
  /\ g \in {"viewport", "scissor"} => ~IsCompute(cmd[c])
  /\ Store(c, "dynamic",
       Dirty([cmd[c] EXCEPT !.dyn[g] = v],
             IF g \in {"viewport", "scissor"} \/ v # cmd[c].dyn[g] THEN {g} ELSE {}))

SetVertexAttrib(c, b) ==
  /\ ~IsCompute(cmd[c])
  /\ Store(c, "vertex", Dirty([cmd[c] EXCEPT !.attrib = b],
                              IF b # cmd[c].attrib THEN {"vertex"} ELSE {}))

SetVertexBinding(c, b, stride) ==
  /\ ~IsCompute(cmd[c])
  /\ Store(c, "vertex", Dirty([cmd[c] EXCEPT !.stride[b] = stride],
                              IF stride # cmd[c].stride[b] THEN {"vertex"} ELSE {}))

BindVertexBuffer(c, b, v) ==
  /\ ~IsCompute(cmd[c])
  /\ Store(c, "vertex", [cmd[c] EXCEPT !.vbo[b] = v,
                           !.dirtyVbos = IF v # cmd[c].vbo[b] THEN @ \cup {b} ELSE @])

(* BindIndexBuffer records its command at once.                            *)
BindIndexBuffer(c, v) ==
  /\ Makes("index") /\ Setter(c)
  /\ Set(c, [cmd[c] EXCEPT !.index = v])
  /\ gpu' = [gpu EXCEPT ![c].index = IF v = cmd[c].index THEN @ ELSE v]
  /\ UNCHANGED <<client, objects>>

SavedFields == {"static", "spec", "blend", "dyn", "push"}

SaveState(c) ==
  /\ Makes("save") /\ Call(c)
  /\ saved' = [f \in SavedFields |-> cmd[c][f]]
  /\ UNCHANGED <<client, cmd, gpu, array, asked, maps, pipelines, frame, used>>

(* RestoreState marks what differs from what is restored.                  *)
RestoreState(c) ==
  LET r == cmd[c] IN
  /\ saved # None
  /\ Store(c, "save",
       Dirty([r EXCEPT !.static = saved.static, !.spec = saved.spec, !.blend = saved.blend,
                       !.dyn = saved.dyn, !.push = saved.push],
             (IF r.push # saved.push THEN {"push"} ELSE {})
             \cup (IF <<r.static, r.spec, r.blend>> # <<saved.static, saved.spec, saved.blend>>
                   THEN {"static"} ELSE {})
             \cup {g \in Dynamic \cap {"viewport", "scissor"} : r.dyn[g] # saved.dyn[g]}
             \cup (IF \E g \in Dynamic \ {"viewport", "scissor"} : r.dyn[g] # saved.dyn[g]
                   THEN Dynamic \ {"viewport", "scissor"} ELSE {})))

-----------------------------------------------------------------------------
(* Draws and dispatches.                                                   *)

CanFlush(c) ==
  /\ Recording(c)
  /\ cmd[c].program # None
  /\ \A s \in Uses[cmd[c].program].slots : IsBound(s.kind, array[cmd[c].program][s])
  /\ ~IsCompute(cmd[c]) => \A b \in ActiveVbos(cmd[c]) : cmd[c].vbo[b] # None

Flushes(c) ==
  LET r == cmd[c] IN
  /\ cmd' = [cmd EXCEPT ![c] = FlushedCmd(r)]
  /\ gpu' = [gpu EXCEPT ![c] = FlushedGpu(r, @)]
  /\ maps' = [maps EXCEPT ![r.program] =
                [d \in SetsOf(r.program) |-> IF d \in Updated(r) THEN FlushedMap(r, d) ELSE @[d]]]
  /\ pipelines' = IF Stale(r) THEN Built(r) ELSE pipelines
  /\ used' = [used EXCEPT ![frame] =
                @ \cup {BoundSet(r, d) : d \in Updated(r) \cup OnlyRebound(r)}]
  /\ UNCHANGED <<client, array, asked, saved, frame>>

(* Draw, DrawIndexed, Dispatch and their variants.                         *)
Draw(c) ==
  /\ CanFlush(c)
  /\ Flushes(c)
  /\ drew' = c /\ calls' = 0

(* FlushPipelineStateWithoutBlocking, when the pipeline is there already.  *)
FlushWithoutBlocking(c) ==
  /\ Makes("spec")
  /\ CanFlush(c)
  /\ Stale(cmd[c]) => Found(cmd[c])
  /\ Flushes(c)
  /\ drew' = None /\ calls' = 0

(* The draw is dropped because the pipeline cannot be built, or the flush  *)
(* without blocking may not build it.                                      *)
FailToFlush(c) ==
  /\ Makes("spec")
  /\ CanFlush(c)
  /\ Stale(cmd[c]) /\ ~Found(cmd[c])
  /\ Set(c, FailedCmd(cmd[c]))
  /\ drew' = None /\ calls' = 0
  /\ UNCHANGED <<client, gpu, objects>>

-----------------------------------------------------------------------------
Init ==
  /\ client \in Clients
  /\ cmd = [c \in CmdBufs |-> Closed]
  /\ gpu = [c \in CmdBufs |-> NothingBound]
  /\ array = [p \in Programs |-> [s \in Uses[p].slots |-> Unbound]]
  /\ asked = array
  /\ maps = [p \in Programs |-> [d \in SetsOf(p) |-> EmptyMap]]
  /\ pipelines = <<>>
  /\ saved = None
  /\ frame = 0
  /\ used = [f \in 0 .. Frames - 1 |-> {}]
  /\ drew = None
  /\ calls = 0

SetBinding(c, s) ==
  \/ \E k \in Cookies, d \in Details, o \in Offsets : SetUniformBuffer(c, s, k, d, o)
  \/ \E k \in Cookies, d \in Details : SetStorageBuffer(c, s, k, d) \/ SetTexture(c, s, k, d)
  \/ \E k \in Cookies : SetBufferView(c, s, k)
  \/ \E k \in Samplers : SetSampler(c, s, k)
  \/ SetInputAttachments(c, s)

SetState(c) ==
  \/ \E t \in client.settings : SetStaticState(c, t[1], t[2])
  \/ \E words \in client.presets : SetPresetState(c, words)
  \/ \E on \in BOOLEAN : SetSpecializationConstantMask(c, on)
  \/ \E v \in Values : \/ SetBlendConstants(c, v)
                        \/ SetSpecializationConstant(c, v)
                        \/ PushConstants(c, v)
                        \/ BindIndexBuffer(c, v)
  \/ \E g \in Dynamic, v \in Values : SetDynamicState(c, g, v)
  \/ \E b \in Vbos : SetVertexAttrib(c, b)
  \/ \E b \in Vbos, v \in Values : SetVertexBinding(c, b, v) \/ BindVertexBuffer(c, b, v)
  \/ SaveState(c) \/ RestoreState(c)

Next ==
  \/ RequestCommandBuffer \/ EndCommandBuffer \/ NextFrameContext \/ WaitIdle
  \/ \E pass \in client.passes, contents \in {"inline", "secondary"} :
       BeginRenderPass(pass, contents)
  \/ \E contents \in {"inline", "secondary"} : NextSubpass(contents)
  \/ EndRenderPass \/ RequestSecondaryCommandBuffer \/ SubmitSecondary
  \/ \E c \in CmdBufs :
       \/ \E p \in client.programs : SetProgram(c, p)
       \/ \E s \in Slots : SetBinding(c, s)
       \/ SetState(c)
       \/ Draw(c) \/ FlushWithoutBlocking(c) \/ FailToFlush(c)

Spec == Init /\ [][Next]_vars

-----------------------------------------------------------------------------
(* Properties.                                                             *)

(* The ranges of the fields.                                               *)
StaticType == [words : Words, bias : BOOLEAN, stencil : BOOLEAN, factor : Factors, mask : Nat]
BindingType == [cookie : Cookies \cup {None}, secondary : Samplers \cup {None},
                detail : Details, dynamic : Offsets]
CmdType ==
  [open : BOOLEAN, pass : DOMAIN Passes \cup {None}, subpass : Nat,
   contents : {"inline", "secondary"},
   program : Programs \cup {None}, pipeline : Hashes \cup {None}, sets : [Sets -> {None} \cup Nat],
   static : StaticType, spec : [on : BOOLEAN, value : Values], blend : Values,
   dyn : [Dynamic -> Values], push : Values,
   attrib : Vbos, stride : [Vbos -> Values],
   vbo : [Vbos -> Values \cup {None}], index : Values \cup {None},
   dirty : SUBSET Bits, dirtySets : SUBSET Sets, dirtyDynamic : SUBSET Sets,
   dirtyVbos : SUBSET Vbos, active : SUBSET Vbos]
Points == {"compute", "graphics"}
GpuFields == {"pipeline", "sets", "offsets", "push", "dyn", "vbo", "index"}

BoundType(g) ==
  /\ DOMAIN g = GpuFields
  /\ DOMAIN g.pipeline = Points /\ DOMAIN g.sets = Points /\ DOMAIN g.offsets = Points
  /\ \A pt \in Points : DOMAIN g.sets[pt] = Sets /\ DOMAIN g.offsets[pt] = Slots
  /\ DOMAIN g.dyn = Dynamic /\ DOMAIN g.vbo = Vbos

CmdTyped ==
  /\ cmd \in [CmdBufs -> CmdType]
  /\ \A c \in CmdBufs : cmd[c].pipeline \in DOMAIN pipelines \cup {None}
GpuTyped == DOMAIN gpu = CmdBufs /\ \A c \in CmdBufs : BoundType(gpu[c])
ObjectsTyped ==
  /\ DOMAIN array = Programs /\ DOMAIN asked = Programs
  /\ \A p \in Programs : {array[p], asked[p]} \subseteq [Uses[p].slots -> BindingType]
  /\ DOMAIN maps = Programs /\ \A p \in Programs : DOMAIN maps[p] = SetsOf(p)
  /\ DOMAIN pipelines \subseteq Hashes
  /\ saved # None => saved \in [static : StaticType, spec : [on : BOOLEAN, value : Values],
                                blend : Values, dyn : [Dynamic -> Values], push : Values]
  /\ frame \in 0 .. Frames - 1 /\ DOMAIN used = 0 .. Frames - 1

TypeOK ==
  /\ CmdTyped /\ GpuTyped /\ ObjectsTyped
  /\ client \in Clients /\ drew \in CmdBufs \cup {None} /\ calls \in 0 .. MaxCalls

(* A draw or dispatch runs with a pipeline that was built from the state   *)
(* in force when it is recorded, whatever was set, restored, failed to     *)
(* build or was left dirty before: the dirty bits lead to the hash, and    *)
(* the hash covers what the pipeline is built from.                        *)
DrawSeesPipeline ==
  \A c \in CmdBufs :
    drew = c => gpu[c].pipeline[Point(cmd[c])] = Inputs(cmd[c])

(* The set bound for a slot's binding, and what is written in it.          *)
BoundContent(c, s) ==
  LET b == gpu[c].sets[Point(cmd[c])][s.set]
  IN maps[b[1]][b[2]].content[b[3]][s]

(* A draw or dispatch reads through the bound descriptor sets and dynamic  *)
(* offsets exactly the resources last given to the program: no set is      *)
(* stale although sets are found by hash, survive the command buffer, and  *)
(* may only be bound again with another offset.                            *)
DrawSeesBindings ==
  \A c \in CmdBufs : drew = c =>
    \A s \in Uses[cmd[c].program].slots :
      LET b == asked[cmd[c].program][s]
      IN /\ BoundContent(c, s) = Project(b, WrittenFields(s.kind))
         /\ s.kind = "uniform" => gpu[c].offsets[Point(cmd[c])][s] = b.dynamic

(* A draw runs with the push constants, dynamic state, vertex and index    *)
(* buffers of the command buffer, also after a pipeline that lacks one of  *)
(* the dynamic states and after secondary command buffers have run.        *)
DrawSeesState ==
  \A c \in CmdBufs : drew = c =>
    LET r == cmd[c] IN
    /\ Uses[r.program].push => gpu[c].push = r.push
    /\ ~IsCompute(r) =>
         /\ \A g \in DynamicOf(r.static) : gpu[c].dyn[g] = r.dyn[g]
         /\ \A b \in ActiveVbos(r) : gpu[c].vbo[b] = r.vbo[b]
    /\ r.index # None => gpu[c].index = r.index

(* A descriptor set that commands use which are recorded or may still run  *)
(* is not written: its node does not become vacant before its frame        *)
(* context has come round again.                                           *)
SetsNotRewritten ==
  [][\A f \in DOMAIN used, b \in UNION {used[g] : g \in DOMAIN used} :
       b \in used[f] /\ b \in used'[f] =>
         maps'[b[1]][b[2]].content[b[3]] = maps[b[1]][b[2]].content[b[3]]]_vars

(* The hash map of every set keeps its accounts, through frames, reuse and *)
(* WaitIdle.                                                               *)
MapsAccounted == \A p \in Programs : \A d \in SetsOf(p) : NodesAccounted(maps[p][d])

-----------------------------------------------------------------------------
(* The inductive invariant behind these.                                   *)

(* A command buffer that is closed, or whose subpass is recorded elsewhere.*)
Idle(r) ==
  /\ r.program = None /\ r.pipeline = None /\ r.index = None
  /\ r.dirty = Bits /\ r.dirtySets = Sets /\ r.dirtyVbos = Vbos
Contexts ==
  /\ \A c \in CmdBufs : ~Recording(c) => Idle(cmd[c])
  /\ cmd[Secondary].contents = "inline"
  /\ cmd[Primary].contents = "secondary" => cmd[Primary].open /\ ~IsCompute(cmd[Primary])
  /\ cmd[Secondary].open => cmd[Primary].contents = "secondary"

(* What is not dirty is what the recorded commands have bound.             *)
Tracked(r, g) ==
  /\ r.pipeline # None => g.pipeline[Point(r)] = pipelines[r.pipeline]
  /\ ~Stale(r) => r.pipeline = PipelineHash(r) /\ (~IsCompute(r) => r.active = ActiveVbos(r))
  /\ r.program # None /\ Uses[r.program].push /\ "push" \notin r.dirty => g.push = r.push
  /\ ~IsCompute(r) /\ r.pipeline # None =>
       \A x \in DynamicOf(r.pipeline) \ r.dirty : g.dyn[x] = r.dyn[x]
  /\ \A b \in Vbos \ r.dirtyVbos : g.vbo[b] = r.vbo[b]
  /\ r.index # None => g.index = r.index

(* A set that is not dirty was flushed in this frame.                      *)
SetsTracked(r, g) ==
  r.program # None => \A d \in SetsOf(r.program) \ r.dirtySets :
    LET m == maps[r.program][d]
    IN /\ ~m.begin /\ HashOf(r.program, d) \in DOMAIN m.map
       /\ m.map[HashOf(r.program, d)] = r.sets[d] /\ r.sets[d] \in m.rings[m.index]
       /\ g.sets[Point(r)][d] = <<r.program, d, r.sets[d]>>

(* A draw leaves nothing dirty that it uses.                               *)
Flushed(r) ==
  /\ r.program # None /\ ~Stale(r) /\ "push" \notin r.dirty
  /\ SetsOf(r.program) \cap (r.dirtySets \cup r.dirtyDynamic) = {}
  /\ ~IsCompute(r) => DynamicOf(r.static) \cap r.dirty = {} /\ ActiveVbos(r) \cap r.dirtyVbos = {}

(* What the array keeps of a binding is what matters of what was asked.    *)
Stored ==
  \A p \in Programs : \A s \in Uses[p].slots :
    /\ Project(array[p][s], WrittenFields(s.kind)) = Project(asked[p][s], WrittenFields(s.kind))
    /\ s.kind = "uniform" => array[p][s].dynamic = asked[p][s].dynamic

(* A set stays in the rings for longer than its frame context is away.     *)
FrameAge(f) == IF f <= frame THEN frame - f ELSE frame + Frames - f
UsedKept ==
  \A f \in DOMAIN used : \A b \in used[f] :
    /\ b[1] \in Programs /\ b[2] \in SetsOf(b[1])
    /\ LET m == maps[b[1]][b[2]]
       IN \E i \in Rings : b[3] \in m.rings[i]
            /\ RingAge(m, i) + (IF m.begin THEN 1 ELSE 0) <= FrameAge(f)

(* The dirty bits are right about the recorded commands of each command    *)
(* buffer, a draw has left nothing dirty that it uses, and the sets that   *)
(* commands of a frame context use stay in the rings of their maps.        *)
TrackInv ==
  /\ TypeOK /\ Contexts
  /\ \A c \in CmdBufs : Tracked(cmd[c], gpu[c]) /\ SetsTracked(cmd[c], gpu[c])
  /\ \A c \in CmdBufs : drew = c => Flushed(cmd[c])
  /\ \A p \in Programs : \A d \in SetsOf(p) : MapInv(maps[p][d])
  /\ Stored /\ UsedKept

(* What a pipeline kept under a hash was built from.                       *)
InputsOf(h) ==
  IF h \in ComputeHashes THEN h
  ELSE [program |-> h.program, spec |-> h.spec, pass |-> h.pass, subpass |-> h.subpass,
        static |-> [words |-> h.words, bias |-> h.bias, stencil |-> h.stencil,
                    factor |-> h.factor, mask |-> IF h.words = "cleared" THEN 0 ELSE 1],
        blend |-> h.blend, input |-> h.input]
(* A static state that its hashed words determine.                         *)
StaticKnown(static) ==
  /\ static.mask = (IF static.words = "cleared" THEN 0 ELSE 1)
  /\ static.factor # "oneMinusConstant"
(* Pipelines are built from what they are kept under.                      *)
PipelinesKeyed ==
  /\ \A h \in DOMAIN pipelines : pipelines[h] = InputsOf(h)
  /\ \A c \in CmdBufs : StaticKnown(cmd[c].static)
  /\ saved # None => StaticKnown(saved.static)

(* A set that is not dirty is bound with the offsets that were given.      *)
OffsetsTracked(r, g) ==
  r.program # None => \A s \in UniformSlots(r.program) :
    s.set \notin r.dirtySets \cup r.dirtyDynamic =>
      g.offsets[Point(r)][s] = array[r.program][s].dynamic
(* Sets hold what they are kept under.                                     *)
SetsKeyed ==
  /\ \A p \in Programs : \A d \in SetsOf(p) : Keyed(maps[p][d])
  /\ \A c \in CmdBufs : OffsetsTracked(cmd[c], gpu[c])

(* All of it: what BindPipeline, FlushDescriptorSet and the dirty bits rely*)
(* on when they skip a command that seems to change nothing.               *)
CommandInv == TrackInv /\ PipelinesKeyed /\ SetsKeyed

(* The write mask is set by the presets alone, and no blend factor is one  *)
(* minus the constant: then the hash covers what a pipeline is built from. *)
PipelineHashCovers ==
  \A k \in Clients :
    /\ \A t \in k.settings : t[1] # "mask" /\ t # <<"factor", "oneMinusConstant">>
    /\ "cleared" \notin k.presets
(* No program has a sampler apart from its image, or an array of uniform   *)
(* buffers: then the hash covers what is written into a set.               *)
SetHashCovers ==
  \A s \in Slots : s.kind # "sampler" /\ (s.kind = "uniform" => [s EXCEPT !.index = 0] = s)
=============================================================================
