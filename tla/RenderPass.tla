----------------------------- MODULE RenderPass -----------------------------
(***************************************************************************)
(* How RenderPass::RenderPass (src/quantumvk/vulkan/graphics/              *)
(* render_pass.cpp) turns a RenderPassInfo into the attachments, subpasses *)
(* and dependencies of a VkRenderPass.                                     *)
(*                                                                         *)
(* An info is a record                                                     *)
(*   attachments : a sequence of attachments, the depth-stencil one last,  *)
(*   subpasses   : a sequence of [color, resolve, input, mode], the first  *)
(*                 three sets of attachment numbers, `mode' the            *)
(*                 depth_stencil_mode,                                     *)
(*   load, store : the ENABLE_TRANSIENT_LOAD and _STORE flags.             *)
(* An attachment is [kind, format, samples, domain, initial, final, load,  *)
(* store], with kind "color" or "depth" and domain "plain", "transient" or *)
(* "swapchain".  The stencil aspect takes the operations of depth.         *)
(***************************************************************************)
EXTENDS Integers, Sequences, FiniteSets

External == 0   \* VK_SUBPASS_EXTERNAL; subpasses are numbered from 1

-----------------------------------------------------------------------------
(* Attachment descriptions.                                                *)

\* Load and store operations, and the layouts before and after the pass, of a
\* transient attachment, a swapchain image and any other attachment.
Describe(info, a) ==
    LET att == info.attachments[a]
        transient == att.domain = "transient"
        swapchain == att.domain = "swapchain"
        loads == IF transient /\ ~info.load /\ att.load = "load" THEN "dontCare" ELSE att.load
    IN [format  |-> att.format,
        samples |-> att.samples,
        load    |-> loads,
        store   |-> att.store /\ (transient => info.store),
        initial |-> CASE transient /\ ~info.load -> "undefined"
                      [] swapchain -> IF loads = "load" THEN "present" ELSE "undefined"
                      [] OTHER -> att.initial,
        final   |-> IF swapchain THEN "present" ELSE att.final]

\* Attachments whose first use needs a dependency whatever the layouts are.
Implicit(info, a) == info.attachments[a].domain \in {"transient", "swapchain"}

\* A swapchain image that is loaded comes from the present engine.
BottomOfPipe(info, a) ==
    info.attachments[a].domain = "swapchain" /\ info.attachments[a].load = "load"

\* What the constructor asserts of its argument.
ValidInfo(info) ==
    LET atts == DOMAIN info.attachments
        passes == DOMAIN info.subpasses
        isDepth(a) == info.attachments[a].kind = "depth"
    IN /\ atts # {} /\ passes # {}
       /\ \A a \in atts :
            /\ Describe(info, a).load = "load" => Describe(info, a).initial # "undefined"
            /\ info.attachments[a].domain = "transient" /\ ~isDepth(a) /\ ~info.load
                 => info.attachments[a].load # "load"
            /\ isDepth(a) => a = Len(info.attachments)
       /\ \A s \in passes :
            LET pass == info.subpasses[s]
                drawn == pass.color \cup {a \in atts : isDepth(a) /\ pass.mode # "none"}
            IN /\ pass.color \cup pass.resolve \cup pass.input \subseteq atts
               /\ \A a \in pass.color \cup pass.resolve : ~isDepth(a)
               /\ pass.color \cap pass.resolve = {}
               /\ Cardinality(pass.resolve) \in {0, Cardinality(pass.color)}
               /\ Cardinality({info.attachments[a].samples : a \in drawn}) = 1
       /\ \A a \in atts : \E s \in passes :
            \/ a \in info.subpasses[s].color \cup info.subpasses[s].resolve
                       \cup info.subpasses[s].input
            \/ isDepth(a) /\ info.subpasses[s].mode # "none"

-----------------------------------------------------------------------------
(* How an attachment is used throughout the subpasses.                     *)

\* find_color, find_resolve, find_input, find_depth_stencil.
Uses(info, a, s) ==
    LET pass == info.subpasses[s]
    IN {u \in {"color", "resolve", "input", "depth"} :
          CASE u = "color"   -> a \in pass.color
            [] u = "resolve" -> a \in pass.resolve
            [] u = "input"   -> a \in pass.input
            [] u = "depth"   -> info.attachments[a].kind = "depth" /\ pass.mode # "none"}

\* An attachment that is read and written in one subpass must be GENERAL.
Feedback(uses, mode) ==
    "input" \in uses /\ (uses \cap {"color", "resolve"} # {}
                           \/ ("depth" \in uses /\ mode = "readWrite"))

Preferred(uses, mode) ==
    IF uses \cap {"color", "resolve"} # {} THEN "colorAttachment"
    ELSE IF "depth" \notin uses THEN "shaderReadOnly"
    ELSE IF mode = "readWrite" THEN "depthAttachment"
    ELSE "depthReadOnly"

\* The layout of the subpass, given the layout before it.
LayoutAfter(uses, mode, before) ==
    IF Feedback(uses, mode) \/ before = "general" THEN "general" ELSE Preferred(uses, mode)

\* The first use may correct the initial layout the client gave.
Corrected(uses, mode, initial) ==
    CASE Feedback(uses, mode) /\ initial # "undefined" -> "general"
      [] uses = {"input"} /\ initial = "colorAttachment" -> "shaderReadOnly"
      [] OTHER -> initial

\* The loop over the subpasses for one attachment: before it, and one round.
Unwalked(initial) ==
    [layout |-> initial, initial |-> initial, used |-> FALSE, last |-> 0, idle |-> {},
     layouts |-> <<>>, first |-> {}, moved |-> FALSE]

Walked(w, s, uses, mode) ==
    LET layout == LayoutAfter(uses, mode, w.layout)
        initial == IF w.used THEN w.initial ELSE Corrected(uses, mode, w.initial)
    IN IF uses = {}
       THEN [w EXCEPT !.idle = IF w.used THEN @ \cup {s} ELSE @,
                      !.layouts = Append(@, "unused")]
       ELSE [w EXCEPT !.layout = layout, !.initial = initial, !.used = TRUE, !.last = s,
                      !.layouts = Append(@, layout),
                      !.first = IF w.used THEN @ ELSE {s},
                      !.moved = IF w.used THEN @ ELSE initial # layout]

WalkOf(initial, uses, modes) ==
    LET walk[s \in 0..Len(modes)] ==
            IF s = 0 THEN Unwalked(initial) ELSE Walked(walk[s - 1], s, uses[s], modes[s])
    IN walk[Len(modes)]

Walk(info, a) ==
    WalkOf(Describe(info, a).initial,
           [s \in DOMAIN info.subpasses |-> Uses(info, a, s)],
           [s \in DOMAIN info.subpasses |-> info.subpasses[s].mode])

\* A slip: the mask stops a subpass early.
BugPreserved(walk, s) == s \in walk.idle /\ s + 1 < walk.last

\* Only subpasses between the first and the last use preserve an attachment.
Preserved(walk, s) == s \in walk.idle /\ s < walk.last

-----------------------------------------------------------------------------
(* Dependencies.                                                           *)

Dependency(src, dst, srcStages, dstStages, srcAccess, dstAccess) ==
    [src |-> src, dst |-> dst, srcStages |-> srcStages, dstStages |-> dstStages,
     srcAccess |-> srcAccess, dstAccess |-> dstAccess]

When(condition, set) == IF condition THEN set ELSE {}

Tests == {"earlyTests", "lateTests"}

\* The subpasses in which some attachment is used in one of these ways.
Used(info, s, kinds) ==
    \E a \in DOMAIN info.attachments : Uses(info, a, s) \cap kinds # {}
DepthWritten(info, s) == Used(info, s, {"depth"}) /\ info.subpasses[s].mode = "readWrite"
\* input_attachment_read: set only where an input is also written or tested.
InputRead(info, s) ==
    \E a \in DOMAIN info.attachments :
        "input" \in Uses(info, a, s) /\ Uses(info, a, s) # {"input"}

\* A first use as `kind' in subpass s needs an external dependency: the layout
\* changes there, or the attachment is transient or a swapchain image.
NeedsExternal(info, walks, s, kinds) ==
    \E a \in DOMAIN walks :
        /\ s \in walks[a].first
        /\ \/ walks[a].moved /\ Uses(info, a, s) \cap kinds # {}
           \/ Implicit(info, a) /\ Uses(info, a, s) \cap (kinds \ {"resolve"}) # {}

ExternalDependency(info, walks, s) ==
    LET color == NeedsExternal(info, walks, s, {"color", "resolve"})
        depth == NeedsExternal(info, walks, s, {"depth"})
        input == NeedsExternal(info, walks, s, {"input"})
        bottom == \E a \in DOMAIN walks : BottomOfPipe(info, a) /\ s \in walks[a].first
    IN Dependency(External, s,
         When(bottom, {"bottom"}) \cup When(color \/ input, {"colorOutput"})
           \cup When(depth \/ input, {"lateTests"}),
         When(color, {"colorOutput"}) \cup When(depth, Tests) \cup When(input, {"fragment"}),
         When(color \/ input, {"colorWrite"}) \cup When(depth \/ input, {"depthWrite"}),
         When(color, {"colorRead", "colorWrite"}) \cup When(depth, {"depthRead", "depthWrite"})
           \cup When(input, {"inputRead"}))

ExternalDependencies(info, walks) ==
    {ExternalDependency(info, walks, s) :
       s \in {s \in DOMAIN info.subpasses :
                NeedsExternal(info, walks, s, {"color", "resolve", "depth", "input"})}}

\* (Color or depth) to input within a subpass.
Loops(info, s, kind) ==
    \E a \in DOMAIN info.attachments :
        {kind, "input"} \subseteq Uses(info, a, s) /\ "resolve" \notin Uses(info, a, s)
ColorLoops(info, s) == Loops(info, s, "color")
DepthLoops(info, s) == Loops(info, s, "depth") /\ info.subpasses[s].mode = "readWrite"

SelfDependency(info, s) ==
    Dependency(s, s,
      When(ColorLoops(info, s), {"colorOutput"}) \cup When(DepthLoops(info, s), Tests),
      {"fragment"},
      When(ColorLoops(info, s), {"colorWrite"}) \cup When(DepthLoops(info, s), {"depthWrite"}),
      {"inputRead"})

SelfDependencies(info) ==
    {SelfDependency(info, s) :
       s \in {s \in DOMAIN info.subpasses : ColorLoops(info, s) \/ DepthLoops(info, s)}}

Drawn(info, s) == Used(info, s, {"color", "resolve"})

\* A slip: the destination of the chain is the subpass that has just ended.
BugChainDependency(info, s) ==
    LET before == s - 1
    IN Dependency(before, s,
         When(Drawn(info, before), {"colorOutput"}) \cup When(DepthWritten(info, before), Tests),
         When(Drawn(info, before), {"colorOutput"}) \cup When(Used(info, before, {"depth"}), Tests)
           \cup When(InputRead(info, before), {"fragment"}),
         When(Drawn(info, before), {"colorWrite"})
           \cup When(DepthWritten(info, before), {"depthWrite"}),
         When(Drawn(info, before), {"colorRead", "colorWrite"})
           \cup When(Used(info, before, {"depth"}), {"depthRead"})
           \cup When(DepthWritten(info, before), {"depthWrite"})
           \cup When(InputRead(info, before), {"inputRead"}))

\* From each subpass to the next one.
ChainDependency(info, s) ==
    LET before == s - 1
    IN Dependency(before, s,
         When(Drawn(info, before), {"colorOutput"}) \cup When(DepthWritten(info, before), Tests),
         When(Drawn(info, s), {"colorOutput"}) \cup When(Used(info, s, {"depth"}), Tests)
           \cup When(InputRead(info, s), {"fragment"}),
         When(Drawn(info, before), {"colorWrite"})
           \cup When(DepthWritten(info, before), {"depthWrite"}),
         When(Drawn(info, s), {"colorRead", "colorWrite"})
           \cup When(Used(info, s, {"depth"}), {"depthRead"})
           \cup When(DepthWritten(info, s), {"depthWrite"})
           \cup When(InputRead(info, s), {"inputRead"}))

ChainDependencies(info) ==
    {ChainDependency(info, s) : s \in DOMAIN info.subpasses \ {1}}

-----------------------------------------------------------------------------
(* The workarounds and the pass.                                           *)

\* FixupRenderPassWorkaround, then FixupWsiBarrier.
Fixup(description, workarounds) ==
    [description EXCEPT
        !.store = @ \/ "forceStore" \in workarounds,
        !.initial = IF /\ "acquireEarly" \in workarounds
                       /\ description.initial = "undefined" /\ description.final = "present"
                    THEN "colorAttachment" ELSE @]

Build(info, workarounds) ==
    LET walks == [a \in DOMAIN info.attachments |-> Walk(info, a)]
        final(a) == IF Describe(info, a).final = "undefined" THEN walks[a].layout
                    ELSE Describe(info, a).final
    IN [attachments |-> [a \in DOMAIN walks |->
          Fixup([Describe(info, a) EXCEPT !.initial = walks[a].initial, !.final = final(a)],
                workarounds)],
        layouts |-> [a \in DOMAIN walks |-> walks[a].layouts],
        uses |-> [s \in DOMAIN info.subpasses |-> [a \in DOMAIN walks |-> Uses(info, a, s)]],
        preserve |-> [s \in DOMAIN info.subpasses |->
                        {a \in DOMAIN walks : Preserved(walks[a], s)}],
        dependencies |-> ExternalDependencies(info, walks) \cup SelfDependencies(info)
                           \cup ChainDependencies(info)]
=============================================================================
