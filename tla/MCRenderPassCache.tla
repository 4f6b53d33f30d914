------------------------- MODULE MCRenderPassCache -------------------------
(* Render passes for TLC: many shapes for one thread, a few for two.        *)
EXTENDS RenderPassCache

CONSTANTS main, worker

Attachment(kind, domain, initial, final, load, view) ==
    [kind |-> kind, format |-> IF kind = "depth" THEN "d32" ELSE "rgba8", samples |-> 1,
     domain |-> domain, initial |-> initial, final |-> final,
     load |-> load, store |-> TRUE, view |-> view]
Subpass(color, resolve, input, mode) ==
    [color |-> color, resolve |-> resolve, input |-> input, mode |-> mode]
Of(atts, subpasses) ==
    [attachments |-> atts, subpasses |-> subpasses, load |-> FALSE, store |-> FALSE]

\* Attachment 1 is a surface, 2 the light, 3 the depth.
Albedo == <<Attachment("color", "transient", "undefined", "undefined", "clear", 0),
            Attachment("color", "plain", "shaderReadOnly", "shaderReadOnly", "load", 1),
            Attachment("color", "plain", "general", "undefined", "load", 1)>>
Light == <<Attachment("color", "swapchain", "undefined", "undefined", "dontCare", 2),
           Attachment("color", "swapchain", "undefined", "undefined", "load", 2)>>
Depth == <<Attachment("depth", "transient", "undefined", "undefined", "clear", 0),
           Attachment("depth", "plain", "depthReadOnly", "undefined", "load", 3)>>

Steps == <<Subpass({1}, {}, {}, "readWrite"),     \* geometry
           Subpass({2}, {}, {1, 3}, "readOnly"),  \* lighting
           Subpass({2}, {}, {}, "none"),          \* glow
           Subpass({1}, {}, {1}, "none"),         \* blending by hand
           Subpass({2}, {}, {3}, "readWrite"),    \* soft particles
           Subpass({1, 2}, {}, {}, "readOnly")>>  \* decals

\* The n-th choice of three attachments and three subpasses, the last two of
\* which may be missing.
DeferredInfo(n) ==
    LET digit(place, base) == ((n \div place) % base) + 1
        optional(place) == (n \div place) % 7
        second == optional(72)
        third == optional(504)
    IN Of(<<Albedo[digit(1, 3)], Light[digit(3, 2)], Depth[digit(6, 2)]>>,
          <<Steps[digit(12, 6)]>> \o (IF second = 0 THEN <<>> ELSE <<Steps[second]>>)
             \o (IF third = 0 THEN <<>> ELSE <<Steps[third]>>))
Deferred == 3528

\* Multisampled colour resolved into the light.
Multisampled == [Albedo[1] EXCEPT !.samples = 4]
Resolving(light) == Of(<<Multisampled, light>>, <<Subpass({1}, {2}, {}, "none")>>)

\* Small passes that two threads ask for at once.
Small(initial, load, view) ==
    Of(<<Attachment("color", "plain", initial, "undefined", load, view)>>,
       <<Subpass({1}, {}, {}, "none")>>)
Others == <<Resolving(Light[1]), Resolving(Light[2]),
            Small("shaderReadOnly", "load", 1), Small("shaderReadOnly", "load", 2),
            Small("shaderReadOnly", "clear", 1), Small("undefined", "clear", 1),
            Of(<<Albedo[1]>>, <<Steps[4]>>)>>

AllInfos(i) == IF i <= Deferred THEN DeferredInfo(i - 1) ELSE Others[i - Deferred]
AllNames == 1..Deferred + Len(Others)

Work(first, second) == (main :> first) @@ (worker :> second)
Other(i) == Deferred + i
AllWorkloads ==
    {Work(<<i>>, <<>>) : i \in {i \in 1..Deferred + 2 : ValidInfo(AllInfos(i))}}
    \cup {Work(first, second) :
            first \in {<<Other(3), Other(7)>>, <<Other(7), Other(5)>>, <<Other(3), Other(4)>>},
            second \in {<<Other(3)>>, <<Other(6)>>, <<Other(7)>>}}

Values == <<1, 3, 9, 2, 17, 5, 33, 8>>

\* A subpass that reads an attachment and uses it for nothing else.
ReadingInfo(i) ==
    Of(<<Small("undefined", "clear", 1).attachments[1],
         Small("undefined", "clear", 2).attachments[1]>>,
       <<Subpass({1}, {}, {}, "none"), Subpass({2}, {}, {1}, "none")>>)
ReadingWorkloads == {Work(<<1>>, <<>>)}
=============================================================================
