-------------------------- MODULE MCCommandBuffer --------------------------
(* A small device for TLC: three graphics and two compute programs.        *)
EXTENDS CommandBuffer, TLC

CONSTANTS mesh, flat, tex, comp, conv, rp1, rp2, one, two, smp1, smp2

Slot(set, binding, index, kind) ==
  [set |-> set, binding |-> binding, index |-> index, kind |-> kind]

Ubo == Slot(0, 0, 0, "uniform")
Buf == Slot(1, 0, 0, "storage")
Tex == Slot(0, 2, 0, "sampledImage")
Att == Slot(1, 1, 0, "inputAttachment")

View == Slot(0, 3, 0, "bufferView")

SlotSet == {Ubo, Buf, Tex, Att, View}

Layout(compute, attrib, push, spec, slots) ==
  [compute |-> compute, attrib |-> attrib, push |-> push, spec |-> spec, slots |-> slots]
Layouts ==
  (mesh :> Layout(FALSE, TRUE, FALSE, FALSE, {}))
  @@ (flat :> Layout(FALSE, FALSE, TRUE, TRUE, {}))
  @@ (tex :> Layout(FALSE, FALSE, FALSE, FALSE, {Tex, Att}))
  @@ (comp :> Layout(TRUE, FALSE, FALSE, FALSE, {Ubo}))
  @@ (conv :> Layout(TRUE, FALSE, FALSE, FALSE, {Buf, View}))
PassSizes == (rp1 :> 2) @@ (rp2 :> 1)
Attachments == (rp1 :> one) @@ (rp2 :> two)

Client(groups, programs, passes, settings, presets) ==
  [calls |-> groups, programs |-> programs, passes |-> passes,
   settings |-> settings, presets |-> presets]
Compute == Client({"sets", "frames"}, {comp}, {}, {}, {})
Converting == Client({"sets"}, {conv}, {}, {}, {})
Textures == Client({"sets"}, {tex}, {rp1}, {}, {})
Blending == Client({"static"}, {flat}, {rp2},
                   {<<"factor", "constant">>, <<"factor", "none">>}, {"opaque"})
Constants == Client({"spec", "push"}, {flat}, {rp2}, {}, {})
Saving == Client({"static", "dynamic", "save"}, {flat}, {rp2},
                 {<<"bias", TRUE>>, <<"bias", FALSE>>}, {})
Meshes == Client({"vertex"}, {mesh}, {rp2}, {}, {})
Indexed == Client({"index", "secondary"}, {flat}, {rp1}, {}, {})
Threads == Client({"secondary", "push", "dynamic"}, {flat}, {rp1}, {}, {})
Profiles == {Compute, Converting, Textures, Blending, Constants, Saving, Meshes, Indexed, Threads}

(* A program with a sampler of its own, apart from the image.              *)
Smp == Slot(0, 1, 0, "sampler")
SamplerSlots == {Smp}
SamplerLayout == comp :> Layout(TRUE, FALSE, FALSE, FALSE, {Smp})
SamplerClient == {Compute}
=============================================================================
