CONSTANTS
  mesh = mesh
  flat = flat
  tex = tex
  comp = comp
  conv = conv
  rp1 = rp1
  rp2 = rp2
  one = one
  two = two
  smp1 = smp1
  smp2 = smp2
  None = None
  Primary = primary
  Secondary = secondary
  RingSize = 2
  SetsPerPool = 2
  Programs = {mesh, flat, tex, comp, conv}
  Uses <- Layouts
  Slots <- SlotSet
  Passes <- PassSizes
  Attachment <- Attachments
  Cookies = {one, two}
  Samplers = {smp1, smp2}
  Details = {0}
  Offsets = {0, 1}
  Values = {0, 1}
  Dynamic = {"viewport", "bias"}
  Vbos = {0, 1}
  Frames = 2
  Clients <- Profiles
  MaxCalls = 2
SPECIFICATION Spec
INVARIANTS CommandInv DrawSeesPipeline DrawSeesBindings DrawSeesState
PROPERTIES SetsNotRewritten
CHECK_DEADLOCK FALSE
