CONSTANTS
  c1 = c1
  c2 = c2
  c3 = c3
  o1 = o1
  Cmds = {c1, c2}
  Objects = {}
  Work <- DrawOrCopyAndDispatch
  Demands = {"fence", "semaphore"}
  WaitStages = {{"other"}}
  MaxFrames = 2
  FrameCounts = {2}
  Timeline = FALSE
  VkQueueOf <- ComputeApart
  FamilyOf <- ComputeApart
  Discrete = TRUE
  MaxEmpty = 0
SPECIFICATION Spec
INVARIANTS UploadBeforeUse SyncInv
PROPERTIES SyncObjectsIdle FrameIsOver
