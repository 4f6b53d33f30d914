CONSTANTS
  c1 = c1
  c2 = c2
  c3 = c3
  o1 = o1
  Cmds = {c1, c2}
  Objects = {o1}
  Work <- DrawAndDispatch
  Demands = {}
  WaitStages = {{"other"}}
  MaxFrames = 2
  FrameCounts = {2}
  Timeline = TRUE
  VkQueueOf <- Dedicated
  FamilyOf <- Dedicated
  Discrete = TRUE
  MaxEmpty = 1
SPECIFICATION FairSpec
PROPERTIES WaitsConsumed WorkExecuted Reclaimed
