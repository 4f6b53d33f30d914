------------------------ MODULE MCDeviceSubmission ------------------------
(* Small devices for TLC.                                                  *)
EXTENDS DeviceSubmission, TLC

CONSTANTS c1, c2, c3, o1

(* Queues and families: a GPU with a family for each type; one whose first *)
(* family has one queue and whose second computes but does not copy; one   *)
(* family (of three queues, together with Dedicated).  Which of them       *)
(* Context::CreateDevice chooses, and when, is in QueueSelection.          *)
Dedicated == [t \in Types |-> t]
ComputeApart == [t \in Types |-> IF t = "compute" THEN "q1" ELSE "q0"]
OneFamily == [t \in Types |-> "f0"]

(* What the command buffers record.                                        *)
DrawAndDispatch ==
  (c1 :> {<<"graphics", {o1}, "vbo">>}) @@ (c2 :> {<<"compute", {o1}, "ubo">>})
DrawDispatchDraw ==
  DrawAndDispatch @@ (c3 :> {<<"graphics", {o1}, "none">>})
DrawOrCopyAndDispatch ==
  (c1 :> {<<"asyncGraphics", {}, "vbo">>, <<"transfer", {}, "none">>})
    @@ (c2 :> {<<"compute", {}, "ubo">>})
AsyncDraw == [c \in Cmds |-> {<<"asyncGraphics", {}, "ubo">>}]
Dispatch == [c \in Cmds |-> {<<"compute", {o1}, "ubo">>}]
=============================================================================
