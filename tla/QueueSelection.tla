--------------------------- MODULE QueueSelection ---------------------------
(***************************************************************************)
(* Which queues of a GPU the Context asks for (Context::CreateDevice).  A  *)
(* GPU is the sequence of its queue families, each with the capabilities   *)
(* it reports, the number of its queues and whether it can present to the  *)
(* surface.  Families are numbered from 1 here and from 0 in the code, so  *)
(* 0 is VK_QUEUE_FAMILY_IGNORED; queue indices count from 0 in both.       *)
(***************************************************************************)
EXTENDS Naturals, Sequences, FiniteSetsExt

Ignored == 0

Capabilities == {"graphics", "compute", "transfer"}

QueueFamilies == [flags : SUBSET Capabilities, count : Nat \ {0}, present : BOOLEAN]

\* The first family of the set, in the order of the GPU.
FirstOf(families) == IF families = {} THEN Ignored ELSE Min(families)

Capable(gpu, flags) == {i \in DOMAIN gpu : flags \subseteq gpu[i].flags}

GraphicsFamily(gpu) ==
    FirstOf({i \in Capable(gpu, {"graphics", "compute"}) : gpu[i].present})

ComputeFamily(gpu) == FirstOf(Capable(gpu, {"compute"}) \ {GraphicsFamily(gpu)})

\* A family of its own for transfers or, failing that, the one for compute.
TransferFamily(gpu) ==
    LET others    == Capable(gpu, {"transfer"}) \ {GraphicsFamily(gpu)}
        dedicated == others \ {ComputeFamily(gpu)}
    IN  FirstOf(IF dedicated # {} THEN dedicated ELSE others)

\* A plausible mistake: to ask for more queues than the family has.
BugClamped(gpu, family, n) == n

\* The last queue of a family that is not past the n-th.
Clamped(gpu, family, n) == Min({gpu[family].count - 1, n})

(* What does not find a family of its own takes the next queue of the      *)
(* graphics family, or shares its last one.                                *)
Selected(gpu) ==
    LET g == GraphicsFamily(gpu)
        c == ComputeFamily(gpu)
        x == TransferFamily(gpu)
        universal == IF c = Ignored THEN 2 ELSE 1
    IN  [graphics |-> <<g, 0>>,
         compute  |-> IF c = Ignored THEN <<g, Clamped(gpu, g, 1)>> ELSE <<c, 0>>,
         transfer |-> CASE x = Ignored -> <<g, Clamped(gpu, g, universal)>>
                        [] x # Ignored /\ x = c -> <<x, Clamped(gpu, x, 1)>>
                        [] OTHER -> <<x, 0>>]

\* How many of the three queues the graphics family is asked to serve.
Universal(gpu) ==
    1 + (IF ComputeFamily(gpu) = Ignored THEN 1 ELSE 0)
      + (IF TransferFamily(gpu) = Ignored THEN 1 ELSE 0)

\* The number of queues of a selected family that vkCreateDevice is asked for.
Created(gpu, family) ==
    CASE family = GraphicsFamily(gpu) -> Min({Universal(gpu), gpu[family].count})
      [] family = ComputeFamily(gpu)  -> Min({IF family = 1 THEN 1 ELSE 2, gpu[family].count})
      [] OTHER -> 1
=============================================================================
