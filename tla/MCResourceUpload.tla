-------------------------- MODULE MCResourceUpload --------------------------
(* Small GPUs and what an application asks of them, for TLC.               *)
EXTENDS ResourceUpload, TLC

All == {"graphics", "compute", "transfer"}
F(flags, count) == [flags |-> flags, count |-> count, present |-> TRUE]

(* One queue; one family of three queues; a copy engine of its own; a      *)
(* second family for compute and transfers; a family for each of the three,*)
(* the first of them unable to present.                                    *)
GPUs ==
    {<<F(All, 1)>>, <<F(All, 3)>>, <<F(All, 1), F({"transfer"}, 1)>>,
     <<F(All, 1), F({"compute", "transfer"}, 2)>>,
     <<F({"transfer"}, 1), [F(All, 1) EXCEPT !.present = FALSE], F(All, 1)>>}

(* A buffer with every use but indirect draws; an image without data; a    *)
(* render target; a texture with data, with and without mipmaps; an image  *)
(* of linear tiling that the host writes, or cannot have.                  *)
Buffer == [kind |-> "buffer", domain |-> "device", staged |-> TRUE, mips |-> FALSE, levels |-> 1,
           sharing |-> "concurrent", owners |-> {"graphics"}, layout |-> "undefined",
           stages |-> {"graphics", "compute", "transfer"}]
Image == [Buffer EXCEPT !.kind = "image", !.layout = "initial", !.staged = FALSE]
RenderTarget == [Image EXCEPT !.stages = {"graphics", "transfer"}]
Texture == [Image EXCEPT !.staged = TRUE, !.stages = {"graphics", "compute"}]
Mipmapped == [Image EXCEPT !.staged = TRUE, !.mips = TRUE, !.levels = 3]
Linear == [Image EXCEPT !.domain = "host"]
Indirect == [Buffer EXCEPT !.stages = {"indirect", "transfer"}]

Concurrently(r) == {[r EXCEPT !.owners = {o, p}] : o, p \in Owners}
Exclusively(r) == {[r EXCEPT !.sharing = "exclusive", !.owners = {o}] : o \in Owners}
Wanted ==
    UNION {Concurrently(r) : r \in {Buffer, Image, RenderTarget, Texture, Mipmapped, Linear}}
      \cup UNION {Exclusively(r) : r \in {Buffer, Indirect, Image, Texture, Mipmapped, Linear}}
      \cup {[Buffer EXCEPT !.staged = FALSE], [Linear EXCEPT !.staged = TRUE],
            [Image EXCEPT !.layout = "undefined"]}

(* What the code gets wrong is left out, see the README.                   *)
MCCases == {case \in GPUs \X Wanted : Handled(Selected(case[1]), case[2])}
=============================================================================
