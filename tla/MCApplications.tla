---------------------------- MODULE MCApplications ----------------------------
(* Values of the constants of Applications for TLC. *)
EXTENDS Applications

MCMaxFrames == [triangle |-> 1, cube |-> 4, deferred_renderer |-> 5, any |-> 1]

-----------------------------------------------------------------------------
MCColor == View("color", 0, "rgba8_unorm", 1)
MCDepthStencil == View("depth", 0, "d32_float", 2)

MCStates ==
  {DepthStencilState,
   [DepthStencilState EXCEPT !.depth_test = TRUE, !.depth_compare = "less"],
   [DepthStencilState EXCEPT !.depth_test = TRUE, !.depth_write = TRUE,
                             !.stencil_test = TRUE, !.front = "replace"],
   [DepthStencilState EXCEPT !.stencil_test = TRUE, !.back = "invert", !.masks = "low"]}

MCDraw(call, root) == [call |-> call, root |-> root, indices |-> "indices", stride |-> 0]

MCOtherCalls ==
  {Bind(RasterPSO("vertex", <<"rgba8_unorm">>, {}, {})),
   Bind(RasterPSO("mesh", <<>>, {"d32_float"}, {"texture"})),
   Bind(ComputePSO({"sampler"})),
   Call("set_texture_descriptor_heap"), Call("set_sampler_descriptor_heap"),
   BeginRenderPass(<<MCColor>>, {}), BeginRenderPass(<<>>, {MCDepthStencil}), EndRenderPass,
   [call |-> "set_viewport", viewport |-> 3], [call |-> "set_scissor", scissor |-> 3],
   [call |-> "copy_memory"]}
  \cup {[call |-> "set_depth_stencil", state |-> s] : s \in MCStates}
  \cup {MCDraw(call, "root") : call \in Draws \cup Dispatches}
  \cup {MCDraw("draw", NoRoot)}
  \cup {[MCDraw(call, "other") EXCEPT !.stride = 32] : call \in {"draw_indirect", "draw_meshlets_indirect"}}

-----------------------------------------------------------------------------
(* A flat texture with layers, one of compressed blocks, and a volume.     *)
MCTextures ==
  {[extent |-> <<5, 3, 1>>, layers |-> 3, block |-> <<1, 1, 1>>, bytes_per_block |-> 4],
   [extent |-> <<10, 6, 1>>, layers |-> 1, block |-> <<4, 4, 1>>, bytes_per_block |-> 8],
   [extent |-> <<4, 2, 4>>, layers |-> 1, block |-> <<1, 1, 1>>, bytes_per_block |-> 2]}

MCOffsets(t) == {<<0, 0, 0>>, <<t.block[1], 0, 0>>, <<0, t.block[2], 0>>}
MCExtents(t) == {<<0, 0, 0>>, <<t.block[1], t.block[2], 1>>, <<t.block[1], 0, 0>>}
MCSlices == {<<0, 0>>, <<1, 0>>, <<1, 1>>}

MCCopies(t) ==
  {copy \in
     {[mip_level |-> m, base_slice |-> s[1], slice_count |-> s[2], offset |-> o, extent |-> e,
       row_pitch_bytes |-> r * t.bytes_per_block, slice_pitch_bytes |-> p * t.bytes_per_block] :
        m \in 0..2, s \in MCSlices, o \in MCOffsets(t), e \in MCExtents(t),
        r \in {0, 3, 5, 8}, p \in {0, 6, 15, 24}} : LegalCopy(t, copy)}

MCTransfers == UNION {{[texture |-> t, copy |-> copy] : copy \in MCCopies(t)} : t \in MCTextures}
=============================================================================
