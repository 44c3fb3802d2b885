---------------------------- MODULE CommandBuffers ----------------------------
(***************************************************************************)
(* Recording into a command buffer: what each call makes of the state that *)
(* Vulkan keeps while it records, and what later draws and copies see of   *)
(* it. A call x is a record; c is the state of the command buffer. Dynamic *)
(* state is the set of the one value last set, empty while none is.        *)
(***************************************************************************)
EXTENDS Integers, Sequences

CONSTANT UintLimit \* the number of values of a uint32: 2^32

ASSUME UintAssumption == UintLimit \in Nat \ {0}

None == [call |-> "none"]

\* vkBeginCommandBuffer forgets everything, also in a buffer used before.
Fresh == [pass |-> {}, viewport |-> {}, scissor |-> {},
          depth_test |-> {}, depth_write |-> {}, depth_compare |-> {},
          stencil_test |-> {}, front |-> {}, back |-> {}, masks |-> {},
          graphics |-> {}, compute |-> {}, texture_heap |-> FALSE, sampler_heap |-> FALSE,
          root |-> {}, indices |-> {}, stride |-> {}, region |-> {}, last |-> None]

set_viewport(c, v) == [c EXCEPT !.viewport = {v}]
set_scissor(c, s) == [c EXCEPT !.scissor = {s}]

(***************************************************************************)
(* DepthStencilState. A face stands for its operations, its comparison and *)
(* its reference; masks for the two masks.                                 *)
(***************************************************************************)
DepthStencilState == [depth_test |-> FALSE, depth_write |-> FALSE, depth_compare |-> "less_equal",
                      stencil_test |-> FALSE, front |-> "keep", back |-> "keep", masks |-> "all"]

SetDepth(c, state) ==
  IF state.depth_test
    THEN [c EXCEPT !.depth_test = {TRUE}, !.depth_write = {state.depth_write},
                   !.depth_compare = {state.depth_compare}]
    ELSE [c EXCEPT !.depth_test = {FALSE}]

MutantSetStencil(c, state) ==
  IF state.stencil_test
    THEN [c EXCEPT !.stencil_test = {TRUE}, !.front = {state.front}, !.back = {state.back},
                   !.masks = {state.masks}]
    ELSE c

SetStencil(c, state) ==
  IF state.stencil_test
    THEN [c EXCEPT !.stencil_test = {TRUE}, !.front = {state.front}, !.back = {state.back},
                   !.masks = {state.masks}]
    ELSE [c EXCEPT !.stencil_test = {FALSE}]

set_depth_stencil(c, state) == SetStencil(SetDepth(c, state), state)

(***************************************************************************)
(* Attachments are sequences or sets of [resource, format, extent]; the    *)
(* first one, the depth or else the stencil attachment gives the area.     *)
(***************************************************************************)
Attachments(x) == {x.colors[i] : i \in DOMAIN x.colors} \cup x.depth \cup x.stencil

area(x) == IF x.colors # <<>> THEN x.colors[1].extent
           ELSE (CHOOSE a \in IF x.depth # {} THEN x.depth ELSE x.stencil : TRUE).extent

Formats(x) == [colors |-> [i \in DOMAIN x.colors |-> x.colors[i].format],
               depth |-> {a.format : a \in x.depth}, stencil |-> {a.format : a \in x.stencil}]

begin_render_pass(c, x) ==
  LET begun == [c EXCEPT !.pass = {Formats(x)}]
      full == set_scissor(set_viewport(begun, area(x)), area(x))
  IN set_depth_stencil(full, DepthStencilState)

end_render_pass(c) == [c EXCEPT !.pass = {}]

(***************************************************************************)
(* A pipeline with what create_raster_pso makes of its description. State  *)
(* that is not dynamic would be the pipeline's own after vkCmdBindPipeline;*)
(* the pipelines of this library leave it at zero.                         *)
(***************************************************************************)
DrawState == {"viewport", "scissor", "depth_test", "depth_write", "depth_compare",
              "stencil_test", "front", "back", "masks"}

dynamic_states == {"viewport", "scissor", "depth_test", "depth_write", "depth_compare",
                   "stencil_test", "front", "back", "masks"}

RasterPSO(kind, colors, depth, heaps) ==
  [bind_point |-> "graphics", kind |-> kind, heaps |-> heaps, dynamic |-> dynamic_states,
   formats |-> [colors |-> colors, depth |-> depth, stencil |-> {}]]

ComputePSO(heaps) == [bind_point |-> "compute", heaps |-> heaps]

bind_pso(c, pso) ==
  IF pso.bind_point = "compute"
    THEN [c EXCEPT !.compute = {pso}]
    ELSE [field \in DOMAIN c |-> CASE field = "graphics" -> {pso}
                                   [] field \in DrawState \ pso.dynamic -> {"zero"}
                                   [] OTHER -> c[field]]

set_texture_descriptor_heap(c) == [c EXCEPT !.texture_heap = TRUE]
set_sampler_descriptor_heap(c) == [c EXCEPT !.sampler_heap = TRUE]

(***************************************************************************)
(* Draws and dispatches. Push data that is not pushed again stays.         *)
(***************************************************************************)
NoRoot == "empty"

emit_root_data(c, root) == IF root = NoRoot THEN c ELSE [c EXCEPT !.root = {root}]

BindIndices(c, indices) == [c EXCEPT !.indices = {indices}]

\* The distance in bytes of the arguments of one draw from those of the next.
CommandSize == [draw_indirect |-> 16, draw_indexed_indirect |-> 20, draw_meshlets_indirect |-> 12]

Stride(x) == IF x.stride = 0 THEN CommandSize[x.call] ELSE x.stride

Indirect(c, x) == [emit_root_data(c, x.root) EXCEPT !.stride = {Stride(x)}]

draw(c, x) == emit_root_data(c, x.root)
draw_indexed(c, x) == BindIndices(emit_root_data(c, x.root), x.indices)
draw_indirect(c, x) == Indirect(c, x)
draw_indexed_indirect(c, x) == BindIndices(Indirect(c, x), x.indices)
draw_meshlets(c, x) == emit_root_data(c, x.root)
draw_meshlets_indirect(c, x) == Indirect(c, x)
dispatch(c, x) == emit_root_data(c, x.root)
dispatch_indirect(c, x) == emit_root_data(c, x.root)

-----------------------------------------------------------------------------
(***************************************************************************)
(* Copies between memory and a texture. A texture is its size in texels,   *)
(* its layers, and the blocks of its format; a copy is a TextureCopyDesc.  *)
(* Axes are x, y and z.                                                    *)
(***************************************************************************)
CopyTextures == [extent : [1..3 -> Nat], layers : Nat, block : [1..3 -> Nat \ {0}],
                 bytes_per_block : Nat \ {0}]

TextureCopyDescs == [mip_level : Nat, base_slice : Nat, slice_count : Nat, offset : [1..3 -> Nat],
                     extent : [1..3 -> Nat], row_pitch_bytes : Nat, slice_pitch_bytes : Nat]

divide_up(a, b) == (a + b - 1) \div b

Shifted(size, bits) ==
  LET shifted[b \in 0..bits] == IF b = 0 THEN size ELSE shifted[b - 1] \div 2 IN shifted[bits]

MipExtent(texture, mip_level) ==
  [axis \in 1..3 |-> LET size == Shifted(texture.extent[axis], mip_level)
                     IN IF size = 0 THEN 1 ELSE size]

CopyExtent(texture, copy) ==
  [axis \in 1..3 |-> IF copy.extent[axis] = 0
                       THEN MipExtent(texture, copy.mip_level)[axis] - copy.offset[axis]
                       ELSE copy.extent[axis]]

TextureCopyDesc == [mip_level |-> 0, base_slice |-> 0, slice_count |-> 0, offset |-> <<0, 0, 0>>,
                    extent |-> <<0, 0, 0>>, row_pitch_bytes |-> 0, slice_pitch_bytes |-> 0]

uint32(value) == value % UintLimit

(***************************************************************************)
(* Row length and image height in texels. The pitches are uint64, what     *)
(* Vulkan takes is uint32.                                                 *)
(***************************************************************************)
RowTexels(texture, copy) == (copy.row_pitch_bytes \div texture.bytes_per_block) * texture.block[1]

SliceTexels(texture, copy, row_pitch) == (copy.slice_pitch_bytes \div row_pitch) * texture.block[2]

MutantImageHeight(texture, copy, row_pitch) ==
  IF copy.slice_pitch_bytes = 0 THEN 0 ELSE uint32(copy.slice_pitch_bytes \div row_pitch)

ImageHeight(texture, copy, row_pitch) ==
  IF copy.slice_pitch_bytes = 0 THEN 0 ELSE uint32(SliceTexels(texture, copy, row_pitch))

PackedPitch(texture, copy) ==
  divide_up(CopyExtent(texture, copy)[1], texture.block[1]) * texture.bytes_per_block

RowPitch(texture, copy) ==
  IF copy.row_pitch_bytes = 0 THEN PackedPitch(texture, copy) ELSE copy.row_pitch_bytes

make_texture_copy_region(texture, copy) ==
  [row_length |-> uint32(RowTexels(texture, copy)),
   image_height |-> ImageHeight(texture, copy, RowPitch(texture, copy)),
   layers |-> IF copy.slice_count = 0 THEN texture.layers - copy.base_slice ELSE copy.slice_count,
   offset |-> copy.offset,
   extent |-> CopyExtent(texture, copy)]

Copy(c, x) == [c EXCEPT !.region = {make_texture_copy_region(x.texture, x.copy)}]

copy_memory_to_texture(c, x) == Copy(c, x)
copy_texture_to_memory(c, x) == Copy(c, x)

(***************************************************************************)
(* What Vulkan allows: whole blocks but at the end of the mip level, and   *)
(* pitches of whole blocks and rows that leave room for the copy. And what *)
(* the casts leave to the caller: a row and a slice are less than 2^32     *)
(* texels from the next; more is cut off, and no assertion looks.          *)
(***************************************************************************)
LegalCopy(texture, copy) ==
  LET extent == CopyExtent(texture, copy)
      rows == divide_up(extent[2], texture.block[2])
      row_pitch == RowPitch(texture, copy)
  IN /\ \A axis \in 1..3 :
          LET end == copy.offset[axis] + extent[axis]
              size == MipExtent(texture, copy.mip_level)[axis]
          IN /\ copy.offset[axis] % texture.block[axis] = 0
             /\ extent[axis] > 0 /\ end <= size
             /\ end = size \/ extent[axis] % texture.block[axis] = 0
     /\ copy.base_slice + copy.slice_count <= texture.layers /\ copy.base_slice < texture.layers
     /\ row_pitch >= PackedPitch(texture, copy) /\ row_pitch % texture.bytes_per_block = 0
     /\ RowTexels(texture, copy) < UintLimit
     /\ copy.slice_pitch_bytes # 0 =>
          /\ copy.slice_pitch_bytes % row_pitch = 0 /\ copy.slice_pitch_bytes >= row_pitch * rows
          /\ SliceTexels(texture, copy, row_pitch) < UintLimit
=============================================================================
