----------------------------- MODULE Applications -----------------------------
(***************************************************************************)
(* Whole programs on the API: the frames of the examples, recorded call by *)
(* call (triangle.cpp, cube.cpp, deferred_renderer.cpp) inside the loops   *)
(* of FrameLoop, and any other program, which records any legal calls.     *)
(* CommandBuffers says what the calls make of the command buffer, and      *)
(* Synchronization whether the GPU may do what they ask for.               *)
(***************************************************************************)
EXTENDS FrameLoop, CommandBuffers, Synchronization

CONSTANTS
  OtherCalls, \* calls any other program makes
  Transfers   \* the copies it makes: [texture, copy]

ASSUME TransfersAssumption ==
  \A x \in Transfers : /\ x.texture \in CopyTextures /\ x.copy \in TextureCopyDescs
                       /\ LegalCopy(x.texture, x.copy)

VARIABLES
  todo,     \* calls of this frame that are still to be recorded
  commands, \* the state of the command buffer
  asked,    \* what the program wants for the draws of the pass
  pending,  \* textures were created that no command buffer has initialized
  uses      \* uses of resources by submissions not known to have completed

recording == <<todo, commands, asked, pending, uses>>
vars == <<frame_vars, recording>>

-----------------------------------------------------------------------------
(***************************************************************************)
(* Resources and calls. Textures belong to their generation; 0 is what     *)
(* lives as long as the program. The uses of a draw, dispatch or copy are  *)
(* what its shaders touch and something else writes.                       *)
(***************************************************************************)
Resource(name, generation) == [name |-> name, generation |-> generation]
Use(resource, stage, access) == [resource |-> resource, stage |-> stage, access |-> access]

View(name, generation, format, size) ==
  [resource |-> Resource(name, generation), format |-> format, extent |-> size]

backbuffer(size) == View("backbuffer", 0, "bgra8_srgb", size)

Call(call) == [call |-> call]
BeginRenderPass(colors, depth) ==
  [call |-> "begin_render_pass", colors |-> colors, depth |-> depth, stencil |-> {}]
Bind(pso) == [call |-> "bind_pso", pso |-> pso]
Draw(call, root, touched) == [call |-> call, root |-> root, uses |-> touched]
MemoryBarrier(before, before_access, after, after_access) ==
  [call |-> "barrier", before |-> before, before_access |-> before_access,
   after |-> after, after_access |-> after_access]
Depth(test, write) ==
  [call |-> "set_depth_stencil",
   state |-> [DepthStencilState EXCEPT !.depth_test = test, !.depth_write = write]]

BeginCommands == Call("begin_commands")
EndRenderPass == Call("end_render_pass")

-----------------------------------------------------------------------------
triangle_pso == RasterPSO("vertex", <<"bgra8_srgb">>, {}, {})

TriangleFrame(size) ==
  << BeginCommands,
     BeginRenderPass(<<backbuffer(size)>>, {}),
     Bind(triangle_pso), Draw("draw", NoRoot, {}),
     EndRenderPass >>

CubeTexture == Resource("texture", 0)

CubeUpload ==
  << BeginCommands,
     [call |-> "copy_memory_to_texture",
      texture |-> [extent |-> <<256, 256, 1>>, layers |-> 1, block |-> <<1, 1, 1>>, bytes_per_block |-> 4],
      copy |-> TextureCopyDesc,
      uses |-> {Use(CubeTexture, "COPY", "TRANSFER_WRITE")}],
     MemoryBarrier({"transfer"}, {"transfer_write"}, {"fragment"}, {"shader_read"}) >>

cube_pso == RasterPSO("vertex", <<"bgra8_srgb">>, {"d32_float"}, {"texture", "sampler"})

CubeFrame(depth, size) ==
  << BeginCommands,
     Call("set_texture_descriptor_heap"), Call("set_sampler_descriptor_heap"),
     MemoryBarrier({"depth_stencil_tests"}, {"depth_stencil_write"},
                   {"depth_stencil_tests"}, {"depth_stencil_write"}),
     BeginRenderPass(<<backbuffer(size)>>,
                     {View("depth", depth.generation, "d32_float", depth.extent)}),
     Depth(TRUE, TRUE),
     Bind(cube_pso),
     [call |-> "draw_indexed", root |-> "cube", indices |-> "cube",
      uses |-> {Use(CubeTexture, "FRAGMENT_SHADER", "SHADER_SAMPLED_READ")}],
     EndRenderPass >>

-----------------------------------------------------------------------------
objects == Resource("objects", 0)
simulation_pso == ComputePSO({})
gbuffer_pso == RasterPSO("mesh", <<"rgba8_unorm", "rgba16_float">>, {"d32_float"}, {})
deferred_lighting_pso == RasterPSO("vertex", <<"bgra8_srgb">>, {}, {"texture"})

Simulation ==
  << MemoryBarrier({"compute", "mesh"}, {"shader_write", "shader_read"},
                   {"compute"}, {"shader_read", "shader_write"}),
     Bind(simulation_pso),
     Draw("dispatch", "simulation",
          {Use(objects, "COMPUTE_SHADER", a) : a \in {"SHADER_STORAGE_READ", "SHADER_STORAGE_WRITE"}}) >>

GBufferPass(gbuffer) ==
  << MemoryBarrier({"compute", "fragment", "depth_stencil_tests"},
                   {"shader_write", "shader_read", "depth_stencil_write"},
                   {"mesh", "color_output", "depth_stencil_tests"},
                   {"shader_read", "color_write", "depth_stencil_write"}),
     BeginRenderPass(<<View("albedo", gbuffer.generation, "rgba8_unorm", gbuffer.extent),
                       View("normal_roughness", gbuffer.generation, "rgba16_float", gbuffer.extent)>>,
                     {View("depth", gbuffer.generation, "d32_float", gbuffer.extent)}),
     Depth(TRUE, TRUE),
     Bind(gbuffer_pso),
     Draw("draw_meshlets", "gbuffer", {Use(objects, "MESH_SHADER", "SHADER_STORAGE_READ")}),
     EndRenderPass >>

\* described is the generation the row of the descriptor heap describes.
Lighting(described, size) ==
  << MemoryBarrier({"color_output", "depth_stencil_tests"}, {"color_write", "depth_stencil_write"},
                   {"fragment"}, {"shader_read"}),
     BeginRenderPass(<<backbuffer(size)>>, {}),
     Bind(deferred_lighting_pso),
     Draw("draw", "lighting",
          {Use(Resource(texture, described), "FRAGMENT_SHADER", "SHADER_SAMPLED_READ") :
             texture \in {"albedo", "normal_roughness", "depth"}}),
     EndRenderPass >>

DeferredFrame(gbuffer, described, size) ==
  <<BeginCommands, Call("set_texture_descriptor_heap")>>
    \o Simulation \o GBufferPass(gbuffer) \o Lighting(described, size)

-----------------------------------------------------------------------------
Draws == {"draw", "draw_indexed", "draw_indirect", "draw_indexed_indirect",
          "draw_meshlets", "draw_meshlets_indirect"}
MeshDraws == {"draw_meshlets", "draw_meshlets_indirect"}
Dispatches == {"dispatch", "dispatch_indirect"}
Copies == {"copy_memory_to_texture", "copy_texture_to_memory"}

\* Pipelines come from create_raster_pso and create_compute_pso.
ASSUME OtherCallsAssumption ==
  \A x \in OtherCalls :
    /\ x.call \notin Copies
    /\ x.call = "bind_pso" => x.pso.bind_point = "compute" \/ x.pso.dynamic = dynamic_states
    /\ x.call = "set_depth_stencil" => x.state.depth_test \in BOOLEAN /\ x.state.stencil_test \in BOOLEAN

\* What the recording of the call x makes of the command buffer.
Effect(c, x) ==
  CASE x.call = "begin_commands" -> Fresh
    [] x.call = "set_texture_descriptor_heap" -> set_texture_descriptor_heap(c)
    [] x.call = "set_sampler_descriptor_heap" -> set_sampler_descriptor_heap(c)
    [] x.call = "begin_render_pass" -> begin_render_pass(c, x)
    [] x.call = "end_render_pass" -> end_render_pass(c)
    [] x.call = "set_viewport" -> set_viewport(c, x.viewport)
    [] x.call = "set_scissor" -> set_scissor(c, x.scissor)
    [] x.call = "set_depth_stencil" -> set_depth_stencil(c, x.state)
    [] x.call = "bind_pso" -> bind_pso(c, x.pso)
    [] x.call = "draw" -> draw(c, x)
    [] x.call = "draw_indexed" -> draw_indexed(c, x)
    [] x.call = "draw_indirect" -> draw_indirect(c, x)
    [] x.call = "draw_indexed_indirect" -> draw_indexed_indirect(c, x)
    [] x.call = "draw_meshlets" -> draw_meshlets(c, x)
    [] x.call = "draw_meshlets_indirect" -> draw_meshlets_indirect(c, x)
    [] x.call = "dispatch" -> dispatch(c, x)
    [] x.call = "dispatch_indirect" -> dispatch_indirect(c, x)
    [] x.call = "copy_memory_to_texture" -> copy_memory_to_texture(c, x)
    [] x.call = "copy_texture_to_memory" -> copy_texture_to_memory(c, x)
    [] OTHER -> c

Record(c, x) ==
  [Effect(c, x) EXCEPT !.last = IF x.call \in Draws \cup Copies THEN x ELSE None,
                       !.region = IF x.call \in Copies THEN @ ELSE {}]

(***************************************************************************)
(* What the program wants, after begin_render_pass: a viewport and a       *)
(* scissor of the whole area, depth and stencil off, until it sets others. *)
(***************************************************************************)
Asks(a, x) ==
  CASE x.call = "begin_render_pass" ->
         [viewport |-> area(x), scissor |-> area(x), state |-> DepthStencilState]
    [] x.call = "set_viewport" -> [a EXCEPT !.viewport = x.viewport]
    [] x.call = "set_scissor" -> [a EXCEPT !.scissor = x.scissor]
    [] x.call = "set_depth_stencil" -> [a EXCEPT !.state = x.state]
    [] OTHER -> a

(***************************************************************************)
(* What Vulkan demands of a call: it is inside or outside a pass, the      *)
(* pipeline bound fits the call and the pass, the heaps its shaders index  *)
(* are bound, and no attachment is smaller than the area.                  *)
(***************************************************************************)
HeapsBound(c, pso) == /\ "texture" \in pso.heaps => c.texture_heap
                      /\ "sampler" \in pso.heaps => c.sampler_heap

Legal(c, x) ==
  CASE x.call \in Draws ->
         \E pso \in c.graphics : /\ c.pass = {pso.formats}
                                 /\ HeapsBound(c, pso)
                                 /\ (x.call \in MeshDraws) <=> (pso.kind = "mesh")
    [] x.call \in Dispatches -> c.pass = {} /\ \E pso \in c.compute : HeapsBound(c, pso)
    [] x.call = "begin_render_pass" -> c.pass = {} /\ \A a \in Attachments(x) : a.extent >= area(x)
    [] x.call = "end_render_pass" -> c.pass # {}
    [] x.call \in Copies \cup {"copy_memory", "barrier"} -> c.pass = {}
    [] OTHER -> TRUE

AttachmentUses(x) ==
  {Use(x.colors[i].resource, "COLOR_ATTACHMENT_OUTPUT", "COLOR_ATTACHMENT_WRITE") : i \in DOMAIN x.colors}
    \cup {Use(a.resource, tests, "DEPTH_STENCIL_ATTACHMENT_WRITE") :
            a \in x.depth, tests \in {"EARLY_FRAGMENT_TESTS", "LATE_FRAGMENT_TESTS"}}

\* Of any other program, which resources it uses is left open.
UsesOf(x) ==
  IF program = "any" THEN {}
  ELSE CASE x.call = "begin_render_pass" -> AttachmentUses(x)
         [] x.call \in Draws \cup Dispatches \cup Copies -> x.uses
         [] OTHER -> {}

(***************************************************************************)
(* The acquired image is handed over by a semaphore for which all commands *)
(* wait, and the transitions of begin_commands are visible to everything.  *)
(***************************************************************************)
UsesAfter(x) ==
  CASE x.call = "begin_commands" -> {u \in uses : u.resource.name # "backbuffer"}
    [] x.call = "barrier" -> Barrier(uses, x.before, x.before_access, x.after, x.after_access)
    [] OTHER -> AfterUses(uses, UsesOf(x), latest_completion + 1)

Perform(x) ==
  /\ commands' = Record(commands, x)
  /\ asked' = Asks(asked, x)
  /\ uses' = UsesAfter(x)
  /\ pending' = (pending /\ x.call # "begin_commands")
  /\ UNCHANGED frame_vars

-----------------------------------------------------------------------------
ScriptOf(depth, described, size) ==
  CASE program = "triangle" -> TriangleFrame(size)
    [] program = "cube" -> CubeFrame(depth, size)
    [] program = "deferred_renderer" -> DeferredFrame(depth, described, size)
    [] program = "any" -> <<BeginCommands>>

Init ==
  /\ FrameInit
  /\ todo = IF program = "cube" THEN CubeUpload ELSE <<>>
  /\ commands = Fresh
  /\ asked = [viewport |-> 0, scissor |-> 0, state |-> DepthStencilState]
  /\ pending = (program = "cube")
  /\ uses = {}

RecordNext ==
  /\ todo # <<>>
  /\ Perform(Head(todo))
  /\ todo' = Tail(todo)

\* A copy depends on nothing recorded before it, so those come first.
RecordAnything ==
  /\ program = "any" /\ step = "record" /\ todo = <<>>
  /\ \/ \E x \in OtherCalls : Legal(commands, x) /\ Perform(x)
     \/ /\ commands = Fresh
        /\ \E x \in Transfers, call \in Copies :
             Perform([call |-> call, texture |-> x.texture, copy |-> x.copy])
  /\ UNCHANGED todo

(***************************************************************************)
(* What the program knows the GPU to have completed orders everything it   *)
(* submits from then on after it.                                          *)
(***************************************************************************)
Known == CASE step = "wait" -> Awaited
           [] step = "tick" -> completed
           [] step = "resize" /\ program = "cube" /\ target.generation # 0 /\ target' # target ->
                latest_completion
           [] OTHER -> 0

Proceed ==
  /\ todo = <<>> /\ commands.pass = {}
  /\ HostNext
  /\ todo' = IF step' = "record" /\ step # "record"
               THEN ScriptOf(target', rows'[descriptor_row'], extent')
               ELSE <<>>
  /\ pending' = (pending \/ target' # target)
  /\ uses' = {u \in uses : u.value > Known}
  /\ UNCHANGED <<commands, asked>>

Next ==
  \/ RecordNext \/ RecordAnything
  \/ Proceed
  \/ GpuCompletes /\ UNCHANGED recording

Spec == Init /\ [][Next]_vars

-----------------------------------------------------------------------------
(***************************************************************************)
(* Draws see what was asked for since their pass began, whatever earlier   *)
(* passes and calls left in the command buffer, with every dynamic state   *)
(* that matters set; and what the examples record is legal: it fits the    *)
(* targets of the moment, the bound pipeline and heaps (begin_render_pass, *)
(* set_*, draws and dispatches of NoGraphicsAPI.cpp; the examples).        *)
(***************************************************************************)
Sees(c) ==
  [viewport |-> c.viewport, scissor |-> c.scissor,
   depth |-> IF c.depth_test = {FALSE} THEN {<<>>}
             ELSE c.depth_test \X c.depth_write \X c.depth_compare,
   stencil |-> IF c.stencil_test = {FALSE} THEN {<<>>}
               ELSE c.stencil_test \X c.front \X c.back \X c.masks]

Wants(a) ==
  LET s == a.state
  IN [viewport |-> {a.viewport}, scissor |-> {a.scissor},
      depth |-> {IF s.depth_test THEN <<TRUE, s.depth_write, s.depth_compare>> ELSE <<>>},
      stencil |-> {IF s.stencil_test THEN <<TRUE, s.front, s.back, s.masks>> ELSE <<>>}]

OwnArguments(c) ==
  /\ c.last.root # NoRoot => c.root = {c.last.root}
  /\ c.last.call \in {"draw_indexed", "draw_indexed_indirect"} => c.indices = {c.last.indices}
  /\ c.last.call \in DOMAIN CommandSize /\ c.last.stride # 0 => c.stride = {c.last.stride}

DrawsSeeWhatWasAsked ==
  /\ commands.last.call \in Draws => Sees(commands) = Wants(asked) /\ OwnArguments(commands)
  /\ todo # <<>> => Legal(commands, Head(todo))

(***************************************************************************)
(* A copy reads or writes each row and slice of blocks where the caller's  *)
(* TextureCopyDesc puts it in memory: zero pitches are tightly packed,     *)
(* zero extents and slices reach to the end (make_texture_copy_region).    *)
(* Vulkan counts row length and image height in texels, zero being the     *)
(* extent of the copy.                                                     *)
(***************************************************************************)
InPlace(texture, copy, region) ==
  LET RowBytes(width) == divide_up(width, texture.block[1]) * texture.bytes_per_block
      BlockRows(height) == divide_up(height, texture.block[2])
      row == RowBytes(IF region.row_length = 0 THEN region.extent[1] ELSE region.row_length)
      slice == row * BlockRows(IF region.image_height = 0 THEN region.extent[2]
                               ELSE region.image_height)
      asked_row == IF copy.row_pitch_bytes = 0 THEN RowBytes(region.extent[1])
                   ELSE copy.row_pitch_bytes
      asked_slice == IF copy.slice_pitch_bytes = 0 THEN asked_row * BlockRows(region.extent[2])
                     ELSE copy.slice_pitch_bytes
  IN /\ row = asked_row /\ slice = asked_slice
     /\ \A axis \in 1..3 :
          copy.extent[axis] = 0 =>
            copy.offset[axis] + region.extent[axis] = MipExtent(texture, copy.mip_level)[axis]
     /\ copy.slice_count = 0 => copy.base_slice + region.layers = texture.layers

CopiesPutTexelsInPlace ==
  \A region \in commands.region : InPlace(commands.last.texture, commands.last.copy, region)

(***************************************************************************)
(* Whatever the examples record next is ordered after, and sees, what the  *)
(* same and earlier frames did to its resources, also when the GPU is a    *)
(* frame behind; and textures are created in memory that nothing submitted *)
(* still uses (barrier; the barriers, waits and deferred destruction of    *)
(* cube.cpp and deferred_renderer.cpp).                                    *)
(***************************************************************************)
NothingRaces ==
  todo # <<>> =>
    /\ \A new \in UsesOf(Head(todo)), use \in uses : Synchronized(use, new)
    /\ Head(todo) = BeginCommands /\ pending =>
         \A u \in uses : u.resource.generation \in alive \cup {0}
=============================================================================
