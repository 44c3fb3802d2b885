-------------------------- MODULE TextureAllocator --------------------------
(***************************************************************************)
(* Textures placed in a TextureHeap by TextureAllocator                    *)
(* (src/utility/src/texture_allocator.cpp), whose first layout transition  *)
(* begin_commands (src/src/NoGraphicsAPI.cpp) records without the caller's *)
(* knowledge, and the GPU that runs the submissions in order.              *)
(*                                                                         *)
(* The caller follows the comments of NoGraphicsAPI.hpp: it creates no     *)
(* texture while it records, submits the command buffer begun first before *)
(* the others, and frees a texture once the GPU is done with it.           *)
(***************************************************************************)
EXTENDS RangeAllocator, TextureInitialization

CONSTANTS
  Slots,        \* PlacedTexture variables of the caller
  TextureSizes, \* bytes a TextureDesc may need
  MaxRecording, \* bound of the model: command buffers recorded at a time
  MaxSubmits    \* bound of the model: submissions in flight

ASSUME TextureAssumption == TextureSizes \subseteq Nat \ {0} /\ MaxRecording \in Nat /\ MaxSubmits \in Nat

VARIABLES
  texture_ranges_, \* the RangeAllocator of the texture heap
  placed,          \* the caller's PlacedTextures
  bound,           \* memory each live VkImage is bound to
  pending_texture_initializations,
  active,          \* command buffers being recorded, in the order they were begun
  queue,           \* submissions the GPU has not finished, as the images they touch
  layout,          \* of each image, once the submissions so far have run
  reports          \* what a validation layer would object to

texture_vars == <<texture_ranges_, placed, bound, pending_texture_initializations, active, queue, layout, reports>>

NoTexture == [texture |-> NoImage, token |-> 0]
Unbound == [offset |-> 0, size |-> 0]
Live == {i \in Images : bound[i] # Unbound}
BarriersOf(c) == UNION {ToSet(c.batches[k]) : k \in DOMAIN c.batches}
Touched(c) == BarriersOf(c) \cup c.uses
InUse == UNION {Touched(active[k]) : k \in DOMAIN active} \cup UNION ToSet(queue)

TextureInit ==
  /\ texture_ranges_ = ResetRanges
  /\ placed = [s \in Slots |-> NoTexture]
  /\ bound = [i \in Images |-> Unbound]
  /\ pending_texture_initializations = EmptyList
  /\ active = <<>>
  /\ queue = <<>>
  /\ layout = [i \in Images |-> "UNDEFINED"]
  /\ reports = {}

(* allocate and the create_texture it calls *)
AllocateTexture(s, size) ==
  LET n == Candidate(texture_ranges_, size)
  IN /\ n # unused_node
     /\ active = <<>>
     /\ placed[s] = NoTexture
     /\ \E i \in Images \ Live :
          /\ bound' = [bound EXCEPT ![i] = [offset |-> texture_ranges_.nodes[n].offset * element_size,
                                            size |-> size]]
          /\ placed' = [placed EXCEPT ![s] = [texture |-> i, token |-> n]]
          /\ pending_texture_initializations' =
               append_texture_initialization(pending_texture_initializations, i)
          /\ layout' = [layout EXCEPT ![i] = "UNDEFINED"]
     /\ texture_ranges_' = Split(texture_ranges_, n, Uint32(Requested(size)))
     /\ UNCHANGED <<active, queue, reports>>

AllocateTextureExhausted(s, size) ==
  /\ placed[s] = NoTexture
  /\ Candidate(texture_ranges_, size) = unused_node
  /\ UNCHANGED texture_vars

(* ~Texture *)
MutantKeepsInitialization(l, i) == l
DestroyedInitialization(l, i) ==
  IF l.links[i].owned THEN remove_texture_initialization(l, i) ELSE l

FreeTexture(s) ==
  LET texture == placed[s].texture
  IN /\ texture # NoImage
     /\ texture \notin InUse
     /\ texture_ranges_' = Freed(texture_ranges_, placed[s].token)
     /\ pending_texture_initializations' =
          DestroyedInitialization(pending_texture_initializations, texture)
     /\ bound' = [bound EXCEPT ![texture] = Unbound]
     /\ placed' = [placed EXCEPT ![s] = NoTexture]
     /\ UNCHANGED <<active, queue, layout, reports>>

FreeNothing(s) == placed[s].texture = NoImage /\ UNCHANGED texture_vars

begin_commands ==
  LET recorded == RecordedPending(pending_texture_initializations)
  IN /\ Len(active) < MaxRecording
     /\ active' = Append(active, [batches |-> recorded.batches, uses |-> {}])
     /\ pending_texture_initializations' = recorded.list
     /\ UNCHANGED <<texture_ranges_, placed, bound, queue, layout, reports>>

(* Any command that names a texture of the caller's *)
RecordUse(k, s) ==
  /\ placed[s].texture # NoImage
  /\ active' = [active EXCEPT ![k].uses = @ \cup {placed[s].texture}]
  /\ UNCHANGED <<texture_ranges_, placed, bound, pending_texture_initializations, queue, layout, reports>>

(* The GPU runs the command buffers of a submission in the order of the span *)
Run(gpu, c) ==
  LET after == [i \in Images |-> IF i \in BarriersOf(c) THEN "GENERAL" ELSE gpu.layout[i]]
  IN [layout |-> after,
      reports |-> gpu.reports
        \cup {<<"destroyed image", i>> : i \in Touched(c) \ Live}
        \cup {<<"contents discarded", i>> : i \in {j \in BarriersOf(c) : gpu.layout[j] = "GENERAL"}}
        \cup {<<"wrong layout", i>> : i \in {j \in c.uses : after[j] # "GENERAL"}}]
Orders == {o \in [DOMAIN active -> DOMAIN active] : o[1] = 1 /\ IsInjective(o)}

submit ==
  /\ active # <<>>
  /\ Len(queue) < MaxSubmits
  /\ \E o \in Orders :
       LET gpu[k \in 0..Len(active)] ==
             IF k = 0 THEN [layout |-> layout, reports |-> reports] ELSE Run(gpu[k - 1], active[o[k]])
       IN layout' = gpu[Len(active)].layout /\ reports' = gpu[Len(active)].reports
  /\ queue' = Append(queue, UNION {Touched(active[k]) : k \in DOMAIN active})
  /\ active' = <<>>
  /\ UNCHANGED <<texture_ranges_, placed, bound, pending_texture_initializations>>

GpuFinishes ==
  /\ queue # <<>>
  /\ queue' = Tail(queue)
  /\ UNCHANGED <<texture_ranges_, placed, bound, pending_texture_initializations, active, layout, reports>>

TextureNext ==
  \/ \E s \in Slots, b \in TextureSizes : AllocateTexture(s, b) \/ AllocateTextureExhausted(s, b)
  \/ \E s \in Slots : FreeTexture(s) \/ FreeNothing(s)
  \/ begin_commands
  \/ \E k \in DOMAIN active, s \in Slots : RecordUse(k, s)
  \/ submit
  \/ GpuFinishes

TextureSpec == TextureInit /\ [][TextureNext]_texture_vars

-----------------------------------------------------------------------------
TextureTypeOK ==
  /\ RangesTypeOK(texture_ranges_)
  /\ placed \in [Slots -> [texture : Images \cup {NoImage}, token : NodeIndex]]
  /\ bound \in [Images -> [offset : 0..(capacity * element_size), size : TextureSizes \cup {0}]]
  /\ pending_texture_initializations \in Lists
  /\ layout \in [Images -> {"UNDEFINED", "GENERAL"}]

(* The list, walked from either end, holds the textures in the one order,  *)
(* each live and not yet transitioned; the others are out of it            *)
(* (append_texture_initialization, remove_texture_initialization).         *)
PendingListIsExact ==
  LET l == pending_texture_initializations
      forward == Walk(l, l.first, "next")
  IN /\ TextureTypeOK
     /\ Walk(l, l.last, "previous") = Reverse(forward)
     /\ IsInjective(forward)
     /\ ToSet(forward) = {i \in Images : l.links[i].owned}
     /\ ToSet(forward) = {i \in Live : layout[i] = "UNDEFINED"
                                       /\ \A k \in DOMAIN active : i \notin BarriersOf(active[k])}

(* A barrier batch is never empty nor larger than the array of             *)
(* begin_commands, and only the command buffer begun first has any.        *)
BatchesFitTheArray ==
  \A k \in DOMAIN active :
    /\ \A b \in DOMAIN active[k].batches : Len(active[k].batches[b]) \in 1..image_barrier_batch_size
    /\ k > 1 => active[k].batches = <<>>

(* Every texture reaches GENERAL before the first command that uses it and *)
(* is transitioned once only, so that nothing written is discarded, and no *)
(* command buffer names a destroyed image, whatever the texture was doing  *)
(* when it was freed (begin_commands, ~Texture).                           *)
NothingToReport == reports = {} /\ BatchesFitTheArray

(* No two live textures share memory, and none leaves the heap: what the   *)
(* GPU still reads of one is never overwritten through another             *)
(* (TextureAllocator::allocate and free).                                  *)
TexturesDoNotAlias ==
  \A i, j \in Live : /\ bound[i].offset + bound[i].size <= capacity * element_size
                     /\ \/ i = j
                        \/ bound[i].offset + bound[i].size <= bound[j].offset
                        \/ bound[j].offset + bound[j].size <= bound[i].offset
=============================================================================
