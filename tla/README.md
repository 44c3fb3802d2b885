# NoGraphicsAPI: a verification project

TLA+ modules that model the state-carrying parts of this repository, the TLC runs that check them on small
instances, and TLAPS proofs of what holds for every instance. Source references are to paths of the
repository.

## 1. Inventory

NoGraphicsAPI is a single-queue Vulkan backend (`src/NoGraphicsAPI.cpp`) behind a small C++ interface
(`include/NoGraphicsAPI`), an optional utility library (`utility/`), and examples. The API is deliberately
single-threaded: all its calls come from one application thread. What runs concurrently with that thread is
the GPU queue, the presentation engine with the window's surface and, in the utility library, worker threads
inside `BumpAllocator::allocate_atomic`.

| Part | State | Operations | Hard behaviour | What makes it correct |
|---|---|---|---|---|
| Command contexts and submission | a circular list of `CommandBuffer`s, `retire_value` of each, the submitted and the last observed value of a private timeline semaphore | `begin_commands`, `submit`, `submit_and_present`, `wait_timeline`, `wait_idle`, polls and waits inside them | reuse while the GPU executes, a cached completed value that is behind, the throttle that polls and waits between ending a batch and submitting it, growth while recording | no pool is reset in flight, only executable buffers are submitted, the list stays a sorted circle, growth only when needed, pending values within the device limit, every wait ends |
| Swapchain delete queue | a growing ring of (retire value, swapchain, view) | `push`, `collect` | growth of a wrapped ring, several swapchains interleaved with completions | views in order, each swapchain once and after its last view, nothing early |
| Presentation | the swapchain, present contexts with a fence each, slots of retired swapchains, image layouts | `acquire`, `submit_and_present`, `recreate_swapchain`, `retire_swapchain_handle`, polls, drain, `get_drawable_extent` | out-of-date and suboptimal results, zero-sized windows, a present that is still pending when its swapchain is replaced, failing calls in the middle of re-creation | nothing is destroyed while the GPU or the presentation engine uses it, a slot is always free, transitions start from the image's real layout |
| Device creation and teardown | the partially built `Device` | `create_device`, `~Device` | failure at any step | every handle created is destroyed once, in a legal order |
| Texture initialization | an intrusive list of textures that await their first layout transition | `create_texture`, `destroy_texture`, `begin_commands` | destruction before the first recording, batches of barriers | each live texture is transitioned once and before it is used |
| Heaps and memory types | owned buffers and images, memory types | `create_gpu_heap`, `find_memory_type`, alignment | mostly pure computation | the chosen type is the best one allowed |
| Command recording | Vulkan dynamic state, the open pass, bound pipelines and heaps | `begin_render_pass`, `set_*`, `bind_pso`, draws, dispatches, copies, `barrier` | state that leaks from one pass or pipeline to the next, regions of copies and their casts to 32 bits, stages and accesses of barriers | draws see the state asked for, copies put texels where the caller asked, barriers order what they name |
| Physical device inspection | none | `inspect_candidate`, the extensions and features `create_device` enables | lists that must agree and are written apart | what is enabled is offered, and complete |
| PSO creation, queries, format tables | none after creation | | none | |
| `BumpAllocator` | one atomic offset | `allocate`, `allocate_atomic`, `reset` | concurrent callers, stale loads, spurious failures of the exchange | ranges disjoint, aligned, in bounds; someone always succeeds |
| `RangeAllocator`, `HeapAllocator` | neighbour lists and size bins over a fixed array of nodes | `allocate`, `free`, `reset`, move | fragmentation, coalescing, coarse bins, running out of nodes | ranges tile the capacity, no two free neighbours, bins agree with the nodes, failure only for lack of space |
| `TextureAllocator` | a `RangeAllocator` over a texture heap | `allocate`, `free` | sizes in bytes rounded to elements, offsets back to bytes, textures freed while their transition is pending | live textures share no memory and stay in the heap |
| `DeleteQueue` | a fixed ring of deferred callbacks | `defer`, `tick`, `drain` | callbacks that defer while the queue collects, a full ring | callbacks run once and in order, `tick` runs none early, none runs while its submission executes |
| Frame loops (`examples/triangle`, `cube`, `deferred_renderer`) | the timeline's value, the render targets, the row of the descriptor heap, deferred destructions | one frame after another, resizing, the end | reuse of descriptors and render targets in flight | nothing in flight is overwritten; the delete queue never overflows |
| `math.hpp`, shaders | none | pure arithmetic | none | covered by `tests/math_test.cpp` |

The parts interact through calls on one thread and through the values of timeline semaphores: a submission
signals the application's timeline and then `command_retirement`; polls and waits of the latter reset command
contexts and collect the swapchain delete queue; fences of presents feed retired swapchains into that queue.
The application drives `DeleteQueue` and the allocators from its own timeline.

## 2. Plan

In the order of importance, all of it done:

1. `CommandContexts`, with proofs of all its safety properties (the core).
2. `BumpAllocator`, with proofs of disjointness and of full use of the storage.
3. `SwapchainDeleteQueue`: the growing ring proved to implement a FIFO (`DeferredDestruction`).
4. `Presentation`: swapchain replacement with the delete queue and the retirement values, with proofs.
5. `DeleteQueue` with any client that keeps to its contract, with proofs.
6. `RangeAllocator` and `HeapAllocator`, implementing `RangeHeap`, with proofs of the bins, the lists, the search
   and the refinement.
7. `TextureInitialization` and `TextureAllocator`; `DeviceLifecycle`; `MemoryTypes`, `FindMemoryType`,
   `GpuHeaps` and `TextureMemory`, all with proofs.
8. `FrameLoop`, with proofs: the main loops as clients of their timeline, of `DeleteQueue` and of the rows of a
   descriptor heap, over resizes and minimized windows.
9. `CommandBuffers` and `Synchronization`: recording, copies and barriers. `Applications` composes both with
   `FrameLoop`: the frames of the examples call by call, and any other program; with proofs.
10. `PhysicalDevices`: what a device must offer against what is enabled on it, in `DeviceLifecycle`, with proofs
    of what is selected and enabled.

Every safety property that a run checks has a theorem; what would come next is outside the prover's reach (section 5,
"Only model-checked") or is not modelled (section 6).

## 3. Modules and the code

Every module names at its head the file it models; `PROJECT.json` maps each definition to its lines.
Variables, fields and operations keep their names of the source wherever possible.

| Module | Models | State and actions |
|---|---|---|
| `CommandContexts` | `begin_commands`, `submit`, the retirement timeline, growth, `wait_timeline`, `wait_idle`, `~Device` | The links `next` and `previous` and `retire_value` of every context, the head, the cached completed value. A call that may block is two actions, with the GPU between them; `submit` is `EndBatch`, `RetirementAvailable` or `Throttle` and `ThrottleReturns`, then `QueueBatch`. |
| `BumpAllocator` | `allocate`, `allocate_atomic`, `reset`, moves | One step per load and per compare-and-exchange of each worker. A relaxed load returns any value in `history` that is not older than what the worker has seen. |
| `SwapchainDeleteQueue` | the ring of `push` and `collect` | The block of cells with what `realloc` leaves uninitialized, `first`, `count`. Implements `DeferredDestruction` under a mapping of the ring to its window. |
| `DeferredViews`, `DeferredDestruction` | | The abstract FIFO of views; `Presentation` uses it in place of the ring, which the refinement justifies. |
| `Presentation` | `acquire`, `submit_and_present`, `recreate_swapchain`, `retire_swapchain_handle`, drains | `device` is the record of present contexts, slots and delete queue. `acquire` is one action per call that may wait or be out of date. `outside` is what the program cannot see. |
| `DeleteQueue` | `defer`, `tick`, `drain`, `collect` | The cells, `head_`, `tail_`, `count_`, `ticking_`. A callback is a step of its own during which others are deferred. |
| `RangeAllocator`, `HeapAllocator` | size bins, bitmaps, nodes, `allocate`, `free`, `reset`, moves | The allocator is a record; an operation is a composition of the operators of the code's helpers. `ranges_` has a record for each variable of the caller, `MovedFrom` where `nodes` is null. Implements `RangeHeap`. |
| `TextureInitialization`, `TextureAllocator` | the intrusive list, `create_texture`, `~Texture`, the loop of `begin_commands`, `TextureAllocator` | The list's links in the textures themselves; submissions as the images they touch, their layouts as the GPU leaves them. |
| `PhysicalDevices` | `inspect_candidate`, `QueriedFeatures`, the lists of `create_device` | Operators over a physical device, a record of what its queries answer; `Valid` is what `vkCreateDevice` demands. |
| `DeviceLifecycle` | `create_device`, `~Device` | `step` is the place in either; every call that may fail is a success and a failure action; `InspectCandidate` is one round of the loop over physical devices. |
| `MemoryTypes`, `FindMemoryType` | `find_memory_type` | One iteration a step; `MemoryTypes` has the measures and the loop as a function. |
| `GpuHeaps` | `create_gpu_heap`, `destroy_gpu_heap`, `supports_gpu_heap_memory`, `make_heap_bind_info` | The heaps alive with their backings, where the driver placed them. |
| `TextureMemory` | `select_texture_memory_type`, `supports_texture_format` | One probe a step, over any features and requirements a device reports, then the loop of `FindMemoryType`. |
| `CommandBuffers` | `begin_render_pass`, `end_render_pass`, `set_*`, `bind_pso`, draws, dispatches, `make_texture_copy_region`, copies | The state of a command buffer is a record; a call returns the record it becomes. Dynamic state is the set of the value last set, empty while there is none. |
| `Synchronization` | `barrier`, `to_vk` of stages and accesses | What is ordered after, and sees, an earlier use of a resource. |
| `FrameLoop` | `main` of `triangle.cpp`, `cube.cpp`, `deferred_renderer.cpp`, `recreate_gbuffer` | `step` is the place in `main`; generations number the textures created together; `frames` are the submissions the GPU has not finished. |
| `Applications` | the frames of the examples | `todo` is what is left to record of the frame; every call changes `commands` as `CommandBuffers` says and adds to `uses`. `asked` is what the program wants of its draws. |

`MCPresentation`, `MCTextureAllocator`, `MCHeapAllocator`, `MCGpuHeaps`, `MCTextureMemory`, `MCDeviceLifecycle` and
`MCApplications` give constants their values for TLC, and symmetry to the first three. `*_proofs` hold the
theorems of the module they name, `DeleteQueues_proofs` those of `SwapchainDeleteQueue` and `DeleteQueue`,
`Allocators_proofs` those of `BumpAllocator`, `HeapAllocator`, `GpuHeaps` and `TextureAllocator`, and
`Applications_proofs` also those of `FrameLoop`. `RangeAllocator_proofs` has the lemmas about the operators of
`RangeAllocator`, on which those of `HeapAllocator` and `TextureAllocator` rest.

### What the models leave out

- **Data.** Formats, usages, access masks and pipeline state appear only where a property depends on them.
- **Allocation failures and lost devices.** Most calls go through `require_vk` and `assert_vk`, which abort or
  assume success, and the result of `realloc` is not looked at. `DeviceLifecycle` and `Presentation` have the
  failures that are reported to the caller.
- **`Presentation`.** The configuration of a surface is its extent. A swapchain is out of date only after the
  window changed; it may be suboptimal at any time. `ObserveRetirement` lets the program see any retirement
  value the GPU has passed at any point where some call polls or waits, more often than the code does.
- **`BumpAllocator`.** A spurious failure of the weak exchange is a stuttering step. Requests and sizes are
  words of `WordLimit` values, so that wrapping is visible.
- **`RangeAllocator`** has the widths as constants: three-bit indices and one mantissa bit in place of 32
  and 3. All relations between them (`unused_node`, `maximum_allocation_count`, the bins) are the code's.
  What is left in an allocator that was moved from is not modelled but for its null `nodes`, the one field that is
  looked at. Two allocators over different storages share nothing and are not modelled together.
- **`TextureAllocator`.** The caller keeps to the comments of `NoGraphicsAPI.hpp`: no creation while it
  records, the command buffer begun first is submitted first, and a texture is freed when the GPU is done
  with it, its initial transition included. That the address of a heap and the offsets in it are aligned as its
  textures need is taken for granted, see the next point.
- **`DeleteQueue`.** Retire values do not decrease, which is all the header asks: they may be submitted later or
  never, and `~uint64{0}` (`Everything`) is one of them, as in `placed_texture_test.cpp`. `drain` is called after
  `wait_idle`, as the header says, and callbacks defer but do not submit.
- **`GpuHeaps`, `TextureMemory`** rest on what the specification of Vulkan guarantees: alignments are powers
  of two, the memory types of an image are common to all color formats and to all images of one depth/stencil
  format. Where the driver places a buffer is any free address. That ordinary heaps, which are not rounded,
  have pointers aligned to 16 bytes depends on the driver alone and is not modelled. `TextureMemory` has one
  compressed format.
- **Alignments of textures.** Vulkan guarantees nothing of how the alignments of images are related, so
  `TextureMemory` gives every image one of its own. `texture_heap_alignment` is the largest of the images that
  were probed, and nothing is claimed of it. The comment of `DeviceCaps` (`NoGraphicsAPI.hpp:427`) says that every
  `SizeAlign::align` divides it, which `tests/command_context_test.cpp` asserts on the device it runs on;
  `docs/vulkan-support.md:138` says that it is no guarantee for arbitrary textures, and the probes cannot make it
  one. A depth/stencil format for which the device has no image of one texel is not probed at all; what
  `EverySupportedTextureFits` says excludes it.
- **Copies.** `make_texture_copy_region` casts row length and image height from 64 to 32 bits without an assertion
  (`NoGraphicsAPI.cpp:3246`); `uint32` does the same modulo `UintLimit`. `LegalCopy` assumes what the caller must
  see to: rows and slices are less than 2^32 texels apart. With a row pitch of exactly 2^32 texels the row length
  becomes the zero that means tightly packed. Extents, offsets and slices are `uint32` in `TextureCopyDesc` already,
  and the offsets of a legal copy lie inside its texture.
- **`PhysicalDevices`.** Limits and properties are copied by the code, not decided on; those that matter later
  are constants of `CommandContexts` and `GpuHeaps`. The validation layer is left out.
- **`FrameLoop`, `Applications`.** `acquire` and presenting are one step that chooses the extent; their inside
  is `Presentation`'s subject. Shaders appear as what their draws touch and something else writes. Load and store
  operations, clear values, the camera and the loading of files are left out: no state is derived from them. The
  program `any` stands for programs that keep to the comments of `NoGraphicsAPI.hpp`; its own synchronization is
  not judged.
- **`Synchronization`** holds the part of Vulkan's memory model that barriers between single queue submissions
  need: stages in the order of their pipeline, availability and visibility of accesses.

## 4. Runs

| Run | Question | Bounds, and why they are enough |
|---|---|---|
| `contexts` | Are contexts reused only when their submission retired, does the pool grow only when it must, does every wait end? | Two initial contexts, growth to four, four submissions with at most two pending: contexts are reused after growth, batches have several buffers, the throttle waits, the observed value lags. |
| `bump` | Do concurrent allocations get disjoint ranges, is exhaustion real, does every call return? | Three workers, two allocators to move between, 40 bytes on six-bit words: one size is rounded and fits the end exactly, one needs no rounding, one would wrap around. |
| `delete_ring` | Does the growing ring behave like a FIFO? | Three handles with up to two images, three values: growth from an empty block to eight cells with wrapped windows, handles that come back. |
| `presentation` | Is nothing destroyed while in use, is there always a slot, are layouts real, do drains drain? | Two present contexts, three handles, two images, three submissions, two changes of the window: a swapchain is replaced twice while a present of the first is pending. |
| `presentation_liveness` | Do `acquire`, `wait_idle` and `~Device` return? | One change of the window and a handle for each swapchain, so no call waits for want of a handle. |
| `delete_queue` | Do callbacks run once, in order and on time? | Three cells, six callbacks, three submissions and any nondecreasing values up to `~uint64{0}`: the ring wraps around, is filled while it collects, and is drained of values never submitted. |
| `heap_allocator` | Do nodes tile the heap, do bins agree, does a failure mean there is no room, whichever variable holds the allocator? | Two variables, seven elements, three allocations, sizes of one to seven elements and one that never fits: coalescing on both sides, lists of several nodes, an empty pool. |
| `texture_allocator` | Is each texture transitioned once and before use, and never aliased? | Three textures in three elements, batches of two, two recordings: full and partial batches, removal from both ends and the middle. |
| `device_lifecycle` | Is nothing leaked or destroyed out of order, wherever creation fails? Is the right device selected, and only what it offers enabled? | A machine for each way a device can fall short, machines with up to three devices of four kinds, five sets of instance extensions, with and without a window; two contexts with a third added later. |
| `gpu_heaps` | Does an accepted device serve every heap, are heaps apart and aligned? | Two types, two heaps at once, limits that differ between the two descriptor heaps. |
| `texture_memory` | Is the type the best of all, and does every supported texture fit it? | Three types in two heaps, four sets of flags, the queries of all callers; a depth and a combined format with every set of features, each on any types, and every way the images probed for one can be missing. |
| `applications` | Does what is in flight keep its resources, does nothing race, do draws see the state that was asked for, do copies land in place? | Two frames in flight and two sizes of the window; five frames of the deferred renderer, so that a row comes back twice, four of the cube; any calls of another program in one command buffer; copies over a flat texture with layers, one of blocks and a volume, with every kind of pitch and region; 32 values of a `uint32`, which is exactly the row length of some copies that are therefore not legal. |

The type invariant of a module is a named part (`TypeOK`, with a prefix where modules are extended together) of one of its invariants. What the properties say and
which code they are about is in the comment before each.

Deadlock is checked except where the system may stop: a destroyed device (`contexts`), a finished or aborted
computation (`gpu_heaps`, `texture_memory`).

### Fairness

- `CommandContexts`, `Presentation`: weak fairness of the GPU, which executes what was submitted to it, of the
  presentation engine, which signals the fence of a present whose frame was rendered, and of the continuation
  of a call that can proceed. The application need not call anything, and the window stops changing because
  `MaxResizes` bounds it: `acquire` promises nothing while the window changes for ever.
- `BumpAllocator`: weak fairness of each worker inside its loop. A failed exchange has a newer value, so the
  loop ends because the offset never shrinks while workers are inside it; no fairness between workers is used.

## 5. Proofs

TLAPS checks the following for every value of the constants, under the `ASSUME`s of the modules.

- **`CommandContexts_proofs`**: `TypeCorrect`, `ObservationSafe`, `TimelineDifferenceSafe`, `PoolReuseSafe`,
  `SubmissionSafe`. Neither safety property is inductive: a buffer may be reset because its `retire_value` was
  observed, so `IInv` adds that the observed value is behind the signalled one, that one behind the work done
  and that behind what was submitted (`ObservedBehindGpu`), that a buffer is submitted exactly when
  it has a `retire_value`, which is then its last use (`Agrees`), and what each half-way point of a call knows
  of its batch and its value (`CallInv`). Resetting what a value covers preserves the agreement
  (`ResetAgrees`), and polls, waits and the throttle are cases of it. `BookkeepingIsExact` and `GrowthIsJustified`
  are about the circular list. `Booked` adds to the invariant that there is a walk over the links that meets every
  context once and returns (`Circle`), along which the contexts are in order (`InOrder`), and that what is executable
  is the batch being submitted (`BatchInv`). Reuse starts the walk one context further and growth ends it with the
  new one (`GrownCircle`); a reset takes a prefix of what is submitted (`ResetKeeps`), so the order survives.
  `NthIsTheWalk` shows from the first step at which they would part that the walk of the code, a recursive function
  of the links, is that one.
- **`Allocators_proofs`**, `BumpAllocator`: `TypeCorrect`, `RangesAreSound`. Disjointness follows because every range
  lies below the offset and a successful exchange starts at the offset; `BumpIInv` adds that, that one allocator holds
  the storage, and that the offset and every value a stale load may return is a multiple of the alignment or the
  end of the storage (`Boundaries`), without which an aligned start is not inductive. `SpaceIsAccounted` (every
  byte below the offset lies in a range or in the padding behind one) and `EmptyIsExhausted` (a request that was
  refused does not fit what is left) also need that no value a stale load may return is beyond the offset
  (`NothingAhead`).
- **`Allocators_proofs`, `RangeAllocator_proofs`**, `HeapAllocator`: `HeapIsTiled`, `NoGapIsHidden`,
  `HeapImplementsRanges`, for any width of the index type, any mantissa, storage, size of an element and limit. An
  allocator satisfies `RangesInv`: its live nodes tile the heap, linked both ways, no two free ones adjacent
  (`Whole`); the list of every bin holds the free nodes of its size class (`Listed`), and the bitmaps name the lists
  that are not empty (`BitmapsExact`); the pool holds every other node once (`Pooled`). A list has no length to count:
  `Listed` gives each free node the time it was inserted, and the links of a bin go from each node to the youngest
  of the older ones, which insertion at the head and removal anywhere preserve, and along which every walk ends.
  While `free` is at work, before the node returns to a list, only part of this holds (`Kept`), and the halves of a
  merge are lemmas of their own. The search is right because size classes are ordered as sizes are (`BinsInOrder`):
  the walk along the list of the request's own class meets every node of it (`ScanFinds`), and the bitmaps lead to
  the lowest list of a higher class, all of whose nodes fit (`BitmapsFind`); if neither finds one, no free node is
  long enough. `Accounts` says that the nodes in use are the allocations held. As no two free nodes are neighbours, a gap
  between allocations lies in one free node (`GapIsFree`), so refusing when no node fits is refusing when no gap is
  long enough. For the refinement, an allocation stands for its range in elements. `AllocationsAreDisjoint` follows
  from it and from `DisjointForEveryCapacity`, of `RangeHeap` alone.
- **`Allocators_proofs`**, `GpuHeaps`: `HeapsApart`, `BindsLegal`, for any limits a device may report. They rest on
  lemmas on division and rounding (`Quotient`, `AlignUp`, `MultipleOfMultiple`). `AbortsAreJustified`: the search
  returns none only if no memory type qualifies (`NoneMeansNone`), and `supports_gpu_heap_memory`, which looked for one
  of any size when the device was selected, found one (`Probed`), so it is the size that does not fit.
- **`Allocators_proofs`**, `TextureAllocator`: `TexturesApart`, `PendingListAlwaysExact`, `TransitionsAreLegal`, for any
  textures, heap and size of the barrier array. `Threaded(l, q)` says that the list `l` is the sequence `q`: its two
  ends, and each texture's links to its neighbours in `q`. Appending and removing anywhere preserve it
  (`AppendThreads`, `RemoveThreads`), and then the walks along the links return `q` and its reverse (`WalksOf`). The
  loop of `begin_commands` is a recursive function of the state; `RecordsAll` shows that it takes every texture of the
  list into a batch and leaves none, as what is recorded and what remains are together what was there (`Recorded`).
  `TextureIInv` adds that the textures of the caller are the allocations of the range allocator (`SlotsExact`, with
  `Accounts`), which texture is on the list (`Awaiting`: nothing, once a command buffer is being recorded), and that
  only the buffer begun first has barriers, of live textures that are still undefined (`ActiveExact`). So the submission
  leaves every live texture in its layout before the first command that uses it, in any order of the other buffers
  (`SubmitsClean`).
- **`Presentation_proofs`**: `DestructionIsSafe`, `OwnershipIsExact`, `ReplacingNeverWaits`,
  `TransitionsStartRight`, `ContextsAreFree`, `DrainIsComplete`, `EmptyFramesAreJustified`: every safety property of
  the module, for any number of handles, contexts, slots and images. Between the operators of one step the
  invariant of the module does not hold, as a swapchain on its way from the `Swapchain` object to a slot or to the
  queue is in neither. `Sound(d, hand, existing)` is what holds at every point: `d` is the device so far, `hand` the
  swapchains in neither place, `existing` what existed when the step began. It says that every view that existed
  has exactly one owner or was destroyed by the step, that the program knows of every present that is pending
  and that its swapchain has not left the slots, that the queue is in order, and that what was destroyed was
  unused. Each operator has a lemma that it preserves `Sound` (`CollectSound`, `QueueRetiredSound`, `TakeSlot`,
  `FinishContextSound`, ...), and a step is a chain of them. That a slot is free (`SlotIsFree`) is the pigeonhole
  principle: a busy slot has a present context of its own, and the context about to present has none. The
  loop over present contexts is a recursive function of the state; that it has a value after every iteration
  (`IteratesExist`) is proved from a least counterexample.
- **`DeleteQueues_proofs`**: both queues of deferred deletion. `RingIsQueue` is the refinement of
  `DeferredDestruction` by `SwapchainDeleteQueue`, step by step, for any number of swapchains, images and submissions.
  The ring stands for the sequence of its cells from `first` on (`WindowIsSequence`); a push appends to it whether the
  block has room, grows, or grows while wrapped around (`PushedIsAppended`), and collecting drops what is due from its
  front (`CollectedIsRemaining`). The abstract queue knows the last view of a swapchain, the code looks at the next
  entry only: `Queued` adds that the views of one swapchain wait side by side, in the order of their values, and that
  a handle that waits exists and is not held, so the driver cannot have returned it again (`NextTellsAll`).
  `ValuesInOrder` is the assert of `push`. The loop of pushes is a recursive function; that it has a value after
  every iteration is proved from a least counterexample (`PushesExist`). `CallbacksTypeCorrect`,
  `CallbacksRunInOrder`, `CallbacksRunWhenDue` and `CollectLeavesNothingDue` are about `DeleteQueue`:
  `CallbacksIInv` adds that the tail is `count_` places behind the head, that
  values in the window do not decrease, that the running callback is the head's, and that `collect` compares with a
  value the timeline has reached or with everything there is while nothing is on the GPU (`ComparesSafely`): so
  `tick` runs nothing early, and `drain` only what was never submitted.
- **`TextureMemory_proofs`**: `FindsTheBest`, `TexturesFit`. The loop compares with the best so far only; it is
  right because the order is lexicographic over three measures, hence total and transitive. A texture suits the
  memory type because the selection intersects the types of the color formats with those of each probe, whichever
  image stands for the format, and a format that is skipped for its features has no usage that would be supported.
- **`Applications_proofs`**, `FrameLoop`: `FramesSafe`, for any number of frames in flight. `IInv` adds that the values
  of the delete queue increase strictly (`QueueInOrder`) and that those left after a tick belong to the
  `frames_in_flight - 1` submissions that may be pending (`Throttled`), so there is room for one more; that the current
  row is that of the current generation, counted modulo the rows (`CurrentTarget`), and that a submission in flight is
  at most as many generations old as submissions followed it (`FramesInFlight`). Generations less than
  `frames_in_flight` apart have different rows, so the row written next is not in use. `ProgramsStaySafe` carries this
  over to whole programs: recording is a stutter of the loop.
- **`Applications_proofs`**, `Applications`: `DrawsSee`, `CopiesInPlace`, `NoRaces`, for any sizes of the window, any
  number of frames in flight and of frames, a GPU of any speed, and any calls and legal copies of other programs
  (`TransfersAssumption`). `AppInv` says at which position of its script the recording is (`Planned`; `Rest` is what
  is left of the script there), and what is known of the command buffer at each position (`PositionOf`): enough for
  the next call to be legal. Each call changes few fields of the command buffer (`Kept`), so inside a pass the state
  matches what was asked for part by part (`Matches`, `MatchesSees`), whatever earlier passes left. A copy is in place
  because the pitches of a legal copy are whole blocks and whole rows of blocks (`RowsInPlace`, `SlicesInPlace`,
  `RegionInPlace`) and fit 32 bits in texels, so that the casts keep them (`SmallIsKept`); that the extent of a mip level is a number, though it is computed by a recursive function, is
  proved from a least counterexample (`Shifts`).
  For `NoRaces` no two uses are compared. `SafeAt(k, u)` is what is known of a use `u`, of this frame or an
  earlier one, when the recording is at position `k` of its script: in which stages it can have been, what
  is ordered after it and what sees it. That suffices for the call at `k` (`Follow`), and each barrier has a lemma
  that says what it adds (`AfterSimulationBarrier`, `AfterGBufferBarrier`, `AfterLightingBarrier`); the end of a
  frame is as good as the start of the next (`SubmittedSafe`). `Dated` ties a use to the value of its submission and
  to the entry of the delete queue that holds its textures, so whatever is destroyed has only uses that the program
  knows to have completed (`StaysDated`).
- **`DeviceLifecycle_proofs`**: `SelectsAndEnables`, for any installation. The search keeps a device that none seen
  before beats (`Best`), and the selection is over before the logical device exists; that what is enabled is valid
  follows from what `inspect_candidate` accepts (`Accepted`, `EnabledIsValid`). `InventoryIsExact`,
  `CreationIsWhole` and `DestructionInOrder` rest on what exists at each place in `create_device` and in `~Device`:
  the objects there is one of at most, how many command contexts, which present contexts and how many views
  (`Objects`), bounded place by place (`Stage`), with `Books` saying that these are the handles held. `~Device`
  can only be right if it starts from a state some failure leaves, and each failure enters it at a place whose
  bounds hold (`FailingStages`). The order of the destroy calls is a fact about one step (`Orderly`): the calls are
  distinct, and the objects with children go in the steps after which no child is left.

Only model-checked:

- what must eventually happen (`CallsReturn` of three modules): liveness is beyond the prover.

## 6. Not modelled

- **Pipelines and shaders**: `CommandBuffers` has what a command needs of its pipeline, its kind, the formats of
  its attachments and the state it leaves dynamic. Blending, culling and shader code keep no state; an error of the
  driver while creating a pipeline aborts.
- **Texture queries, render views, descriptor writes**: tables and single Vulkan calls.
- **The application's timeline semaphores**: one Vulkan call each; their values are the client's, in
  `CommandContexts`, `DeleteQueue` and `FrameLoop`.
- **The public types** keep no state; **`math.hpp`** is arithmetic on floats, out of TLC's reach, with tests of
  its own.
- **The windows of the examples**: their events are the `WindowChanges` of `Presentation` and the extents of
  `FrameLoop`; files and clocks have no effect on either.
- **Running out of host memory**, losing the device or the surface: the process aborts.
