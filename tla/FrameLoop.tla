------------------------------ MODULE FrameLoop ------------------------------
(***************************************************************************)
(* The main loops of the examples: which render targets, descriptors and   *)
(* deferred destructions a frame uses, and when they are used again.       *)
(*                                                                         *)
(*   triangle           draws to the swapchain only;                       *)
(*   cube               uploads a texture first, and waits for the GPU     *)
(*                      before it replaces its depth texture;              *)
(*   deferred_renderer  never waits for the frame in flight: it defers the *)
(*                      destruction of its G-buffer to a DeleteQueue and   *)
(*                      moves to the next row of its descriptor heap;      *)
(*   any                stands for any other program without targets of    *)
(*                      its own, with the loop of the triangle.            *)
(*                                                                         *)
(* The textures created together for one extent are a generation; they are *)
(* numbered, and 0 is none.                                                *)
(***************************************************************************)
EXTENDS Integers, Sequences

CONSTANTS
  frames_in_flight, \* rows of the descriptor heap, and room in the delete queue
  Extents,          \* sizes of the window; 0 is the extent of no texture
  MaxFrames         \* bound of the model: submissions of each program

Programs == {"triangle", "cube", "deferred_renderer", "any"}

ASSUME FrameLoopAssumption ==
  /\ frames_in_flight \in Nat \ {0}
  /\ Extents \subseteq Nat \ {0}
  /\ MaxFrames \in [Programs -> Nat]

VARIABLES
  program,
  step,              \* where main() is
  latest_completion, \* latest_completion.value: submissions made
  completed,         \* the value the GPU has given the timeline
  extent,            \* frame.extent
  target,            \* gbuffer, or depth with depth_extent
  descriptor_row,
  rows,              \* the generation whose descriptors each row holds
  delete_queue,      \* deferred calls of destroy_gbuffer with their retire values
  alive,             \* generations whose textures exist
  frames             \* submissions the GPU has not completed, with what they use

textures == <<target, descriptor_row, rows, delete_queue, alive>>
gpu == <<latest_completion, completed, frames>>
frame_vars == <<program, step, extent, textures, gpu>>

Rows == 0..(frames_in_flight - 1)
HasTarget == program \in {"cube", "deferred_renderer"}
Deferred == program = "deferred_renderer"

FrameInit ==
  /\ program \in Programs
  /\ step = IF program = "cube" THEN "upload" ELSE "pump"
  /\ latest_completion = 0 /\ completed = 0 /\ frames = {}
  /\ extent = 0 /\ target = [generation |-> 0, extent |-> 0]
  /\ descriptor_row = 0 /\ rows = [r \in Rows |-> 0]
  /\ delete_queue = <<>> /\ alive = {}

-----------------------------------------------------------------------------
(***************************************************************************)
(* One iteration. A recorded frame, or the upload, is submitted.           *)
(***************************************************************************)
Submit ==
  /\ step \in {"upload", "record"}
  /\ step' = "pump"
  /\ latest_completion' = latest_completion + 1
  /\ frames' = frames \cup {[value |-> latest_completion + 1,
                             generation |-> target.generation, row |-> descriptor_row]}
  /\ UNCHANGED <<program, extent, textures, completed>>

Continue ==
  /\ step = "pump" /\ latest_completion < MaxFrames[program]
  /\ step' = IF Deferred THEN "wait" ELSE "acquire"
  /\ UNCHANGED <<program, extent, textures, gpu>>

\* The value the deferred renderer waits for before it touches anything.
MutantAwaited == latest_completion - frames_in_flight
Awaited == latest_completion - frames_in_flight + 1

WaitForFrame ==
  /\ step = "wait"
  /\ latest_completion >= frames_in_flight => completed >= Awaited
  /\ step' = "tick"
  /\ UNCHANGED <<program, extent, textures, gpu>>

Queued(queue) == {queue[i].generation : i \in DOMAIN queue}

Tick ==
  /\ step = "tick"
  /\ \E n \in 0..Len(delete_queue) :
       /\ \A i \in 1..n : delete_queue[i].value <= completed
       /\ n < Len(delete_queue) => delete_queue[n + 1].value > completed
       /\ delete_queue' = SubSeq(delete_queue, n + 1, Len(delete_queue))
       /\ alive' = alive \ {delete_queue[i].generation : i \in 1..n}
  /\ step' = "acquire"
  /\ UNCHANGED <<program, extent, target, descriptor_row, rows, gpu>>

\* The drawable extent is zero.
AcquireNothing ==
  /\ step = "acquire"
  /\ step' = "pump"
  /\ UNCHANGED <<program, extent, textures, gpu>>

Acquire ==
  /\ step = "acquire"
  /\ extent' \in Extents
  /\ step' = IF HasTarget THEN "resize" ELSE "record"
  /\ UNCHANGED <<program, textures, gpu>>

KeepTarget ==
  /\ step = "resize" /\ extent = target.extent
  /\ step' = "record"
  /\ UNCHANGED <<program, extent, textures, gpu>>

NewTarget == [generation |-> target.generation + 1, extent |-> extent]

\* defer, the next row, recreate_gbuffer
NextRow == (descriptor_row + 1) % frames_in_flight

ReplaceGBuffer ==
  /\ step = "resize" /\ Deferred /\ extent # target.extent
  /\ IF target.generation = 0
       THEN UNCHANGED <<delete_queue, descriptor_row>>
       ELSE /\ delete_queue' = Append(delete_queue, [value |-> latest_completion,
                                                     generation |-> target.generation])
            /\ descriptor_row' = NextRow
  /\ target' = NewTarget
  /\ alive' = alive \cup {NewTarget.generation}
  /\ rows' = [rows EXCEPT ![descriptor_row'] = NewTarget.generation]
  /\ step' = "record"
  /\ UNCHANGED <<program, extent, gpu>>

ReplaceDepth ==
  /\ step = "resize" /\ program = "cube" /\ extent # target.extent
  /\ target.generation # 0 => completed >= latest_completion
  /\ target' = NewTarget
  /\ alive' = (alive \ {target.generation}) \cup {NewTarget.generation}
  /\ step' = "record"
  /\ UNCHANGED <<program, extent, descriptor_row, rows, delete_queue, gpu>>

(***************************************************************************)
(* The window is closed: wait_idle, drain, and the cleanup.                *)
(***************************************************************************)
Quit ==
  /\ step = "pump"
  /\ step' = "idle"
  /\ UNCHANGED <<program, extent, textures, gpu>>

WaitIdle ==
  /\ step = "idle" /\ completed = latest_completion
  /\ step' = "drain"
  /\ UNCHANGED <<program, extent, textures, gpu>>

Drain ==
  /\ step = "drain"
  /\ alive' = alive \ Queued(delete_queue)
  /\ delete_queue' = <<>>
  /\ step' = "cleanup"
  /\ UNCHANGED <<program, extent, target, descriptor_row, rows, gpu>>

Cleanup ==
  /\ step = "cleanup"
  /\ alive' = alive \ {target.generation}
  /\ step' = "done"
  /\ UNCHANGED <<program, extent, target, descriptor_row, rows, delete_queue, gpu>>

Finished == step = "done" /\ UNCHANGED frame_vars

\* The queue completes submissions in their order.
GpuCompletes ==
  /\ completed < latest_completion
  /\ completed' = completed + 1
  /\ frames' = {f \in frames : f.value > completed + 1}
  /\ UNCHANGED <<program, step, extent, textures, latest_completion>>

HostNext ==
  \/ Submit
  \/ Continue \/ WaitForFrame \/ Tick \/ AcquireNothing \/ Acquire
  \/ KeepTarget \/ ReplaceGBuffer \/ ReplaceDepth
  \/ Quit \/ WaitIdle \/ Drain \/ Cleanup \/ Finished

FrameNext == HostNext \/ GpuCompletes

FrameSpec == FrameInit /\ [][FrameNext]_frame_vars

-----------------------------------------------------------------------------
Frame == [value : Nat, generation : Nat, row : Rows]

FrameTypeOK ==
  /\ program \in Programs
  /\ step \in {"upload", "pump", "wait", "tick", "acquire", "resize", "record",
               "idle", "drain", "cleanup", "done"}
  /\ latest_completion \in Nat /\ completed \in Nat
  /\ extent \in Extents \cup {0}
  /\ target \in [generation : Nat, extent : Extents \cup {0}]
  /\ descriptor_row \in Rows /\ rows \in [Rows -> Nat]
  /\ delete_queue \in Seq([value : Nat, generation : Nat])
  /\ alive \subseteq Nat
  /\ frames \subseteq Frame

(***************************************************************************)
(* What the frame f uses is there: its textures exist, and the row of the  *)
(* heap it reads still describes them.                                     *)
(***************************************************************************)
Intact(f) ==
  /\ f.generation # 0 => f.generation \in alive
  /\ Deferred /\ f.generation # 0 => rows[f.row] = f.generation

\* The frame being recorded uses the target and the row of the moment.
RecordsIntoOwnTarget ==
  HasTarget /\ step = "record" =>
    /\ target.extent = extent /\ target.generation \in alive
    /\ Deferred => rows[descriptor_row] = target.generation

(***************************************************************************)
(* Whatever the window does and however slow the GPU is, a submission that *)
(* executes keeps its textures and its row of descriptors; a frame is      *)
(* recorded for targets of its own size; the delete queue never has to     *)
(* take more than its capacity; and the end of main() leaves no texture    *)
(* behind, all of them destroyed with nothing executing (main of cube.cpp  *)
(* and deferred_renderer.cpp).                                             *)
(***************************************************************************)
FramesKeepTheirResources ==
  /\ FrameTypeOK
  /\ \A f \in frames : Intact(f)
  /\ RecordsIntoOwnTarget
  /\ Len(delete_queue) <= frames_in_flight
  /\ step = "done" => alive = {} /\ frames = {}
=============================================================================
