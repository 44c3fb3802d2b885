---------------------------- MODULE DeferredViews ----------------------------
(***************************************************************************)
(* The views of retired swapchains as a queue: what an entry is, which     *)
(* entries are due, and what collecting them destroys.                     *)
(***************************************************************************)
EXTENDS Integers, Sequences, FiniteSetsExt, SequencesExt

(***************************************************************************)
(* A view is a swapchain with the index of its image; <<s, 0>> is the      *)
(* swapchain itself.                                                       *)
(***************************************************************************)
Views(s, n) == {<<s, index>> : index \in 1..n}
Entry(value, s, index) == [retire_value |-> value, swapchain |-> s, view |-> index]
EntriesOf(value, s, n) == [index \in 1..n |-> Entry(value, s, index)]

(***************************************************************************)
(* The number of entries at the front that are due, and the destructions   *)
(* they cause: the view, then its swapchain if no view of it waits behind. *)
(***************************************************************************)
DueCount(waiting, value) ==
  Max({n \in 0..Len(waiting) : \A i \in 1..n : waiting[i].retire_value <= value})

LastOfSwapchain(waiting, i) ==
  \A j \in (i + 1)..Len(waiting) : waiting[j].swapchain # waiting[i].swapchain

Destructions(waiting, n) ==
  [i \in 1..n |-> [swapchain |-> waiting[i].swapchain, view |-> waiting[i].view,
                   final_image |-> LastOfSwapchain(waiting, i)]]

(***************************************************************************)
(* The views and swapchains that a sequence of destructions leaves dead.   *)
(***************************************************************************)
DestroyedBy(calls) ==
  {<<calls[i].swapchain, calls[i].view>> : i \in DOMAIN calls}
    \union {<<calls[i].swapchain, 0>> : i \in {j \in DOMAIN calls : calls[j].final_image}}

Remaining(waiting, n) == SubSeq(waiting, n + 1, Len(waiting))
=============================================================================
