------------------------ MODULE SwapchainDeleteQueue ------------------------
(***************************************************************************)
(* SwapchainDeleteQueue (src/src/NoGraphicsAPI.cpp): the ring in which     *)
(* the views of retired swapchains wait, with the operations of Device     *)
(* that use it: queue_retired_swapchain, and the polls and waits that      *)
(* observe the retirement value and then collect.                          *)
(***************************************************************************)
EXTENDS Integers, Sequences, FiniteSetsExt, SequencesExt

CONSTANTS
  Swapchains, \* VkSwapchainKHR handles, which the driver uses again
  MaxViews,   \* images of a swapchain, at most max_swapchain_images
  MaxValue    \* bound of the model: submissions ever made

ASSUME ConstantsAssumption == MaxViews \in Nat \ {0} /\ MaxValue \in Nat

NoSwapchain == "VK_NULL_HANDLE"
Cleared == [retire_value |-> 0, swapchain |-> NoSwapchain, view |-> 0]
Entry(value, s, index) == [retire_value |-> value, swapchain |-> s, view |-> index]
Garbage == "uninitialized"  \* what realloc leaves in the cells it adds

VARIABLES
  ring,      \* entries, capacity, first and count
  submitted, \* Device::command_retirement_value
  completed, \* Device::completed_command_retirement
  live,      \* swapchains and views that exist on the device
  held,      \* swapchains that are not yet retired, with their image count
  calls      \* vkDestroy calls of the last operation, in order

vars == <<ring, submitted, completed, live, held, calls>>

Cell(r, i) == r.entries[(r.first + i) % r.capacity]
Window(r) == [i \in 1..r.count |-> Cell(r, i - 1)]

-----------------------------------------------------------------------------
(* push *)

(***************************************************************************)
(* The block doubles, and the entries that had wrapped around move to the  *)
(* new half, behind the others.                                            *)
(***************************************************************************)
Grown(r) ==
  LET old_size == r.capacity
      size == IF old_size = 0 THEN 1 ELSE 2 * old_size
  IN [r EXCEPT !.capacity = size,
               !.entries = [i \in 0..(size - 1) |->
                  IF i < r.first THEN Cleared
                  ELSE IF i < old_size THEN r.entries[i]
                  ELSE IF i - old_size < r.first THEN r.entries[i - old_size]
                  ELSE Garbage]]

Pushed(r, entry) ==
  LET room == IF r.count = r.capacity THEN Grown(r) ELSE r
  IN [room EXCEPT !.entries[(room.first + room.count) % room.capacity] = entry,
                  !.count = room.count + 1]

(* The views 1..n of a swapchain, pushed one after the other *)
PushedViews(r, value, s, n) ==
  LET pushes[index \in 0..n] ==
        IF index = 0 THEN r ELSE Pushed(pushes[index - 1], Entry(value, s, index))
  IN pushes[n]

-----------------------------------------------------------------------------
(* collect *)

DueCount(r, value) ==
  Max({n \in 0..r.count : \A i \in 0..(n - 1) : Cell(r, i).retire_value <= value})

MutantOnlyLastIsFinal(r, i) == i = r.count - 1
FinalImage(r, i) ==
  i = r.count - 1 \/ Cell(r, i + 1).swapchain # Cell(r, i).swapchain

(***************************************************************************)
(* The destroyed views, and whether the swapchain goes with the view.      *)
(***************************************************************************)
DestroyCalls(r, n) ==
  [k \in 1..n |-> [swapchain |-> Cell(r, k - 1).swapchain, view |-> Cell(r, k - 1).view,
                   final_image |-> FinalImage(r, k - 1)]]

Destroyed(destroy) ==
  {<<destroy[k].swapchain, destroy[k].view>> : k \in DOMAIN destroy}
    \union {<<destroy[k].swapchain, 0>> : k \in {j \in DOMAIN destroy : destroy[j].final_image}}

Collected(r, n) ==
  [r EXCEPT !.entries = [c \in DOMAIN r.entries |->
                           IF \E i \in 0..(n - 1) : c = (r.first + i) % r.capacity THEN Cleared ELSE r.entries[c]],
            !.first = IF n = r.count THEN 0 ELSE (r.first + n) % r.capacity,
            !.count = r.count - n]

Collect(r, value) ==
  LET n == DueCount(r, value)
  IN /\ ring' = Collected(r, n)
     /\ calls' = DestroyCalls(r, n)
     /\ live' = live \ Destroyed(DestroyCalls(r, n))

-----------------------------------------------------------------------------
Init ==
  /\ ring = [entries |-> [c \in {} |-> Cleared], capacity |-> 0, first |-> 0, count |-> 0]
  /\ submitted = 0 /\ completed = 0
  /\ live = {} /\ held = [s \in Swapchains |-> 0]
  /\ calls = <<>>

(***************************************************************************)
(* The driver creates a swapchain, under a handle that is not in use.      *)
(***************************************************************************)
CreateSwapchain(s, n) ==
  /\ held[s] = 0 /\ <<s, 0>> \notin live
  /\ live' = live \union {<<s, index>> : index \in 0..n}
  /\ held' = [held EXCEPT ![s] = n]
  /\ calls' = <<>>
  /\ UNCHANGED <<ring, submitted, completed>>

Submit ==
  /\ submitted < MaxValue
  /\ submitted' = submitted + 1
  /\ calls' = <<>>
  /\ UNCHANGED <<ring, completed, live, held>>

QueueRetiredSwapchain(s) ==
  /\ held[s] # 0
  /\ Collect(PushedViews(ring, submitted, s, held[s]), completed)
  /\ held' = [held EXCEPT ![s] = 0]
  /\ UNCHANGED <<submitted, completed>>

ObserveRetirement(value) ==
  /\ value \in (completed + 1)..submitted
  /\ completed' = value
  /\ Collect(ring, value)
  /\ UNCHANGED <<submitted, held>>

Next ==
  \/ Submit
  \/ \E s \in Swapchains, n \in 1..MaxViews : CreateSwapchain(s, n)
  \/ \E s \in Swapchains : QueueRetiredSwapchain(s)
  \/ \E value \in 1..MaxValue : ObserveRetirement(value)

Spec == Init /\ [][Next]_vars

-----------------------------------------------------------------------------
(* Properties. *)

TypeOK ==
  /\ ring.capacity \in Nat /\ ring.count \in 0..ring.capacity
  /\ ring.first \in 0..ring.capacity
  /\ DOMAIN ring.entries = 0..(ring.capacity - 1)
  /\ completed \in 0..MaxValue /\ submitted \in completed..MaxValue
  /\ live \subseteq Swapchains \X (0..MaxViews)
  /\ held \in [Swapchains -> 0..MaxViews]
  /\ \A i \in 1..ring.count : Window(ring)[i] \in [retire_value : 0..MaxValue, swapchain : Swapchains, view : 1..MaxViews]

(***************************************************************************)
(* The ring is a queue: whatever its capacity, wherever its window begins  *)
(* and however often it has grown, views leave in the order they came, not *)
(* before they are due and not later than the next collection, and each    *)
(* swapchain is destroyed once, right after its last view.                 *)
(***************************************************************************)
Abstract == INSTANCE DeferredDestruction WITH queue <- Window(ring)
ImplementsDeferredDestruction == Abstract!Spec
=============================================================================
