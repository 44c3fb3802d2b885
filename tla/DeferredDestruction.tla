------------------------- MODULE DeferredDestruction -------------------------
(***************************************************************************)
(* What the device promises about swapchains it no longer presents from:   *)
(* their image views wait, first in first out, for the retirement value    *)
(* that covers the last commands that may use them, and a swapchain is     *)
(* destroyed right after its last waiting view.  SwapchainDeleteQueue      *)
(* implements this with a growing ring; Presentation relies on it.         *)
(***************************************************************************)
EXTENDS DeferredViews

CONSTANTS
  Swapchains, \* VkSwapchainKHR handles, which the driver uses again
  MaxViews,   \* bound of the model: images of a swapchain
  MaxValue    \* bound of the model: submissions ever made

VARIABLES
  submitted, \* command_retirement_value
  completed, \* completed_command_retirement
  live,      \* swapchains and views that exist on the device
  held,      \* swapchains that are not yet retired, with their image count
  queue,     \* entries that wait
  calls      \* what the last operation destroyed, in order

vars == <<submitted, completed, live, held, queue, calls>>

Init ==
  /\ submitted = 0 /\ completed = 0
  /\ live = {} /\ held = [s \in Swapchains |-> 0]
  /\ queue = <<>> /\ calls = <<>>

Create(s, n) ==
  /\ held[s] = 0 /\ <<s, 0>> \notin live
  /\ live' = live \union Views(s, n) \union {<<s, 0>>}
  /\ held' = [held EXCEPT ![s] = n]
  /\ calls' = <<>>
  /\ UNCHANGED <<submitted, completed, queue>>

Submit ==
  /\ submitted < MaxValue
  /\ submitted' = submitted + 1
  /\ calls' = <<>>
  /\ UNCHANGED <<completed, live, held, queue>>

(***************************************************************************)
(* Take what is due at value from the front of waiting.                    *)
(***************************************************************************)
CollectFrom(waiting, value) ==
  LET n == DueCount(waiting, value)
  IN /\ queue' = Remaining(waiting, n)
     /\ calls' = Destructions(waiting, n)
     /\ live' = live \ DestroyedBy(Destructions(waiting, n))

Retire(s) ==
  /\ held[s] # 0
  /\ held' = [held EXCEPT ![s] = 0]
  /\ CollectFrom(queue \o EntriesOf(submitted, s, held[s]), completed)
  /\ UNCHANGED <<submitted, completed>>

Observe(value) ==
  /\ value \in (completed + 1)..submitted
  /\ completed' = value
  /\ CollectFrom(queue, value)
  /\ UNCHANGED <<submitted, held>>

Next ==
  \/ Submit
  \/ \E s \in Swapchains, n \in 1..MaxViews : Create(s, n)
  \/ \E s \in Swapchains : Retire(s)
  \/ \E value \in 1..MaxValue : Observe(value)

Spec == Init /\ [][Next]_vars
=============================================================================
