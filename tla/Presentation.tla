----------------------------- MODULE Presentation -----------------------------
(***************************************************************************)
(* Presentation (src/src/NoGraphicsAPI.cpp): the swapchain of a device,    *)
(* the present contexts its frames use in turn, the slots where replaced   *)
(* swapchains wait for their presents, and the queue where their views     *)
(* wait for the GPU.                                                       *)
(*                                                                         *)
(* Actors: the application thread, which may be inside acquire, wait_idle  *)
(* or ~Device; the GPU queue; the presentation engine; the window, which   *)
(* may be resized or minimized at any moment.  Of the command contexts     *)
(* only the retirement values matter here (see CommandContexts).           *)
(***************************************************************************)
EXTENDS DeferredViews

CONSTANTS
  Handles,         \* VkSwapchainKHR values, which the driver uses again
  PresentContexts, \* present_context_count
  Slots,           \* size of Device::retired_swapchains (max_swapchain_images)
  MaxImages,       \* images of a swapchain
  Extents,         \* drawable extents of the window
  MaxSubmissions,  \* bound of the model: submissions ever made
  MaxResizes       \* bound of the model: changes of the window

Null == "VK_NULL_HANDLE"
Minimized == "0x0"

ASSUME ConstantsAssumption ==
  /\ PresentContexts \in Nat \ {0} /\ Slots \in Nat /\ Slots >= PresentContexts
  /\ MaxImages \in Nat \ {0} /\ MaxSubmissions \in Nat /\ MaxResizes \in Nat
  /\ Null \notin Handles /\ Minimized \notin Extents

Contexts == 0..(PresentContexts - 1)

VARIABLES
  phase,     \* what the application is doing
  position,  \* in acquire: 1 once it holds a present context; in a drain: the next context
  device,    \* the present contexts, retired_swapchains and swapchain_delete_queue
  next_present_context,
  swapchain, \* the Swapchain object of the device
  submitted, \* Device::command_retirement_value
  completed, \* Device::completed_command_retirement
  calls      \* vkDestroy calls of the last step, in order

(***************************************************************************)
(* The world outside: not known to the program but by asking.              *)
(***************************************************************************)
VARIABLES
  gpuWork,    \* submissions whose work is complete
  gpuRetired, \* value of the retirement semaphore
  presenting, \* per context: the swapchain of a present whose fence is not signalled
  presentedBy,\* per context: the last submission that used its semaphores
  live,       \* swapchains and views that exist
  lastUse,    \* per handle: the last submission that renders to it
  layout,     \* per handle and image: "undefined", "general" or "present"
  window,     \* its drawable extent
  resizes     \* counts its changes

program == <<phase, position, device, next_present_context, swapchain, submitted, completed, calls>>
outside == <<gpuWork, gpuRetired, presenting, presentedBy, live, lastUse, layout, window, resizes>>
vars == <<program, outside>>

NoSwapchain ==
  [handle |-> Null, image_count |-> 0, image_index |-> 0, extent |-> Minimized,
   recreate_required |-> FALSE, initialized |-> [i \in 1..MaxImages |-> FALSE]]

-----------------------------------------------------------------------------
(* Retirement of swapchains.  device is passed and returned as a record;   *)
(* its field calls gathers what a step destroys.                           *)

CollectDevice(d, value) ==
  LET n == DueCount(d.queue, value)
  IN [d EXCEPT !.queue = Remaining(d.queue, n), !.calls = @ \o Destructions(d.queue, n)]

MutantRetiresLate(d, retired) ==
  CollectDevice([d EXCEPT !.queue = @ \o EntriesOf(submitted + 1, retired.handle, retired.view_count)], completed)
QueueRetired(d, retired) ==
  CollectDevice([d EXCEPT !.queue = @ \o EntriesOf(submitted, retired.handle, retired.view_count)], completed)

NoRetired == [handle |-> Null, view_count |-> 0]

PendingOn(d, handle) == {c \in Contexts : d.present_pending[c] /\ d.swapchain[c] = handle}

(***************************************************************************)
(* The present of context c is known to have finished.  The slot of its    *)
(* swapchain is given up with the last present that waits in it.           *)
(***************************************************************************)
MutantFinishesAtFirst(d, c) ==
  LET handle == d.swapchain[c]
      done == [d EXCEPT !.present_pending[c] = FALSE, !.swapchain[c] = Null]
      slots == {k \in 1..Slots : d.retired[k].handle = handle}
  IN IF slots = {} THEN done
     ELSE QueueRetired([done EXCEPT !.retired[Min(slots)] = NoRetired], d.retired[Min(slots)])
MutantForgetsSlot(d, c) == [d EXCEPT !.present_pending[c] = FALSE, !.swapchain[c] = Null]
FinishContext(d, c) ==
  LET handle == d.swapchain[c]
      done == [d EXCEPT !.present_pending[c] = FALSE, !.swapchain[c] = Null]
      slots == {k \in 1..Slots : d.retired[k].handle = handle}
  IN IF slots = {} \/ PendingOn(done, handle) # {} THEN done
     ELSE QueueRetired([done EXCEPT !.retired[Min(slots)] = NoRetired], d.retired[Min(slots)])

Signalled(c) == presenting[c] = Null

(***************************************************************************)
(* The loops over the contexts that finish those in due, one by one.       *)
(***************************************************************************)
FinishContexts(d, due) ==
  LET after[n \in 0..PresentContexts] ==
        IF n = 0 THEN d
        ELSE IF n - 1 \in due THEN FinishContext(after[n - 1], n - 1) ELSE after[n - 1]
  IN after[PresentContexts]

PollPresentContexts(d) == FinishContexts(d, {c \in Contexts : d.present_pending[c] /\ Signalled(c)})

(***************************************************************************)
(* A swapchain with pending presents goes to a free slot; without one its  *)
(* presents are waited for.                                                *)
(***************************************************************************)
FreeSlots(d) == {k \in 1..Slots : d.retired[k].handle = Null}
MustWait(d, handle) == IF FreeSlots(d) = {} THEN PendingOn(d, handle) ELSE {}

Retired(d, retired) ==
  IF PendingOn(d, retired.handle) = {} THEN QueueRetired(d, retired)
  ELSE IF FreeSlots(d) # {} THEN [d EXCEPT !.retired[Min(FreeSlots(d))] = retired]
  ELSE QueueRetired(FinishContexts(d, PendingOn(d, retired.handle)), retired)

RetireHandle ==
  IF swapchain.handle = Null THEN device
  ELSE Retired(PollPresentContexts(device), [handle |-> swapchain.handle, view_count |-> swapchain.image_count])

CanRetire ==
  swapchain.handle # Null =>
    \A c \in MustWait(PollPresentContexts(device), swapchain.handle) : Signalled(c)

(***************************************************************************)
(* The device after a step, and what the step destroyed.                   *)
(***************************************************************************)
Become(d) ==
  /\ device' = [d EXCEPT !.calls = <<>>]
  /\ calls' = d.calls

Destroyed(d) == DestroyedBy(d.calls)

-----------------------------------------------------------------------------
(* recreate_swapchain, called by acquire (or, at first, by create_device)  *)

NeedsRecreation == swapchain.handle = Null \/ swapchain.recreate_required

Returning == phase' = "ready" /\ position' = 0

MutantStaleExtent == swapchain.extent = Minimized
NoExtent == window = Minimized

MutantTriesAgain == UNCHANGED <<phase, position>>
ReturnEmpty == Returning

(***************************************************************************)
(* Nothing can be drawn: the old swapchain stays, and acquire returns an   *)
(* empty frame.                                                            *)
(***************************************************************************)
RecreateMinimized ==
  /\ phase \in {"creating", "acquiring"}
  /\ NeedsRecreation
  /\ NoExtent
  /\ swapchain' = [swapchain EXCEPT !.extent = Minimized, !.recreate_required = TRUE]
  /\ ReturnEmpty
  /\ calls' = <<>>
  /\ UNCHANGED <<device, next_present_context, submitted, completed, outside>>

(***************************************************************************)
(* The Swapchain object without a handle.                                  *)
(***************************************************************************)
MutantForgetsImages(old) ==
  [old EXCEPT !.handle = Null, !.image_count = 0, !.extent = Minimized]
MutantKeepsHandle(old) ==
  [old EXCEPT !.extent = Minimized, !.initialized = [i \in 1..MaxImages |-> FALSE]]
Emptied(old) ==
  [old EXCEPT !.handle = Null, !.image_count = 0, !.extent = Minimized,
              !.initialized = [i \in 1..MaxImages |-> i > old.image_count /\ old.initialized[i]]]

RecreateSucceeds(handle, count) ==
  /\ phase \in {"creating", "acquiring"}
  /\ NeedsRecreation
  /\ ~NoExtent
  /\ <<handle, 0>> \notin live
  /\ CanRetire
  /\ Become(RetireHandle)
  /\ live' = (live \ Destroyed(RetireHandle)) \union {<<handle, i>> : i \in 0..count}
  /\ swapchain' = [Emptied(swapchain) EXCEPT !.handle = handle, !.image_count = count, !.extent = window,
                                         !.recreate_required = FALSE]
  /\ lastUse' = [lastUse EXCEPT ![handle] = 0]
  /\ layout' = [layout EXCEPT ![handle] = [i \in 1..MaxImages |-> "undefined"]]
  /\ IF phase = "creating" THEN Returning ELSE UNCHANGED <<phase, position>>
  /\ UNCHANGED <<next_present_context, submitted, completed, gpuWork, gpuRetired, presenting, presentedBy,
                 window, resizes>>

(***************************************************************************)
(* A call of Vulkan fails half-way: what was created is destroyed again    *)
(* and the old swapchain, of no use any more, is retired.  create_device   *)
(* destroys the device; acquire aborts the process.                        *)
(***************************************************************************)
RecreateFails ==
  /\ phase \in {"creating", "acquiring"}
  /\ NeedsRecreation
  /\ ~NoExtent
  /\ CanRetire
  /\ Become(RetireHandle)
  /\ live' = live \ Destroyed(RetireHandle)
  /\ swapchain' = Emptied(swapchain)
  /\ phase' = IF phase = "creating" THEN "drain and destroy" ELSE "aborted"
  /\ position' = 0
  /\ UNCHANGED <<next_present_context, submitted, completed, gpuWork, gpuRetired, presenting, presentedBy,
                 lastUse, layout, window, resizes>>

-----------------------------------------------------------------------------
(* acquire *)

Acquire ==
  /\ phase = "ready"
  /\ submitted < MaxSubmissions
  /\ phase' = "acquiring"
  /\ position' = 0
  /\ calls' = <<>>
  /\ UNCHANGED <<device, next_present_context, swapchain, submitted, completed, outside>>

MutantNoFence(c) == TRUE
FenceAllows(c) == device.present_pending[c] => Signalled(c)

WaitPresentContext ==
  /\ phase = "acquiring" /\ position = 0
  /\ ~NeedsRecreation
  /\ FenceAllows(next_present_context)
  /\ LET d == IF device.present_pending[next_present_context]
              THEN FinishContext(device, next_present_context) ELSE device
     IN Become(d) /\ live' = live \ Destroyed(d)
  /\ position' = 1
  /\ UNCHANGED <<phase, next_present_context, swapchain, submitted, completed, gpuWork, gpuRetired,
                 presenting, presentedBy, lastUse, layout, window, resizes>>

(***************************************************************************)
(* vkAcquireNextImageKHR calls a swapchain out of date when the window     *)
(* has changed; suboptimal is only a hint, given for no reason too.        *)
(***************************************************************************)
ConfigurationChanged == window # swapchain.extent

AcquireOutOfDate ==
  /\ phase = "acquiring" /\ position = 1
  /\ ~NeedsRecreation
  /\ ConfigurationChanged
  /\ swapchain' = [swapchain EXCEPT !.recreate_required = TRUE]
  /\ calls' = <<>>
  /\ UNCHANGED <<phase, position, device, next_present_context, submitted, completed, outside>>

AcquireImage(image, suboptimal) ==
  /\ phase = "acquiring" /\ position = 1
  /\ ~NeedsRecreation
  /\ swapchain' = [swapchain EXCEPT !.image_index = image,
                                    !.recreate_required = suboptimal /\ ConfigurationChanged]
  /\ phase' = "acquired"
  /\ calls' = <<>>
  /\ UNCHANGED <<position, device, next_present_context, submitted, completed, outside>>

-----------------------------------------------------------------------------
(* Recording and submission of the acquired frame *)

OldLayout == IF swapchain.initialized[swapchain.image_index] THEN "present" ELSE "undefined"

(***************************************************************************)
(* The first begin_commands after acquire records the transition.          *)
(***************************************************************************)
BeginCommands ==
  /\ phase = "acquired"
  /\ phase' = "recording"
  /\ layout' = [layout EXCEPT ![swapchain.handle][swapchain.image_index] = "general"]
  /\ calls' = <<>>
  /\ UNCHANGED <<position, device, next_present_context, swapchain, submitted, completed,
                 gpuWork, gpuRetired, presenting, presentedBy, live, lastUse, window, resizes>>

FollowingContext(c) == (c + 1) % PresentContexts

SubmitAndPresent(outOfDate) ==
  LET c == next_present_context
  IN /\ phase = "recording"
     /\ submitted' = submitted + 1
     /\ device' = [device EXCEPT !.present_pending[c] = TRUE, !.swapchain[c] = swapchain.handle]
     /\ next_present_context' = FollowingContext(c)
     /\ swapchain' = [swapchain EXCEPT !.initialized[swapchain.image_index] = TRUE,
                                       !.recreate_required = @ \/ (outOfDate /\ ConfigurationChanged)]
     /\ presenting' = [presenting EXCEPT ![c] = swapchain.handle]
     /\ presentedBy' = [presentedBy EXCEPT ![c] = submitted + 1]
     /\ lastUse' = [lastUse EXCEPT ![swapchain.handle] = submitted + 1]
     /\ layout' = [layout EXCEPT ![swapchain.handle][swapchain.image_index] = "present"]
     /\ Returning
     /\ calls' = <<>>
     /\ UNCHANGED <<completed, gpuWork, gpuRetired, live, window, resizes>>

(***************************************************************************)
(* submit, without a frame.                                                *)
(***************************************************************************)
Submit ==
  /\ phase = "ready"
  /\ submitted < MaxSubmissions
  /\ submitted' = submitted + 1
  /\ calls' = <<>>
  /\ UNCHANGED <<phase, position, device, next_present_context, swapchain, completed, outside>>

(***************************************************************************)
(* begin_commands, wait_timeline and the throttle of a submission observe  *)
(* the retirement value, or one it has passed, and collect.                *)
(***************************************************************************)
Observed(value) == CollectDevice(device, value)

ObserveRetirement(value) ==
  /\ phase \in {"ready", "acquired", "recording"}
  /\ value \in (completed + 1)..gpuRetired
  /\ completed' = value
  /\ Become(Observed(value))
  /\ live' = live \ Destroyed(Observed(value))
  /\ UNCHANGED <<phase, position, next_present_context, swapchain, submitted, gpuWork, gpuRetired,
                 presenting, presentedBy, lastUse, layout, window, resizes>>

GetDrawableExtent ==
  /\ phase = "ready"
  /\ swapchain' = [swapchain EXCEPT !.recreate_required = @ \/ (swapchain.handle # Null /\ ConfigurationChanged)]
  /\ calls' = <<>>
  /\ UNCHANGED <<phase, position, device, next_present_context, submitted, completed, outside>>

-----------------------------------------------------------------------------
(* wait_idle and ~Device *)

BeginDrain ==
  /\ phase = "ready"
  /\ phase' \in {"drain", "drain and destroy"}
  /\ position' = 0
  /\ calls' = <<>>
  /\ UNCHANGED <<device, next_present_context, swapchain, submitted, completed, outside>>

Draining == phase \in {"drain", "drain and destroy"}
WaitingForPresents == phase \in {"presents", "presents and destroy"}

DrainRetirement ==
  /\ Draining
  /\ gpuRetired = submitted
  /\ completed' = submitted
  /\ Become(CollectDevice(device, submitted))
  /\ live' = live \ Destroyed(CollectDevice(device, submitted))
  /\ phase' = IF phase = "drain" THEN "presents" ELSE "presents and destroy"
  /\ UNCHANGED <<position, next_present_context, swapchain, submitted, gpuWork, gpuRetired,
                 presenting, presentedBy, lastUse, layout, window, resizes>>

DrainPresent ==
  /\ WaitingForPresents
  /\ position \in Contexts
  /\ FenceAllows(position)
  /\ LET d == IF device.present_pending[position] THEN FinishContext(device, position) ELSE device
     IN Become(d) /\ live' = live \ Destroyed(d)
  /\ position' = position + 1
  /\ UNCHANGED <<phase, next_present_context, swapchain, submitted, completed, gpuWork, gpuRetired,
                 presenting, presentedBy, lastUse, layout, window, resizes>>

WaitIdleReturns ==
  /\ phase = "presents" /\ position = PresentContexts
  /\ Become(CollectDevice(device, completed))
  /\ live' = live \ Destroyed(CollectDevice(device, completed))
  /\ next_present_context' = 0
  /\ Returning
  /\ UNCHANGED <<swapchain, submitted, completed, gpuWork, gpuRetired, presenting, presentedBy,
                 lastUse, layout, window, resizes>>

DestroyDevice ==
  /\ phase = "presents and destroy" /\ position = PresentContexts
  /\ Become(CollectDevice(RetireHandle, completed))
  /\ live' = live \ Destroyed(CollectDevice(RetireHandle, completed))
  /\ swapchain' = Emptied(swapchain)
  /\ phase' = "destroyed"
  /\ UNCHANGED <<position, next_present_context, submitted, completed, gpuWork, gpuRetired,
                 presenting, presentedBy, lastUse, layout, window, resizes>>

Stopped ==
  /\ phase \in {"destroyed", "aborted"}
  /\ UNCHANGED vars

-----------------------------------------------------------------------------
(* The world outside *)

GpuCompletesWork ==
  /\ gpuWork < submitted
  /\ gpuWork' = gpuWork + 1
  /\ calls' = <<>>
  /\ UNCHANGED <<phase, position, device, next_present_context, swapchain, submitted, completed,
                 gpuRetired, presenting, presentedBy, live, lastUse, layout, window, resizes>>

GpuSignalsRetirement ==
  /\ gpuRetired < gpuWork
  /\ gpuRetired' = gpuRetired + 1
  /\ calls' = <<>>
  /\ UNCHANGED <<phase, position, device, next_present_context, swapchain, submitted, completed,
                 gpuWork, presenting, presentedBy, live, lastUse, layout, window, resizes>>

(***************************************************************************)
(* The fence of a present, which waits for the frame to be rendered: the   *)
(* engine is done with its semaphore and with the swapchain.               *)
(***************************************************************************)
EngineSignalsFence(c) ==
  /\ presenting[c] # Null
  /\ presentedBy[c] <= gpuWork
  /\ presenting' = [presenting EXCEPT ![c] = Null]
  /\ calls' = <<>>
  /\ UNCHANGED <<phase, position, device, next_present_context, swapchain, submitted, completed,
                 gpuWork, gpuRetired, presentedBy, live, lastUse, layout, window, resizes>>

WindowChanges ==
  /\ resizes < MaxResizes
  /\ resizes' = resizes + 1
  /\ window' \in (Extents \union {Minimized}) \ {window}
  /\ calls' = <<>>
  /\ UNCHANGED <<phase, position, device, next_present_context, swapchain, submitted, completed,
                 gpuWork, gpuRetired, presenting, presentedBy, live, lastUse, layout>>

-----------------------------------------------------------------------------
Init ==
  /\ phase = "creating" /\ position = 0
  /\ device = [present_pending |-> [c \in Contexts |-> FALSE], swapchain |-> [c \in Contexts |-> Null],
               retired |-> [k \in 1..Slots |-> NoRetired],
               queue |-> <<>>, calls |-> <<>>]
  /\ next_present_context = 0
  /\ swapchain = NoSwapchain
  /\ submitted = 0 /\ completed = 0 /\ calls = <<>>
  /\ gpuWork = 0 /\ gpuRetired = 0
  /\ presenting = [c \in Contexts |-> Null] /\ presentedBy = [c \in Contexts |-> 0]
  /\ live = {} /\ lastUse = [h \in Handles |-> 0]
  /\ layout = [h \in Handles |-> [i \in 1..MaxImages |-> "undefined"]]
  /\ window \in Extents \union {Minimized} /\ resizes = 0

InsideCall ==
  \/ RecreateMinimized
  \/ \E handle \in Handles, count \in 1..MaxImages : RecreateSucceeds(handle, count)
  \/ WaitPresentContext
  \/ \E image \in 1..swapchain.image_count, suboptimal \in BOOLEAN : AcquireImage(image, suboptimal)
  \/ AcquireOutOfDate
  \/ DrainRetirement \/ DrainPresent \/ WaitIdleReturns \/ DestroyDevice

Application ==
  \/ Acquire \/ BeginCommands \/ Submit \/ GetDrawableExtent \/ BeginDrain
  \/ \E outOfDate \in BOOLEAN : SubmitAndPresent(outOfDate)
  \/ \E value \in 1..MaxSubmissions : ObserveRetirement(value)

Outside ==
  \/ GpuCompletesWork \/ GpuSignalsRetirement \/ WindowChanges
  \/ \E c \in Contexts : EngineSignalsFence(c)

Next == InsideCall \/ RecreateFails \/ Application \/ Outside \/ Stopped

Spec == Init /\ [][Next]_vars

(***************************************************************************)
(* A call that can proceed does, the GPU executes what was submitted and   *)
(* the engine signals the fence of a present whose frame is rendered.      *)
(***************************************************************************)
Fairness ==
  /\ WF_vars(InsideCall)
  /\ WF_vars(GpuCompletesWork) /\ WF_vars(GpuSignalsRetirement)
  /\ \A c \in Contexts : WF_vars(EngineSignalsFence(c))

FairSpec == Spec /\ Fairness

-----------------------------------------------------------------------------
(* Properties. *)

HandleOrNull == Handles \union {Null}
Phases == {"creating", "ready", "acquiring", "acquired", "recording", "drain", "presents",
           "drain and destroy", "presents and destroy", "destroyed", "aborted"}

TypeOK ==
  /\ phase \in Phases /\ position \in 0..PresentContexts
  /\ device.present_pending \in [Contexts -> BOOLEAN]
  /\ device.swapchain \in [Contexts -> HandleOrNull]
  /\ device.retired \in [1..Slots -> [handle : HandleOrNull, view_count : 0..MaxImages]]
  /\ next_present_context \in Contexts
  /\ swapchain \in [handle : HandleOrNull, image_count : 0..MaxImages, image_index : 0..MaxImages,
                    extent : Extents \union {Minimized}, recreate_required : BOOLEAN,
                    initialized : [1..MaxImages -> BOOLEAN]]
  /\ completed \in 0..gpuRetired /\ gpuRetired \in 0..gpuWork
  /\ gpuWork \in 0..submitted /\ submitted \in 0..MaxSubmissions
  /\ presenting \in [Contexts -> HandleOrNull] /\ presentedBy \in [Contexts -> 0..submitted]
  /\ live \subseteq Handles \X (0..MaxImages)
  /\ lastUse \in [Handles -> 0..submitted]
  /\ window \in Extents \union {Minimized} /\ resizes \in 0..MaxResizes

(***************************************************************************)
(* A swapchain or one of its views is destroyed only if it exists, once,   *)
(* the views before their swapchain, and while neither submitted work      *)
(* renders to it nor the engine presents from it.                          *)
(***************************************************************************)
DestroysOnlyUnused ==
  [][\A i \in 1..Len(calls') :
       LET handle == calls'[i].swapchain
       IN /\ <<handle, calls'[i].view>> \in live /\ <<handle, 0>> \in live
          /\ \A j \in 1..(i - 1) :
               calls'[j].swapchain = handle => calls'[j].view # calls'[i].view /\ ~calls'[j].final_image
          /\ lastUse[handle] <= gpuWork
          /\ \A c \in Contexts : presenting[c] # handle]_vars

(***************************************************************************)
(* Nothing that is due by the observed retirement value stays.             *)
(***************************************************************************)
NothingOverdue ==
  \A i \in 1..Len(device.queue) : device.queue[i].retire_value > completed

(***************************************************************************)
(* Every swapchain that exists has one owner: the Swapchain object, a slot *)
(* or the delete queue - with all of its views.                            *)
(***************************************************************************)
OneOwnerEach ==
  LET current == IF swapchain.handle = Null THEN {} ELSE Views(swapchain.handle, swapchain.image_count)
      kept(k) == IF device.retired[k].handle = Null THEN {}
                 ELSE Views(device.retired[k].handle, device.retired[k].view_count)
      waiting(i) == <<device.queue[i].swapchain, device.queue[i].view>>
      queued == {waiting(i) : i \in 1..Len(device.queue)}
      owned == current \union (UNION {kept(k) : k \in 1..Slots}) \union queued
  IN /\ live = owned \union {<<view[1], 0>> : view \in owned}
     /\ current \intersect queued = {}
     /\ \A k \in 1..Slots : kept(k) \intersect (current \union queued) = {}
     /\ \A k, l \in 1..Slots : k # l => kept(k) \intersect kept(l) = {}
     /\ \A i, j \in 1..Len(device.queue) : i # j => waiting(i) # waiting(j)

(***************************************************************************)
(* So it is at every point of every call, and what is due by the observed  *)
(* retirement value has left the queue.                                    *)
(***************************************************************************)
EveryViewHasOneOwner == TypeOK /\ OneOwnerEach /\ NothingOverdue

(***************************************************************************)
(* A slot is occupied exactly while a present of its swapchain is pending, *)
(* so there is a free one whenever a swapchain with a pending present is   *)
(* replaced: replacing never waits ("safe reuse and swapchain replacement  *)
(* without draining", docs/vulkan-support.md).                             *)
(***************************************************************************)
SlotsSuffice ==
  /\ \A k \in 1..Slots : device.retired[k].handle # Null => PendingOn(device, device.retired[k].handle) # {}
  /\ swapchain.handle # Null => MustWait(device, swapchain.handle) = {}

(***************************************************************************)
(* The layout a transition starts from is the one the image is in, through *)
(* any sequence of replacements by swapchains with fewer or more images.   *)
(***************************************************************************)
OldLayoutIsReal ==
  phase = "acquired" => layout[swapchain.handle][swapchain.image_index] = OldLayout

(***************************************************************************)
(* A frame starts with semaphores that nobody uses any more: the context's *)
(* last submission has waited for one, its last present for the other.     *)
(* wait_idle may start again at the first context.                         *)
(***************************************************************************)
SemaphoresReusable ==
  phase \in {"acquired", "recording"} \/ (phase = "acquiring" /\ position = 1) =>
    /\ ~device.present_pending[next_present_context]
    /\ device.swapchain[next_present_context] = Null
    /\ presenting[next_present_context] = Null
    /\ presentedBy[next_present_context] <= gpuWork

(***************************************************************************)
(* acquire returns an empty frame only for a window without an extent, and *)
(* never hands out a frame of a swapchain that was given up for that.      *)
(***************************************************************************)
EmptyOnlyWhenMinimized ==
  [][phase = "acquiring" =>
       /\ phase' = "ready" => window = Minimized
       /\ phase' = "acquired" => swapchain'.handle # Null /\ swapchain'.extent # Minimized]_vars

(***************************************************************************)
(* wait_idle leaves no pending present and nothing to destroy; ~Device     *)
(* leaves no swapchain, even when the first one could not be created.      *)
(***************************************************************************)
DrainsCompletely ==
  /\ phase \in {"presents", "presents and destroy"} /\ position = PresentContexts =>
       /\ \A c \in Contexts : ~device.present_pending[c]
       /\ \A k \in 1..Slots : device.retired[k].handle = Null
       /\ device.queue = <<>>
  /\ phase = "destroyed" => live = {}

(***************************************************************************)
(* acquire returns once the window no longer changes, although it may find *)
(* its swapchain out of date again and again; wait_idle and ~Device always *)
(* return.                                                                 *)
(***************************************************************************)
CallsReturn ==
  /\ phase = "acquiring" ~> phase # "acquiring"
  /\ phase \in {"drain", "presents"} ~> phase = "ready"
  /\ phase \in {"drain and destroy", "presents and destroy"} ~> phase = "destroyed"
=============================================================================
