--------------------------- MODULE DeviceLifecycle ---------------------------
(***************************************************************************)
(* create_device and ~Device (src/src/NoGraphicsAPI.cpp): what exists on   *)
(* the side of Vulkan, what a Device holds a handle of, and the order in   *)
(* which it is all created and destroyed, when any call may fail.          *)
(*                                                                         *)
(* A failed allocation aborts the process and is left out; what a device   *)
(* does in its life is reduced to a few submissions and to command         *)
(* contexts that were added (see CommandContexts and Presentation).        *)
(***************************************************************************)
EXTENDS PhysicalDevices, SequencesExt

CONSTANTS
  initial_command_context_count, \* 2 in the code
  PresentContexts,               \* desired_swapchain_image_count
  MaxContexts,                   \* bound of the model: command contexts
  MaxImages,                     \* images of a swapchain
  MaxSubmissions                 \* bound of the model

ASSUME ConstantsAssumption ==
  /\ initial_command_context_count \in Nat /\ MaxContexts >= initial_command_context_count
  /\ PresentContexts \in Nat /\ MaxImages \in Nat \ {0} /\ MaxSubmissions \in Nat

Object(kind, index) == <<kind, index>>
Instance == Object("instance", 0)
Messenger == Object("debug_messenger", 0)
Surface == Object("surface", 0)
LogicalDevice == Object("device", 0)
Retirement == Object("command_retirement", 0)
Swapchain == Object("swapchain", 0)
Pool(k) == Object("command_pool", k)
PresentObjects(c) == <<Object("acquired", c), Object("rendered", c), Object("presented", c)>>
Views(count) == [k \in 1..count |-> Object("view", k)]
OfKind(objects, kind) == {o \in objects : o[1] = kind}

(* What has to be destroyed before an object is                            *)
Children(o, objects) ==
  CASE o = Instance -> objects \ {o}
    [] o = Surface -> objects \cap {Swapchain}
    [] o = LogicalDevice -> objects \ {o, Instance, Messenger, Surface}
    [] o = Swapchain -> OfKind(objects, "view")
    [] OTHER -> {}

VARIABLES
  \* the platform
  presentation, \* desc.window is given
  debug_utils,  \* a debug build, and the extension is available
  instance_extensions, \* those the loader offers
  gpus,         \* the physical devices, in the order they are enumerated
  exists,       \* Vulkan objects
  \* the program
  step,         \* of create_device, of the life of the device or of ~Device
  index,        \* of the loop it is in
  selected,     \* 0, or the physical device selected
  handles,      \* the handles the Device holds
  contexts,     \* command contexts, in the order of the ring
  swapchain,    \* the Swapchain object exists
  values,       \* command_retirement_value and completed_command_retirement
  calls,        \* vkDestroy calls of the last step, in order
  error         \* result of create_device

platform == <<presentation, debug_utils, instance_extensions, gpus>>
vars == <<platform, exists, step, index, selected, handles, contexts, swapchain,
          values, calls, error>>

Init ==
  /\ presentation \in BOOLEAN /\ debug_utils \in BOOLEAN
  /\ instance_extensions \in InstanceExtensions /\ gpus \in Installations
  /\ exists = {} /\ handles = {} /\ contexts = <<>> /\ swapchain = FALSE
  /\ step = "loader" /\ index = 0 /\ selected = 0
  /\ values = [submitted |-> 0, completed |-> 0]
  /\ calls = <<>> /\ error = "none"

-----------------------------------------------------------------------------
(* Steps of create_device *)

Continue(from, to) == step = from /\ step' = to /\ index' = 0 /\ UNCHANGED error
(* fail_device_creation: the device is deleted *)
Fail(from, e) == step = from /\ step' = "drain" /\ index' = 0 /\ error' = e

Created(objects) ==
  /\ exists' = exists \cup objects
  /\ handles' = handles \cup objects
  /\ calls' = <<>>
NothingCreated == calls' = <<>> /\ UNCHANGED <<exists, handles>>
Kept == UNCHANGED <<platform, contexts, swapchain, values>>

(* No Device has been allocated yet. *)
LoaderFails(e) ==
  /\ step = "loader" /\ step' = "returned" /\ index' = 0 /\ error' = e
  /\ NothingCreated /\ Kept /\ UNCHANGED selected
LoaderSuffices == Continue("loader", "extensions") /\ NothingCreated /\ Kept /\ UNCHANGED selected

(* A window takes the extensions of its surface and one of the two kinds   *)
(* of surface maintenance.                                                 *)
ExtensionsSuffice ==
  presentation =>
    /\ surface_extensions \subseteq instance_extensions
    /\ {"VK_KHR_surface_maintenance1", "VK_EXT_surface_maintenance1"} \cap instance_extensions # {}
CheckExtensions ==
  /\ IF ExtensionsSuffice THEN Continue("extensions", "instance") ELSE Fail("extensions", "unsupported")
  /\ NothingCreated /\ Kept /\ UNCHANGED selected
CreateInstance ==
  Continue("instance", IF debug_utils THEN "messenger" ELSE "surface")
  /\ Created({Instance}) /\ Kept /\ UNCHANGED selected
CreateMessenger ==
  Continue("messenger", "surface") /\ Created({Messenger}) /\ Kept /\ UNCHANGED selected
CreateSurface ==
  Continue("surface", "inspect") /\ Created(IF presentation THEN {Surface} ELSE {})
  /\ Kept /\ UNCHANGED selected

(* One physical device is inspected: an unsupported one is passed over, a  *)
(* discrete one ends the search.                                           *)
Inspected(k) == inspect_candidate(gpus[k], presentation, instance_extensions)
Preferred(gpu) == selected = 0 \/ gpu.discrete
InspectCandidate ==
  /\ step = "inspect" /\ index < Len(gpus)
  /\ LET gpu == gpus[index + 1]
         suitable == Inspected(index + 1) = "none"
     IN /\ suitable \/ Inspected(index + 1) = "unsupported"
        /\ selected' = IF suitable /\ Preferred(gpu) THEN index + 1 ELSE selected
        /\ index' = IF suitable /\ gpu.discrete THEN Len(gpus) ELSE index + 1
  /\ UNCHANGED <<step, error>> /\ NothingCreated /\ Kept
InspectionFails ==
  /\ step = "inspect" /\ index < Len(gpus)
  /\ Inspected(index + 1) \notin {"none", "unsupported"}
  /\ Fail("inspect", Inspected(index + 1)) /\ NothingCreated /\ Kept /\ UNCHANGED selected
InspectionEnds ==
  /\ index = Len(gpus)
  /\ IF selected = 0 THEN Fail("inspect", "unsupported") ELSE Continue("inspect", "device")
  /\ NothingCreated /\ Kept /\ UNCHANGED selected

CreateLogicalDevice ==
  Continue("device", "memory") /\ Created({LogicalDevice}) /\ Kept /\ UNCHANGED selected
SelectMemory == Continue("memory", "functions") /\ NothingCreated /\ Kept /\ UNCHANGED selected
LoadFunctions == Continue("functions", "retirement") /\ NothingCreated /\ Kept /\ UNCHANGED selected

-----------------------------------------------------------------------------
(* create_command_contexts *)

CreateRetirement ==
  Continue("retirement", "contexts") /\ Created({Retirement}) /\ Kept /\ UNCHANGED selected

MoreContexts == index < initial_command_context_count
GrowContexts ==
  /\ step = "contexts" /\ MoreContexts
  /\ index' = index + 1 /\ UNCHANGED <<step, error>>
  /\ contexts' = Append(contexts, Pool(Len(contexts) + 1))
  /\ Created({Pool(Len(contexts) + 1)})
  /\ UNCHANGED <<platform, selected, swapchain, values>>

(* create_command_context: the pool exists and its command buffer fails.   *)
CommandBufferCalls(pool) == IF pool THEN <<Pool(Len(contexts) + 1)>> ELSE <<>>
(* destroy_command_contexts, which ~Device calls again                     *)
MutantKeepsRetirement == contexts
ContextCalls == contexts \o (IF Retirement \in handles THEN <<Retirement>> ELSE <<>>)
GrowContextsFails(e, pool) ==
  /\ MoreContexts
  /\ Fail("contexts", e)
  /\ calls' = CommandBufferCalls(pool) \o ContextCalls
  /\ exists' = exists \ ToSet(ContextCalls)
  /\ handles' = handles \ ({Retirement} \cup ToSet(contexts))
  /\ contexts' = <<>>
  /\ values' = [submitted |-> 0, completed |-> 0]
  /\ UNCHANGED <<platform, selected, swapchain>>
ContextsCreated ==
  /\ index = initial_command_context_count
  /\ Continue("contexts", "present contexts") /\ NothingCreated /\ Kept /\ UNCHANGED selected

-----------------------------------------------------------------------------
(* Present contexts and the first swapchain *)

present_context_count == IF presentation THEN PresentContexts ELSE 0

CreatePresentContext ==
  /\ step = "present contexts" /\ index < present_context_count
  /\ index' = index + 1 /\ UNCHANGED <<step, error>>
  /\ Created(ToSet(PresentObjects(index))) /\ Kept /\ UNCHANGED selected
(* `made` of the three objects of the context exist when one fails.        *)
MutantKeepsHandles(made) == ToSet(made)
HandlesKept(made) == {}
CreatePresentContextFails(e, made) ==
  /\ index < present_context_count
  /\ Fail("present contexts", e)
  /\ calls' = SubSeq(PresentObjects(index), 1, made)
  /\ handles' = handles \cup HandlesKept(calls')
  /\ UNCHANGED exists /\ Kept /\ UNCHANGED selected
PresentContextsCreated ==
  /\ index = present_context_count
  /\ Continue("present contexts", IF presentation THEN "swapchain" ELSE "returned")
  /\ NothingCreated /\ Kept /\ UNCHANGED selected

(* recreate_swapchain of a new Swapchain: the window may have no extent.   *)
CreateSwapchain(count) ==
  /\ Continue("swapchain", "returned")
  /\ Created(IF count = 0 THEN {} ELSE {Swapchain} \cup ToSet(Views(count)))
  /\ swapchain' = TRUE
  /\ UNCHANGED <<platform, selected, contexts, values>>
MutantLeavesViews(made) == <<Swapchain>>
SwapchainCalls(made) == Views(made) \o <<Swapchain>>
(* The surface cannot be used (created is FALSE), or creation fails after  *)
(* `made` views.                                                           *)
CreateSwapchainFails(e, created, made) ==
  /\ Fail("swapchain", e)
  /\ calls' = IF created THEN SwapchainCalls(made) ELSE <<>>
  /\ exists' = exists \cup (IF created THEN ToSet(Views(made)) \ ToSet(SwapchainCalls(made)) ELSE {})
  /\ swapchain' = TRUE
  /\ UNCHANGED <<platform, selected, handles, contexts, values>>

(* Any other call of create_device fails.                                  *)
StepFails(e) ==
  /\ \/ Fail("extensions", e) \/ Fail("instance", e) \/ Fail("messenger", e) \/ Fail("inspect", e)
     \/ (presentation /\ Fail("surface", e))
     \/ Fail("device", e) \/ Fail("retirement", e)
     \/ (e = "unsupported" /\ Fail("memory", e))
     \/ (e = "driver_error" /\ Fail("functions", e))
  /\ step = "inspect" => index = 0
  /\ NothingCreated /\ Kept /\ UNCHANGED selected

-----------------------------------------------------------------------------
(* The life of the device *)

UsesDevice == step = "returned" /\ error = "none"

GrowPool ==
  /\ UsesDevice /\ Len(contexts) < MaxContexts
  /\ contexts' = Append(contexts, Pool(Len(contexts) + 1))
  /\ Created({Pool(Len(contexts) + 1)})
  /\ UNCHANGED <<platform, step, index, selected, swapchain, values, error>>
Submit ==
  /\ UsesDevice /\ values.submitted < MaxSubmissions
  /\ values' = [values EXCEPT !.submitted = @ + 1]
  /\ NothingCreated
  /\ UNCHANGED <<platform, step, index, selected, contexts, swapchain, error>>
destroy_device ==
  /\ UsesDevice /\ step' = "drain" /\ index' = 0
  /\ NothingCreated
  /\ UNCHANGED <<platform, selected, contexts, swapchain, values, error>>

-----------------------------------------------------------------------------
(* ~Device *)

Destroyed(objects) ==
  /\ calls' = objects
  /\ exists' = exists \ ToSet(objects)
  /\ handles' = handles \ ToSet(objects)
  /\ UNCHANGED <<platform, selected, error>>
Destroy(from, to, objects) ==
  step = from /\ step' = to /\ index' = 0 /\ Destroyed(objects)
IfHeld(o) == IF o \in handles THEN <<o>> ELSE <<>>

DrainContexts ==
  /\ Destroy("drain", "owned swapchain", <<>>)
  /\ values' = IF LogicalDevice \in handles THEN [values EXCEPT !.completed = values.submitted] ELSE values
  /\ UNCHANGED <<contexts, swapchain>>
(* The views, and with the last of them the swapchain, leave by the queue. *)
DestroyOwnedSwapchain ==
  /\ Destroy("owned swapchain", "command contexts",
             IF LogicalDevice \in handles THEN Views(Cardinality(OfKind(handles, "view"))) \o IfHeld(Swapchain)
             ELSE <<>>)
  /\ swapchain' = (swapchain /\ LogicalDevice \notin handles)
  /\ UNCHANGED <<contexts, values>>
DestroyCommandContexts ==
  /\ Destroy("command contexts", "destroy present contexts", ContextCalls)
  /\ contexts' = <<>>
  /\ values' = [submitted |-> 0, completed |-> 0]
  /\ UNCHANGED swapchain
(* One round of the loop over present contexts.                            *)
PresentCalls(c) == IfHeld(Object("acquired", c)) \o IfHeld(Object("rendered", c)) \o IfHeld(Object("presented", c))
DestroyPresentContext ==
  /\ step = "destroy present contexts" /\ index < present_context_count
  /\ index' = index + 1 /\ UNCHANGED step
  /\ Destroyed(PresentCalls(index))
  /\ UNCHANGED <<contexts, swapchain, values>>
PresentContextsDestroyed ==
  /\ index = present_context_count
  /\ Destroy("destroy present contexts", "destroy device", <<>>)
  /\ UNCHANGED <<contexts, swapchain, values>>
AfterDevice == "destroy surface"
DestroyLogicalDevice ==
  /\ Destroy("destroy device", AfterDevice, IfHeld(LogicalDevice))
  /\ UNCHANGED <<contexts, swapchain, values>>
DestroySurface ==
  /\ Destroy("destroy surface", "destroy messenger", IfHeld(Surface))
  /\ UNCHANGED <<contexts, swapchain, values>>
DestroyMessenger ==
  /\ Destroy("destroy messenger", "destroy instance", IfHeld(Messenger))
  /\ UNCHANGED <<contexts, swapchain, values>>
DestroyInstance ==
  /\ Destroy("destroy instance", "gone", IfHeld(Instance))
  /\ UNCHANGED <<contexts, swapchain, values>>

(* Nothing is left to do with a device that is gone or was never created.  *)
Gone == step = "gone" \/ (step = "returned" /\ error # "none")
Finished == Gone /\ UNCHANGED vars

-----------------------------------------------------------------------------
CreateDevice ==
  \/ LoaderSuffices \/ CheckExtensions \/ CreateInstance \/ CreateMessenger \/ CreateSurface
  \/ InspectCandidate \/ InspectionFails \/ InspectionEnds
  \/ CreateLogicalDevice \/ SelectMemory \/ LoadFunctions \/ CreateRetirement
  \/ GrowContexts \/ ContextsCreated \/ CreatePresentContext \/ PresentContextsCreated
  \/ \E count \in 0..MaxImages : CreateSwapchain(count)
CreationFails ==
  \E e \in Errors :
    \/ LoaderFails(e) \/ StepFails(e)
    \/ \E pool \in BOOLEAN : GrowContextsFails(e, pool)
    \/ \E made \in 0..2 : CreatePresentContextFails(e, made)
    \/ CreateSwapchainFails(e, FALSE, 0)
    \/ \E made \in 0..(MaxImages - 1) : CreateSwapchainFails(e, TRUE, made)
DeleteDevice ==
  \/ DrainContexts \/ DestroyOwnedSwapchain \/ DestroyCommandContexts
  \/ DestroyPresentContext \/ PresentContextsDestroyed
  \/ DestroyLogicalDevice \/ DestroySurface \/ DestroyMessenger \/ DestroyInstance
UseDevice == GrowPool \/ Submit \/ destroy_device

Next == CreateDevice \/ CreationFails \/ UseDevice \/ DeleteDevice \/ Finished

Spec == Init /\ [][Next]_vars

-----------------------------------------------------------------------------
Steps == {"loader", "extensions", "instance", "messenger", "surface", "inspect", "device", "memory",
          "functions", "retirement", "contexts", "present contexts", "swapchain", "returned"}
Deleting == {"drain", "owned swapchain", "command contexts", "destroy present contexts",
             "destroy device", "destroy surface", "destroy messenger", "destroy instance", "gone"}

TypeOK ==
  /\ step \in Steps \cup Deleting
  /\ index \in 0..(CASE step = "inspect" -> Len(gpus)
                    [] step = "contexts" -> initial_command_context_count
                    [] step \in {"present contexts", "destroy present contexts"} -> present_context_count
                    [] OTHER -> 0)
  /\ selected \in 0..Len(gpus)
  /\ \A k \in DOMAIN contexts : contexts[k] = Pool(k)
  /\ values \in [submitted : 0..MaxSubmissions, completed : 0..MaxSubmissions]
  /\ error \in Errors \cup {"none"}

(* The Device holds a handle of everything that exists and of nothing      *)
(* else, after every step of create_device, whichever call failed half-way *)
(* through, and of ~Device: nothing is leaked, nothing is left dangling.   *)
HandlesAreExact ==
  /\ TypeOK
  /\ handles = exists
  /\ ToSet(contexts) = OfKind(exists, "command_pool")
  /\ OfKind(exists, "swapchain") # {} => swapchain

(* Every destroy call names an object that exists, or that the failing     *)
(* call has just made, once, and after everything made from it: images and *)
(* pools before the device, device, surface and messenger before the       *)
(* instance (~Device and the error paths of create_device).                *)
DestroysInOrder ==
  [][\A k \in DOMAIN calls' :
       LET earlier == {calls'[j] : j \in 1..(k - 1)}
       IN /\ step \in Deleting => calls'[k] \in exists
          /\ calls'[k] \notin earlier
          /\ Children(calls'[k], exists \ earlier) = {}]_vars

(* The device is the first discrete one if any is suitable, the first      *)
(* suitable one otherwise, whatever else is installed (create_device).     *)
SelectsDiscreteFirst ==
  LET Suitable == {k \in DOMAIN gpus : Inspected(k) = "none"}
      discrete == {k \in Suitable : gpus[k].discrete}
  IN step = "device" => selected = Min(IF discrete # {} THEN discrete ELSE Suitable)

(* Everything required, and nothing the device does not offer, is enabled, *)
(* with the extensions it belongs to; and the queue draws, computes and    *)
(* presents (inspect_candidate against vkCreateDevice in create_device).   *)
EnablesOnlyWhatIsOffered ==
  LogicalDevice \in exists =>
    LET gpu == gpus[selected]
        features == enabled_features(gpu, presentation)
        extensions == enabled_device_extensions(gpu, presentation, instance_extensions)
        family == gpu.families[queue_family(gpu, presentation)]
    IN /\ features \subseteq gpu.features /\ extensions \subseteq gpu.extensions
       /\ RequiredFeatures \subseteq features
       /\ Valid(features, extensions,
                IF presentation THEN enabled_instance_extensions(instance_extensions) ELSE {})
       /\ gpu.vulkan_1_4 /\ gpu.cpu_visible /\ Capable(family)
       /\ presentation => /\ enabled_instance_extensions(instance_extensions) \subseteq instance_extensions
                          /\ "VK_KHR_swapchain" \in extensions /\ "swapchainMaintenance1" \in features
                          /\ family.presents = "yes"

(* create_device returns a complete device made from that physical device, *)
(* or an error and nothing at all.                                         *)
ReturnsDeviceOrNothing ==
  /\ SelectsDiscreteFirst /\ EnablesOnlyWhatIsOffered
  /\ UsesDevice =>
       /\ {Instance, LogicalDevice, Retirement} \subseteq exists
       /\ (Surface \in exists) = presentation /\ (Messenger \in exists) = debug_utils
       /\ swapchain = presentation
       /\ Len(contexts) >= initial_command_context_count
       /\ Cardinality(OfKind(exists, "presented")) = present_context_count
  /\ Gone =>
       exists = {} /\ contexts = <<>> /\ ~swapchain
=============================================================================
