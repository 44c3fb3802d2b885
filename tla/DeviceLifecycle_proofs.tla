------------------------ MODULE DeviceLifecycle_proofs ------------------------
(***************************************************************************)
(* What create_device selects and enables, for any number of physical      *)
(* devices of any kind and any extensions of the instance.                 *)
(*                                                                         *)
(* The search keeps the best device seen so far (Best); once it has one    *)
(* that is discrete it ends. What is enabled is right because the device   *)
(* selected passed inspect_candidate, and selection is over before the     *)
(* logical device exists (IInv).                                           *)
(*                                                                         *)
(* What exists is described by four values: a set S of the objects there   *)
(* is one of at most, the number m of command contexts, the set P of       *)
(* present contexts and the number n of image views (Objects). Each step   *)
(* of create_device and of ~Device bounds the four (Stage), and the        *)
(* Device holds exactly these handles (Books).                             *)
(***************************************************************************)
EXTENDS DeviceLifecycle, WellFoundedInduction, FiniteSetTheorems, TLAPS

Suitable(k) == Inspected(k) = "none"

(* No device among the first n beats the one selected.                     *)
Best(n) ==
  /\ selected \in 0..n
  /\ selected # 0 => Suitable(selected)
  /\ \A k \in 1..n : Suitable(k) =>
       /\ selected # 0
       /\ k < selected => gpus[selected].discrete /\ ~gpus[k].discrete
       /\ gpus[k].discrete => gpus[selected].discrete

Searching ==
  /\ index \in 0..Len(gpus) /\ Best(index)
  /\ selected # 0 /\ gpus[selected].discrete => index = Len(gpus)

Early == {"loader", "extensions", "instance", "messenger", "surface"}

Selection ==
  /\ step \in Early => selected = 0
  /\ step = "inspect" => Searching
  /\ step = "device" => selected # 0 /\ Best(Len(gpus))

MadeFromSelected ==
  /\ step \in {"instance", "messenger", "surface", "inspect", "device"} => ExtensionsSuffice
  /\ LogicalDevice \in exists =>
       /\ step \notin Early \cup {"inspect"}
       /\ selected \in 1..Len(gpus) /\ Suitable(selected) /\ ExtensionsSuffice

IInv ==
  /\ gpus \in Seq(PhysicalDevice) /\ presentation \in BOOLEAN
  /\ Selection /\ MadeFromSelected

-----------------------------------------------------------------------------
(* Every set of numbers has a least one.                                   *)
LEMMA LeastElement ==
  ASSUME NEW S \in SUBSET Nat, S # {}
  PROVE  Min(S) \in S /\ \A y \in S : Min(S) <= y
<1>1. PICK x \in S : \A y \in S : ~(<<y, x>> \in OpToRel(<, Nat))
  <2> DEFINE R == OpToRel(<, Nat)
  <2>1. IsWellFoundedOn(R, Nat)  BY NatLessThanWellFounded
  <2> HIDE DEF R
  <2>2. \E x \in S : \A y \in S : ~(<<y, x>> \in R)  BY <2>1, WFMin
  <2>3. QED  BY <2>2 DEF R
<1>2. \A y \in S : ~(<<y, x>> \in {ss \in Nat \X Nat : ss[1] < ss[2]})
  BY <1>1 DEF OpToRel
<1>3. ASSUME NEW y \in S  PROVE x <= y
  <2>1. x \in Nat /\ y \in Nat  OBVIOUS
  <2>2. SUFFICES ASSUME y < x PROVE FALSE  BY <2>1
  <2> DEFINE p == <<y, x>>
  <2>3. p \in Nat \X Nat /\ p[1] = y /\ p[2] = x  BY <2>1
  <2>4. p \in {ss \in Nat \X Nat : ss[1] < ss[2]}  BY <2>2, <2>3
  <2>5. QED  BY <1>2, <2>4
<1>4. QED  BY <1>3 DEF Min

(* A number that is in a set and not above any other is its least.         *)
LEMMA LeastIsMin ==
  ASSUME NEW S \in SUBSET Nat, NEW x \in S, \A y \in S : x <= y
  PROVE  x = Min(S)
<1>1. Min(S) \in S /\ \A y \in S : Min(S) <= y  BY LeastElement
<1>2. x <= Min(S) /\ Min(S) <= x /\ x \in Nat /\ Min(S) \in Nat  BY <1>1
<1>3. QED  BY <1>2

(* Where the search for a queue family ends, and with what answer.         *)
LEMMA QueueFamilyIsOne ==
  ASSUME NEW gpu \in PhysicalDevice, NEW window \in BOOLEAN, Ends(gpu, window) # {}
  PROVE  queue_family(gpu, window) \in Ends(gpu, window)
<1>1. gpu.families \in Seq(QueueFamily)  BY DEF PhysicalDevice
<1>2. DOMAIN gpu.families \subseteq Nat  BY <1>1
<1>3. Ends(gpu, window) \in SUBSET Nat  BY <1>2 DEF Ends
<1>4. QED  BY <1>3, LeastElement DEF queue_family

(* What inspect_candidate has accepted.                                    *)
LEMMA Accepted ==
  ASSUME NEW gpu \in PhysicalDevice, NEW window \in BOOLEAN, NEW instance,
         inspect_candidate(gpu, window, instance) = "none"
  PROVE  /\ gpu.vulkan_1_4 /\ gpu.cpu_visible
         /\ required_extensions \subseteq gpu.extensions
         /\ window => Presents(gpu, instance)
         /\ HasFeatures(gpu, window)
         /\ Capable(gpu.families[queue_family(gpu, window)])
         /\ window => gpu.families[queue_family(gpu, window)].presents = "yes"
<1> DEFINE k == queue_family(gpu, window)
           answer == gpu.families[k].presents
<1>1. /\ gpu.vulkan_1_4 /\ gpu.cpu_visible
      /\ required_extensions \subseteq gpu.extensions
      /\ window => Presents(gpu, instance)
      /\ HasFeatures(gpu, window)
      /\ Ends(gpu, window) # {}
      /\ ~(window /\ answer \in Errors)
  <2>1. gpu.error \in Errors \cup {"none"}  BY DEF PhysicalDevice
  <2>2. gpu.error = "none"  BY <2>1 DEF inspect_candidate
  <2>3. QED  BY <2>2 DEF inspect_candidate, Errors
<1>2. k \in Ends(gpu, window)  BY <1>1, QueueFamilyIsOne
<1>3. /\ k \in DOMAIN gpu.families /\ Capable(gpu.families[k])
      /\ window => answer # "no"
  BY <1>2 DEF Ends
<1>4. gpu.families \in Seq(QueueFamily)  BY DEF PhysicalDevice
<1>5. gpu.families[k] \in QueueFamily  BY <1>3, <1>4
<1>6. answer \in {"yes", "no"} \cup Errors  BY <1>5 DEF QueueFamily
<1>7. window => answer = "yes"  BY <1>1, <1>3, <1>6
<1> HIDE DEF k
<1>8. QED  BY <1>1, <1>3, <1>7 DEF k

(* The features enabled on an accepted device are offered by it, hold what *)
(* the library needs and come with their extensions.                       *)
LEMMA EnabledIsValid ==
  ASSUME NEW gpu \in PhysicalDevice, NEW window \in BOOLEAN, NEW instance,
         inspect_candidate(gpu, window, instance) = "none"
  PROVE  /\ enabled_features(gpu, window) \subseteq gpu.features
         /\ enabled_device_extensions(gpu, window, instance) \subseteq gpu.extensions
         /\ RequiredFeatures \subseteq enabled_features(gpu, window)
         /\ Valid(enabled_features(gpu, window), enabled_device_extensions(gpu, window, instance),
                  IF window THEN enabled_instance_extensions(instance) ELSE {})
         /\ window => /\ "VK_KHR_swapchain" \in enabled_device_extensions(gpu, window, instance)
                      /\ "swapchainMaintenance1" \in enabled_features(gpu, window)
<1> DEFINE features == enabled_features(gpu, window)
           extensions == enabled_device_extensions(gpu, window, instance)
           surface == IF window THEN enabled_instance_extensions(instance) ELSE {}
<1>1. /\ required_extensions \subseteq gpu.extensions
      /\ window => Presents(gpu, instance)
      /\ RequiredFeatures \subseteq gpu.features
      /\ window => "swapchainMaintenance1" \in gpu.features
  BY Accepted DEF HasFeatures, Features
<1>2. features \subseteq gpu.features
  <2> SUFFICES ASSUME NEW f \in features PROVE f \in gpu.features  OBVIOUS
  <2>1. CASE f \in RequiredFeatures  BY <1>1, <2>1
  <2>2. CASE f \in OptionalFeatures \cap Features(gpu, window)  BY <2>2 DEF Features
  <2>3. CASE f = "unifiedImageLayouts"
    BY <2>3 DEF enabled_features, QueriedFeatures, unified_image_layouts, RequiredFeatures, OptionalFeatures
  <2>4. CASE f = "swapchainMaintenance1"
    BY <1>1, <2>4 DEF enabled_features, QueriedFeatures, RequiredFeatures, OptionalFeatures
  <2>5. QED  BY <2>1, <2>2, <2>3, <2>4 DEF enabled_features
<1>3. extensions \subseteq gpu.extensions
  BY <1>1 DEF enabled_device_extensions, unified_image_layouts, Presents,
              khr_swapchain_maintenance1, ext_swapchain_maintenance1
<1>4. RequiredFeatures \subseteq features  BY DEF enabled_features, QueriedFeatures
<1>5. window => "VK_KHR_swapchain" \in extensions /\ "swapchainMaintenance1" \in features
  BY DEF enabled_device_extensions, enabled_features, QueriedFeatures
<1>6. Valid(features, extensions, surface)
  <2>1. ASSUME NEW f \in features \cap ExtensionFeatures
        PROVE  ExtensionsOf(f) \cap extensions # {}
    <3>1. required_extensions \subseteq extensions  BY DEF enabled_device_extensions
    <3>2. CASE f = "descriptorHeap"
      <4>1. "VK_EXT_descriptor_heap" \in ExtensionsOf(f)  BY <3>2 DEF ExtensionsOf
      <4>2. QED  BY <3>1, <4>1 DEF required_extensions
    <3>3. CASE f = "deviceAddressCommands"
      <4>1. "VK_KHR_device_address_commands" \in ExtensionsOf(f)  BY <3>3 DEF ExtensionsOf
      <4>2. QED  BY <3>1, <4>1 DEF required_extensions
    <3>4. CASE f = "shaderUntypedPointers"
      <4>1. "VK_KHR_shader_untyped_pointers" \in ExtensionsOf(f)  BY <3>4 DEF ExtensionsOf
      <4>2. QED  BY <3>1, <4>1 DEF required_extensions
    <3>5. CASE f = "meshShader"
      <4>1. "VK_EXT_mesh_shader" \in ExtensionsOf(f)  BY <3>5 DEF ExtensionsOf
      <4>2. QED  BY <3>1, <4>1 DEF required_extensions
    <3>6. CASE f = "unifiedImageLayouts"
      <4>1. "VK_KHR_unified_image_layouts" \in ExtensionsOf(f)  BY <3>6 DEF ExtensionsOf
      <4>2. unified_image_layouts(gpu)
        BY <3>6 DEF enabled_features, QueriedFeatures, RequiredFeatures, OptionalFeatures
      <4>3. QED  BY <4>1, <4>2 DEF enabled_device_extensions
    <3>7. CASE f = "swapchainMaintenance1"
      <4>1. {"VK_KHR_swapchain_maintenance1", "VK_EXT_swapchain_maintenance1"} \subseteq ExtensionsOf(f)
        BY <3>7 DEF ExtensionsOf
      <4>2. window
        BY <3>7 DEF enabled_features, QueriedFeatures, RequiredFeatures, OptionalFeatures
      <4>3. QED  BY <4>1, <4>2 DEF enabled_device_extensions
    <3>8. QED  BY <3>2, <3>3, <3>4, <3>5, <3>6, <3>7 DEF ExtensionFeatures
  <2>2. ASSUME "VK_KHR_swapchain_maintenance1" \in extensions
        PROVE  "VK_KHR_surface_maintenance1" \in surface
    BY <2>2 DEF enabled_device_extensions, required_extensions, khr_swapchain_maintenance1,
                enabled_instance_extensions
  <2>3. ASSUME "VK_EXT_swapchain_maintenance1" \in extensions
        PROVE  "VK_EXT_surface_maintenance1" \in surface
    <3>1. window /\ ~khr_swapchain_maintenance1(gpu, instance)
      BY <2>3 DEF enabled_device_extensions, required_extensions
    <3>2. "VK_EXT_surface_maintenance1" \in instance
      BY <1>1, <3>1 DEF Presents, ext_swapchain_maintenance1
    <3>3. QED  BY <3>1, <3>2 DEF enabled_instance_extensions
  <2>4. QED  BY <2>1, <2>2, <2>3 DEF Valid
<1>7. QED  BY <1>2, <1>3, <1>4, <1>5, <1>6

(* The invariant implies both parts of the property.                       *)
LEMMA InvariantEnables ==
  ASSUME IInv
  PROVE  EnablesOnlyWhatIsOffered
<1> SUFFICES ASSUME LogicalDevice \in exists PROVE EnablesOnlyWhatIsOffered
  BY DEF EnablesOnlyWhatIsOffered
<1> DEFINE gpu == gpus[selected]
<1>1. /\ presentation \in BOOLEAN /\ selected \in 1..Len(gpus) /\ Suitable(selected)
      /\ ExtensionsSuffice /\ gpus \in Seq(PhysicalDevice)
  BY DEF IInv, MadeFromSelected
<1>2. gpu \in PhysicalDevice /\ inspect_candidate(gpu, presentation, instance_extensions) = "none"
  BY <1>1 DEF Suitable, Inspected
<1>3. presentation => enabled_instance_extensions(instance_extensions) \subseteq instance_extensions
  BY <1>1 DEF ExtensionsSuffice, enabled_instance_extensions
<1> HIDE DEF gpu
<1>4. /\ gpu.vulkan_1_4 /\ gpu.cpu_visible
      /\ Capable(gpu.families[queue_family(gpu, presentation)])
      /\ presentation => gpu.families[queue_family(gpu, presentation)].presents = "yes"
  BY <1>1, <1>2, Accepted
<1>5. /\ enabled_features(gpu, presentation) \subseteq gpu.features
      /\ enabled_device_extensions(gpu, presentation, instance_extensions) \subseteq gpu.extensions
      /\ RequiredFeatures \subseteq enabled_features(gpu, presentation)
      /\ Valid(enabled_features(gpu, presentation),
               enabled_device_extensions(gpu, presentation, instance_extensions),
               IF presentation THEN enabled_instance_extensions(instance_extensions) ELSE {})
      /\ presentation =>
           /\ "VK_KHR_swapchain" \in enabled_device_extensions(gpu, presentation, instance_extensions)
           /\ "swapchainMaintenance1" \in enabled_features(gpu, presentation)
  BY <1>1, <1>2, EnabledIsValid
<1>6. QED  BY <1>3, <1>4, <1>5 DEF EnablesOnlyWhatIsOffered, gpu

LEMMA InvariantSelects ==
  ASSUME IInv
  PROVE  SelectsDiscreteFirst
<1> SUFFICES ASSUME step = "device" PROVE SelectsDiscreteFirst
  BY DEF SelectsDiscreteFirst
<1> DEFINE all == {k \in DOMAIN gpus : Inspected(k) = "none"}
           discrete == {k \in all : gpus[k].discrete}
<1>1. gpus \in Seq(PhysicalDevice) /\ selected # 0 /\ Best(Len(gpus))
  BY DEF IInv, Selection
<1>2. Len(gpus) \in Nat /\ DOMAIN gpus = 1..Len(gpus)  BY <1>1
<1>3. all \in SUBSET Nat /\ discrete \in SUBSET Nat  BY <1>2
<1>4. selected \in all  BY <1>1, <1>2 DEF Best, Suitable
<1>5. ASSUME NEW k \in all
      PROVE  /\ k < selected => gpus[selected].discrete /\ ~gpus[k].discrete
             /\ gpus[k].discrete => gpus[selected].discrete
  BY <1>1, <1>2 DEF Best, Suitable
<1>6. selected \in Nat  BY <1>3, <1>4
<1>7. CASE discrete # {}
  <2>1. selected \in discrete  BY <1>4, <1>5, <1>7
  <2>2. \A k \in discrete : selected <= k  BY <1>3, <1>5, <1>6
  <2> HIDE DEF discrete
  <2>3. selected = Min(discrete)  BY <1>3, <2>1, <2>2, LeastIsMin
  <2>4. QED  BY <1>7, <2>3 DEF SelectsDiscreteFirst, discrete
<1>8. CASE discrete = {}
  <2>1. \A k \in all : selected <= k
    <3> SUFFICES ASSUME NEW k \in all, k < selected PROVE FALSE  BY <1>3, <1>6
    <3>1. gpus[selected].discrete  BY <1>5
    <3>2. QED  BY <1>4, <1>8, <3>1
  <2> HIDE DEF all
  <2>2. selected = Min(all)  BY <1>3, <1>4, <2>1, LeastIsMin
  <2>3. QED  BY <1>8, <2>2 DEF SelectsDiscreteFirst, all
<1>9. QED  BY <1>7, <1>8

-----------------------------------------------------------------------------
LEMMA InitIInv ==
  ASSUME Init
  PROVE  IInv
<1>1. gpus \in Seq(PhysicalDevice)  BY InstallationsAssumption DEF Init
<1>2. QED  BY <1>1 DEF Init, IInv, Selection, MadeFromSelected, Early

(* What only goes on after the selection, or ends the creation.            *)
Later ==
  /\ UNCHANGED <<platform, selected>>
  /\ step' \notin Early \cup {"inspect", "device"}
  /\ LogicalDevice \in exists' => LogicalDevice \in exists

LEMMA LaterIInv ==
  ASSUME IInv, Later
  PROVE  IInv'
<1>1. ~(step' \in Early) /\ step' # "inspect" /\ step' # "device"
      /\ step' \notin {"instance", "messenger", "surface", "inspect", "device"}
  BY DEF Later, Early
<1>2. Selection'  BY <1>1 DEF Selection
<1>3. UNCHANGED <<gpus, presentation, instance_extensions, selected>>  BY DEF Later, platform
<1>4. ASSUME LogicalDevice \in exists'
      PROVE  /\ step' \notin Early \cup {"inspect"}
             /\ selected' \in 1..Len(gpus') /\ Suitable(selected)' /\ ExtensionsSuffice'
  <2>1. selected \in 1..Len(gpus) /\ Suitable(selected) /\ ExtensionsSuffice
    BY <1>4 DEF Later, IInv, MadeFromSelected
  <2>2. QED  BY <1>1, <1>3, <2>1 DEF Suitable, Inspected, ExtensionsSuffice
<1>5. MadeFromSelected'  BY <1>1, <1>4 DEF MadeFromSelected, LogicalDevice
<1>6. QED  BY <1>2, <1>3, <1>5 DEF IInv

(* A step of create_device before the physical devices are looked at.      *)
LEMMA EarlyIInv ==
  ASSUME IInv, step \in Early, UNCHANGED <<platform, selected>>,
         step' \in Early \cup {"inspect"},
         step' = "inspect" => index' = 0,
         step' \in {"instance", "messenger", "surface", "inspect"} => ExtensionsSuffice,
         LogicalDevice \in exists' => LogicalDevice \in exists
  PROVE  IInv'
<1>1. UNCHANGED <<gpus, presentation, instance_extensions, selected>>  BY DEF platform
<1>2. selected = 0 /\ LogicalDevice \notin exists' /\ step' # "device"
  BY DEF IInv, Selection, MadeFromSelected, Early
<1>3. step' = "inspect" => Searching'
  <2> SUFFICES ASSUME step' = "inspect" PROVE Searching'  OBVIOUS
  <2>1. index' = 0 /\ selected' = 0 /\ Len(gpus') \in Nat  BY <1>1, <1>2 DEF IInv
  <2>2. Best(index)'  BY <2>1 DEF Best
  <2>3. QED  BY <2>1, <2>2 DEF Searching
<1>4. Selection'  BY <1>1, <1>2, <1>3 DEF Selection
<1>5. ExtensionsSuffice' <=> ExtensionsSuffice  BY <1>1 DEF ExtensionsSuffice
<1>6. MadeFromSelected'  BY <1>2, <1>5 DEF MadeFromSelected, LogicalDevice
<1>7. QED  BY <1>1, <1>4, <1>6 DEF IInv

(* One more physical device is seen.                                       *)
LEMMA InspectCandidateIInv ==
  ASSUME IInv, InspectCandidate
  PROVE  IInv'
<1> DEFINE k == index + 1
           gpu == gpus[k]
<1>1. /\ UNCHANGED <<gpus, presentation, instance_extensions, exists, step>>
      /\ step = "inspect" /\ index < Len(gpus)
      /\ selected' = IF Suitable(k) /\ Preferred(gpu) THEN k ELSE selected
      /\ index' = IF Suitable(k) /\ gpu.discrete THEN Len(gpus) ELSE k
  BY DEF InspectCandidate, Suitable, NothingCreated, Kept, platform
<1>2. /\ gpus \in Seq(PhysicalDevice) /\ Len(gpus) \in Nat /\ index \in Nat
      /\ selected \in 0..index /\ Best(index)
      /\ selected # 0 => ~gpus[selected].discrete
  BY <1>1 DEF IInv, Selection, Searching, Best
<1>3. k \in 1..Len(gpus) /\ index' \in 0..Len(gpus) /\ k <= index'  BY <1>1, <1>2
<1> HIDE DEF k
<1>4. Best(index)'
  <2>1. selected' \in 0..index'  BY <1>1, <1>2, <1>3 DEF k
  <2>2. selected' # 0 => Suitable(selected)'
    <3>1. CASE selected' = k /\ Suitable(k)  BY <1>1, <3>1 DEF Suitable, Inspected
    <3>2. CASE selected' = selected
      <4>1. selected' # 0 => Suitable(selected)  BY <1>2, <3>2 DEF Best
      <4>2. QED  BY <1>1, <3>2, <4>1 DEF Suitable, Inspected
    <3>3. QED  BY <1>1, <3>1, <3>2
  <2>3. ASSUME NEW j \in 1..index', Suitable(j)
        PROVE  /\ selected' # 0
               /\ j < selected' => gpus[selected'].discrete /\ ~gpus[j].discrete
               /\ gpus[j].discrete => gpus[selected'].discrete
    <3>1. j \in 1..index => /\ selected # 0
                            /\ j < selected => gpus[selected].discrete /\ ~gpus[j].discrete
                            /\ gpus[j].discrete => gpus[selected].discrete
      BY <1>2, <2>3 DEF Best
    <3>2. j \in Nat /\ j # 0 /\ (j \in 1..index \/ j = k \/ j > k)  BY <1>2, <1>3, <2>3 DEF k
    <3>3. CASE selected' = k /\ Suitable(k) /\ Preferred(gpu)
      <4>1. j > k => gpus[k].discrete  BY <1>1, <1>2, <1>3, <2>3, <3>3
      <4>2. selected = 0 \/ gpus[k].discrete  BY <3>3 DEF Preferred
      <4>3. k # 0 /\ k \in Nat  BY <1>3
      <4>4. CASE j \in 1..index  BY <1>2, <3>1, <3>3, <4>2, <4>3, <4>4
      <4>5. CASE j = k  BY <3>3, <4>3, <4>5
      <4>6. CASE j > k  BY <3>2, <3>3, <4>1, <4>3, <4>6
      <4>7. QED  BY <3>2, <4>4, <4>5, <4>6
    <3>4. CASE selected' = selected /\ ~(Suitable(k) /\ Preferred(gpu))
      <4>1. index' = k
        <5>1. ~(Suitable(k) /\ gpu.discrete)  BY <3>4 DEF Preferred
        <5>2. QED  BY <1>1, <5>1
      <4>2. CASE j \in 1..index  BY <3>1, <3>4, <4>2
      <4>3. CASE j = k  
        <5>1. selected # 0 /\ ~gpus[k].discrete  BY <2>3, <3>4, <4>3 DEF Preferred
        <5>2. selected < k  BY <1>2 DEF k
        <5>3. QED  BY <1>2, <1>3, <3>4, <4>3, <5>1, <5>2
      <4>4. ~(j > k)  BY <1>3, <2>3, <4>1
      <4>5. QED  BY <3>2, <4>2, <4>3, <4>4
    <3>5. QED  BY <1>1, <3>3, <3>4
  <2>4. \A j \in 1..index' : Suitable(j)' <=> Suitable(j)  BY <1>1 DEF Suitable, Inspected
  <2>5. QED  BY <1>1, <2>1, <2>2, <2>3, <2>4 DEF Best
<1>5. selected' # 0 /\ gpus'[selected'].discrete => index' = Len(gpus')
  BY <1>1, <1>2
<1>6. Searching'  BY <1>1, <1>3, <1>4, <1>5 DEF Searching
<1>7. Selection'  BY <1>1, <1>6 DEF Selection, Early
<1>8. ExtensionsSuffice' /\ LogicalDevice \notin exists'
  BY <1>1 DEF IInv, MadeFromSelected, ExtensionsSuffice, LogicalDevice
<1>9. MadeFromSelected'  BY <1>8 DEF MadeFromSelected, LogicalDevice
<1>10. QED  BY <1>1, <1>7, <1>9 DEF IInv

LEMMA InspectionEndsIInv ==
  ASSUME IInv, InspectionEnds
  PROVE  IInv'
<1>1. CASE selected = 0
  <2>1. Later  BY <1>1 DEF InspectionEnds, Fail, Later, Early, NothingCreated, Kept
  <2>2. QED  BY <2>1, LaterIInv
<1>2. CASE selected # 0
  <2>1. /\ step = "inspect" /\ step' = "device" /\ index = Len(gpus)
        /\ UNCHANGED <<gpus, presentation, instance_extensions, exists, selected>>
    BY <1>2 DEF InspectionEnds, Continue, NothingCreated, Kept, platform
  <2>2. Best(Len(gpus)) /\ ExtensionsSuffice /\ LogicalDevice \notin exists
    BY <2>1 DEF IInv, Selection, Searching, MadeFromSelected
  <2>3. Best(Len(gpus))'  BY <2>1, <2>2 DEF Best, Suitable, Inspected
  <2>4. Selection'  BY <1>2, <2>1, <2>3 DEF Selection, Early
  <2>5. MadeFromSelected'
    BY <2>1, <2>2 DEF MadeFromSelected, ExtensionsSuffice, LogicalDevice
  <2>6. QED  BY <2>1, <2>4, <2>5 DEF IInv
<1>3. QED  BY <1>1, <1>2

LEMMA CreateLogicalDeviceIInv ==
  ASSUME IInv, CreateLogicalDevice
  PROVE  IInv'
<1>1. /\ step = "device" /\ step' = "memory"
      /\ UNCHANGED <<gpus, presentation, instance_extensions, selected>>
  BY DEF CreateLogicalDevice, Continue, Kept, platform
<1>2. gpus \in Seq(PhysicalDevice) /\ selected # 0 /\ Best(Len(gpus)) /\ ExtensionsSuffice
  BY <1>1 DEF IInv, Selection, MadeFromSelected
<1>3. selected \in 1..Len(gpus) /\ Suitable(selected)  BY <1>2 DEF Best
<1>4. selected' \in 1..Len(gpus') /\ Suitable(selected)' /\ ExtensionsSuffice'
  BY <1>1, <1>2, <1>3 DEF Suitable, Inspected, ExtensionsSuffice
<1>5. MadeFromSelected' /\ Selection'
  BY <1>1, <1>4 DEF MadeFromSelected, Selection, Early
<1>6. QED  BY <1>1, <1>5 DEF IInv

-----------------------------------------------------------------------------
(* No step but CreateLogicalDevice makes the logical device.               *)
LEMMA OtherObjects ==
  /\ LogicalDevice \notin {Instance, Messenger, Surface, Retirement, Swapchain}
  /\ \A k : LogicalDevice # Pool(k)
  /\ \A c : LogicalDevice \notin ToSet(PresentObjects(c))
  /\ \A n \in Nat : LogicalDevice \notin ToSet(Views(n))
<1>1. ASSUME NEW c  PROVE LogicalDevice \notin ToSet(PresentObjects(c))
  <2>1. DOMAIN PresentObjects(c) = 1..3  BY DEF PresentObjects
  <2>2. \A k \in 1..3 : PresentObjects(c)[k] # LogicalDevice
    BY DEF PresentObjects, LogicalDevice, Object
  <2>3. QED  BY <2>1, <2>2 DEF ToSet
<1>2. ASSUME NEW n \in Nat  PROVE LogicalDevice \notin ToSet(Views(n))
  BY DEF ToSet, Views, Object, LogicalDevice
<1>3. QED
  BY <1>1, <1>2 DEF Object, Instance, Messenger, Surface, Retirement, Swapchain, Pool, LogicalDevice

LEMMA EarlySteps ==
  ASSUME IInv, \/ LoaderSuffices \/ CheckExtensions \/ CreateInstance \/ CreateMessenger \/ CreateSurface
  PROVE  IInv'
<1>1. CASE LoaderSuffices
  <2>1. step = "loader" /\ step' = "extensions" /\ UNCHANGED <<platform, selected, exists>>
    BY <1>1 DEF LoaderSuffices, Continue, NothingCreated, Kept
  <2>2. QED  BY <2>1, EarlyIInv DEF Early
<1>2. CASE CheckExtensions
  <2>1. step = "extensions" /\ UNCHANGED <<platform, selected, exists>>
    BY <1>2 DEF CheckExtensions, Continue, Fail, NothingCreated, Kept
  <2>2. CASE ExtensionsSuffice
    <3>1. step' = "instance"  BY <1>2, <2>2 DEF CheckExtensions, Continue
    <3>2. QED  BY <2>1, <2>2, <3>1, EarlyIInv DEF Early
  <2>3. CASE ~ExtensionsSuffice
    <3>1. step' = "drain"  BY <1>2, <2>3 DEF CheckExtensions, Fail
    <3>2. Later  BY <2>1, <3>1 DEF Later, Early
    <3>3. QED  BY <3>2, LaterIInv
  <2>4. QED  BY <2>2, <2>3
<1>3. CASE CreateInstance
  <2>1. /\ step = "instance" /\ step' \in {"messenger", "surface"} /\ UNCHANGED <<platform, selected>>
        /\ exists' = exists \cup {Instance}
    BY <1>3 DEF CreateInstance, Continue, Created, Kept
  <2>2. ExtensionsSuffice  BY <2>1 DEF IInv, MadeFromSelected
  <2>3. LogicalDevice \in exists' => LogicalDevice \in exists  BY <2>1, OtherObjects
  <2>4. QED  BY <2>1, <2>2, <2>3, EarlyIInv DEF Early
<1>4. CASE CreateMessenger
  <2>1. /\ step = "messenger" /\ step' = "surface" /\ UNCHANGED <<platform, selected>>
        /\ exists' = exists \cup {Messenger}
    BY <1>4 DEF CreateMessenger, Continue, Created, Kept
  <2>2. ExtensionsSuffice  BY <2>1 DEF IInv, MadeFromSelected
  <2>3. LogicalDevice \in exists' => LogicalDevice \in exists  BY <2>1, OtherObjects
  <2>4. QED  BY <2>1, <2>2, <2>3, EarlyIInv DEF Early
<1>5. CASE CreateSurface
  <2>1. /\ step = "surface" /\ step' = "inspect" /\ index' = 0 /\ UNCHANGED <<platform, selected>>
        /\ exists' = exists \cup (IF presentation THEN {Surface} ELSE {})
    BY <1>5 DEF CreateSurface, Continue, Created, Kept
  <2>2. ExtensionsSuffice  BY <2>1 DEF IInv, MadeFromSelected
  <2>3. LogicalDevice \in exists' => LogicalDevice \in exists  BY <2>1, OtherObjects
  <2>4. QED  BY <2>1, <2>2, <2>3, EarlyIInv DEF Early
<1>6. QED  BY <1>1, <1>2, <1>3, <1>4, <1>5

LEMMA LaterSteps ==
  ASSUME IInv,
         \/ SelectMemory \/ LoadFunctions \/ CreateRetirement \/ GrowContexts \/ ContextsCreated
         \/ CreatePresentContext \/ PresentContextsCreated
         \/ \E count \in 0..MaxImages : CreateSwapchain(count)
  PROVE  Later
<1>1. CASE SelectMemory \/ LoadFunctions \/ ContextsCreated \/ PresentContextsCreated
  BY <1>1 DEF SelectMemory, LoadFunctions, ContextsCreated, PresentContextsCreated, Continue,
              NothingCreated, Kept, Later, Early
<1>2. CASE CreateRetirement
  <2>1. /\ step' = "contexts" /\ UNCHANGED <<platform, selected>>
        /\ exists' = exists \cup {Retirement}
    BY <1>2 DEF CreateRetirement, Continue, Created, Kept
  <2>2. QED  BY <2>1, OtherObjects DEF Later, Early
<1>3. CASE GrowContexts
  <2>1. /\ step' = "contexts" /\ UNCHANGED <<platform, selected>>
        /\ exists' = exists \cup {Pool(Len(contexts) + 1)}
    BY <1>3 DEF GrowContexts, Created
  <2>2. QED  BY <2>1, OtherObjects DEF Later, Early
<1>4. CASE CreatePresentContext
  <2>1. /\ step' = "present contexts" /\ UNCHANGED <<platform, selected>>
        /\ exists' = exists \cup ToSet(PresentObjects(index))
    BY <1>4 DEF CreatePresentContext, Created, Kept
  <2>2. QED  BY <2>1, OtherObjects DEF Later, Early
<1>5. CASE \E count \in 0..MaxImages : CreateSwapchain(count)
  <2>1. PICK count \in 0..MaxImages : CreateSwapchain(count)  BY <1>5
  <2>2. /\ step' = "returned" /\ UNCHANGED <<platform, selected>>
        /\ exists' = exists \cup (IF count = 0 THEN {} ELSE {Swapchain} \cup ToSet(Views(count)))
    BY <2>1 DEF CreateSwapchain, Continue, Created
  <2>3. count \in Nat  OBVIOUS
  <2>4. QED  BY <2>2, <2>3, OtherObjects DEF Later, Early
<1>6. QED  BY <1>1, <1>2, <1>3, <1>4, <1>5

LEMMA FailingSteps ==
  ASSUME IInv, CreationFails
  PROVE  Later
<1>1. PICK e \in Errors :
        \/ LoaderFails(e) \/ StepFails(e)
        \/ \E pool \in BOOLEAN : GrowContextsFails(e, pool)
        \/ \E made \in 0..2 : CreatePresentContextFails(e, made)
        \/ CreateSwapchainFails(e, FALSE, 0)
        \/ \E made \in 0..(MaxImages - 1) : CreateSwapchainFails(e, TRUE, made)
  BY DEF CreationFails
<1>2. CASE LoaderFails(e)
  BY <1>2 DEF LoaderFails, NothingCreated, Kept, Later, Early
<1>3. CASE StepFails(e)
  <2>1. step' = "drain" /\ UNCHANGED <<platform, selected, exists>>
    BY <1>3 DEF StepFails, Fail, NothingCreated, Kept
  <2>2. QED  BY <2>1 DEF Later, Early
<1>4. CASE \E pool \in BOOLEAN : GrowContextsFails(e, pool)
  <2>1. step' = "drain" /\ UNCHANGED <<platform, selected>> /\ exists' \subseteq exists
    BY <1>4 DEF GrowContextsFails, Fail
  <2>2. QED  BY <2>1 DEF Later, Early
<1>5. CASE \E made \in 0..2 : CreatePresentContextFails(e, made)
  <2>1. step' = "drain" /\ UNCHANGED <<platform, selected, exists>>
    BY <1>5 DEF CreatePresentContextFails, Fail, Kept
  <2>2. QED  BY <2>1 DEF Later, Early
<1>6. ASSUME NEW created \in BOOLEAN, NEW made \in Nat, CreateSwapchainFails(e, created, made)
      PROVE  Later
  <2>1. /\ step' = "drain" /\ UNCHANGED <<platform, selected>>
        /\ exists' \subseteq exists \cup ToSet(Views(made))
    BY <1>6 DEF CreateSwapchainFails, Fail
  <2>2. QED  BY <2>1, OtherObjects DEF Later, Early
<1>7. \A made \in 0..(MaxImages - 1) : made \in Nat  OBVIOUS
<1>8. QED  BY <1>1, <1>2, <1>3, <1>4, <1>5, <1>6, <1>7

LEMMA OtherSteps ==
  ASSUME IInv, InspectionFails \/ UseDevice \/ DeleteDevice
  PROVE  Later
<1>1. CASE InspectionFails
  BY <1>1 DEF InspectionFails, Fail, NothingCreated, Kept, Later, Early
<1>2. CASE GrowPool
  <2>1. /\ step' = "returned" /\ UNCHANGED <<platform, selected>>
        /\ exists' = exists \cup {Pool(Len(contexts) + 1)}
    BY <1>2 DEF GrowPool, UsesDevice, Created
  <2>2. QED  BY <2>1, OtherObjects DEF Later, Early
<1>3. CASE Submit
  BY <1>3 DEF Submit, UsesDevice, NothingCreated, Later, Early
<1>4. CASE destroy_device
  BY <1>4 DEF destroy_device, NothingCreated, Later, Early
<1>5. CASE DeleteDevice
  <2>1. /\ step' \in {"owned swapchain", "command contexts", "destroy present contexts", "destroy device",
                     "destroy surface", "destroy messenger", "destroy instance", "gone"}
        /\ UNCHANGED <<platform, selected>> /\ exists' \subseteq exists
    BY <1>5 DEF DeleteDevice, DrainContexts, DestroyOwnedSwapchain, DestroyCommandContexts,
                DestroyPresentContext, PresentContextsDestroyed, DestroyLogicalDevice, DestroySurface,
                DestroyMessenger, DestroyInstance, Destroy, Destroyed, AfterDevice
  <2>2. QED  BY <2>1 DEF Later, Early
<1>6. QED  BY <1>1, <1>2, <1>3, <1>4, <1>5 DEF UseDevice

LEMMA NextIInv ==
  ASSUME IInv, [Next]_vars
  PROVE  IInv'
<1>1. CASE \/ LoaderSuffices \/ CheckExtensions \/ CreateInstance \/ CreateMessenger \/ CreateSurface
  BY <1>1, EarlySteps
<1>2. CASE InspectCandidate  BY <1>2, InspectCandidateIInv
<1>3. CASE InspectionEnds  BY <1>3, InspectionEndsIInv
<1>4. CASE CreateLogicalDevice  BY <1>4, CreateLogicalDeviceIInv
<1>5. CASE \/ SelectMemory \/ LoadFunctions \/ CreateRetirement \/ GrowContexts \/ ContextsCreated
           \/ CreatePresentContext \/ PresentContextsCreated
           \/ \E count \in 0..MaxImages : CreateSwapchain(count)
  <2>1. Later  BY <1>5, LaterSteps
  <2>2. QED  BY <2>1, LaterIInv
<1>6. CASE CreationFails  BY <1>6, FailingSteps, LaterIInv
<1>7. CASE InspectionFails \/ UseDevice \/ DeleteDevice  BY <1>7, OtherSteps, LaterIInv
<1>8. CASE UNCHANGED vars
  <2>1. UNCHANGED <<presentation, instance_extensions, gpus, exists, step, index, selected>>
    BY <1>8 DEF vars, platform
  <2>2. QED
    BY <2>1 DEF IInv, Selection, Searching, Best, MadeFromSelected, Suitable, Inspected, ExtensionsSuffice,
                LogicalDevice
<1>9. QED
  BY <1>1, <1>2, <1>3, <1>4, <1>5, <1>6, <1>7, <1>8 DEF Next, CreateDevice, Finished

(* Whatever is installed, the device selected is the first discrete one    *)
(* that is suitable, or the first suitable one, and what is enabled on it  *)
(* is offered by it and complete (inspect_candidate, create_device): the   *)
(* first parts of ReturnsDeviceOrNothing.                                  *)
THEOREM SelectsAndEnables == Spec => [](SelectsDiscreteFirst /\ EnablesOnlyWhatIsOffered)
<1>1. Init => IInv  BY InitIInv
<1>2. IInv /\ [Next]_vars => IInv'  BY NextIInv
<1>3. IInv => SelectsDiscreteFirst /\ EnablesOnlyWhatIsOffered
  BY InvariantSelects, InvariantEnables
<1>4. QED  BY <1>1, <1>2, <1>3, PTL DEF Spec

-----------------------------------------------------------------------------
(* Which object is which *)

Singles == {Instance, Messenger, Surface, LogicalDevice, Retirement, Swapchain}
Pools(m) == {Pool(k) : k \in 1..m}
Images(n) == {Object("view", k) : k \in 1..n}
Signals(P) == {Object(kind, c) : kind \in {"acquired", "rendered", "presented"}, c \in P}
Fences(P) == {Object("presented", c) : c \in P}
Objects(S, m, P, n) == S \cup Pools(m) \cup Signals(P) \cup Images(n)

LEMMA SinglesAmong ==
  ASSUME NEW S \in SUBSET Singles, NEW m \in Nat, NEW P, NEW n \in Nat
  PROVE  \A s \in Singles : s \in Objects(S, m, P, n) <=> s \in S
BY DEF Object, Objects, Pools, Pool, Signals, Images, Singles, Instance, Messenger, Surface, LogicalDevice,
       Retirement, Swapchain

LEMMA KindsAmong ==
  ASSUME NEW S \in SUBSET Singles, NEW m \in Nat, NEW P, NEW n \in Nat
  PROVE  /\ OfKind(Objects(S, m, P, n), "view") = Images(n)
         /\ OfKind(Objects(S, m, P, n), "command_pool") = Pools(m)
<1>1. /\ \A o \in S \cup Signals(P) : o[1] # "view" /\ o[1] # "command_pool"
      /\ \A o \in Pools(m) : o[1] = "command_pool"
      /\ \A o \in Images(n) : o[1] = "view"
  BY DEF Object, Pools, Pool, Signals, Images, Singles, Instance, Messenger, Surface, LogicalDevice,
         Retirement, Swapchain
<1>2. QED  BY <1>1 DEF OfKind, Objects

LEMMA PresentedAmong ==
  ASSUME NEW S \in SUBSET Singles, NEW m \in Nat, NEW P, NEW n \in Nat
  PROVE  OfKind(Objects(S, m, P, n), "presented") = Fences(P)
<1>1. \A o \in S \cup Pools(m) \cup Images(n) : o[1] # "presented"
  BY DEF Object, Pools, Pool, Images, Singles, Instance, Messenger, Surface, LogicalDevice, Retirement,
       Swapchain
<1>2. OfKind(Objects(S, m, P, n), "presented") = OfKind(Signals(P), "presented")
  BY <1>1 DEF OfKind, Objects
<1>3. OfKind(Signals(P), "presented") = Fences(P)  BY DEF OfKind, Signals, Fences, Object
<1>4. QED  BY <1>2, <1>3

LEMMA SwapchainAmong ==
  ASSUME NEW S \in SUBSET Singles, NEW m \in Nat, NEW P, NEW n \in Nat
  PROVE  OfKind(Objects(S, m, P, n), "swapchain") = S \cap {Swapchain}
<1>1. /\ \A o \in Pools(m) \cup Signals(P) \cup Images(n) : o[1] # "swapchain"
      /\ \A o \in S : o[1] = "swapchain" <=> o = Swapchain
  BY DEF Object, Pools, Pool, Signals, Images, Singles, Instance, Messenger, Surface, LogicalDevice,
         Retirement, Swapchain
<1>2. QED  BY <1>1 DEF OfKind, Objects

LEMMA Growing ==
  /\ \A m \in Nat : Pools(m + 1) = Pools(m) \cup {Pool(m + 1)}
  /\ \A P : \A c : Signals(P \cup {c}) = Signals(P) \cup Signals({c})
  /\ Pools(0) = {} /\ Images(0) = {} /\ Signals({}) = {}
<1>1. ASSUME NEW m \in Nat  PROVE Pools(m + 1) = Pools(m) \cup {Pool(m + 1)}
  <2>1. 1..(m + 1) = (1..m) \cup {m + 1}  OBVIOUS
  <2>2. QED  BY <2>1 DEF Pools
<1>2. \A P : \A c : Signals(P \cup {c}) = Signals(P) \cup Signals({c})  BY DEF Signals
<1>3. Pools(0) = {} /\ Images(0) = {} /\ Signals({}) = {}  BY DEF Pools, Images, Signals
<1>4. QED  BY <1>1, <1>2, <1>3

LEMMA Apart ==
  ASSUME NEW m \in Nat, NEW P, NEW n \in Nat
  PROVE  /\ \A o \in Singles : o \notin Pools(m) /\ o \notin Signals(P) /\ o \notin Images(n)
         /\ \A o \in Pools(m) : o \notin Singles /\ o \notin Signals(P) /\ o \notin Images(n)
         /\ \A o \in Signals(P) : o \notin Singles /\ o \notin Pools(m) /\ o \notin Images(n)
         /\ \A o \in Images(n) : o \notin Singles /\ o \notin Pools(m) /\ o \notin Signals(P)
BY DEF Object, Pools, Pool, Signals, Images, Singles, Instance, Messenger, Surface, LogicalDevice,
     Retirement, Swapchain

LEMMA SignalsWithout ==
  ASSUME NEW P, NEW c, NEW Q, Q = P \ {c}
  PROVE  Signals(Q) = Signals(P) \ Signals({c})
<1> USE DEF Object
<1>1. \A o \in Signals(P) : o[2] \in P /\ o = <<o[1], o[2]>> /\ o[1] \in {"acquired", "rendered", "presented"}
  BY DEF Signals
<1>2. \A o \in Signals({c}) : o[2] = c  BY DEF Signals
<1>3. \A o \in Signals(P) : o[2] = c => o \in Signals({c})  BY <1>1 DEF Signals
<1>4. \A o \in Signals(P) : o[2] # c => o \in Signals(Q)  BY <1>1 DEF Signals
<1>5. \A o \in Signals(Q) : o \in Signals(P) /\ o[2] # c  BY DEF Signals
<1>6. QED  BY <1>2, <1>3, <1>4, <1>5

(* As many of a kind as there are numbers.                                 *)
LEMMA Counted ==
  ASSUME NEW kind, NEW a \in Int, NEW b \in Int
  PROVE  Cardinality({Object(kind, k) : k \in a..b}) = (IF a > b THEN 0 ELSE b - a + 1)
<1> DEFINE all == {Object(kind, k) : k \in a..b}
           f == [k \in a..b |-> Object(kind, k)]
<1>1. IsFiniteSet(a..b) /\ Cardinality(a..b) = (IF a > b THEN 0 ELSE b - a + 1)  BY FS_Interval
<1>2. f \in [a..b -> all]  OBVIOUS
<1>3. \A x, y \in a..b : f[x] = f[y] => x = y  BY DEF Object
<1>4. \A o \in all : \E x \in a..b : f[x] = o  OBVIOUS
<1> HIDE DEF f, all
<1>5. f \in Bijection(a..b, all)
  BY <1>2, <1>3, <1>4 DEF Bijection, Injection, Surjection, IsInjective
<1>6. ExistsBijection(a..b, all)  BY <1>5 DEF ExistsBijection
<1>7. Cardinality(all) = Cardinality(a..b)  BY <1>1, <1>6, FS_Bijection
<1>8. QED  BY <1>1, <1>7 DEF all

(* The objects named by a sequence.                                        *)
LEMMA NamedBy ==
  /\ ToSet(<<>>) = {}
  /\ \A o : ToSet(<<o>>) = {o}
  /\ \A n \in Nat : ToSet(Views(n)) = Images(n)
  /\ \A m \in Nat : ToSet([k \in 1..m |-> Pool(k)]) = Pools(m)
  /\ \A c : ToSet(PresentObjects(c)) = Signals({c})
<1>1. ToSet(<<>>) = {} /\ \A o : ToSet(<<o>>) = {o}  BY DEF ToSet
<1>2. \A n \in Nat : ToSet(Views(n)) = Images(n)  BY DEF ToSet, Views, Images
<1>3. \A m \in Nat : ToSet([k \in 1..m |-> Pool(k)]) = Pools(m)  BY DEF ToSet, Pools
<1>4. ASSUME NEW c  PROVE ToSet(PresentObjects(c)) = Signals({c})
  <2>1. DOMAIN PresentObjects(c) = {1, 2, 3}  BY DEF PresentObjects
  <2>2. /\ PresentObjects(c)[1] = Object("acquired", c) /\ PresentObjects(c)[2] = Object("rendered", c)
        /\ PresentObjects(c)[3] = Object("presented", c)
    BY DEF PresentObjects
  <2>3. ToSet(PresentObjects(c)) = {Object("acquired", c), Object("rendered", c), Object("presented", c)}
    BY <2>1, <2>2 DEF ToSet
  <2>4. QED  BY <2>3 DEF Signals
<1>5. QED  BY <1>1, <1>2, <1>3, <1>4

LEMMA NamedByBoth ==
  ASSUME NEW T, NEW s \in Seq(T), NEW t \in Seq(T)
  PROVE  ToSet(s \o t) = ToSet(s) \cup ToSet(t)
<1>1. /\ s \o t \in Seq(T) /\ Len(s \o t) = Len(s) + Len(t)
      /\ \A i \in 1..(Len(s) + Len(t)) : (s \o t)[i] = IF i <= Len(s) THEN s[i] ELSE t[i - Len(s)]
      /\ Len(s) \in Nat /\ Len(t) \in Nat
      /\ DOMAIN s = 1..Len(s) /\ DOMAIN t = 1..Len(t) /\ DOMAIN (s \o t) = 1..(Len(s) + Len(t))
  OBVIOUS
<1>2. ASSUME NEW x \in ToSet(s \o t)  PROVE x \in ToSet(s) \cup ToSet(t)
  <2>1. PICK i \in 1..(Len(s) + Len(t)) : x = (s \o t)[i]  BY <1>1 DEF ToSet
  <2>2. CASE i <= Len(s)
    <3>1. i \in DOMAIN s /\ x = s[i]  BY <1>1, <2>1, <2>2
    <3>2. QED  BY <3>1 DEF ToSet
  <2>3. CASE ~(i <= Len(s))
    <3>1. i - Len(s) \in DOMAIN t /\ x = t[i - Len(s)]  BY <1>1, <2>1, <2>3
    <3>2. QED  BY <3>1 DEF ToSet
  <2>4. QED  BY <2>2, <2>3
<1>3. ASSUME NEW x \in ToSet(s)  PROVE x \in ToSet(s \o t)
  <2>1. PICK i \in DOMAIN s : x = s[i]  BY <1>3 DEF ToSet
  <2>2. i \in DOMAIN (s \o t) /\ x = (s \o t)[i]  BY <1>1, <2>1
  <2>3. QED  BY <2>2 DEF ToSet
<1>4. ASSUME NEW x \in ToSet(t)  PROVE x \in ToSet(s \o t)
  <2>1. PICK i \in DOMAIN t : x = t[i]  BY <1>4 DEF ToSet
  <2> DEFINE j == i + Len(s)
  <2>2. j \in DOMAIN (s \o t) /\ ~(j <= Len(s)) /\ j - Len(s) = i  BY <1>1, <2>1
  <2>3. x = (s \o t)[j]  BY <1>1, <2>1, <2>2
  <2>4. QED  BY <2>2, <2>3 DEF ToSet
<1>5. QED  BY <1>2, <1>3, <1>4

(* A sequence that names nothing twice.                                    *)
Once(s) == \A j, k \in DOMAIN s : s[j] = s[k] => j = k

LEMMA OnceBoth ==
  ASSUME NEW T, NEW s \in Seq(T), NEW t \in Seq(T), Once(s), Once(t), ToSet(s) \cap ToSet(t) = {}
  PROVE  Once(s \o t)
<1>1. /\ \A i \in 1..(Len(s) + Len(t)) : (s \o t)[i] = IF i <= Len(s) THEN s[i] ELSE t[i - Len(s)]
      /\ Len(s) \in Nat /\ Len(t) \in Nat
      /\ DOMAIN s = 1..Len(s) /\ DOMAIN t = 1..Len(t) /\ DOMAIN (s \o t) = 1..(Len(s) + Len(t))
  OBVIOUS
<1>2. \A i \in DOMAIN s, j \in DOMAIN t : s[i] # t[j]  BY DEF ToSet
<1>3. SUFFICES ASSUME NEW j \in DOMAIN (s \o t), NEW k \in DOMAIN (s \o t), (s \o t)[j] = (s \o t)[k]
               PROVE  j = k
  BY DEF Once
<1>4. j \in Nat /\ k \in Nat  BY <1>1
<1>5. CASE j <= Len(s) /\ k <= Len(s)
  <2>1. j \in DOMAIN s /\ k \in DOMAIN s /\ s[j] = s[k]  BY <1>1, <1>3, <1>5
  <2>2. QED  BY <2>1 DEF Once
<1>6. CASE ~(j <= Len(s)) /\ ~(k <= Len(s))
  <2>1. j - Len(s) \in DOMAIN t /\ k - Len(s) \in DOMAIN t /\ t[j - Len(s)] = t[k - Len(s)]  BY <1>1, <1>3, <1>6
  <2>2. j - Len(s) = k - Len(s)  BY <2>1 DEF Once
  <2>3. QED  BY <1>1, <1>4, <2>2
<1>7. CASE j <= Len(s) /\ ~(k <= Len(s))
  <2>1. j \in DOMAIN s /\ k - Len(s) \in DOMAIN t /\ s[j] = t[k - Len(s)]  BY <1>1, <1>3, <1>7
  <2>2. QED  BY <1>2, <2>1
<1>8. CASE ~(j <= Len(s)) /\ k <= Len(s)
  <2>1. k \in DOMAIN s /\ j - Len(s) \in DOMAIN t /\ s[k] = t[j - Len(s)]  BY <1>1, <1>3, <1>8
  <2>2. QED  BY <1>2, <2>1
<1>9. QED  BY <1>5, <1>6, <1>7, <1>8

-----------------------------------------------------------------------------
(* What exists at each step *)

Offscreen == {Instance} \cup (IF debug_utils THEN {Messenger} ELSE {})
Platform == Offscreen \cup (IF presentation THEN {Surface} ELSE {})
OnDevice == Platform \cup {LogicalDevice}
WithContexts == OnDevice \cup {Retirement}

FromDevice(S, m, P, n) ==
  /\ S \subseteq WithContexts \cup {Swapchain}
  /\ LogicalDevice \in S => Instance \in S
  /\ Retirement \in S \/ P # {} \/ swapchain => LogicalDevice \in S
  /\ m # 0 => Retirement \in S
  /\ Swapchain \in S => swapchain
  /\ n # 0 => Swapchain \in S

Creating(S, m, P, n) ==
  /\ step \in {"loader", "extensions", "instance"} => S = {}
  /\ step = "messenger" => S = {Instance} /\ debug_utils
  /\ step = "surface" => S = Offscreen
  /\ step \in {"inspect", "device"} => S = Platform
  /\ step \in {"memory", "functions", "retirement"} => S = OnDevice
  /\ step \in {"contexts", "present contexts", "swapchain"} => S = WithContexts
  /\ step \in Steps \ {"contexts", "present contexts", "swapchain", "returned"} => m = 0
  /\ step = "contexts" => m = index
  /\ step \in {"present contexts", "swapchain"} => m = initial_command_context_count
  /\ step \in Steps \ {"present contexts", "swapchain", "returned"} => P = {}
  /\ step = "present contexts" => P = 0..(index - 1)
  /\ step = "swapchain" => P = 0..(present_context_count - 1) /\ presentation
  /\ step \in Steps \ {"returned"} => n = 0 /\ ~swapchain /\ error = "none"

Returned(S, m, P, n) ==
  /\ UsesDevice =>
       /\ S \ {Swapchain} = WithContexts /\ m >= initial_command_context_count
       /\ P = 0..(present_context_count - 1) /\ (swapchain <=> presentation)
  /\ step = "returned" /\ error # "none" => S = {} /\ m = 0 /\ P = {}

Remaining(S, m, P, n) ==
  /\ step \in Deleting \ {"drain", "owned swapchain"} => Swapchain \notin S /\ ~swapchain
  /\ step \in Deleting \ {"drain", "owned swapchain", "command contexts"} => m = 0 /\ Retirement \notin S
  /\ step = "destroy present contexts" => P \cap 0..(index - 1) = {}
  /\ step \in {"destroy device", "destroy surface", "destroy messenger", "destroy instance", "gone"} => P = {}
  /\ step \in {"destroy surface", "destroy messenger", "destroy instance", "gone"} => LogicalDevice \notin S
  /\ step \in {"destroy messenger", "destroy instance", "gone"} => Surface \notin S
  /\ step \in {"destroy instance", "gone"} => Messenger \notin S
  /\ step = "gone" => Instance \notin S

Stage(S, m, P, n) ==
  /\ FromDevice(S, m, P, n) /\ Creating(S, m, P, n) /\ Returned(S, m, P, n) /\ Remaining(S, m, P, n)

Inventory ==
  \E S \in SUBSET Singles, m \in Nat, P \in SUBSET (0..(present_context_count - 1)), n \in 0..MaxImages :
    /\ exists = Objects(S, m, P, n)
    /\ contexts = [k \in 1..m |-> Pool(k)]
    /\ Stage(S, m, P, n)

Books == TypeOK /\ handles = exists /\ Inventory

-----------------------------------------------------------------------------
LEMMA PlatformKept ==
  ASSUME UNCHANGED platform
  PROVE  UNCHANGED <<present_context_count, Offscreen, Platform, OnDevice, WithContexts, presentation,
                     debug_utils>>
BY DEF platform, present_context_count, Offscreen, Platform, OnDevice, WithContexts

LEMMA PlatformObjects ==
  /\ WithContexts \in SUBSET Singles
  /\ {LogicalDevice, Retirement, Swapchain} \cap {Instance, Messenger, Surface} = {}
  /\ LogicalDevice # Retirement /\ LogicalDevice # Swapchain /\ Retirement # Swapchain
  /\ Swapchain \notin WithContexts /\ Retirement \notin OnDevice /\ LogicalDevice \notin Platform
  /\ Instance \in Offscreen /\ Surface \notin Offscreen
  /\ Messenger \in Offscreen <=> debug_utils
  /\ Surface \in Platform <=> presentation
BY DEF WithContexts, OnDevice, Platform, Offscreen, Singles, Instance, Messenger, Surface, LogicalDevice,
       Retirement, Swapchain, Object

LEMMA Numbers ==
  /\ initial_command_context_count \in Nat /\ PresentContexts \in Nat /\ MaxImages \in Nat
  /\ MaxSubmissions \in Nat
  /\ present_context_count \in Nat
<1>1. present_context_count \in Nat  BY ConstantsAssumption DEF present_context_count
<1>2. QED  BY <1>1, ConstantsAssumption

(* Steps that make and destroy nothing.                                    *)
LEMMA ContinuingStages ==
  ASSUME NEW S \in SUBSET Singles, NEW m \in Nat, NEW P \in SUBSET (0..(present_context_count - 1)),
         NEW n \in 0..MaxImages, Stage(S, m, P, n),
         \/ LoaderSuffices \/ SelectMemory \/ LoadFunctions
         \/ CheckExtensions /\ ExtensionsSuffice
         \/ InspectCandidate
         \/ InspectionEnds /\ selected # 0
         \/ ContextsCreated \/ PresentContextsCreated
         \/ Submit \/ destroy_device
         \/ DrainContexts \/ PresentContextsDestroyed
  PROVE  Stage(S, m, P, n)'
<1> USE PlatformKept
<1>0. 0..(0 - 1) = {}  OBVIOUS
<1>1. CASE LoaderSuffices
  BY <1>1 DEF LoaderSuffices, Continue, Kept, Stage, FromDevice, Creating, Returned, Remaining,
       UsesDevice, Steps, Deleting
<1>2. CASE SelectMemory
  BY <1>2 DEF SelectMemory, Continue, Kept, Stage, FromDevice, Creating, Returned, Remaining, UsesDevice,
       Steps, Deleting
<1>3. CASE LoadFunctions
  BY <1>3 DEF LoadFunctions, Continue, Kept, Stage, FromDevice, Creating, Returned, Remaining,
       UsesDevice, Steps, Deleting
<1>4. CASE CheckExtensions /\ ExtensionsSuffice
  BY <1>4 DEF CheckExtensions, Continue, Kept, Stage, FromDevice, Creating, Returned, Remaining,
       UsesDevice, Steps, Deleting
<1>5. CASE InspectCandidate
  BY <1>5 DEF InspectCandidate, Kept, Stage, FromDevice, Creating, Returned, Remaining, UsesDevice,
       Steps, Deleting
<1>6. CASE InspectionEnds /\ selected # 0
  BY <1>6 DEF InspectionEnds, Continue, Kept, Stage, FromDevice, Creating, Returned, Remaining,
       UsesDevice, Steps, Deleting
<1>7. CASE ContextsCreated
  BY <1>7, <1>0 DEF ContextsCreated, Continue, Kept, Stage, FromDevice, Creating, Returned, Remaining,
       UsesDevice, Steps, Deleting
<1>8. CASE PresentContextsCreated
  <2>1. /\ S = WithContexts /\ m = initial_command_context_count /\ P = 0..(present_context_count - 1)
        /\ n = 0 /\ ~swapchain /\ error = "none" /\ FromDevice(S, m, P, n)
    BY <1>8 DEF PresentContextsCreated, Continue, Stage, Creating, Steps
  <2>2. S \ {Swapchain} = WithContexts /\ m >= initial_command_context_count
    BY <2>1, Numbers, PlatformObjects
  <2>3. step' = (IF presentation THEN "swapchain" ELSE "returned") /\ UNCHANGED <<platform, swapchain, error>>
    BY <1>8 DEF PresentContextsCreated, Continue, Kept
  <2>4. FromDevice(S, m, P, n)' /\ UNCHANGED <<presentation, present_context_count, WithContexts>>
    BY <2>1, <2>3 DEF FromDevice
  <2>5. CASE presentation
    BY <2>1, <2>3, <2>4, <2>5 DEF Stage, Creating, Returned, Remaining, UsesDevice, Steps, Deleting
  <2>6. CASE ~presentation
    BY <2>1, <2>2, <2>3, <2>4, <2>6 DEF Stage, Creating, Returned, Remaining, UsesDevice, Steps, Deleting
  <2>7. QED  BY <2>5, <2>6
<1>9. CASE Submit
  BY <1>9 DEF Submit, Stage, FromDevice, Creating, Returned, Remaining, UsesDevice, Steps, Deleting
<1>10. CASE destroy_device
  BY <1>10 DEF destroy_device, Stage, FromDevice, Creating, Returned, Remaining, UsesDevice, Steps, Deleting
<1>11. CASE DrainContexts
  BY <1>11 DEF DrainContexts, Destroy, Destroyed, Stage, FromDevice, Creating, Returned, Remaining,
       UsesDevice, Steps, Deleting
<1>12. CASE PresentContextsDestroyed
  <2>1. P = {}
    BY <1>12 DEF PresentContextsDestroyed, Destroy, Stage, Remaining
  <2>2. QED
    BY <1>12, <2>1 DEF PresentContextsDestroyed, Destroy, Destroyed, Stage, FromDevice, Creating,
         Returned, Remaining, UsesDevice, Steps, Deleting
<1>13. QED
  BY <1>1, <1>2, <1>3, <1>4, <1>5, <1>6, <1>7, <1>8, <1>9, <1>10, <1>11, <1>12

(* Steps of create_device that make objects.                               *)
LEMMA CreatingStages ==
  ASSUME Inventory, index \in Nat,
         \/ CreateInstance \/ CreateMessenger \/ CreateSurface \/ CreateLogicalDevice \/ CreateRetirement
         \/ GrowContexts \/ CreatePresentContext
         \/ \E count \in 0..MaxImages : CreateSwapchain(count)
         \/ GrowPool
  PROVE  Inventory'
<1>1. PICK S \in SUBSET Singles, m \in Nat, P \in SUBSET (0..(present_context_count - 1)), n \in 0..MaxImages :
        /\ exists = Objects(S, m, P, n)
        /\ contexts = [k \in 1..m |-> Pool(k)]
        /\ Stage(S, m, P, n)
  BY DEF Inventory
<1> n \in Nat  BY Numbers
<1>2. /\ Instance \in Singles /\ Messenger \in Singles /\ Surface \in Singles /\ LogicalDevice \in Singles
      /\ Retirement \in Singles /\ Swapchain \in Singles
  BY DEF Singles
<1>3. Len(contexts) = m /\ contexts \in Seq({Pool(k) : k \in Nat})  BY <1>1
<1>4. CASE CreateInstance
  <2>1. /\ S = {} /\ m = 0 /\ P = {} /\ n = 0 /\ ~swapchain /\ error = "none"
    BY <1>1, <1>4 DEF CreateInstance, Continue, Stage, Creating, Steps
  <2>2. /\ step' = (IF debug_utils THEN "messenger" ELSE "surface")
        /\ UNCHANGED <<platform, contexts, swapchain, error>> /\ exists' = exists \cup {Instance}
    BY <1>4 DEF CreateInstance, Continue, Created, Kept
  <2>3. UNCHANGED <<present_context_count, debug_utils, Offscreen, WithContexts>>  BY <2>2, PlatformKept
  <2>4. exists' = Objects({Instance}, m, P, n)  BY <1>1, <2>1, <2>2 DEF Objects
  <2>5. Instance \in WithContexts /\ (~debug_utils => Offscreen = {Instance})
    BY DEF WithContexts, OnDevice, Platform, Offscreen
  <2>6. Stage({Instance}, m, P, n)'
    BY <2>1, <2>2, <2>3, <2>5, PlatformObjects
       DEF Stage, FromDevice, Creating, Returned, Remaining, UsesDevice, Steps, Deleting
  <2>7. QED  BY <1>1, <1>2, <2>2, <2>3, <2>4, <2>6 DEF Inventory
<1>5. CASE CreateMessenger
  <2>1. /\ S = {Instance} /\ debug_utils /\ m = 0 /\ P = {} /\ n = 0 /\ ~swapchain /\ error = "none"
    BY <1>1, <1>5 DEF CreateMessenger, Continue, Stage, Creating, Steps
  <2>2. /\ step' = "surface"
        /\ UNCHANGED <<platform, contexts, swapchain, error>> /\ exists' = exists \cup {Messenger}
    BY <1>5 DEF CreateMessenger, Continue, Created, Kept
  <2>3. UNCHANGED <<present_context_count, debug_utils, Offscreen, WithContexts>>  BY <2>2, PlatformKept
  <2>4. exists' = Objects({Instance, Messenger}, m, P, n)  BY <1>1, <2>1, <2>2 DEF Objects
  <2>5. Offscreen = {Instance, Messenger} /\ {Instance, Messenger} \subseteq WithContexts
    BY <2>1 DEF WithContexts, OnDevice, Platform, Offscreen
  <2>6. Stage({Instance, Messenger}, m, P, n)'
    BY <2>1, <2>2, <2>3, <2>5, PlatformObjects
       DEF Stage, FromDevice, Creating, Returned, Remaining, UsesDevice, Steps, Deleting
  <2>7. QED  BY <1>1, <1>2, <2>2, <2>3, <2>4, <2>6 DEF Inventory
<1>6. CASE CreateSurface
  <2>1. /\ S = Offscreen /\ m = 0 /\ P = {} /\ n = 0 /\ ~swapchain /\ error = "none"
    BY <1>1, <1>6 DEF CreateSurface, Continue, Stage, Creating, Steps
  <2>2. /\ step' = "inspect"
        /\ UNCHANGED <<platform, contexts, swapchain, error>>
        /\ exists' = exists \cup (IF presentation THEN {Surface} ELSE {})
    BY <1>6 DEF CreateSurface, Continue, Created, Kept
  <2>3. UNCHANGED <<present_context_count, Platform, WithContexts>>  BY <2>2, PlatformKept
  <2>4. exists' = Objects(Platform, m, P, n)
    <3>1. CASE presentation
      <4>1. Platform = Offscreen \cup {Surface}  BY <3>1 DEF Platform
      <4>2. QED  BY <1>1, <2>1, <2>2, <3>1, <4>1 DEF Objects
    <3>2. CASE ~presentation
      <4>1. Platform = Offscreen  BY <3>2 DEF Platform
      <4>2. QED  BY <1>1, <2>1, <2>2, <3>2, <4>1
    <3>3. QED  BY <3>1, <3>2
  <2>5. Platform \subseteq WithContexts /\ Platform \in SUBSET Singles  BY PlatformObjects DEF WithContexts, OnDevice
  <2>6. Instance \in Platform  BY DEF Platform, Offscreen
  <2>7. Stage(Platform, m, P, n)'
    <3>1. LogicalDevice \notin Platform /\ Retirement \notin Platform /\ Swapchain \notin Platform
      BY PlatformObjects DEF OnDevice, WithContexts
    <3>2. QED
      BY <2>1, <2>2, <2>3, <2>5, <2>6, <3>1
         DEF Stage, FromDevice, Creating, Returned, Remaining, UsesDevice, Steps, Deleting
  <2>8. QED  BY <1>1, <1>2, <2>2, <2>3, <2>4, <2>5, <2>7 DEF Inventory
<1>7. CASE CreateLogicalDevice
  <2>1. /\ S = Platform /\ m = 0 /\ P = {} /\ n = 0 /\ ~swapchain /\ error = "none"
    BY <1>1, <1>7 DEF CreateLogicalDevice, Continue, Stage, Creating, Steps
  <2>2. /\ step' = "memory"
        /\ UNCHANGED <<platform, contexts, swapchain, error>> /\ exists' = exists \cup {LogicalDevice}
    BY <1>7 DEF CreateLogicalDevice, Continue, Created, Kept
  <2>3. UNCHANGED <<present_context_count, OnDevice, WithContexts>>  BY <2>2, PlatformKept
  <2>4. exists' = Objects(OnDevice, m, P, n)  BY <1>1, <2>1, <2>2 DEF Objects, OnDevice
  <2>5. OnDevice \subseteq WithContexts /\ OnDevice \in SUBSET Singles  BY PlatformObjects DEF WithContexts
  <2>6. Instance \in OnDevice /\ LogicalDevice \in OnDevice /\ Swapchain \notin OnDevice
    BY PlatformObjects DEF WithContexts, OnDevice, Platform
  <2>7. Stage(OnDevice, m, P, n)'
    BY <2>1, <2>2, <2>3, <2>5, <2>6
       DEF Stage, FromDevice, Creating, Returned, Remaining, UsesDevice, Steps, Deleting
  <2>8. QED  BY <1>1, <1>2, <2>2, <2>3, <2>4, <2>5, <2>7 DEF Inventory
<1>8. CASE CreateRetirement
  <2>1. /\ S = OnDevice /\ m = 0 /\ P = {} /\ n = 0 /\ ~swapchain /\ error = "none"
    BY <1>1, <1>8 DEF CreateRetirement, Continue, Stage, Creating, Steps
  <2>2. /\ step' = "contexts" /\ index' = 0
        /\ UNCHANGED <<platform, contexts, swapchain, error>> /\ exists' = exists \cup {Retirement}
    BY <1>8 DEF CreateRetirement, Continue, Created, Kept
  <2>3. UNCHANGED <<present_context_count, WithContexts>>  BY <2>2, PlatformKept
  <2>4. exists' = Objects(WithContexts, m, P, n)  BY <1>1, <2>1, <2>2 DEF Objects, WithContexts
  <2>5. Instance \in WithContexts /\ LogicalDevice \in WithContexts /\ Retirement \in WithContexts
    BY PlatformObjects DEF WithContexts, OnDevice, Platform
  <2>6. Stage(WithContexts, m, P, n)'
    BY <2>1, <2>2, <2>3, <2>5, PlatformObjects
       DEF Stage, FromDevice, Creating, Returned, Remaining, UsesDevice, Steps, Deleting
  <2>7. QED  BY <1>1, <1>2, <2>2, <2>3, <2>4, <2>6, PlatformObjects DEF Inventory
<1>9. CASE GrowContexts
  <2>1. /\ S = WithContexts /\ m = index /\ P = {} /\ n = 0 /\ ~swapchain /\ error = "none" /\ step = "contexts"
    BY <1>1, <1>9 DEF GrowContexts, Stage, Creating, Steps
  <2>2. /\ step' = step /\ index' = index + 1 /\ contexts' = Append(contexts, Pool(m + 1))
        /\ UNCHANGED <<platform, swapchain, error>> /\ exists' = exists \cup {Pool(m + 1)}
    BY <1>3, <1>9 DEF GrowContexts, Created
  <2>3. UNCHANGED <<present_context_count, WithContexts>>  BY <2>2, PlatformKept
  <2>4. exists' = Objects(S, m + 1, P, n)  BY <1>1, <2>2, Growing DEF Objects
  <2>5. contexts' = [k \in 1..(m + 1) |-> Pool(k)]  BY <1>1, <1>3, <2>2
  <2>6. Instance \in S /\ LogicalDevice \in S /\ Retirement \in S
    BY <2>1, PlatformObjects DEF WithContexts, OnDevice, Platform
  <2>7. Stage(S, m + 1, P, n)'
    BY <2>1, <2>2, <2>3, <2>6, PlatformObjects
       DEF Stage, FromDevice, Creating, Returned, Remaining, UsesDevice, Steps, Deleting
  <2>8. m + 1 \in Nat  OBVIOUS
  <2>9. QED  BY <1>1, <2>3, <2>4, <2>5, <2>7, <2>8 DEF Inventory
<1>10. CASE CreatePresentContext
  <2>1. /\ S = WithContexts /\ m = initial_command_context_count /\ P = 0..(index - 1) /\ n = 0
        /\ ~swapchain /\ error = "none" /\ step = "present contexts" /\ FromDevice(S, m, P, n)
    BY <1>1, <1>10 DEF CreatePresentContext, Stage, Creating, Steps
  <2>2. /\ step' = step /\ index' = index + 1
        /\ UNCHANGED <<platform, contexts, swapchain, error>> /\ exists' = exists \cup Signals({index})
    BY <1>10, NamedBy DEF CreatePresentContext, Created, Kept
  <2>3. UNCHANGED <<present_context_count, WithContexts>>  BY <2>2, PlatformKept
  <2>4. index \in 0..(present_context_count - 1)
    <3>1. index < present_context_count  BY <1>10 DEF CreatePresentContext
    <3>2. QED  BY <3>1, Numbers
  <2>5. PICK Q : Q = P \cup {index}  OBVIOUS
  <2>6. exists' = Objects(S, m, Q, n)
    <3>1. Signals(Q) = Signals(P) \cup Signals({index})  BY <2>5 DEF Signals
    <3>2. QED  BY <1>1, <2>2, <3>1 DEF Objects
  <2>7. Instance \in S /\ LogicalDevice \in S /\ Retirement \in S
    BY <2>1, PlatformObjects DEF WithContexts, OnDevice, Platform
  <2>8. Q = 0..(index' - 1) /\ Q \in SUBSET (0..(present_context_count' - 1))
    <3>1. 0..(index + 1 - 1) = 0..(index - 1) \cup {index}  OBVIOUS
    <3>2. Q = 0..(index + 1 - 1)  BY <2>1, <2>5, <3>1
    <3>3. Q \in SUBSET (0..(present_context_count - 1))  BY <2>4, <2>5
    <3>4. QED  BY <2>2, <2>3, <3>2, <3>3
  <2>9. Stage(S, m, Q, n)'
    BY <2>1, <2>2, <2>3, <2>7, <2>8, PlatformObjects
       DEF Stage, FromDevice, Creating, Returned, Remaining, UsesDevice, Steps, Deleting
  <2>10. QED  BY <1>1, <2>2, <2>6, <2>8, <2>9 DEF Inventory
<1>11. CASE \E count \in 0..MaxImages : CreateSwapchain(count)
  <2>1. PICK count \in 0..MaxImages : CreateSwapchain(count)  BY <1>11
  <2>2. /\ S = WithContexts /\ m = initial_command_context_count /\ P = 0..(present_context_count - 1) /\ n = 0
        /\ presentation /\ error = "none" /\ FromDevice(S, m, P, n)
    BY <1>1, <2>1 DEF CreateSwapchain, Continue, Stage, Creating, Steps
  <2>3. /\ step' = "returned" /\ swapchain' = TRUE
        /\ UNCHANGED <<platform, contexts, error>>
        /\ exists' = exists \cup (IF count = 0 THEN {} ELSE {Swapchain} \cup Images(count))
    BY <2>1, NamedBy DEF CreateSwapchain, Continue, Created
  <2>4. UNCHANGED <<present_context_count, WithContexts, presentation>>  BY <2>3, PlatformKept
  <2>5. Instance \in S /\ LogicalDevice \in S /\ Retirement \in S
    BY <2>2, PlatformObjects DEF WithContexts, OnDevice, Platform
  <2>6. m >= initial_command_context_count  BY <2>2, Numbers
  <2>7. CASE count = 0
    <3>1. exists' = Objects(S, m, P, n)  BY <1>1, <2>3, <2>7
    <3>2. S \ {Swapchain} = WithContexts  BY <2>2, PlatformObjects
    <3>3. Stage(S, m, P, n)'
      BY <2>2, <2>3, <2>4, <2>5, <2>6, <3>2, PlatformObjects
         DEF Stage, FromDevice, Creating, Returned, Remaining, UsesDevice, Steps, Deleting
    <3>4. QED  BY <1>1, <2>3, <2>4, <3>1, <3>3 DEF Inventory
  <2>8. CASE count # 0
    <3>1. exists' = Objects(S \cup {Swapchain}, m, P, count)  BY <1>1, <2>2, <2>3, <2>8, Growing DEF Objects
    <3>2. PICK T \in SUBSET Singles : T = S \cup {Swapchain}  BY <1>2
    <3>3. T \ {Swapchain} = WithContexts  BY <2>2, <3>2, PlatformObjects
    <3>4. T \subseteq WithContexts \cup {Swapchain} /\ Instance \in T /\ LogicalDevice \in T /\ Retirement \in T
          /\ Swapchain \in T
      BY <2>2, <2>5, <3>2
    <3>5. Stage(T, m, P, count)'
      BY <2>2, <2>3, <2>4, <2>6, <3>3, <3>4
         DEF Stage, FromDevice, Creating, Returned, Remaining, UsesDevice, Steps, Deleting
    <3>6. QED  BY <1>1, <2>3, <2>4, <3>1, <3>2, <3>5 DEF Inventory
  <2>9. QED  BY <2>7, <2>8
<1>12. CASE GrowPool
  <2>1. /\ step = "returned" /\ error = "none" /\ step' = step /\ contexts' = Append(contexts, Pool(m + 1))
        /\ UNCHANGED <<platform, swapchain, error>> /\ exists' = exists \cup {Pool(m + 1)}
    BY <1>3, <1>12 DEF GrowPool, Created, UsesDevice
  <2>2. UNCHANGED <<present_context_count, WithContexts, presentation>>  BY <2>1, PlatformKept
  <2>3. exists' = Objects(S, m + 1, P, n)  BY <1>1, <2>1, Growing DEF Objects
  <2>4. contexts' = [k \in 1..(m + 1) |-> Pool(k)]  BY <1>1, <1>3, <2>1
  <2>5. /\ S \ {Swapchain} = WithContexts /\ m >= initial_command_context_count
        /\ P = 0..(present_context_count - 1) /\ (swapchain <=> presentation) /\ FromDevice(S, m, P, n)
    BY <1>1, <2>1 DEF Stage, Returned, UsesDevice
  <2>6. Instance \in S /\ LogicalDevice \in S /\ Retirement \in S
    BY <2>5, PlatformObjects DEF WithContexts, OnDevice, Platform
  <2>7. m + 1 \in Nat /\ m + 1 >= initial_command_context_count  BY <2>5, Numbers
  <2>8. Stage(S, m + 1, P, n)'
    BY <2>1, <2>2, <2>5, <2>6, <2>7
       DEF Stage, FromDevice, Creating, Returned, Remaining, UsesDevice, Steps, Deleting
  <2>9. QED  BY <1>1, <2>2, <2>3, <2>4, <2>7, <2>8 DEF Inventory
<1>13. QED  BY <1>4, <1>5, <1>6, <1>7, <1>8, <1>9, <1>10, <1>11, <1>12

-----------------------------------------------------------------------------
(* The destroy calls of each step: what they name, and that they name      *)
(* nothing twice.                                                          *)
LEMMA HeldCalls ==
  ASSUME NEW o
  PROVE  IfHeld(o) \in Seq(handles) /\ ToSet(IfHeld(o)) = handles \cap {o} /\ Once(IfHeld(o))
<1>1. CASE o \in handles
  <2>1. IfHeld(o) = <<o>>  BY <1>1 DEF IfHeld
  <2>2. <<o>> \in Seq(handles) /\ DOMAIN <<o>> = {1}  BY <1>1
  <2>3. Once(<<o>>)  BY <2>2 DEF Once
  <2>4. QED  BY <1>1, <2>1, <2>2, <2>3, NamedBy
<1>2. CASE o \notin handles
  <2>1. IfHeld(o) = <<>>  BY <1>2 DEF IfHeld
  <2>2. <<>> \in Seq(handles) /\ DOMAIN <<>> = {}  OBVIOUS
  <2>3. Once(<<>>)  BY <2>2 DEF Once
  <2>4. QED  BY <1>2, <2>1, <2>2, <2>3, NamedBy
<1>3. QED  BY <1>1, <1>2

LEMMA PresentContextCalls ==
  ASSUME NEW c
  PROVE  ToSet(PresentCalls(c)) = handles \cap Signals({c}) /\ Once(PresentCalls(c))
<1> DEFINE a == IfHeld(Object("acquired", c))
           r == IfHeld(Object("rendered", c))
           p == IfHeld(Object("presented", c))
<1>1. /\ a \in Seq(handles) /\ ToSet(a) = handles \cap {Object("acquired", c)} /\ Once(a)
      /\ r \in Seq(handles) /\ ToSet(r) = handles \cap {Object("rendered", c)} /\ Once(r)
      /\ p \in Seq(handles) /\ ToSet(p) = handles \cap {Object("presented", c)} /\ Once(p)
  BY HeldCalls
<1>2. PresentCalls(c) = (a \o r) \o p  BY DEF PresentCalls
<1> HIDE DEF a, r, p
<1>3. Object("acquired", c) # Object("rendered", c) /\ Object("acquired", c) # Object("presented", c)
      /\ Object("rendered", c) # Object("presented", c)
  BY DEF Object
<1>4. ToSet(a \o r) = ToSet(a) \cup ToSet(r)  BY <1>1, NamedByBoth
<1>5. Once(a \o r)
  <2>1. ToSet(a) \cap ToSet(r) = {}  BY <1>1, <1>3
  <2>2. QED  BY <1>1, <2>1, OnceBoth
<1>6. a \o r \in Seq(handles)  BY <1>1
<1>7. ToSet((a \o r) \o p) = ToSet(a \o r) \cup ToSet(p)
  <2>1. PICK ar : ar = a \o r  OBVIOUS
  <2>2. ar \in Seq(handles)  BY <1>6, <2>1
  <2>3. ToSet(ar \o p) = ToSet(ar) \cup ToSet(p)  BY <1>1, <2>2, NamedByBoth
  <2>4. QED  BY <2>1, <2>3
<1>8. Once((a \o r) \o p)
  <2>1. ToSet(a \o r) \cap ToSet(p) = {}  BY <1>1, <1>3, <1>4
  <2>2. QED  BY <1>1, <1>5, <1>6, <2>1, OnceBoth
<1>9. Signals({c}) = {Object("acquired", c), Object("rendered", c), Object("presented", c)}  BY DEF Signals
<1>10. QED  BY <1>1, <1>2, <1>4, <1>7, <1>8, <1>9

LEMMA PoolsOnce ==
  ASSUME NEW m \in Nat
  PROVE  /\ [k \in 1..m |-> Pool(k)] \in Seq(Pools(m)) /\ ToSet([k \in 1..m |-> Pool(k)]) = Pools(m)
         /\ Once([k \in 1..m |-> Pool(k)]) /\ Len([k \in 1..m |-> Pool(k)]) = m
<1>1. [k \in 1..m |-> Pool(k)] \in Seq(Pools(m)) /\ Len([k \in 1..m |-> Pool(k)]) = m  BY DEF Pools
<1>2. Once([k \in 1..m |-> Pool(k)])  BY DEF Once, Pool, Object
<1>3. QED  BY <1>1, <1>2, NamedBy

LEMMA ContextsCalls ==
  ASSUME NEW m \in Nat, contexts = [k \in 1..m |-> Pool(k)]
  PROVE  /\ ContextCalls \in Seq(Pools(m) \cup {Retirement})
         /\ ToSet(ContextCalls) = Pools(m) \cup (handles \cap {Retirement}) /\ Once(ContextCalls)
<1> DEFINE T == Pools(m) \cup {Retirement}
           r == IF Retirement \in handles THEN <<Retirement>> ELSE <<>>
<1>1. ContextCalls = contexts \o r  BY DEF ContextCalls
<1>2. contexts \in Seq(Pools(m)) /\ ToSet(contexts) = Pools(m) /\ Once(contexts)  BY PoolsOnce
<1>3. r \in Seq(T) /\ ToSet(r) = handles \cap {Retirement} /\ Once(r)
  <2>1. r = IfHeld(Retirement)  BY DEF IfHeld
  <2>2. ToSet(r) = handles \cap {Retirement} /\ Once(r)  BY <2>1, HeldCalls
  <2>3. <<>> \in Seq(T) /\ <<Retirement>> \in Seq(T)  OBVIOUS
  <2>4. r \in Seq(T)  BY <2>3
  <2>5. QED  BY <2>2, <2>4
<1>4. contexts \in Seq(T)  BY <1>2
<1>5. ToSet(contexts) \cap ToSet(r) = {}
  <2>1. Retirement \notin Pools(m)  BY Apart DEF Singles
  <2>2. QED  BY <1>2, <1>3, <2>1
<1> HIDE DEF T, r
<1>6. contexts \o r \in Seq(T)  BY <1>3, <1>4
<1>7. ToSet(contexts \o r) = ToSet(contexts) \cup ToSet(r)  BY <1>3, <1>4, NamedByBoth
<1>8. Once(contexts \o r)  BY <1>2, <1>3, <1>4, <1>5, OnceBoth
<1>9. QED  BY <1>1, <1>2, <1>3, <1>6, <1>7, <1>8 DEF T

LEMMA ImagesCalls ==
  ASSUME NEW n \in Nat, NEW o
  PROVE  /\ Views(n) \in Seq(Images(n)) /\ ToSet(Views(n)) = Images(n) /\ Once(Views(n))
         /\ ToSet(Views(n) \o IfHeld(o)) = Images(n) \cup (handles \cap {o})
         /\ ToSet(Views(n) \o <<o>>) = Images(n) \cup {o}
         /\ o \notin Images(n) => Once(Views(n) \o IfHeld(o)) /\ Once(Views(n) \o <<o>>)
<1>1. Views(n) \in Seq(Images(n)) /\ ToSet(Views(n)) = Images(n)  BY NamedBy DEF Views, Images
<1>2. Once(Views(n))  BY DEF Once, Views, Object
<1> DEFINE T == Images(n) \cup handles \cup {o}
<1>3. Views(n) \in Seq(T)  BY <1>1
<1>4. IfHeld(o) \in Seq(handles) /\ ToSet(IfHeld(o)) = handles \cap {o} /\ Once(IfHeld(o))  BY HeldCalls
<1>5. IfHeld(o) \in Seq(T)  BY <1>4
<1>6. <<o>> \in Seq(T) /\ ToSet(<<o>>) = {o} /\ Once(<<o>>)  BY NamedBy DEF Once
<1> HIDE DEF T
<1>7. ToSet(Views(n) \o IfHeld(o)) = Images(n) \cup (handles \cap {o})
  BY <1>1, <1>3, <1>4, <1>5, NamedByBoth
<1>8. ToSet(Views(n) \o <<o>>) = Images(n) \cup {o}
  <2>1. PICK t : t = <<o>>  OBVIOUS
  <2>2. t \in Seq(T) /\ ToSet(t) = {o}  BY <1>6, <2>1
  <2>3. ToSet(Views(n) \o t) = ToSet(Views(n)) \cup ToSet(t)  BY <1>3, <2>2, NamedByBoth
  <2>4. QED  BY <1>1, <2>1, <2>2, <2>3
<1>9. ASSUME o \notin Images(n)
      PROVE  Once(Views(n) \o IfHeld(o)) /\ Once(Views(n) \o <<o>>)
  <2>1. ToSet(Views(n)) \cap ToSet(IfHeld(o)) = {} /\ ToSet(Views(n)) \cap ToSet(<<o>>) = {}
    BY <1>1, <1>4, <1>6, <1>9
  <2>2. Once(Views(n) \o IfHeld(o))  BY <1>2, <1>3, <1>4, <1>5, <2>1, OnceBoth
  <2>3. Once(Views(n) \o <<o>>)  BY <1>2, <1>3, <1>6, <2>1, OnceBoth
  <2>4. QED  BY <2>2, <2>3
<1>10. QED  BY <1>1, <1>2, <1>7, <1>8, <1>9

(* The number of views the Device holds is that of the images.             *)
LEMMA ViewsHeld ==
  ASSUME NEW S \in SUBSET Singles, NEW m \in Nat, NEW P, NEW n \in Nat, handles = Objects(S, m, P, n)
  PROVE  Cardinality(OfKind(handles, "view")) = n
<1>1. OfKind(handles, "view") = {Object("view", k) : k \in 1..n}
  <2>1. OfKind(handles, "view") = Images(n)
    <3>1. OfKind(Objects(S, m, P, n), "view") = Images(n)  BY KindsAmong
    <3>2. QED  BY <3>1, Zenon
  <2>2. QED  BY <2>1 DEF Images
<1> 1 \in Int /\ n \in Int  OBVIOUS
<1>2. Cardinality({Object("view", k) : k \in 1..n}) = (IF 1 > n THEN 0 ELSE n - 1 + 1)  BY Counted
<1>3. QED  BY <1>1, <1>2

(* A call of create_device fails, and nothing that exists is touched.      *)
Fails == \/ CheckExtensions /\ ~ExtensionsSuffice
         \/ InspectionFails
         \/ InspectionEnds /\ selected = 0
         \/ \E e \in Errors : \/ StepFails(e)
                              \/ \E made \in 0..2 : CreatePresentContextFails(e, made)
                              \/ CreateSwapchainFails(e, FALSE, 0)
                              \/ \E made \in 0..(MaxImages - 1) : CreateSwapchainFails(e, TRUE, made)

LEMMA FailureLeavesObjects ==
  ASSUME Fails
  PROVE  /\ step \in Steps \ {"loader", "returned"} /\ step' = "drain" /\ index' = 0
         /\ UNCHANGED <<platform, exists, handles, contexts, selected, values>>
         /\ (swapchain' = swapchain \/ (swapchain' = TRUE /\ step = "swapchain"))
<1>1. CASE CheckExtensions /\ ~ExtensionsSuffice
  BY <1>1 DEF CheckExtensions, Fail, NothingCreated, Kept, Steps
<1>2. CASE InspectionFails  BY <1>2 DEF InspectionFails, Fail, NothingCreated, Kept, Steps
<1>3. CASE InspectionEnds /\ selected = 0  BY <1>3 DEF InspectionEnds, Fail, NothingCreated, Kept, Steps
<1>4. ASSUME NEW e \in Errors, StepFails(e)
      PROVE  /\ step \in Steps \ {"loader", "returned"} /\ step' = "drain" /\ index' = 0
             /\ UNCHANGED <<platform, exists, handles, contexts, selected, values, swapchain>>
  BY <1>4 DEF StepFails, Fail, NothingCreated, Kept, Steps
<1>5. ASSUME NEW e \in Errors, NEW made \in 0..2, CreatePresentContextFails(e, made)
      PROVE  /\ step \in Steps \ {"loader", "returned"} /\ step' = "drain" /\ index' = 0
             /\ UNCHANGED <<platform, exists, handles, contexts, selected, values, swapchain>>
  <2>1. handles' = handles \cup HandlesKept(calls')  BY <1>5 DEF CreatePresentContextFails
  <2>2. UNCHANGED handles  BY <2>1 DEF HandlesKept
  <2>3. QED  BY <1>5, <2>2 DEF CreatePresentContextFails, Fail, Kept, Steps
<1>6. ASSUME NEW e \in Errors, NEW created \in BOOLEAN, NEW made \in Nat, CreateSwapchainFails(e, created, made)
      PROVE  /\ step \in Steps \ {"loader", "returned"} /\ step' = "drain" /\ index' = 0
             /\ UNCHANGED <<platform, exists, handles, contexts, selected, values>>
             /\ swapchain' = TRUE /\ step = "swapchain"
  <2>1. ToSet(Views(made)) \subseteq ToSet(SwapchainCalls(made))  BY ImagesCalls DEF SwapchainCalls
  <2>2. UNCHANGED exists  BY <1>6, <2>1 DEF CreateSwapchainFails
  <2>3. QED  BY <1>6, <2>2 DEF CreateSwapchainFails, Fail, Steps
<1>7. 0 \in Nat /\ \A made \in 0..(MaxImages - 1) : made \in Nat  OBVIOUS
<1>8. QED  BY <1>1, <1>2, <1>3, <1>4, <1>5, <1>6, <1>7 DEF Fails

LEMMA FailingStages ==
  ASSUME NEW S \in SUBSET Singles, NEW m \in Nat, NEW P \in SUBSET (0..(present_context_count - 1)),
         NEW n \in 0..MaxImages, Stage(S, m, P, n), Fails
  PROVE  Stage(S, m, P, n)'
<1>1. /\ step \in Steps \ {"loader", "returned"} /\ step' = "drain" /\ UNCHANGED platform
      /\ (swapchain' = swapchain \/ (swapchain' = TRUE /\ step = "swapchain"))
  BY FailureLeavesObjects
<1>2. UNCHANGED WithContexts  BY <1>1, PlatformKept
<1>3. FromDevice(S, m, P, n) /\ ~swapchain /\ n = 0 /\ (step = "swapchain" => S = WithContexts)
  BY <1>1 DEF Stage, Creating
<1>4. LogicalDevice \in WithContexts /\ Swapchain \notin WithContexts  BY PlatformObjects DEF WithContexts, OnDevice
<1>5. FromDevice(S, m, P, n)'  BY <1>1, <1>2, <1>3, <1>4 DEF FromDevice
<1>6. QED  BY <1>1, <1>5 DEF Stage, Creating, Returned, Remaining, UsesDevice, Steps, Deleting

LEMMA LoaderFailsStage ==
  ASSUME NEW S \in SUBSET Singles, NEW m \in Nat, NEW P \in SUBSET (0..(present_context_count - 1)),
         NEW n \in 0..MaxImages, Stage(S, m, P, n), NEW e \in Errors, LoaderFails(e)
  PROVE  Stage(S, m, P, n)'
<1>1. step = "loader" /\ step' = "returned" /\ error' = e /\ UNCHANGED <<platform, swapchain>> /\ e # "none"
  BY DEF LoaderFails, Kept, Errors
<1>2. UNCHANGED WithContexts  BY <1>1, PlatformKept
<1>3. FromDevice(S, m, P, n) /\ S = {} /\ m = 0 /\ P = {}
  BY <1>1 DEF Stage, Creating, Steps
<1>4. FromDevice(S, m, P, n)'  BY <1>1, <1>2, <1>3 DEF FromDevice
<1>5. QED  BY <1>1, <1>3, <1>4 DEF Stage, Creating, Returned, Remaining, UsesDevice, Steps, Deleting

-----------------------------------------------------------------------------
(* Steps that destroy.                                                     *)
LEMMA ContextsLeave ==
  ASSUME NEW S \in SUBSET Singles, NEW m \in Nat, NEW P, NEW n \in Nat, contexts = [k \in 1..m |-> Pool(k)]
  PROVE  /\ ToSet(ContextCalls) = Pools(m) \cup (handles \cap {Retirement})
         /\ ToSet(contexts) = Pools(m)
         /\ \A o \in S \cup Signals(P) \cup Images(n) : o \notin Pools(m)
         /\ Retirement \notin Pools(m) \cup Signals(P) \cup Images(n)
<1>1. ToSet(ContextCalls) = Pools(m) \cup (handles \cap {Retirement})  BY ContextsCalls
<1>2. ToSet(contexts) = Pools(m)  BY PoolsOnce
<1>3. \A o \in S \cup Signals(P) \cup Images(n) : o \notin Pools(m)  BY Apart
<1>4. Retirement \notin Pools(m) \cup Signals(P) \cup Images(n)  BY Apart DEF Singles
<1>5. QED  BY <1>1, <1>2, <1>3, <1>4

LEMMA DestroyingStages ==
  ASSUME Inventory, handles = exists, index \in Nat,
         \/ \E e \in Errors, pool \in BOOLEAN : GrowContextsFails(e, pool)
         \/ DestroyOwnedSwapchain \/ DestroyCommandContexts \/ DestroyPresentContext
         \/ DestroyLogicalDevice \/ DestroySurface \/ DestroyMessenger \/ DestroyInstance
  PROVE  Inventory' /\ handles' = exists'
<1>1. PICK S \in SUBSET Singles, m \in Nat, P \in SUBSET (0..(present_context_count - 1)), n \in 0..MaxImages :
        /\ exists = Objects(S, m, P, n)
        /\ contexts = [k \in 1..m |-> Pool(k)]
        /\ Stage(S, m, P, n)
  BY DEF Inventory
<1> n \in Nat  BY Numbers
<1>2. FromDevice(S, m, P, n)  BY <1>1 DEF Stage
<1>3. 0 \in Nat /\ 0 \in 0..MaxImages /\ [k \in 1..0 |-> Pool(k)] = <<>>  BY Numbers
<1>4. CASE \E e \in Errors, pool \in BOOLEAN : GrowContextsFails(e, pool)
  <2>1. /\ step = "contexts" /\ step' = "drain" /\ UNCHANGED <<platform, swapchain>> /\ contexts' = <<>>
        /\ exists' = exists \ ToSet(ContextCalls)
        /\ handles' = handles \ ({Retirement} \cup ToSet(contexts))
    BY <1>4 DEF GrowContextsFails, Fail
  <2>2. PICK T \in SUBSET Singles : T = S \ {Retirement}  OBVIOUS
  <2>3. exists' = Objects(T, 0, P, n) /\ handles' = exists'
    <3>1. /\ ToSet(ContextCalls) = Pools(m) \cup (handles \cap {Retirement}) /\ ToSet(contexts) = Pools(m)
          /\ \A o \in S \cup Signals(P) \cup Images(n) : o \notin Pools(m)
          /\ Retirement \notin Pools(m) \cup Signals(P) \cup Images(n)
      BY <1>1, ContextsLeave
    <3>2. QED  BY <1>1, <2>1, <2>2, <3>1, Growing DEF Objects
  <2>4. UNCHANGED <<WithContexts, present_context_count>>  BY <2>1, PlatformKept
  <2>5. FromDevice(T, 0, P, n)'
    BY <1>2, <2>1, <2>2, <2>4, PlatformObjects DEF FromDevice
  <2>6. Stage(T, 0, P, n)'
    BY <2>1, <2>5 DEF Stage, Creating, Returned, Remaining, UsesDevice, Steps, Deleting
  <2>7. QED  BY <1>3, <2>1, <2>3, <2>4, <2>6 DEF Inventory
<1>5. CASE DestroyOwnedSwapchain
  <2>1. /\ step = "owned swapchain" /\ step' = "command contexts" /\ UNCHANGED <<platform, contexts>>
        /\ exists' = exists \ ToSet(calls') /\ handles' = handles \ ToSet(calls')
        /\ calls' = IF LogicalDevice \in handles THEN Views(Cardinality(OfKind(handles, "view"))) \o IfHeld(Swapchain)
                    ELSE <<>>
        /\ swapchain' = (swapchain /\ LogicalDevice \notin handles)
    BY <1>5 DEF DestroyOwnedSwapchain, Destroy, Destroyed
  <2>2. UNCHANGED <<WithContexts, present_context_count>>  BY <2>1, PlatformKept
  <2>3. LogicalDevice \in handles <=> LogicalDevice \in S  BY <1>1, SinglesAmong DEF Singles
  <2>4. PICK T \in SUBSET Singles : T = S \ {Swapchain}  OBVIOUS
  <2>5. exists' = Objects(T, m, P, 0) /\ ~swapchain'
    <3>1. CASE LogicalDevice \in handles
      <4>1. calls' = Views(n) \o IfHeld(Swapchain)  BY <1>1, <2>1, <3>1, ViewsHeld
      <4>2. ToSet(calls') = Images(n) \cup (exists \cap {Swapchain})  BY <4>1, ImagesCalls
      <4>3. \A o \in S \cup Pools(m) \cup Signals(P) : o \notin Images(n)  BY Apart
      <4>4. Swapchain \notin Pools(m) \cup Signals(P) \cup Images(n)  BY Apart DEF Singles
      <4>5. exists' = Objects(T, m, P, 0)  BY <1>1, <2>1, <2>4, <4>2, <4>3, <4>4, Growing DEF Objects
      <4>6. QED  BY <2>1, <3>1, <4>5
    <3>2. CASE LogicalDevice \notin handles
      <4>1. ~swapchain /\ Swapchain \notin S /\ n = 0  BY <1>2, <2>3, <3>2 DEF FromDevice
      <4>2. ToSet(calls') = {}  BY <2>1, <3>2, NamedBy
      <4>3. exists' = exists /\ S = T  BY <2>1, <2>4, <4>1, <4>2
      <4>4. QED  BY <1>1, <2>1, <4>1, <4>3
    <3>3. QED  BY <3>1, <3>2
  <2>6. FromDevice(T, m, P, 0)'
    BY <1>2, <2>1, <2>2, <2>4, <2>5, PlatformObjects
      DEF FromDevice, Swapchain, Retirement, LogicalDevice, Instance, Object
  <2>7. Stage(T, m, P, 0)'
    BY <2>1, <2>4, <2>5, <2>6 DEF Stage, Creating, Returned, Remaining, UsesDevice, Steps, Deleting
  <2>8. QED  BY <1>1, <1>3, <2>1, <2>2, <2>5, <2>7 DEF Inventory
<1>6. CASE DestroyCommandContexts
  <2>1. /\ step = "command contexts" /\ step' = "destroy present contexts" /\ index' = 0
        /\ UNCHANGED <<platform, swapchain>> /\ contexts' = <<>>
        /\ exists' = exists \ ToSet(ContextCalls) /\ handles' = handles \ ToSet(ContextCalls)
    BY <1>6 DEF DestroyCommandContexts, Destroy, Destroyed
  <2>2. UNCHANGED <<WithContexts, present_context_count>>  BY <2>1, PlatformKept
  <2>3. PICK T \in SUBSET Singles : T = S \ {Retirement}  OBVIOUS
  <2>4. exists' = Objects(T, 0, P, n) /\ handles' = exists'
    <3>1. /\ ToSet(ContextCalls) = Pools(m) \cup (handles \cap {Retirement}) /\ ToSet(contexts) = Pools(m)
          /\ \A o \in S \cup Signals(P) \cup Images(n) : o \notin Pools(m)
          /\ Retirement \notin Pools(m) \cup Signals(P) \cup Images(n)
      BY <1>1, ContextsLeave
    <3>2. /\ exists = S \cup Pools(m) \cup Signals(P) \cup Images(n) /\ handles = exists
          /\ Objects(T, 0, P, n) = T \cup Signals(P) \cup Images(n)
      BY <1>1, Growing DEF Objects
    <3>3. /\ exists' = exists \ (Pools(m) \cup (handles \cap {Retirement})) /\ handles' = exists'
      BY <2>1, <3>1, <3>2
    <3>4. QED  BY <2>3, <3>1, <3>2, <3>3
  <2>5. FromDevice(T, 0, P, n)'
    BY <1>2, <2>1, <2>2, <2>3, PlatformObjects DEF FromDevice
  <2>6. Swapchain \notin S /\ ~swapchain /\ 0..(0 - 1) = {}
    <3>1. 0..(0 - 1) = {}  OBVIOUS
    <3>2. QED  BY <1>1, <2>1, <3>1 DEF Stage, Remaining, Deleting
  <2>7. Stage(T, 0, P, n)'
    BY <2>1, <2>3, <2>5, <2>6 DEF Stage, Creating, Returned, Remaining, UsesDevice, Steps, Deleting
  <2>8. QED  BY <1>3, <2>1, <2>2, <2>4, <2>7 DEF Inventory
<1>7. CASE DestroyPresentContext
  <2>1. /\ step = "destroy present contexts" /\ step' = step /\ index' = index + 1
        /\ UNCHANGED <<platform, swapchain, contexts>>
        /\ exists' = exists \ ToSet(PresentCalls(index)) /\ handles' = handles \ ToSet(PresentCalls(index))
    BY <1>7 DEF DestroyPresentContext, Destroyed
  <2>2. UNCHANGED <<WithContexts, present_context_count>>  BY <2>1, PlatformKept
  <2>3. ToSet(PresentCalls(index)) = exists \cap Signals({index})  BY PresentContextCalls
  <2>4. PICK Q \in SUBSET (0..(present_context_count - 1)) : Q = P \ {index}  OBVIOUS
  <2>5. exists' = Objects(S, m, Q, n)
    <3>1. Signals(Q) = Signals(P) \ Signals({index})  BY <2>4, SignalsWithout
    <3>2. \A o \in S \cup Pools(m) \cup Images(n) : o \notin Signals({index})  BY Apart
    <3>3. QED  BY <1>1, <2>1, <2>3, <3>1, <3>2 DEF Objects
  <2>6. FromDevice(S, m, Q, n)'
    BY <1>2, <2>1, <2>2, <2>4 DEF FromDevice
  <2>7. Q \cap 0..(index' - 1) = {}
    <3>1. P \cap 0..(index - 1) = {}  BY <1>1, <2>1 DEF Stage, Remaining
    <3>2. \A c \in Q : c # index /\ ~(c \in 0..(index - 1))  BY <2>4, <3>1
    <3>3. \A c \in 0..(index' - 1) : c = index \/ c \in 0..(index - 1)
      <4>1. index' = index + 1  BY <2>1
      <4>2. QED  BY <4>1
    <3>4. QED  BY <3>2, <3>3
  <2>8. Stage(S, m, Q, n)'
    BY <1>1, <2>1, <2>6, <2>7 DEF Stage, Creating, Returned, Remaining, UsesDevice, Steps, Deleting
  <2>9. QED  BY <1>1, <2>1, <2>2, <2>5, <2>8 DEF Inventory
<1>8. CASE DestroyLogicalDevice
  <2>1. /\ step = "destroy device" /\ step' = "destroy surface"
        /\ UNCHANGED <<platform, swapchain, contexts>>
        /\ exists' = exists \ ToSet(IfHeld(LogicalDevice)) /\ handles' = handles \ ToSet(IfHeld(LogicalDevice))
    BY <1>8 DEF DestroyLogicalDevice, Destroy, Destroyed, AfterDevice
  <2>2. UNCHANGED <<WithContexts, present_context_count>>  BY <2>1, PlatformKept
  <2>3. PICK T \in SUBSET Singles : T = S \ {LogicalDevice}  OBVIOUS
  <2>4. exists' = Objects(T, m, P, n)
    <3>1. ToSet(IfHeld(LogicalDevice)) = exists \cap {LogicalDevice}  BY HeldCalls
    <3>2. LogicalDevice \notin Pools(m) \cup Signals(P) \cup Images(n)  BY Apart DEF Singles
    <3>3. QED  BY <1>1, <2>1, <2>3, <3>1, <3>2 DEF Objects
  <2>5. Swapchain \notin S /\ ~swapchain /\ m = 0 /\ Retirement \notin S /\ P = {}
    BY <1>1, <2>1 DEF Stage, Remaining, Deleting
  <2>6. FromDevice(T, m, P, n)'  BY <1>2, <2>1, <2>2, <2>3, <2>5 DEF FromDevice
  <2>7. Stage(T, m, P, n)'
    BY <2>1, <2>3, <2>5, <2>6 DEF Stage, Creating, Returned, Remaining, UsesDevice, Steps, Deleting
  <2>8. QED  BY <1>1, <2>1, <2>2, <2>4, <2>7 DEF Inventory
<1>9. CASE DestroySurface
  <2>1. /\ step = "destroy surface" /\ step' = "destroy messenger"
        /\ UNCHANGED <<platform, swapchain, contexts>>
        /\ exists' = exists \ ToSet(IfHeld(Surface)) /\ handles' = handles \ ToSet(IfHeld(Surface))
    BY <1>9 DEF DestroySurface, Destroy, Destroyed
  <2>2. UNCHANGED <<WithContexts, present_context_count>>  BY <2>1, PlatformKept
  <2>3. PICK T \in SUBSET Singles : T = S \ {Surface}  OBVIOUS
  <2>4. exists' = Objects(T, m, P, n)
    <3>1. ToSet(IfHeld(Surface)) = exists \cap {Surface}  BY HeldCalls
    <3>2. Surface \notin Pools(m) \cup Signals(P) \cup Images(n)  BY Apart DEF Singles
    <3>3. QED  BY <1>1, <2>1, <2>3, <3>1, <3>2 DEF Objects
  <2>5. Swapchain \notin S /\ ~swapchain /\ m = 0 /\ Retirement \notin S /\ P = {} /\ LogicalDevice \notin S
    BY <1>1, <2>1 DEF Stage, Remaining, Deleting
  <2>6. FromDevice(T, m, P, n)'  BY <1>2, <2>1, <2>2, <2>3, <2>5 DEF FromDevice
  <2>7. Stage(T, m, P, n)'
    BY <2>1, <2>3, <2>5, <2>6 DEF Stage, Creating, Returned, Remaining, UsesDevice, Steps, Deleting
  <2>8. QED  BY <1>1, <2>1, <2>2, <2>4, <2>7 DEF Inventory
<1>10. CASE DestroyMessenger
  <2>1. /\ step = "destroy messenger" /\ step' = "destroy instance"
        /\ UNCHANGED <<platform, swapchain, contexts>>
        /\ exists' = exists \ ToSet(IfHeld(Messenger)) /\ handles' = handles \ ToSet(IfHeld(Messenger))
    BY <1>10 DEF DestroyMessenger, Destroy, Destroyed
  <2>2. UNCHANGED <<WithContexts, present_context_count>>  BY <2>1, PlatformKept
  <2>3. PICK T \in SUBSET Singles : T = S \ {Messenger}  OBVIOUS
  <2>4. exists' = Objects(T, m, P, n)
    <3>1. ToSet(IfHeld(Messenger)) = exists \cap {Messenger}  BY HeldCalls
    <3>2. Messenger \notin Pools(m) \cup Signals(P) \cup Images(n)  BY Apart DEF Singles
    <3>3. QED  BY <1>1, <2>1, <2>3, <3>1, <3>2 DEF Objects
  <2>5. Swapchain \notin S /\ ~swapchain /\ m = 0 /\ Retirement \notin S /\ P = {} /\ LogicalDevice \notin S
        /\ Surface \notin S
    BY <1>1, <2>1 DEF Stage, Remaining, Deleting
  <2>6. FromDevice(T, m, P, n)'  BY <1>2, <2>1, <2>2, <2>3, <2>5 DEF FromDevice
  <2>7. Stage(T, m, P, n)'
    BY <2>1, <2>3, <2>5, <2>6 DEF Stage, Creating, Returned, Remaining, UsesDevice, Steps, Deleting
  <2>8. QED  BY <1>1, <2>1, <2>2, <2>4, <2>7 DEF Inventory
<1>11. CASE DestroyInstance
  <2>1. /\ step = "destroy instance" /\ step' = "gone"
        /\ UNCHANGED <<platform, swapchain, contexts>>
        /\ exists' = exists \ ToSet(IfHeld(Instance)) /\ handles' = handles \ ToSet(IfHeld(Instance))
    BY <1>11 DEF DestroyInstance, Destroy, Destroyed
  <2>2. UNCHANGED <<WithContexts, present_context_count>>  BY <2>1, PlatformKept
  <2>3. PICK T \in SUBSET Singles : T = S \ {Instance}  OBVIOUS
  <2>4. exists' = Objects(T, m, P, n)
    <3>1. ToSet(IfHeld(Instance)) = exists \cap {Instance}  BY HeldCalls
    <3>2. Instance \notin Pools(m) \cup Signals(P) \cup Images(n)  BY Apart DEF Singles
    <3>3. QED  BY <1>1, <2>1, <2>3, <3>1, <3>2 DEF Objects
  <2>5. Swapchain \notin S /\ ~swapchain /\ m = 0 /\ Retirement \notin S /\ P = {} /\ LogicalDevice \notin S
        /\ Surface \notin S /\ Messenger \notin S
    BY <1>1, <2>1 DEF Stage, Remaining, Deleting
  <2>6. FromDevice(T, m, P, n)'  BY <1>2, <2>1, <2>2, <2>3, <2>5 DEF FromDevice
  <2>7. Stage(T, m, P, n)'
    BY <2>1, <2>3, <2>5, <2>6 DEF Stage, Creating, Returned, Remaining, UsesDevice, Steps, Deleting
  <2>8. QED  BY <1>1, <2>1, <2>2, <2>4, <2>7 DEF Inventory
<1>12. QED  BY <1>4, <1>5, <1>6, <1>7, <1>8, <1>9, <1>10, <1>11

-----------------------------------------------------------------------------
(* Types *)

LEMMA AnswerIsError ==
  ASSUME gpus \in Seq(PhysicalDevice), NEW k \in 1..Len(gpus)
  PROVE  Inspected(k) \in Errors \cup {"none"}
<1>1. gpus[k] \in PhysicalDevice  OBVIOUS
<1>2. gpus[k].error \in Errors \cup {"none"}  BY <1>1 DEF PhysicalDevice
<1>3. QED  BY <1>2 DEF Inspected, inspect_candidate, Errors

(* The index of every loop, and the steps that have none.                  *)
Bound(s) == CASE s = "inspect" -> Len(gpus)
              [] s = "contexts" -> initial_command_context_count
              [] s \in {"present contexts", "destroy present contexts"} -> present_context_count
              [] OTHER -> 0

LEMMA TypeFromParts ==
  ASSUME step' \in Steps \cup Deleting, index' \in 0..Bound(step)',
         selected' \in 0..Len(gpus'),
         \A k \in DOMAIN contexts' : contexts'[k] = Pool(k),
         values' \in [submitted : 0..MaxSubmissions, completed : 0..MaxSubmissions],
         error' \in Errors \cup {"none"}
  PROVE  TypeOK'
BY DEF TypeOK, Bound

LEMMA TypeKept ==
  ASSUME TypeOK, gpus \in Seq(PhysicalDevice), Inventory', [Next]_vars
  PROVE  TypeOK'
<1>1. PICK m \in Nat : contexts' = [k \in 1..m |-> Pool(k)]  BY DEF Inventory
<1>2. \A k \in DOMAIN contexts' : contexts'[k] = Pool(k)  BY <1>1
<1>3. Len(gpus) \in Nat /\ initial_command_context_count \in Nat /\ present_context_count \in Nat
      /\ MaxSubmissions \in Nat
  BY Numbers
<1>4. /\ step \in Steps \cup Deleting /\ index \in 0..Bound(step) /\ index \in Nat /\ selected \in 0..Len(gpus)
      /\ error \in Errors \cup {"none"}
  <2>1. index \in 0..Bound(step)  BY DEF TypeOK, Bound
  <2>2. Bound(step) \in Nat  BY <1>3 DEF Bound
  <2>3. index \in Nat  BY <2>1, <2>2
  <2>4. QED  BY <2>1, <2>3 DEF TypeOK
<1>5. /\ values \in [submitted : 0..MaxSubmissions, completed : 0..MaxSubmissions]
      /\ [submitted |-> 0, completed |-> 0] \in [submitted : 0..MaxSubmissions, completed : 0..MaxSubmissions]
      /\ [values EXCEPT !.completed = values.submitted]
           \in [submitted : 0..MaxSubmissions, completed : 0..MaxSubmissions]
      /\ values.submitted < MaxSubmissions =>
           [values EXCEPT !.submitted = @ + 1] \in [submitted : 0..MaxSubmissions, completed : 0..MaxSubmissions]
  <2>1. values \in [submitted : 0..MaxSubmissions, completed : 0..MaxSubmissions]  BY DEF TypeOK
  <2>2. 0 \in 0..MaxSubmissions  BY <1>3
  <2>3. values.submitted < MaxSubmissions => values.submitted + 1 \in 0..MaxSubmissions  BY <1>3, <2>1
  <2>4. QED  BY <2>1, <2>2, <2>3
<1>6. UNCHANGED platform
  BY DEF Next, CreateDevice, CreationFails, UseDevice, DeleteDevice, Finished, vars,
         LoaderSuffices, CheckExtensions, CreateInstance, CreateMessenger, CreateSurface, InspectCandidate,
         InspectionFails, InspectionEnds, CreateLogicalDevice, SelectMemory, LoadFunctions, CreateRetirement,
         GrowContexts, ContextsCreated, CreatePresentContext, PresentContextsCreated, CreateSwapchain,
         LoaderFails, StepFails, GrowContextsFails, CreatePresentContextFails, CreateSwapchainFails,
         GrowPool, Submit, destroy_device, DrainContexts, DestroyOwnedSwapchain, DestroyCommandContexts,
         DestroyPresentContext, PresentContextsDestroyed, DestroyLogicalDevice, DestroySurface,
         DestroyMessenger, DestroyInstance, Destroy, Destroyed, Kept
<1>7. UNCHANGED <<gpus, present_context_count>>  BY <1>6, PlatformKept DEF platform
<1> USE DEF Continue, Fail, Kept, NothingCreated, Steps, Deleting
<1>8. ASSUME step' \in Steps \cup Deleting, index' = 0, UNCHANGED selected,
             values' \in [submitted : 0..MaxSubmissions, completed : 0..MaxSubmissions],
             error' \in Errors \cup {"none"}
      PROVE  TypeOK'
  <2>1. 0 \in 0..Bound(step)'
    <3>1. Bound(step)' \in Nat  BY <1>3, <1>7 DEF Bound
    <3>2. QED  BY <3>1
  <2>2. QED  BY <1>2, <1>4, <1>5, <1>7, <1>8, <2>1, TypeFromParts
<1>9. CASE \/ LoaderSuffices \/ SelectMemory \/ LoadFunctions \/ ContextsCreated \/ PresentContextsCreated
           \/ CreateInstance \/ CreateMessenger \/ CreateSurface \/ CreateLogicalDevice \/ CreateRetirement
  BY <1>4, <1>5, <1>8, <1>9
     DEF LoaderSuffices, SelectMemory, LoadFunctions, ContextsCreated, PresentContextsCreated,
         CreateInstance, CreateMessenger, CreateSurface, CreateLogicalDevice, CreateRetirement
<1>10. CASE CheckExtensions
  BY <1>4, <1>5, <1>8, <1>10 DEF CheckExtensions, Errors
<1>11. CASE InspectCandidate
  <2>1. /\ step = "inspect" /\ index < Len(gpus) /\ step' = step /\ UNCHANGED <<error, values>>
        /\ selected' \in {selected, index + 1} /\ index' \in {index + 1, Len(gpus)}
    BY <1>11 DEF InspectCandidate
  <2>2. index + 1 \in 0..Len(gpus) /\ Len(gpus) \in 0..Len(gpus)  BY <1>3, <1>4, <2>1
  <2>3. Bound(step)' = Len(gpus) /\ selected' \in 0..Len(gpus') /\ index' \in 0..Len(gpus)
    BY <1>4, <1>7, <2>1, <2>2 DEF Bound
  <2>4. QED  BY <1>2, <1>4, <1>5, <2>1, <2>3, TypeFromParts
<1>12. CASE InspectionFails
  <2>1. index + 1 \in 1..Len(gpus)  BY <1>3, <1>4, <1>12 DEF InspectionFails
  <2>2. Inspected(index + 1) \in Errors \cup {"none"}  BY <2>1, AnswerIsError
  <2>3. QED  BY <1>4, <1>5, <1>8, <1>12, <2>2 DEF InspectionFails
<1>13. CASE InspectionEnds
  BY <1>4, <1>5, <1>8, <1>13 DEF InspectionEnds, Errors
<1>14. CASE GrowContexts
  <2>1. /\ step = "contexts" /\ index < initial_command_context_count /\ step' = step /\ index' = index + 1
        /\ UNCHANGED <<error, values, selected>>
    BY <1>14 DEF GrowContexts, MoreContexts
  <2>2. Bound(step)' = initial_command_context_count  BY <2>1 DEF Bound
  <2>3. index' \in 0..Bound(step)'
    <3>1. index < initial_command_context_count /\ index \in Nat /\ initial_command_context_count \in Nat  BY <1>3, <1>4, <2>1
    <3>2. index + 1 \in 0..initial_command_context_count  BY <3>1
    <3>3. QED  BY <2>1, <2>2, <3>2
  <2>4. QED  BY <1>2, <1>4, <1>5, <1>7, <2>1, <2>3, TypeFromParts
<1>15. CASE CreatePresentContext
  <2>1. /\ step = "present contexts" /\ index < present_context_count /\ step' = step /\ index' = index + 1
        /\ UNCHANGED <<error, values, selected>>
    BY <1>15 DEF CreatePresentContext
  <2>2. Bound(step)' = present_context_count  BY <1>7, <2>1 DEF Bound
  <2>3. index' \in 0..Bound(step)'
    <3>1. index < present_context_count /\ index \in Nat /\ present_context_count \in Nat  BY <1>3, <1>4, <2>1
    <3>2. index + 1 \in 0..present_context_count  BY <3>1
    <3>3. QED  BY <2>1, <2>2, <3>2
  <2>4. QED  BY <1>2, <1>4, <1>5, <1>7, <2>1, <2>3, TypeFromParts
<1>16. CASE \E count \in 0..MaxImages : CreateSwapchain(count)
  BY <1>4, <1>5, <1>8, <1>16 DEF CreateSwapchain
<1>17. CASE CreationFails
  <2>1. PICK e \in Errors :
          \/ LoaderFails(e) \/ StepFails(e)
          \/ \E pool \in BOOLEAN : GrowContextsFails(e, pool)
          \/ \E made \in 0..2 : CreatePresentContextFails(e, made)
          \/ CreateSwapchainFails(e, FALSE, 0)
          \/ \E made \in 0..(MaxImages - 1) : CreateSwapchainFails(e, TRUE, made)
    BY <1>17 DEF CreationFails
  <2>2. /\ step' \in {"returned", "drain"} /\ index' = 0 /\ error' = e /\ UNCHANGED selected
        /\ values' \in {values, [submitted |-> 0, completed |-> 0]}
    BY <2>1 DEF LoaderFails, StepFails, GrowContextsFails, CreatePresentContextFails, CreateSwapchainFails
  <2>3. values' \in [submitted : 0..MaxSubmissions, completed : 0..MaxSubmissions]  BY <1>5, <2>2
  <2>4. QED  BY <1>8, <2>2, <2>3
<1>18. CASE GrowPool \/ Submit
  <2>1. /\ UNCHANGED <<step, index, selected, error>>
        /\ values' \in {values} \cup {[values EXCEPT !.submitted = @ + 1]}
        /\ values' # values => values.submitted < MaxSubmissions
    BY <1>18 DEF GrowPool, Submit
  <2>2. values' \in [submitted : 0..MaxSubmissions, completed : 0..MaxSubmissions]  BY <1>5, <2>1
  <2>3. index' \in 0..Bound(step)'
    <3>1. Bound(step)' = Bound(step)  BY <1>7, <2>1 DEF Bound
    <3>2. QED  BY <1>4, <2>1, <3>1
  <2>4. QED  BY <1>2, <1>4, <1>5, <1>7, <2>1, <2>2, <2>3, TypeFromParts
<1>19. CASE destroy_device
  BY <1>4, <1>5, <1>8, <1>19 DEF destroy_device
<1>20. CASE DeleteDevice
  <2>1. CASE DestroyPresentContext
    <3>1. /\ step = "destroy present contexts" /\ index < present_context_count /\ step' = step /\ index' = index + 1
          /\ UNCHANGED <<error, values, selected>>
      BY <2>1 DEF DestroyPresentContext, Destroyed
    <3>2. Bound(step)' = present_context_count  BY <1>7, <3>1 DEF Bound
    <3>3. index' \in 0..Bound(step)'
      <4>1. index < present_context_count /\ index \in Nat /\ present_context_count \in Nat  BY <1>3, <1>4, <3>1
      <4>2. index + 1 \in 0..present_context_count  BY <4>1
      <4>3. QED  BY <3>1, <3>2, <4>2
    <3>4. QED  BY <1>2, <1>4, <1>5, <1>7, <3>1, <3>3, TypeFromParts
  <2>2. CASE ~DestroyPresentContext
    <3>1. /\ step' \in Deleting /\ index' = 0 /\ UNCHANGED <<selected, error>>
          /\ \/ values' = values
             \/ values' = [submitted |-> 0, completed |-> 0]
             \/ values' = [values EXCEPT !.completed = values.submitted]
      BY <1>20, <2>2 DEF DeleteDevice, DrainContexts, DestroyOwnedSwapchain, DestroyCommandContexts,
         PresentContextsDestroyed, DestroyLogicalDevice, DestroySurface, DestroyMessenger, DestroyInstance,
         Destroy, Destroyed, AfterDevice
    <3>2. values' \in [submitted : 0..MaxSubmissions, completed : 0..MaxSubmissions]  BY <1>5, <3>1
    <3>3. QED  BY <1>4, <1>5, <1>8, <3>1, <3>2
  <2>3. QED  BY <2>1, <2>2
<1>21. CASE UNCHANGED vars
  <2>1. UNCHANGED <<step, index, selected, error, values>>  BY <1>21 DEF vars
  <2>2. index' \in 0..Bound(step)'
    <3>1. Bound(step)' = Bound(step)  BY <1>7, <2>1 DEF Bound
    <3>2. QED  BY <1>4, <2>1, <3>1
  <2>3. QED  BY <1>2, <1>4, <1>5, <1>7, <2>1, <2>2, TypeFromParts
<1>22. QED
  BY <1>9, <1>10, <1>11, <1>12, <1>13, <1>14, <1>15, <1>16, <1>17, <1>18, <1>19, <1>20, <1>21
     DEF Next, CreateDevice, UseDevice, Finished

(* The parts of the invariant are what the properties say.                 *)
LEMMA InventoryKept ==
  ASSUME Inventory, handles = exists, index \in Nat, [Next]_vars
  PROVE  Inventory' /\ handles' = exists'
<1>1. PICK S \in SUBSET Singles, m \in Nat, P \in SUBSET (0..(present_context_count - 1)), n \in 0..MaxImages :
        /\ exists = Objects(S, m, P, n)
        /\ contexts = [k \in 1..m |-> Pool(k)]
        /\ Stage(S, m, P, n)
  BY DEF Inventory
<1>2. ASSUME Stage(S, m, P, n)', UNCHANGED <<exists, handles, contexts, platform>>
      PROVE  Inventory' /\ handles' = exists'
  <2>1. UNCHANGED present_context_count  BY <1>2, PlatformKept
  <2>2. QED  BY <1>1, <1>2, <2>1 DEF Inventory
<1>3. CASE \/ LoaderSuffices \/ SelectMemory \/ LoadFunctions
           \/ CheckExtensions /\ ExtensionsSuffice
           \/ InspectCandidate
           \/ InspectionEnds /\ selected # 0
           \/ ContextsCreated \/ PresentContextsCreated
           \/ Submit \/ destroy_device
           \/ DrainContexts \/ PresentContextsDestroyed
  <2>1. Stage(S, m, P, n)'  BY <1>1, <1>3, ContinuingStages
  <2>2. UNCHANGED <<exists, handles, contexts, platform>>
    BY <1>3, NamedBy
       DEF LoaderSuffices, SelectMemory, LoadFunctions, CheckExtensions, InspectCandidate, InspectionEnds,
           ContextsCreated, PresentContextsCreated, Submit, destroy_device, DrainContexts,
           PresentContextsDestroyed, Destroy, Destroyed, NothingCreated, Kept
  <2>3. QED  BY <1>2, <2>1, <2>2
<1>4. CASE \/ CreateInstance \/ CreateMessenger \/ CreateSurface \/ CreateLogicalDevice \/ CreateRetirement
           \/ GrowContexts \/ CreatePresentContext
           \/ \E count \in 0..MaxImages : CreateSwapchain(count)
           \/ GrowPool
  <2>1. Inventory'  BY <1>4, CreatingStages
  <2>2. handles' = exists'
    BY <1>4 DEF CreateInstance, CreateMessenger, CreateSurface, CreateLogicalDevice, CreateRetirement,
                GrowContexts, CreatePresentContext, CreateSwapchain, GrowPool, Created
  <2>3. QED  BY <2>1, <2>2
<1>5. CASE Fails
  <2>1. Stage(S, m, P, n)'  BY <1>1, <1>5, FailingStages
  <2>2. UNCHANGED <<exists, handles, contexts, platform>>  BY <1>5, FailureLeavesObjects
  <2>3. QED  BY <1>2, <2>1, <2>2
<1>6. CASE \E e \in Errors : LoaderFails(e)
  <2>1. PICK e \in Errors : LoaderFails(e)  BY <1>6
  <2>2. Stage(S, m, P, n)'  BY <1>1, <2>1, LoaderFailsStage
  <2>3. UNCHANGED <<exists, handles, contexts, platform>>  BY <2>1 DEF LoaderFails, NothingCreated, Kept
  <2>4. QED  BY <1>2, <2>2, <2>3
<1>7. CASE \/ \E e \in Errors, pool \in BOOLEAN : GrowContextsFails(e, pool)
           \/ DestroyOwnedSwapchain \/ DestroyCommandContexts \/ DestroyPresentContext
           \/ DestroyLogicalDevice \/ DestroySurface \/ DestroyMessenger \/ DestroyInstance
  BY <1>7, DestroyingStages
<1>8. CASE UNCHANGED vars
  <2>1. UNCHANGED <<platform, exists, step, index, handles, contexts, swapchain, error>>
    BY <1>8 DEF vars
  <2>2. UNCHANGED <<debug_utils, presentation, present_context_count, Offscreen, Platform, OnDevice, WithContexts>>
    BY <2>1, PlatformKept
  <2>3. Stage(S, m, P, n)'
    <3>1. FromDevice(S, m, P, n)'  BY <1>1, <2>1, <2>2 DEF Stage, FromDevice
    <3>2. Creating(S, m, P, n)'
      <4>1. Creating(S, m, P, n)  BY <1>1 DEF Stage
      <4>2. /\ step' = step /\ index' = index /\ swapchain' = swapchain /\ error' = error
            /\ debug_utils' = debug_utils /\ presentation' = presentation
            /\ present_context_count' = present_context_count
            /\ Offscreen' = Offscreen /\ Platform' = Platform /\ OnDevice' = OnDevice
            /\ WithContexts' = WithContexts
        BY <2>1, <2>2
      <4>3. /\ step' \in {"loader", "extensions", "instance"} => S = {}
            /\ step' = "messenger" => S = {Instance} /\ debug_utils'
            /\ step' = "surface" => S = Offscreen'
            /\ step' \in {"inspect", "device"} => S = Platform'
            /\ step' \in {"memory", "functions", "retirement"} => S = OnDevice'
            /\ step' \in {"contexts", "present contexts", "swapchain"} => S = WithContexts'
        BY ONLY <4>1, <4>2 DEF Creating
      <4>4. /\ step' \in Steps \ {"contexts", "present contexts", "swapchain", "returned"} => m = 0
            /\ step' = "contexts" => m = index'
            /\ step' \in {"present contexts", "swapchain"} => m = initial_command_context_count
            /\ step' \in Steps \ {"returned"} => n = 0 /\ ~swapchain' /\ error' = "none"
        BY ONLY <4>1, <4>2 DEF Creating
      <4>5. /\ step' \in Steps \ {"present contexts", "swapchain", "returned"} => P = {}
            /\ step' = "present contexts" => P = 0..(index' - 1)
            /\ step' = "swapchain" => P = 0..(present_context_count' - 1) /\ presentation'
        BY ONLY <4>1, <4>2 DEF Creating
      <4>6. QED  BY ONLY <4>3, <4>4, <4>5 DEF Creating
    <3>3. Returned(S, m, P, n)'  BY <1>1, <2>1, <2>2 DEF Stage, Returned, UsesDevice
    <3>4. Remaining(S, m, P, n)'  BY <1>1, <2>1, <2>2 DEF Stage, Remaining
    <3>5. QED  BY <3>1, <3>2, <3>3, <3>4 DEF Stage
  <2>4. QED  BY <1>2, <2>1, <2>3
<1>9. CASE CreationFails
  <2>1. PICK e \in Errors :
          \/ LoaderFails(e) \/ StepFails(e)
          \/ \E pool \in BOOLEAN : GrowContextsFails(e, pool)
          \/ \E made \in 0..2 : CreatePresentContextFails(e, made)
          \/ CreateSwapchainFails(e, FALSE, 0)
          \/ \E made \in 0..(MaxImages - 1) : CreateSwapchainFails(e, TRUE, made)
    BY <1>9 DEF CreationFails
  <2>2. CASE LoaderFails(e)  BY <1>6, <2>2
  <2>3. CASE \E pool \in BOOLEAN : GrowContextsFails(e, pool)  BY <1>7, <2>3
  <2>4. CASE ~LoaderFails(e) /\ ~\E pool \in BOOLEAN : GrowContextsFails(e, pool)
    BY <1>5, <2>1, <2>4 DEF Fails
  <2>5. QED  BY <2>2, <2>3, <2>4
<1>10. CASE CreateDevice
  <2>1. CASE CheckExtensions \/ InspectionEnds \/ InspectionFails  BY <1>3, <1>5, <2>1 DEF Fails
  <2>2. CASE \/ LoaderSuffices \/ InspectCandidate \/ SelectMemory \/ LoadFunctions
             \/ ContextsCreated \/ PresentContextsCreated
    BY <1>3, <2>2
  <2>3. CASE \/ CreateInstance \/ CreateMessenger \/ CreateSurface \/ CreateLogicalDevice \/ CreateRetirement
             \/ GrowContexts \/ CreatePresentContext
             \/ \E count \in 0..MaxImages : CreateSwapchain(count)
    BY <1>4, <2>3
  <2>4. QED  BY <1>10, <2>1, <2>2, <2>3 DEF CreateDevice
<1>11. CASE UseDevice  BY <1>3, <1>4, <1>11 DEF UseDevice
<1>12. CASE DeleteDevice  BY <1>3, <1>7, <1>12 DEF DeleteDevice
<1>13. QED  BY <1>8, <1>9, <1>10, <1>11, <1>12 DEF Next, Finished

LEMMA InitBooks ==
  ASSUME Init
  PROVE  Books
<1> 0 \in 0..MaxImages /\ 0 \in Nat /\ 0 \in 0..MaxSubmissions /\ 0 \in 0..Len(gpus)
  <2>1. gpus \in Seq(PhysicalDevice)  BY InstallationsAssumption DEF Init
  <2>2. QED  BY <2>1, Numbers
<1>1. TypeOK  BY DEF Init, TypeOK, Steps
<1>2. exists = Objects({}, 0, {}, 0)  BY Growing DEF Init, Objects
<1>3. contexts = [k \in 1..0 |-> Pool(k)]  BY DEF Init
<1>4. Stage({}, 0, {}, 0)
  BY DEF Init, Stage, FromDevice, Creating, Returned, Remaining, UsesDevice, Steps, Deleting
<1>5. Inventory  BY <1>2, <1>3, <1>4 DEF Inventory
<1>6. QED  BY <1>1, <1>5 DEF Books, Init

Flags == presentation \in BOOLEAN /\ debug_utils \in BOOLEAN /\ swapchain \in BOOLEAN

LEMMA FlagsKept ==
  ASSUME Flags, [Next]_vars
  PROVE  Flags'
<1>1. UNCHANGED <<presentation, debug_utils>> /\ swapchain' \in {swapchain, TRUE, swapchain /\ LogicalDevice \notin handles}
  BY DEF Next, CreateDevice, CreationFails, UseDevice, DeleteDevice, Finished, vars, platform,
         LoaderSuffices, CheckExtensions, CreateInstance, CreateMessenger, CreateSurface, InspectCandidate,
         InspectionFails, InspectionEnds, CreateLogicalDevice, SelectMemory, LoadFunctions, CreateRetirement,
         GrowContexts, ContextsCreated, CreatePresentContext, PresentContextsCreated, CreateSwapchain,
         LoaderFails, StepFails, GrowContextsFails, CreatePresentContextFails, CreateSwapchainFails,
         GrowPool, Submit, destroy_device, DrainContexts, DestroyOwnedSwapchain, DestroyCommandContexts,
         DestroyPresentContext, PresentContextsDestroyed, DestroyLogicalDevice, DestroySurface,
         DestroyMessenger, DestroyInstance, Destroy, Destroyed, Kept
<1>2. QED  BY <1>1 DEF Flags

LEMMA BooksBalance ==
  ASSUME Books
  PROVE  HandlesAreExact
<1>1. PICK S \in SUBSET Singles, m \in Nat, P \in SUBSET (0..(present_context_count - 1)), n \in 0..MaxImages :
        /\ exists = Objects(S, m, P, n)
        /\ contexts = [k \in 1..m |-> Pool(k)]
        /\ FromDevice(S, m, P, n)
  BY DEF Books, Inventory, Stage
<1> n \in Nat  BY Numbers
<1>2. OfKind(exists, "command_pool") = Pools(m)
  <2>1. OfKind(Objects(S, m, P, n), "command_pool") = Pools(m)  BY KindsAmong
  <2>2. QED  BY <1>1, <2>1, Zenon
<1>3. ToSet(contexts) = Pools(m)  BY <1>1, PoolsOnce
<1>4. OfKind(exists, "swapchain") = S \cap {Swapchain}
  <2>1. OfKind(Objects(S, m, P, n), "swapchain") = S \cap {Swapchain}  BY SwapchainAmong
  <2>2. QED  BY <1>1, <2>1, Zenon
<1>5. OfKind(exists, "swapchain") # {} => swapchain  BY <1>1, <1>4 DEF FromDevice
<1>6. ToSet(contexts) = OfKind(exists, "command_pool")  BY <1>2, <1>3
<1>7. QED  BY <1>5, <1>6 DEF HandlesAreExact, Books

LEMMA DeviceOrNothing ==
  ASSUME Books, Flags, SelectsDiscreteFirst, EnablesOnlyWhatIsOffered
  PROVE  ReturnsDeviceOrNothing
<1>1. PICK S \in SUBSET Singles, m \in Nat, P \in SUBSET (0..(present_context_count - 1)), n \in 0..MaxImages :
        /\ exists = Objects(S, m, P, n)
        /\ contexts = [k \in 1..m |-> Pool(k)]
        /\ Stage(S, m, P, n)
  BY DEF Books, Inventory
<1> n \in Nat  BY Numbers
<1>2. \A o \in Singles : o \in exists <=> o \in S  BY <1>1, SinglesAmong
<1>3. {Instance, Messenger, Surface, LogicalDevice, Retirement, Swapchain} = Singles  BY DEF Singles
<1>4. ASSUME UsesDevice
      PROVE  /\ {Instance, LogicalDevice, Retirement} \subseteq exists
             /\ (Surface \in exists) = presentation /\ (Messenger \in exists) = debug_utils
             /\ swapchain = presentation
             /\ Len(contexts) >= initial_command_context_count
             /\ Cardinality(OfKind(exists, "presented")) = present_context_count
  <2>1. /\ S \ {Swapchain} = WithContexts /\ m >= initial_command_context_count
        /\ P = 0..(present_context_count - 1) /\ (swapchain <=> presentation)
    BY <1>1, <1>4 DEF Stage, Returned
  <2>2. /\ {Instance, LogicalDevice, Retirement} \subseteq WithContexts
        /\ Surface \in WithContexts <=> presentation
        /\ Messenger \in WithContexts <=> debug_utils
    <3>1. Messenger \notin {Surface, LogicalDevice, Retirement} /\ Surface \notin {LogicalDevice, Retirement}
      BY PlatformObjects DEF Messenger, Surface, Object
    <3>2. QED  BY <3>1, PlatformObjects DEF WithContexts, OnDevice, Platform
  <2>3. Messenger # Swapchain /\ Surface # Swapchain  BY PlatformObjects
  <2>4. {Instance, LogicalDevice, Retirement} \subseteq exists  BY <1>2, <1>3, <2>1, <2>2
  <2>5. Surface \in exists <=> presentation  BY <1>2, <1>3, <2>1, <2>2, <2>3
  <2>6. Messenger \in exists <=> debug_utils  BY <1>2, <1>3, <2>1, <2>2, <2>3
  <2>7. (Surface \in exists) = presentation /\ (Messenger \in exists) = debug_utils /\ swapchain = presentation
    BY <2>1, <2>5, <2>6 DEF Flags
  <2>8. Len(contexts) >= initial_command_context_count  BY <1>1, <2>1
  <2>9. Cardinality(OfKind(exists, "presented")) = present_context_count
    <3>1. OfKind(Objects(S, m, P, n), "presented") = Fences(P)  BY PresentedAmong
    <3>2. OfKind(exists, "presented") = Fences(P)  BY <1>1, <3>1, Zenon
    <3>3. PICK last : last = present_context_count - 1  OBVIOUS
    <3>4. last \in Int /\ 0 \in Int /\ present_context_count \in Nat  BY <3>3, Numbers
    <3>5. Cardinality({Object("presented", c) : c \in 0..last}) = (IF 0 > last THEN 0 ELSE last - 0 + 1)
      BY <3>4, Counted
    <3>6. (IF 0 > last THEN 0 ELSE last - 0 + 1) = present_context_count  BY <3>3, <3>4
    <3>7. P = 0..last  BY <2>1, <3>3
    <3>8. QED  BY <3>2, <3>5, <3>6, <3>7, Zenon DEF Fences
  <2>10. QED  BY <2>4, <2>7, <2>8, <2>9
<1>5. ASSUME Gone
      PROVE  exists = {} /\ contexts = <<>> /\ ~swapchain
  <2>1. S = {} /\ m = 0 /\ P = {}
    <3>1. CASE step = "gone"
      <4>1. /\ Swapchain \notin S /\ m = 0 /\ Retirement \notin S /\ P = {} /\ LogicalDevice \notin S
            /\ Surface \notin S /\ Messenger \notin S /\ Instance \notin S
        BY <1>1, <3>1 DEF Stage, Remaining, Deleting
      <4>2. QED  BY <4>1 DEF Singles
    <3>2. CASE step = "returned" /\ error # "none"
      BY <1>1, <3>2 DEF Stage, Returned
    <3>3. QED  BY <1>5, <3>1, <3>2 DEF Gone
  <2>2. n = 0 /\ ~swapchain  BY <1>1, <2>1 DEF Stage, FromDevice
  <2>3. exists = {}  BY <1>1, <2>1, <2>2, Growing DEF Objects
  <2>4. QED  BY <1>1, <2>1, <2>2, <2>3
<1>6. QED  BY <1>4, <1>5 DEF ReturnsDeviceOrNothing

-----------------------------------------------------------------------------
(* The order of the calls *)

Orderly(s) ==
  \A k \in DOMAIN s :
    LET earlier == {s[j] : j \in 1..(k - 1)}
    IN /\ step \in Deleting => s[k] \in exists
       /\ s[k] \notin earlier
       /\ Children(s[k], exists \ earlier) = {}

Parents == {Instance, Surface, LogicalDevice, Swapchain}

LEMMA ParentsDiffer ==
  /\ Instance # Surface /\ Instance # LogicalDevice /\ Instance # Swapchain
  /\ Surface # LogicalDevice /\ Surface # Swapchain /\ LogicalDevice # Swapchain
BY DEF Instance, Surface, LogicalDevice, Swapchain, Object

LEMMA OthersHaveNoChildren ==
  ASSUME NEW o, o \notin Parents, NEW X
  PROVE  Children(o, X) = {}
BY DEF Children, Parents

LEMMA OnceIsOrderly ==
  ASSUME NEW T, NEW s \in Seq(T), Once(s), step \in Deleting => ToSet(s) \subseteq exists,
         \A k \in DOMAIN s : Children(s[k], exists \ {s[j] : j \in 1..(k - 1)}) = {}
  PROVE  Orderly(s)
<1>1. DOMAIN s = 1..Len(s) /\ Len(s) \in Nat  OBVIOUS
<1>2. ASSUME NEW k \in DOMAIN s
      PROVE  /\ step \in Deleting => s[k] \in exists
             /\ s[k] \notin {s[j] : j \in 1..(k - 1)}
  <2>1. s[k] \in ToSet(s)  BY DEF ToSet
  <2>2. ASSUME NEW j \in 1..(k - 1)  PROVE s[j] # s[k]
    <3>1. j \in DOMAIN s /\ j # k  BY <1>1
    <3>2. QED  BY <3>1 DEF Once
  <2>3. QED  BY <2>1, <2>2
<1>3. QED  BY <1>2 DEF Orderly

LEMMA LeavesAreOrderly ==
  ASSUME NEW T, NEW s \in Seq(T), Once(s), step \in Deleting => ToSet(s) \subseteq exists,
         T \cap Parents = {}
  PROVE  Orderly(s)
<1>1. ASSUME NEW k \in DOMAIN s
      PROVE  Children(s[k], exists \ {s[j] : j \in 1..(k - 1)}) = {}
  <2>1. s[k] \in T  OBVIOUS
  <2>2. s[k] \notin Parents  BY <2>1
  <2>3. QED  BY <2>2, OthersHaveNoChildren
<1>2. QED  BY <1>1, OnceIsOrderly

LEMMA NothingIsOrderly ==  Orderly(<<>>)
BY DEF Orderly

LEMMA HeldIsOrderly ==
  ASSUME NEW o, handles = exists, Children(o, exists) = {}
  PROVE  Orderly(IfHeld(o))
<1>1. CASE o \in handles
  <2>1. IfHeld(o) = <<o>>  BY <1>1 DEF IfHeld
  <2>2. DOMAIN <<o>> = {1} /\ <<o>>[1] = o  OBVIOUS
  <2>3. ASSUME NEW k \in DOMAIN <<o>>
        PROVE  LET earlier == {<<o>>[j] : j \in 1..(k - 1)}
               IN /\ step \in Deleting => <<o>>[k] \in exists
                  /\ <<o>>[k] \notin earlier
                  /\ Children(<<o>>[k], exists \ earlier) = {}
    <3>1. k = 1 /\ {<<o>>[j] : j \in 1..(k - 1)} = {}  BY <2>2
    <3>2. exists \ {} = exists  OBVIOUS
    <3>3. QED  BY <1>1, <2>2, <3>1, <3>2
  <2>4. Orderly(<<o>>)  BY <2>3 DEF Orderly
  <2>5. QED  BY <2>1, <2>4
<1>2. CASE o \notin handles
  <2>1. IfHeld(o) = <<>>  BY <1>2 DEF IfHeld
  <2>2. QED  BY <2>1, NothingIsOrderly
<1>3. QED  BY <1>1, <1>2

(* The views of a swapchain, and then the swapchain.                       *)
LEMMA SwapchainIsOrderly ==
  ASSUME NEW n \in Nat, NEW t \in {<<>>, <<Swapchain>>}, OfKind(exists, "view") \subseteq Images(n),
         step \in Deleting => ToSet(Views(n) \o t) \subseteq exists
  PROVE  Orderly(Views(n) \o t)
<1> DEFINE s == Views(n) \o t
           T == Images(n) \cup {Swapchain}
<1>1. Views(n) \in Seq(Images(n)) /\ Len(Views(n)) = n /\ \A k \in 1..n : Views(n)[k] \in Images(n)
  BY DEF Views, Images
<1>2. Swapchain \notin Images(n)  BY Apart DEF Singles
<1>3. Views(n) \in Seq(T) /\ t \in Seq(T)
  <2>1. Views(n) \in Seq(T)  BY <1>1
  <2>2. <<>> \in Seq(T) /\ <<Swapchain>> \in Seq(T)  OBVIOUS
  <2>3. QED  BY <2>1, <2>2
<1>4. s \in Seq(T)  BY <1>3
<1>5. Once(s)
  <2>1. CASE t = <<Swapchain>>  BY <1>2, <2>1, ImagesCalls
  <2>2. CASE t = <<>>
    <3>1. s = Views(n)  BY <1>1, <2>2
    <3>2. QED  BY <3>1, ImagesCalls
  <2>3. QED  BY <2>1, <2>2
<1>6. ASSUME NEW k \in DOMAIN s
      PROVE  Children(s[k], exists \ {s[j] : j \in 1..(k - 1)}) = {}
  <2>1. CASE k \in 1..n
    <3>1. s[k] = Views(n)[k]  BY <1>1, <1>3, <2>1
    <3>2. s[k] \in Images(n)  BY <1>1, <2>1, <3>1
    <3>3. s[k] \notin Parents  BY <3>2, Apart DEF Parents, Singles
    <3>4. QED  BY <3>3, OthersHaveNoChildren
  <2>2. CASE k \notin 1..n
    <3>1. t = <<Swapchain>> /\ k = n + 1 /\ s[k] = Swapchain
      <4>1. Len(t) \in {0, 1} /\ (Len(t) = 1 => t = <<Swapchain>>)  OBVIOUS
      <4>2. DOMAIN s = 1..(n + Len(t))  BY <1>1, <1>3
      <4>3. k = n + 1 /\ Len(t) = 1
        <5>1. k \in 1..(n + Len(t))  BY <4>2
        <5>2. CASE Len(t) = 0  BY <2>2, <5>1, <5>2
        <5>3. CASE Len(t) = 1  BY <2>2, <5>1, <5>3
        <5>4. QED  BY <4>1, <5>2, <5>3
      <4>4. s[k] = t[1]  BY <1>1, <1>3, <4>3
      <4>5. QED  BY <4>1, <4>3, <4>4
    <3>2. \A j \in 1..n : s[j] = Object("view", j)
      <4>1. \A j \in 1..n : s[j] = Views(n)[j]  BY <1>1, <1>3
      <4>2. QED  BY <4>1 DEF Views
    <3>3. Images(n) \subseteq {s[j] : j \in 1..(k - 1)}
      <4>1. \A j \in 1..n : j \in 1..(k - 1)  BY <3>1
      <4>2. QED  BY <3>2, <4>1 DEF Images
    <3>4. OfKind(exists \ {s[j] : j \in 1..(k - 1)}, "view") = {}  BY <3>3 DEF OfKind
    <3>5. Children(Swapchain, exists \ {s[j] : j \in 1..(k - 1)}) = OfKind(exists \ {s[j] : j \in 1..(k - 1)}, "view")
      BY ParentsDiffer DEF Children
    <3>6. QED  BY <3>1, <3>4, <3>5
  <2>3. QED  BY <2>1, <2>2
<1> HIDE DEF s
<1>7. QED  BY <1>4, <1>5, <1>6, OnceIsOrderly DEF s

LEMMA FailedCallsOrderly ==
  ASSUME Books, CreationFails
  PROVE  Orderly(calls')
<1>1. PICK S \in SUBSET Singles, m \in Nat, P \in SUBSET (0..(present_context_count - 1)), n \in 0..MaxImages :
        /\ exists = Objects(S, m, P, n)
        /\ contexts = [k \in 1..m |-> Pool(k)]
        /\ Stage(S, m, P, n)
  BY DEF Books, Inventory
<1> n \in Nat  BY Numbers
<1>2. PICK e \in Errors :
        \/ LoaderFails(e) \/ StepFails(e)
        \/ \E pool \in BOOLEAN : GrowContextsFails(e, pool)
        \/ \E made \in 0..2 : CreatePresentContextFails(e, made)
        \/ CreateSwapchainFails(e, FALSE, 0)
        \/ \E made \in 0..(MaxImages - 1) : CreateSwapchainFails(e, TRUE, made)
  BY DEF CreationFails
<1>3. CASE LoaderFails(e) \/ StepFails(e)
  <2>1. calls' = <<>>  BY <1>3 DEF LoaderFails, StepFails, NothingCreated
  <2>2. QED  BY <2>1, NothingIsOrderly
<1>4. CASE \E pool \in BOOLEAN : GrowContextsFails(e, pool)
  <2>1. PICK pool \in BOOLEAN : GrowContextsFails(e, pool)  BY <1>4
  <2>2. step = "contexts" /\ calls' = CommandBufferCalls(pool) \o ContextCalls
    BY <2>1 DEF GrowContextsFails, Fail
  <2> DEFINE T == Pools(m) \cup {Pool(m + 1), Retirement}
             made == CommandBufferCalls(pool)
  <2>3. Len(contexts) = m  BY <1>1
  <2>4. made \in {<<>>, <<Pool(m + 1)>>}  BY <2>3 DEF CommandBufferCalls
  <2>5. made \in Seq(T) /\ ToSet(made) \subseteq {Pool(m + 1)} /\ Once(made)
    <3>1. <<>> \in Seq(T) /\ ToSet(<<>>) = {} /\ Once(<<>>)  BY NamedBy DEF Once
    <3>2. <<Pool(m + 1)>> \in Seq(T) /\ ToSet(<<Pool(m + 1)>>) = {Pool(m + 1)} /\ Once(<<Pool(m + 1)>>)
      BY NamedBy DEF Once
    <3>3. QED  BY <2>4, <3>1, <3>2
  <2>6. /\ ContextCalls \in Seq(Pools(m) \cup {Retirement}) /\ Once(ContextCalls)
        /\ ToSet(ContextCalls) \subseteq Pools(m) \cup {Retirement}
    BY <1>1, ContextsCalls
  <2>7. Pool(m + 1) \notin Pools(m) /\ Pool(m + 1) # Retirement
    BY DEF Pools, Pool, Retirement, Object
  <2>8. T \cap Parents = {}
    <3>1. Pool(m + 1) \notin Parents  BY DEF Pool, Object, Parents, Instance, Surface, LogicalDevice, Swapchain
    <3>2. \A o \in Pools(m) : o \notin Parents  BY Apart DEF Parents, Singles
    <3>3. Retirement \notin Parents  BY PlatformObjects DEF Parents
    <3>4. QED  BY <3>1, <3>2, <3>3
  <2>9. ContextCalls \in Seq(T)  BY <2>6
  <2>10. ToSet(made) \cap ToSet(ContextCalls) = {}  BY <2>5, <2>6, <2>7
  <2> HIDE DEF T, made
  <2>11. Once(made \o ContextCalls)  BY <2>5, <2>6, <2>9, <2>10, OnceBoth
  <2>12. made \o ContextCalls \in Seq(T)  BY <2>5, <2>9
  <2>13. step \notin Deleting  BY <2>2 DEF Deleting
  <2>14. Orderly(made \o ContextCalls)  BY <2>8, <2>11, <2>12, <2>13, LeavesAreOrderly
  <2>15. QED  BY <2>2, <2>14 DEF made
<1>5. CASE \E made \in 0..2 : CreatePresentContextFails(e, made)
  <2>1. PICK made \in 0..2 : CreatePresentContextFails(e, made)  BY <1>5
  <2>2. step = "present contexts" /\ calls' = SubSeq(PresentObjects(index), 1, made)
    BY <2>1 DEF CreatePresentContextFails, Fail
  <2> DEFINE s == SubSeq(PresentObjects(index), 1, made)
             T == Signals({index})
  <2>3. /\ PresentObjects(index) \in Seq(T) /\ Len(PresentObjects(index)) = 3
        /\ PresentObjects(index)[1] = Object("acquired", index)
        /\ PresentObjects(index)[2] = Object("rendered", index)
    BY DEF PresentObjects, Signals
  <2>4. made \in {0, 1, 2}  BY <2>1
  <2>5. s \in Seq(T) /\ DOMAIN s = 1..made /\ \A k \in 1..made : s[k] = PresentObjects(index)[k]
    BY <2>3, <2>4
  <2>6. Once(s)
    <3>1. Object("acquired", index) # Object("rendered", index)  BY DEF Object
    <3>2. \A k \in 1..made : (k = 1 /\ s[k] = Object("acquired", index)) \/ (k = 2 /\ s[k] = Object("rendered", index))
      BY <2>3, <2>4, <2>5
    <3> HIDE DEF s
    <3>3. QED  BY <2>5, <3>1, <3>2 DEF Once
  <2>7. T \cap Parents = {}  BY Apart DEF Parents, Singles
  <2>8. step \notin Deleting  BY <2>2 DEF Deleting
  <2> HIDE DEF s, T
  <2>9. Orderly(s)  BY <2>5, <2>6, <2>7, <2>8, LeavesAreOrderly
  <2>10. QED  BY <2>2, <2>9 DEF s
<1>6. CASE CreateSwapchainFails(e, FALSE, 0)
  <2>1. calls' = <<>>  BY <1>6 DEF CreateSwapchainFails
  <2>2. QED  BY <2>1, NothingIsOrderly
<1>7. CASE \E made \in 0..(MaxImages - 1) : CreateSwapchainFails(e, TRUE, made)
  <2>1. PICK made \in 0..(MaxImages - 1) : CreateSwapchainFails(e, TRUE, made)  BY <1>7
  <2>2. step = "swapchain" /\ calls' = Views(made) \o <<Swapchain>>
    BY <2>1 DEF CreateSwapchainFails, Fail, SwapchainCalls
  <2>3. made \in Nat  OBVIOUS
  <2>4. n = 0  BY <1>1, <2>2 DEF Stage, Creating, Steps
  <2>5. OfKind(exists, "view") \subseteq Images(made)
    <3>1. OfKind(Objects(S, m, P, n), "view") = Images(n)  BY KindsAmong
    <3>2. OfKind(exists, "view") = Images(n)  BY <1>1, <3>1, Zenon
    <3>3. Images(n) = {}  BY <2>4, Growing
    <3>4. QED  BY <3>2, <3>3
  <2>6. step \notin Deleting  BY <2>2 DEF Deleting
  <2>7. Orderly(Views(made) \o <<Swapchain>>)  BY <2>3, <2>5, <2>6, SwapchainIsOrderly
  <2>8. QED  BY <2>2, <2>7
<1>8. QED  BY <1>2, <1>3, <1>4, <1>5, <1>6, <1>7

LEMMA DeletionOrderly ==
  ASSUME Books, DeleteDevice
  PROVE  Orderly(calls')
<1>1. PICK S \in SUBSET Singles, m \in Nat, P \in SUBSET (0..(present_context_count - 1)), n \in 0..MaxImages :
        /\ exists = Objects(S, m, P, n)
        /\ contexts = [k \in 1..m |-> Pool(k)]
        /\ Stage(S, m, P, n)
  BY DEF Books, Inventory
<1> n \in Nat  BY Numbers
<1>2. handles = exists /\ FromDevice(S, m, P, n)  BY <1>1 DEF Books, Stage
<1>3. \A o \in Singles : o \in exists <=> o \in S  BY <1>1, SinglesAmong
<1>4. CASE DrainContexts \/ PresentContextsDestroyed
  <2>1. calls' = <<>>  BY <1>4 DEF DrainContexts, PresentContextsDestroyed, Destroy, Destroyed
  <2>2. QED  BY <2>1, NothingIsOrderly
<1>5. CASE DestroyOwnedSwapchain
  <2>1. calls' = IF LogicalDevice \in handles THEN Views(Cardinality(OfKind(handles, "view"))) \o IfHeld(Swapchain)
                 ELSE <<>>
    BY <1>5 DEF DestroyOwnedSwapchain, Destroy, Destroyed
  <2>2. CASE LogicalDevice \in handles
    <3>1. calls' = Views(n) \o IfHeld(Swapchain)  BY <1>1, <1>2, <2>1, <2>2, ViewsHeld
    <3>2. OfKind(exists, "view") \subseteq Images(n)
      <4>1. OfKind(Objects(S, m, P, n), "view") = Images(n)  BY KindsAmong
      <4>2. OfKind(exists, "view") = Images(n)  BY <1>1, <4>1, Zenon
      <4>3. QED  BY <4>2
    <3>3. IfHeld(Swapchain) \in {<<>>, <<Swapchain>>}  BY DEF IfHeld
    <3>4. ToSet(Views(n) \o IfHeld(Swapchain)) \subseteq exists
      <4>1. ToSet(Views(n) \o IfHeld(Swapchain)) = Images(n) \cup (exists \cap {Swapchain})  BY <1>2, ImagesCalls
      <4>2. Images(n) \subseteq exists  BY <1>1 DEF Objects
      <4>3. QED  BY <4>1, <4>2
    <3>5. Orderly(Views(n) \o IfHeld(Swapchain))  BY <3>2, <3>3, <3>4, SwapchainIsOrderly
    <3>6. QED  BY <3>1, <3>5
  <2>3. CASE LogicalDevice \notin handles  BY <2>1, <2>3, NothingIsOrderly
  <2>4. QED  BY <2>2, <2>3
<1>6. CASE DestroyCommandContexts
  <2>1. calls' = ContextCalls  BY <1>6 DEF DestroyCommandContexts, Destroy, Destroyed
  <2> DEFINE T == Pools(m) \cup {Retirement}
  <2>2. /\ ContextCalls \in Seq(T) /\ Once(ContextCalls)
        /\ ToSet(ContextCalls) = Pools(m) \cup (handles \cap {Retirement})
    BY <1>1, ContextsCalls
  <2>3. ToSet(ContextCalls) \subseteq exists
    <3>1. Pools(m) \subseteq exists  BY <1>1 DEF Objects
    <3>2. QED  BY <1>2, <2>2, <3>1
  <2>4. T \cap Parents = {}
    <3>1. \A o \in Pools(m) : o \notin Parents  BY Apart DEF Parents, Singles
    <3>2. Retirement \notin Parents  BY PlatformObjects DEF Parents
    <3>3. QED  BY <3>1, <3>2
  <2> HIDE DEF T
  <2>5. Orderly(ContextCalls)  BY <2>2, <2>3, <2>4, LeavesAreOrderly
  <2>6. QED  BY <2>1, <2>5
<1>7. CASE DestroyPresentContext
  <2>1. calls' = PresentCalls(index)  BY <1>7 DEF DestroyPresentContext, Destroyed
  <2>2. ToSet(PresentCalls(index)) = handles \cap Signals({index}) /\ Once(PresentCalls(index))
    BY PresentContextCalls
  <2> DEFINE T == ToSet(PresentCalls(index))
  <2>3. PresentCalls(index) \in Seq(T)
    <3>1. PresentCalls(index) \in Seq(handles)
      <4>1. \A o : IfHeld(o) \in Seq(handles)  BY HeldCalls
      <4>2. QED  BY <4>1 DEF PresentCalls
    <3>2. QED  BY <3>1 DEF ToSet
  <2>4. T \cap Parents = {}
    <3>1. \A o \in Signals({index}) : o \notin Parents  BY Apart DEF Parents, Singles
    <3>2. QED  BY <2>2, <3>1
  <2>5. T \subseteq exists  BY <1>2, <2>2
  <2>6. Orderly(PresentCalls(index))  BY <2>2, <2>3, <2>4, <2>5, LeavesAreOrderly
  <2>7. QED  BY <2>1, <2>6
<1>8. CASE DestroyLogicalDevice
  <2>1. step = "destroy device" /\ calls' = IfHeld(LogicalDevice)
    BY <1>8 DEF DestroyLogicalDevice, Destroy, Destroyed
  <2>2. /\ Swapchain \notin S /\ m = 0 /\ Retirement \notin S /\ P = {}
    BY <1>1, <2>1 DEF Stage, Remaining, Deleting
  <2>3. n = 0  BY <1>2, <2>2 DEF FromDevice
  <2>4. exists \subseteq {LogicalDevice, Instance, Messenger, Surface}
    BY <1>1, <2>2, <2>3, Growing DEF Objects, Singles
  <2>5. Children(LogicalDevice, exists) = exists \ {LogicalDevice, Instance, Messenger, Surface}
    BY ParentsDiffer DEF Children
  <2>6. Children(LogicalDevice, exists) = {}  BY <2>4, <2>5
  <2>7. Orderly(IfHeld(LogicalDevice))  BY <1>2, <2>6, HeldIsOrderly
  <2>8. QED  BY <2>1, <2>7
<1>9. CASE DestroySurface
  <2>1. step = "destroy surface" /\ calls' = IfHeld(Surface)  BY <1>9 DEF DestroySurface, Destroy, Destroyed
  <2>2. Swapchain \notin S  BY <1>1, <2>1 DEF Stage, Remaining, Deleting
  <2>3. Swapchain \notin exists  BY <1>3, <2>2 DEF Singles
  <2>4. Children(Surface, exists) = exists \cap {Swapchain}
    BY ParentsDiffer DEF Children
  <2>5. Children(Surface, exists) = {}  BY <2>3, <2>4
  <2>6. Orderly(IfHeld(Surface))  BY <1>2, <2>5, HeldIsOrderly
  <2>7. QED  BY <2>1, <2>6
<1>10. CASE DestroyMessenger
  <2>1. calls' = IfHeld(Messenger)  BY <1>10 DEF DestroyMessenger, Destroy, Destroyed
  <2>2. Messenger \notin Parents
    BY DEF Parents, Messenger, Instance, Surface, LogicalDevice, Swapchain, Object
  <2>3. Children(Messenger, exists) = {}  BY <2>2, OthersHaveNoChildren
  <2>4. Orderly(IfHeld(Messenger))  BY <1>2, <2>3, HeldIsOrderly
  <2>5. QED  BY <2>1, <2>4
<1>11. CASE DestroyInstance
  <2>1. step = "destroy instance" /\ calls' = IfHeld(Instance)  BY <1>11 DEF DestroyInstance, Destroy, Destroyed
  <2>2. /\ Swapchain \notin S /\ m = 0 /\ Retirement \notin S /\ P = {} /\ LogicalDevice \notin S
        /\ Surface \notin S /\ Messenger \notin S
    BY <1>1, <2>1 DEF Stage, Remaining, Deleting
  <2>3. n = 0  BY <1>2, <2>2 DEF FromDevice
  <2>4. exists \subseteq {Instance}  BY <1>1, <2>2, <2>3, Growing DEF Objects, Singles
  <2>5. Children(Instance, exists) = exists \ {Instance}  BY ParentsDiffer DEF Children
  <2>6. Children(Instance, exists) = {}  BY <2>4, <2>5
  <2>7. Orderly(IfHeld(Instance))  BY <1>2, <2>6, HeldIsOrderly
  <2>8. QED  BY <2>1, <2>7
<1>12. QED  BY <1>4, <1>5, <1>6, <1>7, <1>8, <1>9, <1>10, <1>11 DEF DeleteDevice

LEMMA StepsAreOrderly ==
  ASSUME Books, Next
  PROVE  Orderly(calls') \/ UNCHANGED vars
<1>1. CASE CreateDevice \/ UseDevice
  <2>1. calls' = <<>>
    BY <1>1 DEF CreateDevice, UseDevice, LoaderSuffices, CheckExtensions, CreateInstance, CreateMessenger,
         CreateSurface, InspectCandidate, InspectionFails, InspectionEnds, CreateLogicalDevice, SelectMemory,
         LoadFunctions, CreateRetirement, GrowContexts, ContextsCreated, CreatePresentContext,
         PresentContextsCreated, CreateSwapchain, GrowPool, Submit, destroy_device, NothingCreated, Created
  <2>2. QED  BY <2>1, NothingIsOrderly
<1>2. CASE CreationFails  BY <1>2, FailedCallsOrderly
<1>3. CASE DeleteDevice  BY <1>3, DeletionOrderly
<1>4. CASE Finished  BY <1>4 DEF Finished
<1>5. QED  BY <1>1, <1>2, <1>3, <1>4 DEF Next

-----------------------------------------------------------------------------
LEMMA InitAll ==
  ASSUME Init
  PROVE  IInv /\ Books /\ Flags
<1>1. Flags  BY DEF Init, Flags
<1>2. QED  BY <1>1, InitIInv, InitBooks

LEMMA NextAll ==
  ASSUME IInv, Books, Flags, [Next]_vars
  PROVE  IInv' /\ Books' /\ Flags'
<1>1. IInv' /\ Flags'  BY NextIInv, FlagsKept
<1>2. index \in Nat
  <2>1. Len(gpus) \in Nat  BY DEF IInv
  <2>2. Bound(step) \in Nat  BY <2>1, Numbers DEF Bound
  <2>3. index \in 0..Bound(step)  BY DEF Books, TypeOK, Bound
  <2>4. QED  BY <2>2, <2>3
<1>3. Inventory' /\ handles' = exists'  BY <1>2, InventoryKept DEF Books
<1>4. TypeOK'  BY <1>3, TypeKept DEF Books, IInv
<1>5. QED  BY <1>1, <1>3, <1>4 DEF Books

(* However many contexts, images and devices there are, and whichever call *)
(* failed half-way through, the Device holds a handle of everything that   *)
(* exists and of nothing else (create_device, ~Device).                    *)
THEOREM InventoryIsExact == Spec => []HandlesAreExact
<1>1. Init => IInv /\ Books /\ Flags  BY InitAll
<1>2. IInv /\ Books /\ Flags /\ [Next]_vars => IInv' /\ Books' /\ Flags'  BY NextAll
<1>3. Books => HandlesAreExact  BY BooksBalance
<1>4. QED  BY <1>1, <1>2, <1>3, PTL DEF Spec

(* create_device returns a complete device made from the physical device   *)
(* that ought to be selected, or an error and nothing at all, and ~Device  *)
(* leaves nothing.                                                         *)
THEOREM CreationIsWhole == Spec => []ReturnsDeviceOrNothing
<1>1. Init => IInv /\ Books /\ Flags  BY InitAll
<1>2. IInv /\ Books /\ Flags /\ [Next]_vars => IInv' /\ Books' /\ Flags'  BY NextAll
<1>3. IInv /\ Books /\ Flags => ReturnsDeviceOrNothing
  BY InvariantSelects, InvariantEnables, DeviceOrNothing
<1>4. QED  BY <1>1, <1>2, <1>3, PTL DEF Spec

(* Every destroy call of ~Device and of the error paths of create_device   *)
(* names an object that exists, or that the failing call has just made,    *)
(* once, and after everything made from it.                                *)
THEOREM DestructionInOrder == Spec => DestroysInOrder
<1>1. Init => IInv /\ Books /\ Flags  BY InitAll
<1>2. IInv /\ Books /\ Flags /\ [Next]_vars => IInv' /\ Books' /\ Flags'  BY NextAll
<1>3. Books /\ [Next]_vars
        => [\A k \in DOMAIN calls' :
              LET earlier == {calls'[j] : j \in 1..(k - 1)}
              IN /\ step \in Deleting => calls'[k] \in exists
                 /\ calls'[k] \notin earlier
                 /\ Children(calls'[k], exists \ earlier) = {}]_vars
  BY StepsAreOrderly DEF Orderly
<1>4. QED  BY <1>1, <1>2, <1>3, PTL DEF Spec, DestroysInOrder
=============================================================================
