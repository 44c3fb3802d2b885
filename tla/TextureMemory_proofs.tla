------------------------ MODULE TextureMemory_proofs ------------------------
(***************************************************************************)
(* For any number of memory types and any device and query, the loop of    *)
(* find_memory_type holds the best of the types it has seen, and the type  *)
(* selected for textures suits every texture the device supports.          *)
(*                                                                         *)
(* That the set HoldsTheBest compares with is not empty when some type     *)
(* qualifies, a fact about maxima of finite sets, comes from the loop      *)
(* itself: the best type beats every other one in the order below, step    *)
(* after step. The selection keeps the types that suit the color formats   *)
(* and every format probed so far; a format nothing was probed for has no  *)
(* usage either.                                                           *)
(***************************************************************************)
EXTENDS TextureMemory, FiniteSetTheorems, TLAPS

Beats(d, q, b, j) ==
  \/ ~IsAvoided(d, q, b) /\ IsAvoided(d, q, j)
  \/ /\ IsAvoided(d, q, b) = IsAvoided(d, q, j)
     /\ \/ Score(d, q, b) > Score(d, q, j)
        \/ /\ Score(d, q, b) = Score(d, q, j)
           /\ \/ HeapSize(d, b) > HeapSize(d, j)
              \/ HeapSize(d, b) = HeapSize(d, j) /\ b <= j

BestBeatsAll ==
  IF best = none
    THEN Qualifying(device, query, i) = {}
    ELSE /\ best \in Qualifying(device, query, i)
         /\ \A j \in Qualifying(device, query, i) : Beats(device, query, best, j)

FindInv == FindTypeOK /\ BestBeatsAll

(* Scores and sizes are numbers.                                           *)
LEMMA Measures ==
  ASSUME NEW d, DeviceOK(d), NEW q, QueryOK(q), NEW t \in Types
  PROVE  Score(d, q, t) \in Nat /\ HeapSize(d, t) \in Nat
<1>1. Flags(d, t) \in SUBSET PropertyFlags  BY DEF DeviceOK, Flags
<1>2. IsFiniteSet(Flags(d, t) \cap q.preferred)
  <2>1. Flags(d, t) \cap q.preferred \subseteq PropertyFlags  BY <1>1
  <2>2. QED  BY <2>1, MemoryAssumption, FS_Subset
<1>3. Score(d, q, t) \in Nat  BY <1>2, FS_CardinalityType DEF Score
<1>4. HeapSize(d, t) \in Nat  BY DEF DeviceOK, HeapSize
<1>5. QED  BY <1>3, <1>4

(* A type that improves on one that beats another beats the other, if it   *)
(* comes later; one that does not improve is beaten.                       *)
LEMMA ImprovesBeats ==
  ASSUME NEW d, DeviceOK(d), NEW q, QueryOK(q), NEW b \in Types, NEW new \in Types, b < new
  PROVE  /\ ~Improves(d, q, new, b) => Beats(d, q, b, new)
         /\ \A j \in Types : Beats(d, q, b, j) /\ Improves(d, q, new, b) => Beats(d, q, new, j)
<1>1. \A t \in Types : Score(d, q, t) \in Nat /\ HeapSize(d, t) \in Nat  BY Measures
<1>2. b # none /\ b \in Int /\ new \in Int  BY DEF none, Types
<1>3. ~Improves(d, q, new, b) => Beats(d, q, b, new)
  BY <1>1, <1>2 DEF Improves, Beats, IsAvoided
<1>4. ASSUME NEW j \in Types, Beats(d, q, b, j), Improves(d, q, new, b)
      PROVE  Beats(d, q, new, j)
  BY <1>1, <1>2, <1>4 DEF Improves, Beats, IsAvoided
<1>5. QED  BY <1>3, <1>4

(* What beats every member of a set is the only member Best leaves.        *)
LEMMA BeatsAllIsBest ==
  ASSUME NEW d, DeviceOK(d), NEW q, QueryOK(q), NEW S \in SUBSET Types, NEW b \in S,
         \A j \in S : Beats(d, q, b, j)
  PROVE  Best(d, q, S) = {b}
<1>1. \A t \in S : t \in Int /\ Score(d, q, t) \in Nat /\ HeapSize(d, t) \in Nat
  BY Measures DEF Types
<1> DEFINE N == NotAvoided(d, q, S)
           M == BestScored(d, q, N)
           L == InLargestHeap(d, M)
<1>2. b \in N  BY DEF NotAvoided, Beats, IsAvoided
<1>3. \A j \in N : j \in S /\ (IsAvoided(d, q, j) = IsAvoided(d, q, b))
  BY <1>2 DEF NotAvoided, IsAvoided
<1>4. \A j \in N : \/ Score(d, q, b) > Score(d, q, j)
                   \/ /\ Score(d, q, b) = Score(d, q, j)
                      /\ \/ HeapSize(d, b) > HeapSize(d, j)
                         \/ HeapSize(d, b) = HeapSize(d, j) /\ b <= j
  BY <1>3 DEF Beats, IsAvoided
<1> HIDE DEF N
<1>5. b \in M  BY <1>1, <1>2, <1>3, <1>4 DEF BestScored
<1>6. \A j \in M : j \in N /\ Score(d, q, j) = Score(d, q, b)
  BY <1>1, <1>2, <1>3, <1>4 DEF BestScored
<1>7. \A j \in M : HeapSize(d, b) > HeapSize(d, j) \/ (HeapSize(d, b) = HeapSize(d, j) /\ b <= j)
  BY <1>1, <1>3, <1>4, <1>6
<1> HIDE DEF M
<1>8. b \in L  BY <1>1, <1>3, <1>5, <1>6, <1>7 DEF InLargestHeap
<1>9. \A j \in L : j \in S /\ b <= j
  BY <1>1, <1>3, <1>5, <1>6, <1>7 DEF InLargestHeap
<1> HIDE DEF L
<1>10. First(L) = {b}  BY <1>1, <1>8, <1>9 DEF First
<1>11. QED  BY <1>10 DEF Best, N, M, L

(* A call starts with nothing seen and nothing chosen.                     *)
LEMMA FindFindInv ==
  ASSUME DeviceOK(device), NEW q, QueryOK(q), Find(q)
  PROVE  FindInv'
<1>1. /\ device' = device /\ query' = q /\ i' = 0 /\ best' = none  BY DEF Find
<1>2. FindTypeOK'  BY <1>1, MemoryAssumption DEF FindTypeOK
<1>3. BestBeatsAll'  BY <1>1 DEF BestBeatsAll, Qualifying
<1>4. QED  BY <1>2, <1>3 DEF FindInv

(* An iteration keeps the best of what it has seen.                        *)
LEMMA IterateFindInv ==
  ASSUME FindInv, Iterate
  PROVE  FindInv'
<1>1. /\ DeviceOK(device) /\ QueryOK(query) /\ i \in 0 .. memory_type_count /\ i < memory_type_count
      /\ best \in Types \cup {none} /\ i' = i + 1 /\ device' = device /\ query' = query
      /\ best' = Scanned(device, query, i, best) /\ BestBeatsAll
  BY DEF FindInv, FindTypeOK, Iterate
<1>2. i \in Types /\ none \notin Types /\ i # none  BY <1>1, MemoryAssumption DEF Types, none
<1> DEFINE Q == Qualifying(device, query, i)
           T == Qualifying(device, query, i + 1)
<1>3. T = IF Qualifies(device, query, i) THEN Q \cup {i} ELSE Q
  BY <1>1, MemoryAssumption DEF Qualifying
<1>4. Q \in SUBSET Types /\ \A j \in Q : j < i
  BY <1>1, MemoryAssumption DEF Qualifying, Types
<1>5. FindTypeOK'  BY <1>1, <1>2, MemoryAssumption DEF FindTypeOK, Scanned
<1>6. Beats(device, query, i, i)
  <2>1. Score(device, query, i) \in Nat /\ HeapSize(device, i) \in Nat /\ i \in Int
    BY <1>1, <1>2, Measures
  <2>2. QED  BY <2>1 DEF Beats, IsAvoided
<1> HIDE DEF Q, T
<1>7. IF best' = none THEN T = {} ELSE best' \in T /\ \A j \in T : Beats(device, query, best', j)
  <2>1. CASE ~Qualifies(device, query, i)
    <3>1. best' = best /\ T = Q  BY <1>1, <1>3, <2>1 DEF Scanned
    <3>2. QED  BY <1>1, <3>1 DEF BestBeatsAll, Q
  <2>2. CASE Qualifies(device, query, i) /\ best = none
    <3>1. best' = i /\ T = {i}  BY <1>1, <1>3, <2>2 DEF Scanned, Improves, BestBeatsAll, Q
    <3>2. QED  BY <3>1, <1>2, <1>6
  <2>3. CASE Qualifies(device, query, i) /\ best # none
    <3>1. best \in Q /\ (\A j \in Q : Beats(device, query, best, j)) /\ T = Q \cup {i}
      BY <1>1, <1>3, <2>3 DEF BestBeatsAll, Q
    <3>2. best \in Types /\ best < i  BY <1>4, <3>1
    <3>3. CASE Improves(device, query, i, best)
      <4>1. best' = i  BY <1>1, <2>3, <3>3 DEF Scanned
      <4>2. \A j \in Q : Beats(device, query, i, j)
        BY <1>1, <1>2, <1>4, <3>1, <3>2, <3>3, ImprovesBeats
      <4>3. QED  BY <4>1, <4>2, <3>1, <1>2, <1>6
    <3>4. CASE ~Improves(device, query, i, best)
      <4>1. best' = best  BY <1>1, <3>4 DEF Scanned
      <4>2. Beats(device, query, best, i)  BY <1>1, <1>2, <3>2, <3>4, ImprovesBeats
      <4>3. QED  BY <4>1, <4>2, <3>1, <3>2, <1>2
    <3>5. QED  BY <3>3, <3>4
  <2>4. QED  BY <2>1, <2>2, <2>3
<1>8. BestBeatsAll'  BY <1>1, <1>7 DEF BestBeatsAll, T
<1>9. QED  BY <1>1, <1>5, <1>8 DEF FindInv

(* The order the loop keeps is the choice it is for.                       *)
LEMMA FindInvHoldsTheBest ==
  ASSUME FindInv
  PROVE  HoldsTheBest
<1>1. DeviceOK(device) /\ QueryOK(query) /\ i \in 0 .. memory_type_count /\ BestBeatsAll
  BY DEF FindInv, FindTypeOK
<1>2. Qualifying(device, query, i) \in SUBSET Types
  BY <1>1, MemoryAssumption DEF Qualifying, Types
<1>3. CASE best = none
  <2>1. Qualifying(device, query, i) = {}  BY <1>1, <1>3 DEF BestBeatsAll
  <2>2. Best(device, query, {}) = {}  BY DEF Best, First, InLargestHeap, BestScored, NotAvoided
  <2>3. QED  BY <1>3, <2>1, <2>2 DEF HoldsTheBest
<1>4. CASE best # none
  <2>1. Best(device, query, Qualifying(device, query, i)) = {best}
    BY <1>1, <1>2, <1>4, BeatsAllIsBest DEF BestBeatsAll
  <2>2. QED  BY <1>4, <2>1 DEF HoldsTheBest
<1>5. QED  BY <1>3, <1>4

-----------------------------------------------------------------------------
(***************************************************************************)
(* The selection                                                           *)
(***************************************************************************)
ProbedFormats ==
  \A k \in 1..n : Probed(depth_stencil_formats[k]) =>
    memory_type_bits \subseteq device.bits[depth_stencil_formats[k]]

IInv ==
  /\ device \in Devices
  /\ TypeOK
  /\ FindInv
  /\ ProbedFormats
  /\ state \in {"color", "broad"} => n = 0
  /\ state \in {"broad", "depth", "select", "ready"} => memory_type_bits \subseteq device.bits["rgba8_unorm"]
  /\ state \in {"select", "ready"} => n = Len(depth_stencil_formats)
  /\ state = "select" => query = TextureQuery(memory_type_bits)
  /\ state = "ready" => texture_memory_type \in memory_type_bits

(* A usage of a depth/stencil format is one of those probed, or needs one. *)
LEMMA UsableIsProbed ==
  ASSUME NEW f \in DepthStencil, Usable(f)
  PROVE  HasCompatibilityUsage(f)
<1>1. PICK usage \in ValidUsages : supports_texture_format(f, usage)  BY DEF Usable
<1>2. PICK u \in usage : u \in Usages  BY <1>1 DEF ValidUsages
<1>3. /\ u # "color_attachment" /\ required_format_features(usage) \subseteq Features(f)
      /\ u \in {"transfer_source", "transfer_destination"} => f \notin Combined
  BY <1>1, <1>2 DEF supports_texture_format
<1>4. CASE u = "sampled"
  <2>1. "SAMPLED_IMAGE" \in required_format_features(usage)  BY <1>2, <1>4 DEF required_format_features
  <2>2. QED  BY <1>3, <2>1 DEF HasCompatibilityUsage
<1>5. CASE u = "storage"
  <2>1. StorageFeatures \subseteq required_format_features(usage)
    BY <1>2, <1>5 DEF required_format_features
  <2>2. QED  BY <1>3, <2>1 DEF HasCompatibilityUsage
<1>6. CASE u = "depth_stencil_attachment"
  <2>1. "DEPTH_STENCIL_ATTACHMENT" \in required_format_features(usage)
    BY <1>2, <1>6 DEF required_format_features
  <2>2. QED  BY <1>3, <2>1 DEF HasCompatibilityUsage
<1>7. CASE u = "transfer_source"
  <2>1. "TRANSFER_SRC" \in required_format_features(usage)
    BY <1>2, <1>7 DEF required_format_features
  <2>2. QED  BY <1>3, <1>7, <2>1 DEF HasCompatibilityUsage
<1>8. CASE u = "transfer_destination"
  <2>1. "TRANSFER_DST" \in required_format_features(usage)
    BY <1>2, <1>8 DEF required_format_features
  <2>2. QED  BY <1>3, <1>8, <2>1 DEF HasCompatibilityUsage
<1>9. QED  BY <1>2, <1>3, <1>4, <1>5, <1>6, <1>7, <1>8 DEF Usages

(* The requirements of a device's images.                                  *)
LEMMA Requirements ==
  ASSUME device \in Devices
  PROVE  /\ DeviceOK(device)
         /\ \A f \in Formats : device.bits[f] \subseteq Types
         /\ \A image \in Formats \X ImageKinds : device.alignment[image] \in Nat
         /\ \A f, g \in ColorFormats : device.bits[f] = device.bits[g]
         /\ {"rgba8_unorm", "rgba32_float"} \subseteq ColorFormats /\ ColorFormats \subseteq Formats
         /\ \A k \in 1..Len(depth_stencil_formats) : depth_stencil_formats[k] \in DepthStencil
         /\ DepthStencil \subseteq Formats /\ Len(depth_stencil_formats) \in Nat
<1>1. depth_stencil_formats \in Seq(STRING)  BY TextureMemoryAssumption
<1>2. DOMAIN depth_stencil_formats = 1..Len(depth_stencil_formats) /\ Len(depth_stencil_formats) \in Nat
  BY <1>1
<1>3. QED
  BY <1>2, TextureMemoryAssumption, QueriesAssumption DEF DepthStencil, ColorFormats, Formats

(* The query for textures is one.                                          *)
LEMMA TextureQueryOK ==
  ASSUME NEW bits \in SUBSET Types
  PROVE  QueryOK(TextureQuery(bits))
  BY TextureMemoryAssumption DEF QueryOK, TextureQuery

LEMMA InitIInv == Init => IInv
<1> SUFFICES ASSUME Init PROVE IInv
  OBVIOUS
<1>1. DeviceOK(device) /\ Len(depth_stencil_formats) \in Nat  BY Requirements DEF Init
<1>2. QueryOK(query)  BY TextureQueryOK DEF Init
<1>3. FindTypeOK  BY <1>1, <1>2, MemoryAssumption DEF Init, FindTypeOK
<1>4. BestBeatsAll  BY DEF Init, BestBeatsAll, Qualifying
<1>5. TypeOK
  <2>1. none \notin Types  BY MemoryAssumption DEF none, Types
  <2>2. QED  BY <1>1, <1>3, <2>1 DEF Init, TypeOK
<1>6. ProbedFormats  BY DEF Init, ProbedFormats
<1>7. QED  BY <1>3, <1>4, <1>5, <1>6 DEF Init, IInv, FindInv

(* The alignment stays a number, whichever image is probed.                *)
LEMMA AlignmentIsNumber ==
  ASSUME device \in Devices, NEW f \in Formats, NEW kind \in ImageKinds, texture_heap_alignment \in Nat,
         include_texture_heap_alignment(<<f, kind>>)
  PROVE  texture_heap_alignment' \in Nat
<1>1. device.alignment[<<f, kind>>] \in Nat  BY Requirements
<1>2. QED  BY <1>1 DEF include_texture_heap_alignment

(* The probes of the color formats                                         *)
LEMMA ColorIInv ==
  ASSUME IInv, ProbeColor \/ ProbeBroad
  PROVE  IInv'
<1>0. /\ device \in Devices /\ TypeOK /\ FindInv /\ n = 0
      /\ UNCHANGED <<device, query, i, best, n, texture_memory_type>>
      /\ state \in {"color", "broad"} /\ state' \in {"broad", "depth", "refused"}
      /\ texture_heap_alignment \in Nat
  BY DEF IInv, TypeOK, ProbeColor, ProbeBroad, Refuse, find_vars
<1>1. FindInv' /\ ProbedFormats' /\ n' = 0
  BY <1>0 DEF FindInv, FindTypeOK, BestBeatsAll, ProbedFormats
<1>2. /\ device.bits["rgba8_unorm"] \subseteq Types
      /\ "rgba8_unorm" \in Formats /\ "rgba32_float" \in Formats
  BY <1>0, Requirements
<1>3. texture_heap_alignment' \in Nat
  <2>1. CASE include_texture_heap_alignment(ColorImage)
    <3>1. CASE ColorImage = <<"rgba8_unorm", "attachment">>
      BY <1>0, <1>2, <2>1, <3>1, AlignmentIsNumber DEF ImageKinds
    <3>2. CASE ColorImage = <<"rgba8_unorm", "sampled">>
      BY <1>0, <1>2, <2>1, <3>2, AlignmentIsNumber DEF ImageKinds
    <3>3. QED  BY <3>1, <3>2 DEF ColorImage, ColorAttachment, ColorSampled
  <2>2. CASE include_texture_heap_alignment(BroadImage)
    BY <1>0, <1>2, <2>2, AlignmentIsNumber DEF BroadImage, ImageKinds
  <2>3. CASE UNCHANGED texture_heap_alignment  BY <1>0, <2>3
  <2>4. QED  BY <2>1, <2>2, <2>3 DEF ProbeColor, ProbeBroad, Refuse
<1>4. /\ memory_type_bits' \subseteq Types
      /\ state' # "refused" => memory_type_bits' \subseteq device.bits["rgba8_unorm"]
  BY <1>0, <1>2 DEF IInv, TypeOK, ProbeColor, ProbeBroad, Refuse
<1>5. TypeOK'
  BY <1>0, <1>1, <1>3, <1>4 DEF TypeOK, FindInv
<1>6. QED  BY <1>0, <1>1, <1>4, <1>5 DEF IInv

(* The probe of a depth/stencil format                                     *)
LEMMA DepthStencilIInv ==
  ASSUME IInv, ProbeDepthStencil
  PROVE  IInv'
<1> DEFINE f == depth_stencil_formats[n + 1]
<1>0. /\ device \in Devices /\ TypeOK /\ FindInv /\ ProbedFormats
      /\ UNCHANGED <<device, query, i, best, state, texture_memory_type>>
      /\ state = "depth" /\ n' = n + 1 /\ n < Len(depth_stencil_formats)
      /\ texture_heap_alignment \in Nat /\ n \in 0..Len(depth_stencil_formats)
      /\ memory_type_bits \subseteq Types /\ memory_type_bits \subseteq device.bits["rgba8_unorm"]
      /\ texture_memory_type = none \/ texture_memory_type \in Types
  BY DEF IInv, TypeOK, ProbeDepthStencil, find_vars
<1>1. IF Probed(f)
        THEN /\ memory_type_bits' = memory_type_bits \cap device.bits[f]
             /\ include_texture_heap_alignment(DepthStencilImage(f))
        ELSE UNCHANGED <<memory_type_bits, texture_heap_alignment>>
  BY DEF ProbeDepthStencil
<1>2. n + 1 \in 1..Len(depth_stencil_formats) /\ n \in Nat  BY <1>0, Requirements
<1>3. f \in Formats
  BY <1>0, <1>2, Requirements
<1> HIDE DEF f
<1>4. /\ memory_type_bits' \subseteq memory_type_bits
      /\ texture_heap_alignment' \in Nat
      /\ Probed(f) => memory_type_bits' \subseteq device.bits[f]
  <2>1. PICK kind \in ImageKinds : DepthStencilImage(f) = <<f, kind>>
    BY DEF DepthStencilImage, TexelImage, ImageKinds
  <2>2. CASE Probed(f)
    <3>1. texture_heap_alignment' \in Nat
      BY <1>0, <1>1, <1>3, <2>1, <2>2, AlignmentIsNumber
    <3>2. QED  BY <1>1, <2>2, <3>1
  <2>3. CASE ~Probed(f)  BY <1>0, <1>1, <2>3
  <2>4. QED  BY <2>2, <2>3
<1>5. ProbedFormats'
  <2> SUFFICES ASSUME NEW k \in 1..(n + 1), Probed(depth_stencil_formats[k])'
               PROVE  memory_type_bits' \subseteq device.bits[depth_stencil_formats[k]]
    BY <1>0 DEF ProbedFormats
  <2>1. Probed(depth_stencil_formats[k])
    BY <1>0 DEF Probed, Supported, TexelImage, HasCompatibilityUsage, Features
  <2>2. CASE k = n + 1  BY <1>4, <2>1, <2>2 DEF f
  <2>3. CASE k \in 1..n  BY <1>0, <1>4, <2>1, <2>3 DEF ProbedFormats
  <2>4. QED  BY <1>2, <2>2, <2>3
<1>6. FindInv'  BY <1>0 DEF FindInv, FindTypeOK, BestBeatsAll
<1>7. TypeOK'
  BY <1>0, <1>2, <1>4, <1>6, Requirements DEF TypeOK, FindInv
<1>8. QED  BY <1>0, <1>4, <1>5, <1>6, <1>7 DEF IInv

(* The calls of find_memory_type, and what is done with what it finds      *)
LEMMA SelectIInv ==
  ASSUME IInv, SelectType \/ TypeSelected \/ Searching \/ FindOther
  PROVE  IInv'
<1>0. /\ device \in Devices /\ TypeOK /\ FindInv /\ ProbedFormats /\ DeviceOK(device)
      /\ UNCHANGED <<device, n, memory_type_bits, texture_heap_alignment>>
      /\ memory_type_bits \in SUBSET Types
  BY Requirements DEF IInv, TypeOK, SelectType, TypeSelected, Searching, FindOther, selection,
     Find, Iterate, Refuse, find_vars
<1>1. ProbedFormats'  BY <1>0 DEF ProbedFormats, Probed, Supported, TexelImage, HasCompatibilityUsage, Features
<1>2. CASE SelectType
  <2>1. FindInv'  BY <1>0, <1>2, FindFindInv, TextureQueryOK DEF SelectType
  <2>2. /\ state' = "select" /\ query' = TextureQuery(memory_type_bits')
        /\ UNCHANGED texture_memory_type /\ state = "depth"
        /\ n' = Len(depth_stencil_formats)
    BY <1>0, <1>2 DEF SelectType, Find, TextureQuery
  <2>3. TypeOK'  BY <1>0, <2>1, <2>2 DEF TypeOK, FindInv
  <2>4. QED  BY <1>0, <1>1, <2>1, <2>2, <2>3 DEF IInv
<1>3. CASE TypeSelected
  <2>1. UNCHANGED <<query, i, best>> /\ state = "select"  BY <1>3 DEF TypeSelected, find_vars
  <2>2. FindInv'  BY <1>0, <2>1 DEF FindInv, FindTypeOK, BestBeatsAll
  <2>3. CASE best = none
    <3>1. state' = "refused" /\ UNCHANGED texture_memory_type  BY <1>3, <2>3 DEF TypeSelected, Refuse
    <3>2. TypeOK'  BY <1>0, <2>1, <2>2, <3>1 DEF TypeOK, FindInv
    <3>3. QED  BY <1>0, <1>1, <2>2, <3>1, <3>2 DEF IInv
  <2>4. CASE best # none
    <3>1. state' = "ready" /\ texture_memory_type' = best  BY <1>3, <2>4 DEF TypeSelected
    <3>2. best \in Qualifying(device, query, i) /\ query = TextureQuery(memory_type_bits)
          /\ best \in Types
      BY <2>1, <2>4 DEF IInv, FindInv, BestBeatsAll, FindTypeOK
    <3>3. best \in memory_type_bits  BY <3>2 DEF Qualifying, Qualifies, TextureQuery
    <3>4. TypeOK'  BY <1>0, <2>2, <2>4, <3>1, <3>2 DEF TypeOK, FindInv
    <3>5. QED  BY <1>0, <1>1, <2>1, <2>2, <3>1, <3>3, <3>4 DEF IInv
  <2>5. QED  BY <2>3, <2>4
<1>4. CASE Searching
  <2>1. FindInv'  BY <1>0, <1>4, IterateFindInv DEF Searching
  <2>2. UNCHANGED <<state, texture_memory_type, query>>  BY <1>4 DEF Searching, selection, Iterate
  <2>3. TypeOK'  BY <1>0, <2>1, <2>2 DEF TypeOK, FindInv
  <2>4. TextureQuery(memory_type_bits)' = TextureQuery(memory_type_bits)  BY <1>0 DEF TextureQuery
  <2>5. QED  BY <1>0, <1>1, <2>1, <2>2, <2>3, <2>4 DEF IInv
<1>5. CASE FindOther
  <2>1. PICK q \in Queries : Find(q)  BY <1>5 DEF FindOther
  <2>2. FindInv'  BY <1>0, <2>1, FindFindInv, QueriesAssumption
  <2>3. UNCHANGED <<state, texture_memory_type>> /\ state = "ready"  BY <1>5 DEF FindOther, selection
  <2>4. TypeOK'  BY <1>0, <2>2, <2>3 DEF TypeOK, FindInv
  <2>5. QED  BY <1>0, <1>1, <2>2, <2>3, <2>4 DEF IInv
<1>6. QED  BY <1>2, <1>3, <1>4, <1>5

LEMMA NextIInv == IInv /\ [Next]_vars => IInv'
<1> SUFFICES ASSUME IInv, [Next]_vars PROVE IInv'
  OBVIOUS
<1>1. CASE ProbeColor \/ ProbeBroad  BY <1>1, ColorIInv
<1>2. CASE ProbeDepthStencil  BY <1>2, DepthStencilIInv
<1>3. CASE SelectType \/ TypeSelected \/ Searching \/ FindOther  BY <1>3, SelectIInv
<1>4. CASE UNCHANGED vars
  BY <1>4 DEF vars, find_vars, selection, IInv, TypeOK, FindInv, FindTypeOK, BestBeatsAll,
     ProbedFormats, Probed, Supported, TexelImage, HasCompatibilityUsage, Features, TextureQuery
<1>5. QED  BY <1>1, <1>2, <1>3, <1>4 DEF Next

(* Whatever memory types a device has, find_memory_type keeps the best of  *)
(* the qualifying types it has seen, and finds one when there is one.      *)
THEOREM FindsTheBest == Spec => []HoldsTheBest
<1>1. IInv => HoldsTheBest  BY FindInvHoldsTheBest DEF IInv
<1>2. Spec => []IInv  BY InitIInv, NextIInv, PTL DEF Spec
<1>3. QED  BY <1>1, <1>2, PTL

(* Whatever a device supports and whatever its memory is like, a texture   *)
(* supports_texture_format allows can be placed in the memory type that    *)
(* select_texture_memory_type chose for all of them; one of a depth or     *)
(* stencil format if the device has images of one texel of that format.    *)
THEOREM TexturesFit == Spec => []EverySupportedTextureFits
<1>1. IInv => EverySupportedTextureFits
  <2> SUFFICES ASSUME IInv, state = "ready", NEW f \in Formats, Usable(f),
                      f \in DepthStencil => Supported(TexelImage(f))
               PROVE  texture_memory_type \in device.bits[f]
    BY DEF EverySupportedTextureFits
  <2>1. /\ device \in Devices /\ ProbedFormats /\ n = Len(depth_stencil_formats)
        /\ texture_memory_type \in memory_type_bits
        /\ memory_type_bits \subseteq device.bits["rgba8_unorm"]
    BY DEF IInv
  <2>2. CASE f \in DepthStencil
    <3>1. PICK k \in DOMAIN depth_stencil_formats : f = depth_stencil_formats[k]
      BY <2>2 DEF DepthStencil
    <3>2. k \in 1..n  BY <2>1, <3>1, TextureMemoryAssumption
    <3>3. Probed(f)  BY <2>2, UsableIsProbed DEF Probed
    <3>4. QED  BY <2>1, <3>1, <3>2, <3>3 DEF ProbedFormats
  <2>3. CASE f \in ColorFormats
    <3>1. device.bits[f] = device.bits["rgba8_unorm"] /\ f \notin DepthStencil
      BY <2>1, <2>3, Requirements, TextureMemoryAssumption
    <3>2. QED  BY <2>1, <3>1
  <2>4. QED  BY <2>2, <2>3 DEF Formats
<1>2. Spec => []IInv  BY InitIInv, NextIInv, PTL DEF Spec
<1>3. QED  BY <1>1, <1>2, PTL
=============================================================================
