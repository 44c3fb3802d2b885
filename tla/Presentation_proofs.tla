--------------------------- MODULE Presentation_proofs ---------------------------
(***************************************************************************)
(* Proofs about Presentation, for any number of handles, contexts, slots   *)
(* and images.                                                             *)
(*                                                                         *)
(* The steps of the program change the device through a few operators, in  *)
(* the middle of which the invariant of the module does not hold: a        *)
(* swapchain is then neither in the Swapchain object nor in a slot nor in  *)
(* the queue, but in hand.  Sound(d, hand, existing) is what holds at      *)
(* every point: d is the device so far, hand the swapchains that are in    *)
(* neither slot nor queue, existing what existed when the step began.      *)
(***************************************************************************)
EXTENDS Presentation, FiniteSetTheorems, SequenceTheorems, WellFoundedInduction, TLAPS

Entries == [retire_value : Nat, swapchain : Handles, view : 1..MaxImages]
Calls == [swapchain : Handles, view : 1..MaxImages, final_image : BOOLEAN]
RetiredSwapchains == [handle : HandleOrNull, view_count : 0..MaxImages]
Devices ==
  [present_pending : [Contexts -> BOOLEAN], swapchain : [Contexts -> HandleOrNull],
   retired : [1..Slots -> RetiredSwapchains], queue : Seq(Entries), calls : Seq(Calls)]
InHand == {r \in RetiredSwapchains : r.handle # Null /\ r.view_count >= 1}

(***************************************************************************)
(* No handle is in two places, and no view twice in the queue.             *)
(***************************************************************************)
Apart(d, hand) ==
  /\ \A r, s \in hand : r # s => r.handle # s.handle
  /\ \A r \in hand, k \in 1..Slots : d.retired[k].handle # r.handle
  /\ \A r \in hand, i \in 1..Len(d.queue) : d.queue[i].swapchain # r.handle
  /\ \A k \in 1..Slots, i \in 1..Len(d.queue) : d.queue[i].swapchain # d.retired[k].handle
  /\ \A k, l \in 1..Slots : k # l /\ d.retired[k].handle # Null => d.retired[k].handle # d.retired[l].handle
  /\ \A i, j \in 1..Len(d.queue) :
       i # j /\ d.queue[i].swapchain = d.queue[j].swapchain => d.queue[i].view # d.queue[j].view

(***************************************************************************)
(* View v of swapchain h, or h itself (v = 0), has an owner; the step has  *)
(* destroyed it.                                                           *)
(***************************************************************************)
Owned(d, hand, h, v) ==
  \/ \E r \in hand : r.handle = h /\ v <= r.view_count
  \/ \E k \in 1..Slots : d.retired[k].handle = h /\ v <= d.retired[k].view_count
  \/ \E i \in 1..Len(d.queue) : d.queue[i].swapchain = h /\ (v = 0 \/ v = d.queue[i].view)

Dead(d, h, v) ==
  \E i \in 1..Len(d.calls) :
    d.calls[i].swapchain = h /\ (v = d.calls[i].view \/ (v = 0 /\ d.calls[i].final_image))

Accounted(d, hand, existing) ==
  \A h \in Handles, v \in 0..MaxImages :
    /\ <<h, v>> \in existing <=> Owned(d, hand, h, v) \/ Dead(d, h, v)
    /\ ~(Owned(d, hand, h, v) /\ Dead(d, h, v))

(***************************************************************************)
(* The program knows of every present that is not finished, and the        *)
(* swapchains with one are in hand or in a slot.                           *)
(***************************************************************************)
PresentsKnown(d, hand) ==
  \A c \in Contexts :
    /\ presenting[c] # Null => d.present_pending[c] /\ d.swapchain[c] = presenting[c]
    /\ ~d.present_pending[c] => d.swapchain[c] = Null
    /\ d.present_pending[c] =>
         /\ d.swapchain[c] \in Handles
         /\ \/ \E r \in hand : r.handle = d.swapchain[c]
            \/ \E k \in 1..Slots : d.retired[k].handle = d.swapchain[c]

(***************************************************************************)
(* The entries of the queue wait, in order, for a submission not before    *)
(* the last one that uses their swapchain.                                 *)
(***************************************************************************)
QueueInOrder(d) ==
  /\ \A i \in 1..Len(d.queue) :
       d.queue[i].retire_value <= submitted /\ lastUse[d.queue[i].swapchain] <= d.queue[i].retire_value
  /\ \A i, j \in 1..Len(d.queue) : i <= j => d.queue[i].retire_value <= d.queue[j].retire_value

(***************************************************************************)
(* What the step has destroyed so far was unused (see DestroysOnlyUnused). *)
(***************************************************************************)
CallsUnused(d) ==
  \A i \in 1..Len(d.calls) :
    /\ \A j \in 1..(i - 1) :
         d.calls[j].swapchain = d.calls[i].swapchain => d.calls[j].view # d.calls[i].view /\ ~d.calls[j].final_image
    /\ lastUse[d.calls[i].swapchain] <= gpuWork
    /\ \A c \in Contexts : presenting[c] # d.calls[i].swapchain

CallsExisted(d, existing) ==
  \A i \in 1..Len(d.calls) :
    <<d.calls[i].swapchain, d.calls[i].view>> \in existing /\ <<d.calls[i].swapchain, 0>> \in existing

Placed(d, hand, existing) ==
  /\ d \in Devices /\ hand \subseteq InHand
  /\ \A k \in 1..Slots : d.retired[k].handle # Null => d.retired[k].view_count >= 1
  /\ Apart(d, hand) /\ Accounted(d, hand, existing)

Sound(d, hand, existing) ==
  /\ Placed(d, hand, existing) /\ PresentsKnown(d, hand) /\ QueueInOrder(d)
  /\ CallsUnused(d) /\ CallsExisted(d, existing)

(***************************************************************************)
(* The invariant.                                                          *)
(***************************************************************************)
Current ==
  IF swapchain.handle = Null THEN {} ELSE {[handle |-> swapchain.handle, view_count |-> swapchain.image_count]}

SlotsBusy(d) == \A k \in 1..Slots : d.retired[k].handle # Null => PendingOn(d, d.retired[k].handle) # {}

Overdue(d, value) == \E i \in 1..Len(d.queue) : d.queue[i].retire_value <= value

DeviceInv ==
  /\ Sound(device, Current, live) /\ device.calls = <<>>
  /\ SlotsBusy(device) /\ ~Overdue(device, completed)

HasFrame == phase \in {"acquired", "recording"}
HasContext == HasFrame \/ (phase = "acquiring" /\ position = 1)

(***************************************************************************)
(* The Swapchain object: images exactly with a handle, a frame only of an  *)
(* image there is, without an extent only until it is replaced.            *)
(***************************************************************************)
SwapchainInv ==
  /\ swapchain.handle = Null <=> swapchain.image_count = 0
  /\ HasFrame => swapchain.handle # Null /\ swapchain.image_index \in 1..swapchain.image_count
  /\ swapchain.handle # Null /\ swapchain.extent = Minimized => swapchain.recreate_required

LayoutOf(i) == IF swapchain.initialized[i] THEN "present" ELSE "undefined"

LayoutInv ==
  /\ layout \in [Handles -> [1..MaxImages -> {"undefined", "general", "present"}]]
  /\ \A i \in 1..MaxImages : i > swapchain.image_count => ~swapchain.initialized[i]
  /\ swapchain.handle # Null =>
       \A i \in 1..swapchain.image_count :
         ~(phase = "recording" /\ i = swapchain.image_index) => layout[swapchain.handle][i] = LayoutOf(i)

(***************************************************************************)
(* A signalled fence means a rendered frame; a frame has a context whose   *)
(* present is finished; a drain has waited for the contexts behind it, and *)
(* nothing is submitted meanwhile.                                         *)
(***************************************************************************)
PhaseInv ==
  /\ \A c \in Contexts : presenting[c] = Null => presentedBy[c] <= gpuWork
  /\ HasContext => ~device.present_pending[next_present_context]
  /\ phase \in {"acquiring", "acquired", "recording"} => submitted < MaxSubmissions
  /\ Draining => position = 0
  /\ WaitingForPresents => completed = submitted /\ \A c \in Contexts : c < position => ~device.present_pending[c]
  /\ phase = "destroyed" => live = {}

IInv == TypeOK /\ DeviceInv /\ SwapchainInv /\ LayoutInv /\ PhaseInv

-----------------------------------------------------------------------------
(* Least and greatest numbers of a set.                                    *)
LEMMA LeastElement ==
  ASSUME NEW S \in SUBSET Nat, S # {}
  PROVE  Min(S) \in S /\ \A y \in S : Min(S) <= y
<1>1. PICK x \in S : \A y \in S : ~(<<y, x>> \in OpToRel(<, Nat))
  <2> DEFINE R == OpToRel(<, Nat)
  <2>1. IsWellFoundedOn(R, Nat)  BY NatLessThanWellFounded
  <2> HIDE DEF R
  <2>2. \E x \in S : \A y \in S : ~(<<y, x>> \in R)  BY <2>1, WFMin
  <2>3. QED  BY <2>2 DEF R
<1>2. \A y \in S : ~(<<y, x>> \in {ss \in Nat \X Nat : ss[1] < ss[2]})
  BY <1>1 DEF OpToRel
<1>3. ASSUME NEW y \in S  PROVE x <= y
  <2>1. x \in Nat /\ y \in Nat  OBVIOUS
  <2>2. SUFFICES ASSUME y < x PROVE FALSE  BY <2>1
  <2> DEFINE p == <<y, x>>
  <2>3. p \in Nat \X Nat /\ p[1] = y /\ p[2] = x  BY <2>1
  <2>4. p \in {ss \in Nat \X Nat : ss[1] < ss[2]}  BY <2>2, <2>3
  <2>5. QED  BY <1>2, <2>4
<1>4. QED  BY <1>3 DEF Min

LEMMA GreatestElement ==
  ASSUME NEW bound \in Nat, NEW S \in SUBSET (0..bound), S # {}
  PROVE  Max(S) \in S /\ \A y \in S : y <= Max(S)
<1> DEFINE T == {bound - y : y \in S}
<1>1. T \in SUBSET Nat /\ T # {}
  <2>1. \A y \in S : bound - y \in Nat
    OBVIOUS
  <2>2. PICK y \in S : TRUE
    OBVIOUS
  <2>3. bound - y \in T
    OBVIOUS
  <2>4. QED
    BY <2>1, <2>3
<1>2. Min(T) \in T /\ \A y \in T : Min(T) <= y
  BY <1>1, LeastElement
<1>3. PICK x \in S : Min(T) = bound - x
  BY <1>2
<1>4. ASSUME NEW y \in S  PROVE y <= x
  <2>1. bound - y \in T
    OBVIOUS
  <2>2. bound - x <= bound - y
    BY <1>2, <1>3, <2>1
  <2>3. x \in 0..bound /\ y \in 0..bound
    OBVIOUS
  <2>4. QED
    BY <2>2, <2>3
<1>5. \E z \in S : \A y \in S : z >= y
  <2>1. \A y \in S : x >= y
    BY <1>4
  <2>2. QED
    BY <2>1
<1>6. Max(S) \in S /\ \A y \in S : Max(S) >= y
  BY <1>5 DEF Max
<1>7. QED
  BY <1>6

-----------------------------------------------------------------------------
(* Entries at the front of the queue.                                      *)
LEMMA DueEntries ==
  ASSUME NEW waiting \in Seq(Entries), NEW value \in Nat
  PROVE  /\ DueCount(waiting, value) \in 0..Len(waiting)
         /\ \A i \in 1..DueCount(waiting, value) : waiting[i].retire_value <= value
         /\ DueCount(waiting, value) < Len(waiting) => waiting[DueCount(waiting, value) + 1].retire_value > value
<1> DEFINE S == {n \in 0..Len(waiting) : \A i \in 1..n : waiting[i].retire_value <= value}
           n == DueCount(waiting, value)
<1>1. Len(waiting) \in Nat /\ S \in SUBSET (0..Len(waiting)) /\ 0 \in S
  OBVIOUS
<1>2. n \in S /\ \A y \in S : y <= n
  BY <1>1, GreatestElement DEF DueCount
<1>3. n \in 0..Len(waiting) /\ \A i \in 1..n : waiting[i].retire_value <= value
  BY <1>2
<1>4. ASSUME n < Len(waiting), waiting[n + 1].retire_value <= value  PROVE FALSE
  <2> HIDE DEF n
  <2>1. \A i \in 1..(n + 1) : i \in 1..n \/ i = n + 1
    BY <1>3
  <2>2. n + 1 \in S
    BY <1>1, <1>3, <1>4, <2>1
  <2>3. n + 1 <= n
    BY <1>2, <2>2
  <2>4. QED
    BY <1>3, <2>3
<1>5. n < Len(waiting) => waiting[n + 1].retire_value > value
  <2>1. SUFFICES ASSUME n < Len(waiting) PROVE waiting[n + 1].retire_value > value
    OBVIOUS
  <2> HIDE DEF n
  <2>2. n + 1 \in 1..Len(waiting)
    BY <1>1, <1>3, <2>1
  <2>3. waiting[n + 1].retire_value \in Nat
    <3>1. waiting[n + 1] \in Entries
      BY <2>2
    <3>2. QED
      BY <3>1 DEF Entries
  <2>4. QED
    BY <1>4, <2>1, <2>3
<1>6. QED
  BY <1>3, <1>5

LEMMA RemainingEntries ==
  ASSUME NEW waiting \in Seq(Entries), NEW n \in 0..Len(waiting)
  PROVE  /\ Remaining(waiting, n) \in Seq(Entries)
         /\ Len(Remaining(waiting, n)) = Len(waiting) - n
         /\ \A i \in 1..Len(Remaining(waiting, n)) : Remaining(waiting, n)[i] = waiting[n + i]
<1>1. Len(waiting) \in Nat /\ \A i \in (n + 1)..Len(waiting) : waiting[i] \in Entries
  OBVIOUS
<1> DEFINE rest == SubSeq(waiting, n + 1, Len(waiting))
<1>2. /\ rest \in Seq(Entries)
      /\ Len(rest) = IF n + 1 <= Len(waiting) THEN Len(waiting) - (n + 1) + 1 ELSE 0
      /\ \A i \in 1..(Len(waiting) - (n + 1) + 1) : rest[i] = waiting[(n + 1) + i - 1]
  BY <1>1, SubSeqProperties
<1> HIDE DEF rest
<1>3. Len(rest) = Len(waiting) - n
  BY <1>1, <1>2
<1>4. ASSUME NEW i \in 1..Len(rest)  PROVE rest[i] = waiting[n + i]
  <2>1. (n + 1) + i - 1 = n + i /\ i \in 1..(Len(waiting) - (n + 1) + 1)
    BY <1>1, <1>3
  <2>2. QED
    BY <1>2, <2>1
<1>5. QED
  BY <1>2, <1>3, <1>4 DEF rest, Remaining

(* A swapchain with an entry has a last one.                               *)
LEMMA LastEntry ==
  ASSUME NEW waiting \in Seq(Entries), NEW i \in 1..Len(waiting)
  PROVE  \E m \in i..Len(waiting) :
           waiting[m].swapchain = waiting[i].swapchain /\ LastOfSwapchain(waiting, m)
<1> DEFINE S == {j \in i..Len(waiting) : waiting[j].swapchain = waiting[i].swapchain}
           m == Max(S)
<1>1. Len(waiting) \in Nat /\ S \in SUBSET (0..Len(waiting)) /\ i \in S
  OBVIOUS
<1>2. m \in S /\ \A y \in S : y <= m
  BY <1>1, GreatestElement
<1> HIDE DEF m
<1>3. ASSUME NEW j \in (m + 1)..Len(waiting), waiting[j].swapchain = waiting[m].swapchain  PROVE FALSE
  <2>1. j \in S
    BY <1>1, <1>2, <1>3
  <2>2. j <= m
    BY <1>2, <2>1
  <2>3. QED
    BY <1>2, <2>2
<1>4. LastOfSwapchain(waiting, m)
  BY <1>3 DEF LastOfSwapchain
<1>5. QED
  BY <1>2, <1>4

-----------------------------------------------------------------------------
(* What the fields of a device are.                                        *)
LEMMA DeviceFields ==
  ASSUME NEW d \in Devices
  PROVE  /\ d.present_pending \in [Contexts -> BOOLEAN] /\ d.swapchain \in [Contexts -> HandleOrNull]
         /\ d.retired \in [1..Slots -> RetiredSwapchains]
         /\ d.queue \in Seq(Entries) /\ Len(d.queue) \in Nat
         /\ \A i \in 1..Len(d.queue) : /\ d.queue[i].retire_value \in Nat /\ d.queue[i].swapchain \in Handles
                                       /\ d.queue[i].view \in 1..MaxImages
         /\ d.calls \in Seq(Calls) /\ Len(d.calls) \in Nat
         /\ \A i \in 1..Len(d.calls) : /\ d.calls[i].swapchain \in Handles /\ d.calls[i].view \in 1..MaxImages
                                       /\ d.calls[i].final_image \in BOOLEAN
<1>1. /\ d.present_pending \in [Contexts -> BOOLEAN] /\ d.swapchain \in [Contexts -> HandleOrNull]
      /\ d.retired \in [1..Slots -> RetiredSwapchains]
      /\ d.queue \in Seq(Entries) /\ d.calls \in Seq(Calls)
  BY DEF Devices
<1>2. Len(d.queue) \in Nat /\ Len(d.calls) \in Nat
  BY <1>1
<1>3. \A i \in 1..Len(d.queue) : d.queue[i] \in Entries
  BY <1>1
<1>4. \A i \in 1..Len(d.calls) : d.calls[i] \in Calls
  BY <1>1
<1>5. \A i \in 1..Len(d.queue) : /\ d.queue[i].retire_value \in Nat /\ d.queue[i].swapchain \in Handles
                                 /\ d.queue[i].view \in 1..MaxImages
  BY <1>3 DEF Entries
<1>6. \A i \in 1..Len(d.calls) : /\ d.calls[i].swapchain \in Handles /\ d.calls[i].view \in 1..MaxImages
                                 /\ d.calls[i].final_image \in BOOLEAN
  BY <1>4 DEF Calls
<1>7. QED
  BY <1>1, <1>2, <1>5, <1>6

(***************************************************************************)
(* e is d after the first n entries of the queue have been destroyed.      *)
(***************************************************************************)
Collects(d, e, n) ==
  /\ e.present_pending = d.present_pending /\ e.swapchain = d.swapchain /\ e.retired = d.retired
  /\ Len(e.queue) = Len(d.queue) - n
  /\ \A i \in 1..Len(e.queue) : e.queue[i] = d.queue[n + i]
  /\ Len(e.calls) = Len(d.calls) + n
  /\ \A i \in 1..Len(d.calls) : e.calls[i] = d.calls[i]
  /\ \A i \in 1..n :
       /\ e.calls[Len(d.calls) + i].swapchain = d.queue[i].swapchain
       /\ e.calls[Len(d.calls) + i].view = d.queue[i].view
       /\ e.calls[Len(d.calls) + i].final_image <=> LastOfSwapchain(d.queue, i)

LEMMA CollectCollects ==
  ASSUME NEW d \in Devices, NEW value \in Nat
  PROVE  /\ CollectDevice(d, value) \in Devices
         /\ \E n \in 0..Len(d.queue) :
              /\ Collects(d, CollectDevice(d, value), n)
              /\ \A i \in 1..n : d.queue[i].retire_value <= value
              /\ n < Len(d.queue) => d.queue[n + 1].retire_value > value
<1> DEFINE n == DueCount(d.queue, value)
           e == CollectDevice(d, value)
           rest == Remaining(d.queue, n)
           more == Destructions(d.queue, n)
<1>1. /\ d.queue \in Seq(Entries) /\ Len(d.queue) \in Nat /\ d.calls \in Seq(Calls) /\ Len(d.calls) \in Nat
      /\ \A i \in 1..Len(d.queue) : d.queue[i].swapchain \in Handles /\ d.queue[i].view \in 1..MaxImages
  BY DeviceFields
<1>2. /\ n \in 0..Len(d.queue)
      /\ \A i \in 1..n : d.queue[i].retire_value <= value
      /\ n < Len(d.queue) => d.queue[n + 1].retire_value > value
  BY <1>1, DueEntries
<1>3. e = [d EXCEPT !.queue = rest, !.calls = @ \o more]
  BY DEF CollectDevice
<1> HIDE DEF n
<1>4. rest \in Seq(Entries) /\ Len(rest) = Len(d.queue) - n /\ \A i \in 1..Len(rest) : rest[i] = d.queue[n + i]
  BY <1>1, <1>2, RemainingEntries
<1>5. /\ more \in Seq(Calls) /\ Len(more) = n
      /\ \A i \in 1..n : /\ more[i].swapchain = d.queue[i].swapchain /\ more[i].view = d.queue[i].view
                         /\ more[i].final_image = LastOfSwapchain(d.queue, i)
  <2>1. n \in Nat /\ \A i \in 1..n : i \in 1..Len(d.queue)
    BY <1>1, <1>2
  <2>2. ASSUME NEW i \in 1..n
        PROVE  [swapchain |-> d.queue[i].swapchain, view |-> d.queue[i].view,
                final_image |-> LastOfSwapchain(d.queue, i)] \in Calls
    <3>1. LastOfSwapchain(d.queue, i) \in BOOLEAN
      BY DEF LastOfSwapchain
    <3>2. QED
      BY <1>1, <2>1, <3>1 DEF Calls
  <2>3. more \in [1..n -> Calls]
    BY <2>2 DEF Destructions
  <2>4. more \in Seq(Calls) /\ Len(more) = n
    BY <2>1, <2>3
  <2>5. QED
    BY <2>4 DEF Destructions
<1> HIDE DEF e, rest, more
<1>6. /\ e.present_pending = d.present_pending /\ e.swapchain = d.swapchain /\ e.retired = d.retired
      /\ e.queue = rest /\ e.calls = d.calls \o more /\ e \in Devices
  <2>1. d.calls \o more \in Seq(Calls)
    BY <1>1, <1>5
  <2>2. QED
    BY <1>3, <1>4, <2>1 DEF Devices
<1>7. /\ Len(e.calls) = Len(d.calls) + n
      /\ \A i \in 1..Len(d.calls) : e.calls[i] = d.calls[i]
      /\ \A i \in 1..n : e.calls[Len(d.calls) + i] = more[i]
  <2>1. Len(d.calls \o more) = Len(d.calls) + n
    <3>1. Len(d.calls \o more) = Len(d.calls) + Len(more)
      BY <1>1, <1>5, ConcatProperties
    <3>2. QED
      BY <3>1, <1>5
  <2>2. ASSUME NEW i \in 1..Len(d.calls)  PROVE (d.calls \o more)[i] = d.calls[i]
    BY <1>1, <1>5
  <2>3. ASSUME NEW i \in 1..n  PROVE (d.calls \o more)[Len(d.calls) + i] = more[i]
    BY <1>1, <1>2, <1>5
  <2>4. QED
    BY <1>6, <2>1, <2>2, <2>3
<1>8. Collects(d, e, n)
  BY <1>4, <1>5, <1>6, <1>7 DEF Collects
<1>9. QED
  BY <1>2, <1>6, <1>8 DEF e

(***************************************************************************)
(* Numbers and functions of the state.                                     *)
(***************************************************************************)
LEMMA StateTypes ==
  ASSUME TypeOK
  PROVE  /\ submitted \in Nat /\ completed \in Nat /\ gpuRetired \in Nat /\ gpuWork \in Nat
         /\ completed <= gpuRetired /\ gpuRetired <= gpuWork /\ gpuWork <= submitted
         /\ \A h \in Handles : lastUse[h] \in Nat /\ lastUse[h] <= submitted
         /\ \A c \in Contexts : presenting[c] \in HandleOrNull
         /\ Null \notin Handles /\ PresentContexts \in Nat \ {0} /\ Slots \in Nat /\ Slots >= PresentContexts
         /\ MaxImages \in Nat \ {0}
<1>1. MaxSubmissions \in Nat
  BY ConstantsAssumption
<1>2. submitted \in 0..MaxSubmissions /\ gpuWork \in 0..submitted /\ gpuRetired \in 0..gpuWork /\ completed \in 0..gpuRetired
  BY DEF TypeOK
<1>3. /\ submitted \in Nat /\ completed \in Nat /\ gpuRetired \in Nat /\ gpuWork \in Nat
      /\ completed <= gpuRetired /\ gpuRetired <= gpuWork /\ gpuWork <= submitted
  BY <1>1, <1>2
<1>4. lastUse \in [Handles -> 0..submitted] /\ presenting \in [Contexts -> HandleOrNull]
  BY DEF TypeOK
<1>5. QED
  BY <1>3, <1>4, ConstantsAssumption

LEMMA CollectSound ==
  ASSUME TypeOK, NEW d, NEW hand, NEW existing, Sound(d, hand, existing), NEW value \in 0..gpuWork
  PROVE  /\ Sound(CollectDevice(d, value), hand, existing)
         /\ ~Overdue(CollectDevice(d, value), value)
         /\ CollectDevice(d, value).present_pending = d.present_pending
         /\ CollectDevice(d, value).swapchain = d.swapchain
         /\ CollectDevice(d, value).retired = d.retired
<1> DEFINE e == CollectDevice(d, value)
           N == Len(d.queue)
           M == Len(d.calls)
<1>1. d \in Devices /\ gpuWork \in Nat /\ value \in Nat /\ value <= gpuWork
  BY StateTypes DEF Sound, Placed
<1>2. /\ N \in Nat /\ M \in Nat
      /\ \A i \in 1..N : /\ d.queue[i].retire_value \in Nat /\ d.queue[i].swapchain \in Handles
                         /\ d.queue[i].view \in 1..MaxImages
      /\ \A i \in 1..M : /\ d.calls[i].swapchain \in Handles /\ d.calls[i].view \in 1..MaxImages
                         /\ d.calls[i].final_image \in BOOLEAN
      /\ d.queue \in Seq(Entries)
  BY <1>1, DeviceFields
<1>3. PICK n \in 0..N : /\ Collects(d, e, n)
                        /\ \A i \in 1..n : d.queue[i].retire_value <= value
                        /\ n < N => d.queue[n + 1].retire_value > value
  BY <1>1, CollectCollects
<1>4. e \in Devices
  BY <1>1, CollectCollects
<1> HIDE DEF e, N, M
<1>5. e.present_pending = d.present_pending /\ e.swapchain = d.swapchain /\ e.retired = d.retired
  BY <1>3 DEF Collects
<1>6. /\ Len(e.queue) = N - n /\ Len(e.queue) \in Nat
      /\ \A i \in 1..Len(e.queue) : n + i \in 1..N /\ e.queue[i] = d.queue[n + i]
      /\ \A j \in (n + 1)..N : j - n \in 1..Len(e.queue) /\ e.queue[j - n] = d.queue[j]
  <2>1. Len(e.queue) = N - n /\ \A i \in 1..Len(e.queue) : e.queue[i] = d.queue[n + i]
    BY <1>3 DEF Collects, N
  <2>2. \A j \in (n + 1)..N : j - n \in 1..Len(e.queue) /\ n + (j - n) = j
    BY <2>1, <1>2
  <2>3. QED
    BY <2>1, <2>2, <1>2
<1>7. /\ Len(e.calls) = M + n
      /\ \A i \in 1..M : i \in 1..Len(e.calls) /\ e.calls[i] = d.calls[i]
      /\ \A i \in 1..n : /\ M + i \in 1..Len(e.calls) /\ i \in 1..N
                         /\ e.calls[M + i].swapchain = d.queue[i].swapchain
                         /\ e.calls[M + i].view = d.queue[i].view
                         /\ e.calls[M + i].final_image <=> LastOfSwapchain(d.queue, i)
      /\ \A i \in 1..Len(e.calls) : i \in 1..M \/ \E k \in 1..n : i = M + k
  <2>1. Len(e.calls) = M + n
    BY <1>3 DEF Collects, M
  <2>2. \A i \in 1..Len(e.calls) : i \in 1..M \/ \E k \in 1..n : i = M + k
    <3>1. ASSUME NEW i \in 1..Len(e.calls), i \notin 1..M  PROVE \E k \in 1..n : i = M + k
      <4>1. i - M \in 1..n /\ i = M + (i - M)
        BY <2>1, <3>1, <1>2
      <4>2. QED
        BY <4>1
    <3>2. QED
      BY <3>1
  <2>3. \A i \in 1..M : i \in 1..Len(e.calls) /\ e.calls[i] = d.calls[i]
    BY <2>1, <1>2, <1>3 DEF Collects, M
  <2>4. \A i \in 1..n : M + i \in 1..Len(e.calls) /\ i \in 1..N
    BY <2>1, <1>2
  <2>5. QED
    BY <2>1, <2>2, <2>3, <2>4, <1>3 DEF Collects, M
<1>8. \A i \in 1..n, j \in 1..N : LastOfSwapchain(d.queue, i) /\ j > i => d.queue[j].swapchain # d.queue[i].swapchain
  BY <1>2, <1>3 DEF LastOfSwapchain, N
<1>9. Apart(d, hand) /\ Accounted(d, hand, existing) /\ PresentsKnown(d, hand) /\ QueueInOrder(d)
      /\ CallsUnused(d) /\ CallsExisted(d, existing)
  BY DEF Sound, Placed
<1>10. Apart(e, hand)
  <2>0. ASSUME NEW i \in 1..Len(e.queue)
        PROVE  /\ \A r \in hand : e.queue[i].swapchain # r.handle
               /\ \A k \in 1..Slots : e.queue[i].swapchain # d.retired[k].handle
    <3>1. PICK j \in 1..N : e.queue[i] = d.queue[j]
      BY <1>6
    <3>2. /\ \A r \in hand : d.queue[j].swapchain # r.handle
          /\ \A k \in 1..Slots : d.queue[j].swapchain # d.retired[k].handle
      BY <1>9 DEF Apart, N
    <3>3. QED
      BY <3>1, <3>2
  <2>1. \A r \in hand, i \in 1..Len(e.queue) : e.queue[i].swapchain # r.handle
    BY <2>0
  <2>2. \A k \in 1..Slots, i \in 1..Len(e.queue) : e.queue[i].swapchain # e.retired[k].handle
    BY <2>0, <1>5
  <2>3. \A i, j \in 1..Len(e.queue) :
          i # j /\ e.queue[i].swapchain = e.queue[j].swapchain => e.queue[i].view # e.queue[j].view
    <3> SUFFICES ASSUME NEW i \in 1..Len(e.queue), NEW j \in 1..Len(e.queue), i # j,
                        e.queue[i].swapchain = e.queue[j].swapchain
                 PROVE  e.queue[i].view # e.queue[j].view
      OBVIOUS
    <3>1. n + i # n + j /\ n + i \in 1..N /\ n + j \in 1..N
      BY <1>6
    <3>2. e.queue[i] = d.queue[n + i] /\ e.queue[j] = d.queue[n + j]
      BY <1>6
    <3>3. d.queue[n + i].swapchain = d.queue[n + j].swapchain
      BY <3>2
    <3>4. d.queue[n + i].view # d.queue[n + j].view
      BY <1>9, <3>1, <3>3 DEF Apart, N
    <3>5. QED
      BY <3>2, <3>4
  <2>4. QED
    BY <2>1, <2>2, <2>3, <1>5, <1>9 DEF Apart
<1>11. PresentsKnown(e, hand)
  BY <1>5, <1>9 DEF PresentsKnown
<1>12. QueueInOrder(e)
  <2>1. \A i \in 1..Len(e.queue) :
          e.queue[i].retire_value <= submitted /\ lastUse[e.queue[i].swapchain] <= e.queue[i].retire_value
    BY <1>6, <1>9 DEF QueueInOrder, N
  <2>2. ASSUME NEW i \in 1..Len(e.queue), NEW j \in 1..Len(e.queue), i <= j
        PROVE  e.queue[i].retire_value <= e.queue[j].retire_value
    <3>1. n + i <= n + j
      BY <1>6, <2>2
    <3>2. QED
      BY <1>6, <1>9, <3>1 DEF QueueInOrder, N
  <2>3. QED
    BY <2>1, <2>2 DEF QueueInOrder
<1>13. ~Overdue(e, value)
  <2>1. SUFFICES ASSUME NEW i \in 1..Len(e.queue), e.queue[i].retire_value <= value PROVE FALSE
    BY DEF Overdue
  <2>2. n < N /\ n + 1 \in 1..N /\ n + 1 <= n + i /\ n + i \in 1..N
    BY <1>2, <1>6
  <2>3. d.queue[n + 1].retire_value <= d.queue[n + i].retire_value
    BY <1>9, <2>2 DEF QueueInOrder, N
  <2>4. d.queue[n + 1].retire_value \in Nat /\ d.queue[n + i].retire_value \in Nat
    BY <1>2, <2>2
  <2>5. d.queue[n + 1].retire_value > value
    BY <1>3, <2>2
  <2>6. d.queue[n + i].retire_value <= value
    BY <1>6, <2>1
  <2>7. QED
    BY <1>1, <2>3, <2>4, <2>5, <2>6
(* A collected entry: its swapchain is not in hand and not in a slot.      *)
<1>14. ASSUME NEW i \in 1..n
       PROVE  /\ \A r \in hand : r.handle # d.queue[i].swapchain
              /\ \A k \in 1..Slots : d.retired[k].handle # d.queue[i].swapchain
              /\ Owned(d, hand, d.queue[i].swapchain, d.queue[i].view)
              /\ Owned(d, hand, d.queue[i].swapchain, 0)
  <2>1. i \in 1..N
    BY <1>7
  <2>2. QED
    BY <2>1, <1>9 DEF Apart, Owned, N
<1>15. CallsUnused(e)
  <2>1. ASSUME NEW i \in 1..Len(e.calls)
        PROVE  /\ lastUse[e.calls[i].swapchain] <= gpuWork
               /\ \A c \in Contexts : presenting[c] # e.calls[i].swapchain
    <3>1. CASE i \in 1..M
      BY <3>1, <1>7, <1>9 DEF CallsUnused, M
    <3>2. ASSUME NEW k \in 1..n, i = M + k
          PROVE  /\ lastUse[e.calls[i].swapchain] <= gpuWork
                 /\ \A c \in Contexts : presenting[c] # e.calls[i].swapchain
      <4> DEFINE h == d.queue[k].swapchain
      <4>1. e.calls[i].swapchain = h /\ k \in 1..N /\ h \in Handles
        BY <3>2, <1>2, <1>7
      <4>2. lastUse[h] <= d.queue[k].retire_value /\ d.queue[k].retire_value <= value
        BY <4>1, <1>3, <1>9 DEF QueueInOrder, N
      <4>3. lastUse[h] \in Nat /\ d.queue[k].retire_value \in Nat
        BY <4>1, <1>2, StateTypes
      <4>4. lastUse[h] <= gpuWork
        BY <4>2, <4>3, <1>1
      <4>5. ASSUME NEW c \in Contexts, presenting[c] = h  PROVE FALSE
        <5>1. presenting[c] # Null
          BY <4>1, <4>5, StateTypes
        <5>2. d.present_pending[c] /\ d.swapchain[c] = h
          BY <4>5, <5>1, <1>9 DEF PresentsKnown
        <5>3. (\E r \in hand : r.handle = h) \/ \E l \in 1..Slots : d.retired[l].handle = h
          BY <5>2, <1>9 DEF PresentsKnown
        <5>4. QED
          BY <5>3, <1>14
      <4>6. QED
        BY <4>1, <4>4, <4>5
    <3>3. QED
      BY <3>1, <3>2, <1>7
  <2>2. ASSUME NEW i \in 1..Len(e.calls), NEW j \in 1..(i - 1), e.calls[j].swapchain = e.calls[i].swapchain
        PROVE  e.calls[j].view # e.calls[i].view /\ ~e.calls[j].final_image
    <3>0. j \in 1..Len(e.calls) /\ j < i /\ i \in Nat /\ j \in Nat
      BY <1>2, <1>7
    <3>1. CASE i \in 1..M
      <4>1. j \in 1..M
        BY <3>0, <3>1, <1>2
      <4>2. e.calls[i] = d.calls[i] /\ e.calls[j] = d.calls[j] /\ d.calls[j].swapchain = d.calls[i].swapchain
        BY <4>1, <3>1, <2>2, <1>7
      <4>3. d.calls[j].view # d.calls[i].view /\ ~d.calls[j].final_image
        BY <4>2, <3>1, <1>9 DEF CallsUnused, M
      <4>4. QED
        BY <4>2, <4>3
    <3>2. ASSUME NEW k \in 1..n, i = M + k, j \in 1..M
          PROVE  e.calls[j].view # e.calls[i].view /\ ~e.calls[j].final_image
      <4> DEFINE h == d.queue[k].swapchain
      <4>1. d.calls[j].swapchain = h /\ e.calls[i].view = d.queue[k].view /\ e.calls[j] = d.calls[j]
            /\ h \in Handles /\ d.queue[k].view \in 1..MaxImages
        BY <3>2, <2>2, <1>2, <1>7
      <4>2. Owned(d, hand, h, d.queue[k].view) /\ Owned(d, hand, h, 0)
        BY <3>2, <1>14
      <4>3. d.queue[k].view \in 0..MaxImages /\ 0 \in 0..MaxImages
        <5>1. MaxImages \in Nat
          BY StateTypes
        <5>2. d.queue[k].view \in 1..MaxImages
          BY <4>1
        <5>3. QED
          BY <5>1, <5>2
      <4>4. ~Dead(d, h, d.queue[k].view) /\ ~Dead(d, h, 0)
        BY <4>1, <4>2, <4>3, <1>9 DEF Accounted
      <4>5. d.calls[j].view # d.queue[k].view /\ ~d.calls[j].final_image
        BY <4>1, <4>4, <3>2 DEF Dead, M
      <4>6. QED
        BY <4>1, <4>5
    <3>3. ASSUME NEW k \in 1..n, i = M + k, NEW l \in 1..n, j = M + l
          PROVE  e.calls[j].view # e.calls[i].view /\ ~e.calls[j].final_image
      <4>1. l < k /\ k \in 1..N /\ l \in 1..N
        BY <3>0, <3>3, <1>2, <1>7
      <4>2. d.queue[l].swapchain = d.queue[k].swapchain
        BY <2>2, <3>3, <1>7
      <4>3. d.queue[l].view # d.queue[k].view
        BY <4>1, <4>2, <1>9 DEF Apart, N
      <4>4. ~LastOfSwapchain(d.queue, l)
        BY <4>1, <4>2, <1>8
      <4>5. QED
        BY <3>3, <4>3, <4>4, <1>7
    <3>4. QED
      BY <3>0, <3>1, <3>2, <3>3, <1>7
  <2>3. QED
    BY <2>1, <2>2 DEF CallsUnused
<1>16. CallsExisted(e, existing)
  <2> SUFFICES ASSUME NEW i \in 1..Len(e.calls)
               PROVE  <<e.calls[i].swapchain, e.calls[i].view>> \in existing /\ <<e.calls[i].swapchain, 0>> \in existing
    BY DEF CallsExisted
  <2>1. CASE i \in 1..M
    BY <2>1, <1>7, <1>9 DEF CallsExisted, M
  <2>2. ASSUME NEW k \in 1..n, i = M + k
        PROVE  <<e.calls[i].swapchain, e.calls[i].view>> \in existing /\ <<e.calls[i].swapchain, 0>> \in existing
    <3>0. k \in 1..N /\ e.calls[i].swapchain = d.queue[k].swapchain /\ e.calls[i].view = d.queue[k].view
      BY <2>2, <1>7
    <3>1. d.queue[k].swapchain \in Handles /\ d.queue[k].view \in 0..MaxImages /\ 0 \in 0..MaxImages
      <4>1. d.queue[k].swapchain \in Handles /\ d.queue[k].view \in 1..MaxImages /\ MaxImages \in Nat
        BY <3>0, <1>2, StateTypes
      <4>2. QED
        BY <4>1
    <3>2. Owned(d, hand, d.queue[k].swapchain, d.queue[k].view) /\ Owned(d, hand, d.queue[k].swapchain, 0)
      BY <1>14
    <3>3. QED
      BY <3>0, <3>1, <3>2, <1>9 DEF Accounted
  <2>3. QED
    BY <2>1, <2>2, <1>7
<1>17. Accounted(e, hand, existing)
  <2> SUFFICES ASSUME NEW h \in Handles, NEW v \in 0..MaxImages
               PROVE  /\ <<h, v>> \in existing <=> Owned(e, hand, h, v) \/ Dead(e, h, v)
                      /\ ~(Owned(e, hand, h, v) /\ Dead(e, h, v))
    BY DEF Accounted
  <2> DEFINE New == \E i \in 1..n : d.queue[i].swapchain = h
                                    /\ (v = d.queue[i].view \/ (v = 0 /\ LastOfSwapchain(d.queue, i)))
  <2>1. Dead(e, h, v) <=> Dead(d, h, v) \/ New
    <3>1. ASSUME Dead(e, h, v)  PROVE Dead(d, h, v) \/ New
      <4>1. PICK i \in 1..Len(e.calls) :
              e.calls[i].swapchain = h /\ (v = e.calls[i].view \/ (v = 0 /\ e.calls[i].final_image))
        BY <3>1 DEF Dead
      <4>2. CASE i \in 1..M
        BY <4>1, <4>2, <1>7 DEF Dead, M
      <4>3. ASSUME NEW k \in 1..n, i = M + k  PROVE New
        BY <4>1, <4>3, <1>7
      <4>4. QED
        BY <4>2, <4>3, <1>7
    <3>2. ASSUME Dead(d, h, v)  PROVE Dead(e, h, v)
      BY <3>2, <1>7 DEF Dead, M
    <3>3. ASSUME New  PROVE Dead(e, h, v)
      <4>1. PICK i \in 1..n : d.queue[i].swapchain = h
                              /\ (v = d.queue[i].view \/ (v = 0 /\ LastOfSwapchain(d.queue, i)))
        BY <3>3
      <4>2. M + i \in 1..Len(e.calls) /\ e.calls[M + i].swapchain = h
            /\ (v = e.calls[M + i].view \/ (v = 0 /\ e.calls[M + i].final_image))
        BY <4>1, <1>7
      <4>3. QED
        BY <4>2 DEF Dead
    <3>4. QED
      BY <3>1, <3>2, <3>3
  <2>2. ASSUME Owned(e, hand, h, v)  PROVE Owned(d, hand, h, v)
    BY <2>2, <1>5, <1>6 DEF Owned, N
  <2>3. ASSUME New  PROVE Owned(d, hand, h, v)
    BY <2>3, <1>7 DEF Owned, N
  <2>4. ASSUME Owned(d, hand, h, v), ~Owned(e, hand, h, v)  PROVE New
    <3>1. PICK i \in 1..N : d.queue[i].swapchain = h /\ (v = 0 \/ v = d.queue[i].view)
      BY <2>4, <1>5 DEF Owned, N
    <3>2. ASSUME NEW m \in 1..N, d.queue[m].swapchain = h, v = 0 \/ v = d.queue[m].view
          PROVE  m \in 1..n
      <4>1. SUFFICES ASSUME m \notin 1..n PROVE FALSE
        OBVIOUS
      <4>2. m \in (n + 1)..N
        BY <4>1, <1>2
      <4>3. m - n \in 1..Len(e.queue) /\ e.queue[m - n] = d.queue[m]
        BY <4>2, <1>6
      <4>4. QED
        BY <4>3, <3>2, <2>4 DEF Owned
    <3>3. CASE v = d.queue[i].view
      BY <3>1, <3>2, <3>3
    <3>4. CASE v = 0
      <4>1. PICK m \in i..N : d.queue[m].swapchain = h /\ LastOfSwapchain(d.queue, m)
        BY <3>1, <1>2, LastEntry DEF N
      <4>2. m \in 1..N
        BY <1>2
      <4>3. m \in 1..n
        BY <4>1, <4>2, <3>2, <3>4
      <4>4. QED
        BY <4>1, <4>3, <3>4
    <3>5. QED
      BY <3>1, <3>3, <3>4
  <2>5. ASSUME Owned(e, hand, h, v), New  PROVE FALSE
    <3>1. PICK i \in 1..n : d.queue[i].swapchain = h
                            /\ (v = d.queue[i].view \/ (v = 0 /\ LastOfSwapchain(d.queue, i)))
      BY <2>5
    <3>2. PICK j \in 1..Len(e.queue) : e.queue[j].swapchain = h /\ (v = 0 \/ v = e.queue[j].view)
      BY <2>5, <3>1, <1>5, <1>14 DEF Owned
    <3>a. n + j \in 1..N /\ e.queue[j] = d.queue[n + j] /\ i \in 1..N /\ n + j > i
      <4>1. n \in Nat /\ N \in Nat /\ n <= N /\ i \in Nat /\ i <= n /\ i >= 1
        BY <1>2
      <4>2. Len(e.queue) = N - n
        BY <1>6
      <4>3. j \in Nat /\ j >= 1 /\ j <= N - n
        BY <4>1, <4>2
      <4>4. e.queue[j] = d.queue[n + j]
        BY <1>6
      <4>5. QED
        BY <4>1, <4>3, <4>4
    <3>3. n + j \in 1..N /\ d.queue[n + j].swapchain = h /\ (v = 0 \/ v = d.queue[n + j].view)
          /\ n + j > i /\ i \in 1..N /\ d.queue[i].view \in 1..MaxImages
      BY <3>a, <3>2, <1>2
    <3>4. CASE v = d.queue[i].view
      <4>1. v = d.queue[n + j].view /\ n + j # i
        BY <3>3, <3>4
      <4>2. QED
        BY <4>1, <3>1, <3>3, <3>4, <1>9 DEF Apart, N
    <3>5. CASE v = 0 /\ LastOfSwapchain(d.queue, i)
      BY <3>1, <3>3, <3>5, <1>8
    <3>6. QED
      BY <3>1, <3>4, <3>5
  <2>6. /\ <<h, v>> \in existing <=> Owned(d, hand, h, v) \/ Dead(d, h, v)
        /\ ~(Owned(d, hand, h, v) /\ Dead(d, h, v))
    BY <1>9 DEF Accounted
  <2> HIDE DEF New
  <2>7. QED
    BY <2>1, <2>2, <2>3, <2>4, <2>5, <2>6
<1>18. QED
  <2>1. \A k \in 1..Slots : e.retired[k].handle # Null => e.retired[k].view_count >= 1
    BY <1>5 DEF Sound, Placed
  <2>2. hand \subseteq InHand
    BY DEF Sound, Placed
  <2>3. Sound(e, hand, existing)
    BY <2>1, <2>2, <1>4, <1>10, <1>11, <1>12, <1>15, <1>16, <1>17 DEF Sound, Placed
  <2>4. QED
    BY <2>3, <1>5, <1>13 DEF e

(***************************************************************************)
(* The views of a swapchain in hand go to the end of the queue.            *)
(***************************************************************************)
LEMMA AppendSound ==
  ASSUME TypeOK, NEW d, NEW hand, NEW existing, Sound(d, hand, existing),
         NEW r \in hand, PendingOn(d, r.handle) = {}
  PROVE  Sound([d EXCEPT !.queue = @ \o EntriesOf(submitted, r.handle, r.view_count)], hand \ {r}, existing)
<1> DEFINE more == EntriesOf(submitted, r.handle, r.view_count)
           f == [d EXCEPT !.queue = @ \o more]
           N == Len(d.queue)
           V == r.view_count
           h0 == r.handle
<1>1. d \in Devices /\ hand \subseteq InHand
  BY DEF Sound, Placed
<1>2. h0 \in Handles /\ V \in 1..MaxImages /\ V \in Nat /\ V >= 1 /\ h0 # Null
  <2>1. r.handle \in HandleOrNull /\ r.view_count \in 0..MaxImages /\ r.handle # Null /\ r.view_count >= 1
    BY <1>1 DEF InHand, RetiredSwapchains
  <2>2. QED
    BY <2>1 DEF HandleOrNull
<1>3. /\ N \in Nat /\ d.queue \in Seq(Entries) /\ submitted \in Nat
      /\ \A i \in 1..N : /\ d.queue[i].retire_value \in Nat /\ d.queue[i].swapchain \in Handles
                         /\ d.queue[i].view \in 1..MaxImages
  BY <1>1, DeviceFields, StateTypes
<1>4. /\ more \in Seq(Entries) /\ Len(more) = V
      /\ \A v \in 1..V : more[v] = [retire_value |-> submitted, swapchain |-> h0, view |-> v]
  <2>1. \A v \in 1..V : v \in 1..MaxImages
    <3>1. MaxImages \in Nat
      BY StateTypes
    <3>2. QED
      BY <3>1, <1>2
  <2>2. \A v \in 1..V : [retire_value |-> submitted, swapchain |-> h0, view |-> v] \in Entries
    BY <1>2, <1>3, <2>1 DEF Entries
  <2>3. more = [v \in 1..V |-> [retire_value |-> submitted, swapchain |-> h0, view |-> v]]
    BY DEF EntriesOf, Entry
  <2>4. QED
    BY <1>2, <2>2, <2>3
<1> HIDE DEF more
<1>5. /\ f \in Devices
      /\ f.present_pending = d.present_pending /\ f.swapchain = d.swapchain /\ f.retired = d.retired
      /\ f.calls = d.calls /\ f.queue = d.queue \o more
  <2>1. d.queue \o more \in Seq(Entries)
    BY <1>3, <1>4
  <2>2. QED
    BY <1>1, <2>1 DEF Devices
<1> HIDE DEF f
<1>6. /\ Len(f.queue) = N + V
      /\ \A i \in 1..N : i \in 1..Len(f.queue) /\ f.queue[i] = d.queue[i]
      /\ \A v \in 1..V : /\ N + v \in 1..Len(f.queue)
                         /\ f.queue[N + v].retire_value = submitted
                         /\ f.queue[N + v].swapchain = h0 /\ f.queue[N + v].view = v
      /\ \A i \in 1..Len(f.queue) : i \in 1..N \/ \E v \in 1..V : i = N + v
  <2>1. Len(f.queue) = N + V
    <3>1. Len(d.queue \o more) = Len(d.queue) + Len(more)
      BY <1>3, <1>4, ConcatProperties
    <3>2. QED
      BY <3>1, <1>4, <1>5
  <2>2. \A i \in 1..N : i \in 1..Len(f.queue) /\ f.queue[i] = d.queue[i]
    <3>1. ASSUME NEW i \in 1..N  PROVE (d.queue \o more)[i] = d.queue[i]
      BY <1>3, <1>4
    <3>2. QED
      BY <3>1, <2>1, <1>2, <1>3, <1>5
  <2>3. ASSUME NEW v \in 1..V
        PROVE  N + v \in 1..Len(f.queue) /\ f.queue[N + v] = more[v]
    <3>1. (d.queue \o more)[N + v] = more[v]
      BY <1>2, <1>3, <1>4
    <3>2. N + v \in 1..(N + V)
      BY <1>2, <1>3
    <3>3. QED
      BY <3>1, <3>2, <2>1, <1>5
  <2>4. ASSUME NEW i \in 1..Len(f.queue), i \notin 1..N  PROVE \E v \in 1..V : i = N + v
    <3>1. i - N \in 1..V /\ i = N + (i - N)
      BY <2>1, <2>4, <1>2, <1>3
    <3>2. QED
      BY <3>1
  <2>5. ASSUME NEW v \in 1..V
        PROVE  /\ f.queue[N + v].retire_value = submitted
               /\ f.queue[N + v].swapchain = h0 /\ f.queue[N + v].view = v
    <3>1. f.queue[N + v] = more[v]
      BY <2>3
    <3>2. more[v] = [retire_value |-> submitted, swapchain |-> h0, view |-> v]
      BY <1>4
    <3>3. QED
      BY <3>1, <3>2
  <2>6. QED
    BY <2>1, <2>2, <2>3, <2>4, <2>5
<1> HIDE DEF N, V, h0
<1>7. Apart(d, hand) /\ Accounted(d, hand, existing) /\ PresentsKnown(d, hand) /\ QueueInOrder(d)
      /\ CallsUnused(d) /\ CallsExisted(d, existing)
  BY DEF Sound, Placed
<1>8. /\ \A s \in hand \ {r} : s.handle # h0
      /\ \A k \in 1..Slots : d.retired[k].handle # h0
      /\ \A i \in 1..N : d.queue[i].swapchain # h0
  BY <1>7 DEF Apart, N, h0
<1>9. Apart(f, hand \ {r})
  <2>1. ASSUME NEW s \in hand \ {r}, NEW i \in 1..Len(f.queue)  PROVE f.queue[i].swapchain # s.handle
    <3>1. CASE i \in 1..N
      <4>1. d.queue[i].swapchain # s.handle
        BY <3>1, <1>7 DEF Apart, N
      <4>2. QED
        BY <4>1, <3>1, <1>6
    <3>2. CASE \E v \in 1..V : i = N + v
      BY <3>2, <1>6, <1>8
    <3>3. QED
      BY <3>1, <3>2, <1>6
  <2>2. ASSUME NEW k \in 1..Slots, NEW i \in 1..Len(f.queue)  PROVE f.queue[i].swapchain # d.retired[k].handle
    <3>1. CASE i \in 1..N
      <4>1. d.queue[i].swapchain # d.retired[k].handle
        BY <3>1, <1>7 DEF Apart, N
      <4>2. QED
        BY <4>1, <3>1, <1>6
    <3>2. CASE \E v \in 1..V : i = N + v
      BY <3>2, <1>6, <1>8
    <3>3. QED
      BY <3>1, <3>2, <1>6
  <2>3. ASSUME NEW i \in 1..Len(f.queue), NEW j \in 1..Len(f.queue),
               i # j, f.queue[i].swapchain = f.queue[j].swapchain
        PROVE  f.queue[i].view # f.queue[j].view
    <3>1. CASE i \in 1..N /\ j \in 1..N
      <4>1. d.queue[i].swapchain = d.queue[j].swapchain
        BY <2>3, <3>1, <1>6
      <4>2. d.queue[i].view # d.queue[j].view
        BY <4>1, <2>3, <3>1, <1>7 DEF Apart, N
      <4>3. QED
        BY <4>2, <3>1, <1>6
    <3>2. CASE i \in 1..N /\ \E v \in 1..V : j = N + v
      BY <3>2, <2>3, <1>6, <1>8
    <3>3. CASE j \in 1..N /\ \E v \in 1..V : i = N + v
      BY <3>3, <2>3, <1>6, <1>8
    <3>4. ASSUME NEW v \in 1..V, i = N + v, NEW w \in 1..V, j = N + w
          PROVE  f.queue[i].view # f.queue[j].view
      <4>1. v # w
        BY <2>3, <3>4
      <4>2. QED
        BY <4>1, <3>4, <1>6
    <3>5. QED
      BY <3>1, <3>2, <3>3, <3>4, <1>6
  <2>4. QED
    BY <2>1, <2>2, <2>3, <1>5, <1>7 DEF Apart
<1>10. PresentsKnown(f, hand \ {r})
  <2> SUFFICES ASSUME NEW c \in Contexts
               PROVE  /\ presenting[c] # Null => d.present_pending[c] /\ d.swapchain[c] = presenting[c]
                      /\ ~d.present_pending[c] => d.swapchain[c] = Null
                      /\ d.present_pending[c] =>
                           /\ d.swapchain[c] \in Handles
                           /\ \/ \E s \in hand \ {r} : s.handle = d.swapchain[c]
                              \/ \E k \in 1..Slots : d.retired[k].handle = d.swapchain[c]
    BY <1>5 DEF PresentsKnown
  <2>1. d.present_pending[c] => d.swapchain[c] # r.handle
    BY DEF PendingOn
  <2>2. QED
    BY <2>1, <1>7 DEF PresentsKnown
<1>11. QueueInOrder(f)
  <2>1. ASSUME NEW i \in 1..Len(f.queue)
        PROVE  f.queue[i].retire_value <= submitted /\ lastUse[f.queue[i].swapchain] <= f.queue[i].retire_value
    <3>1. CASE i \in 1..N
      <4>1. d.queue[i].retire_value <= submitted /\ lastUse[d.queue[i].swapchain] <= d.queue[i].retire_value
        BY <3>1, <1>7 DEF QueueInOrder, N
      <4>2. QED
        BY <4>1, <3>1, <1>6
    <3>2. CASE \E v \in 1..V : i = N + v
      <4>1. f.queue[i].retire_value = submitted /\ f.queue[i].swapchain = h0
        BY <3>2, <1>6
      <4>2. lastUse[h0] <= submitted
        BY <1>2, StateTypes
      <4>3. QED
        BY <4>1, <4>2, <1>3
    <3>3. QED
      BY <3>1, <3>2, <1>6
  <2>2. ASSUME NEW i \in 1..Len(f.queue), NEW j \in 1..Len(f.queue), i <= j
        PROVE  f.queue[i].retire_value <= f.queue[j].retire_value
    <3>1. CASE j \in 1..N
      <4>1. i \in 1..N
        BY <2>2, <3>1, <1>3
      <4>2. d.queue[i].retire_value <= d.queue[j].retire_value
        BY <4>1, <3>1, <2>2, <1>7 DEF QueueInOrder, N
      <4>3. QED
        BY <4>1, <4>2, <3>1, <1>6
    <3>2. CASE \E v \in 1..V : j = N + v
      <4>1. f.queue[j].retire_value = submitted
        BY <3>2, <1>6
      <4>2. QED
        BY <4>1, <2>1
    <3>3. QED
      BY <3>1, <3>2, <1>6
  <2>3. QED
    BY <2>1, <2>2 DEF QueueInOrder
<1>12. ASSUME NEW h \in Handles, NEW v \in 0..MaxImages
       PROVE  Owned(f, hand \ {r}, h, v) <=> Owned(d, hand, h, v)
  <2>0. v \in Nat /\ (v = 0 \/ v \in 1..MaxImages)
    BY StateTypes
  <2>1. ASSUME Owned(d, hand, h, v)  PROVE Owned(f, hand \ {r}, h, v)
    <3>1. ASSUME NEW s \in hand, s.handle = h, v <= s.view_count  PROVE Owned(f, hand \ {r}, h, v)
      <4>1. CASE s # r
        BY <3>1, <4>1 DEF Owned
      <4>2. CASE s = r
        <5>1. h = h0 /\ v <= V
          BY <3>1, <4>2 DEF h0, V
        <5>2. PICK w \in 1..V : v = 0 \/ v = w
          <6>1. CASE v = 0
            BY <6>1, <1>2
          <6>2. CASE v # 0
            <7>1. v \in 1..V
              BY <5>1, <6>2, <2>0, <1>2
            <7>2. QED
              BY <7>1
          <6>3. QED
            BY <6>1, <6>2
        <5>3. N + w \in 1..Len(f.queue) /\ f.queue[N + w].swapchain = h /\ (v = 0 \/ v = f.queue[N + w].view)
          BY <5>1, <5>2, <1>6
        <5>4. QED
          BY <5>3 DEF Owned
      <4>3. QED
        BY <4>1, <4>2
    <3>2. ASSUME NEW i \in 1..N, d.queue[i].swapchain = h, v = 0 \/ v = d.queue[i].view
          PROVE  Owned(f, hand \ {r}, h, v)
      <4>1. i \in 1..Len(f.queue) /\ f.queue[i] = d.queue[i]
        BY <1>6
      <4>2. QED
        BY <4>1, <3>2 DEF Owned
    <3>3. ASSUME NEW k \in 1..Slots, d.retired[k].handle = h, v <= d.retired[k].view_count
          PROVE  Owned(f, hand \ {r}, h, v)
      BY <3>3, <1>5 DEF Owned
    <3>4. QED
      BY <2>1, <3>1, <3>2, <3>3 DEF Owned, N
  <2>2. ASSUME Owned(f, hand \ {r}, h, v)  PROVE Owned(d, hand, h, v)
    <3>1. ASSUME NEW i \in 1..Len(f.queue), f.queue[i].swapchain = h, v = 0 \/ v = f.queue[i].view
          PROVE  Owned(d, hand, h, v)
      <4>1. CASE i \in 1..N
        BY <3>1, <4>1, <1>6 DEF Owned, N
      <4>2. ASSUME NEW w \in 1..V, i = N + w  PROVE Owned(d, hand, h, v)
        <5>1. h = h0 /\ (v = 0 \/ v = w)
          BY <3>1, <4>2, <1>6
        <5>2. v <= V
          BY <5>1, <1>2
        <5>3. QED
          BY <5>1, <5>2 DEF Owned, h0, V
      <4>3. QED
        BY <4>1, <4>2, <1>6
    <3>2. ASSUME NEW s \in hand \ {r}, s.handle = h, v <= s.view_count  PROVE Owned(d, hand, h, v)
      BY <3>2 DEF Owned
    <3>3. ASSUME NEW k \in 1..Slots, f.retired[k].handle = h, v <= f.retired[k].view_count
          PROVE  Owned(d, hand, h, v)
      BY <3>3, <1>5 DEF Owned
    <3>4. QED
      BY <2>2, <3>1, <3>2, <3>3 DEF Owned
  <2>3. QED
    BY <2>1, <2>2
<1>13. Accounted(f, hand \ {r}, existing)
  <2>1. \A h, v : Dead(f, h, v) <=> Dead(d, h, v)
    BY <1>5 DEF Dead
  <2>2. QED
    BY <2>1, <1>7, <1>12 DEF Accounted
<1>14. CallsUnused(f) /\ CallsExisted(f, existing)
  BY <1>5, <1>7 DEF CallsUnused, CallsExisted
<1>15. \A k \in 1..Slots : f.retired[k].handle # Null => f.retired[k].view_count >= 1
  BY <1>5 DEF Sound, Placed
<1>16. hand \ {r} \subseteq InHand
  BY <1>1
<1>17. Sound(f, hand \ {r}, existing)
  BY <1>5, <1>9, <1>10, <1>11, <1>13, <1>14, <1>15, <1>16 DEF Sound, Placed
<1>18. QED
  BY <1>17 DEF f, more

(***************************************************************************)
(* The swapchain r leaves the hand for the queue, and nothing due stays.   *)
(***************************************************************************)
LEMMA QueueRetiredSound ==
  ASSUME TypeOK, NEW d, NEW hand, NEW existing, Sound(d, hand, existing),
         NEW r \in hand, PendingOn(d, r.handle) = {}
  PROVE  /\ Sound(QueueRetired(d, r), hand \ {r}, existing)
         /\ ~Overdue(QueueRetired(d, r), completed)
         /\ QueueRetired(d, r).present_pending = d.present_pending
         /\ QueueRetired(d, r).swapchain = d.swapchain
         /\ QueueRetired(d, r).retired = d.retired
<1> DEFINE f == [d EXCEPT !.queue = @ \o EntriesOf(submitted, r.handle, r.view_count)]
<1>1. Sound(f, hand \ {r}, existing)
  BY AppendSound
<1>2. completed \in 0..gpuWork
  BY StateTypes
<1>3. f.present_pending = d.present_pending /\ f.swapchain = d.swapchain /\ f.retired = d.retired
  <2>1. d \in Devices
    BY DEF Sound, Placed
  <2>2. QED
    BY <2>1 DEF Devices
<1>4. QueueRetired(d, r) = CollectDevice(f, completed)
  BY DEF QueueRetired
<1> HIDE DEF f
<1>5. /\ Sound(CollectDevice(f, completed), hand \ {r}, existing)
      /\ ~Overdue(CollectDevice(f, completed), completed)
      /\ CollectDevice(f, completed).present_pending = f.present_pending
      /\ CollectDevice(f, completed).swapchain = f.swapchain
      /\ CollectDevice(f, completed).retired = f.retired
  BY <1>1, <1>2, CollectSound
<1>6. QED
  BY <1>3, <1>4, <1>5

-----------------------------------------------------------------------------
(* The swapchain of a slot is taken in hand.                               *)
LEMMA TakeSlot ==
  ASSUME TypeOK, NEW d, NEW hand, NEW existing, Sound(d, hand, existing),
         NEW k \in 1..Slots, d.retired[k].handle # Null
  PROVE  /\ Sound([d EXCEPT !.retired[k] = NoRetired], hand \union {d.retired[k]}, existing)
         /\ d.retired[k] \notin hand
<1> DEFINE g == [d EXCEPT !.retired[k] = NoRetired]
           r == d.retired[k]
<1>1. d \in Devices /\ d.retired \in [1..Slots -> RetiredSwapchains]
  BY DeviceFields DEF Sound, Placed
<1>2. NoRetired \in RetiredSwapchains /\ NoRetired.handle = Null
  BY StateTypes DEF NoRetired, RetiredSwapchains, HandleOrNull
<1>3. /\ g \in Devices
      /\ g.present_pending = d.present_pending /\ g.swapchain = d.swapchain
      /\ g.queue = d.queue /\ g.calls = d.calls
      /\ g.retired = [d.retired EXCEPT ![k] = NoRetired]
  BY <1>1, <1>2 DEF Devices
<1>4. /\ \A l \in 1..Slots : l # k => g.retired[l] = d.retired[l]
      /\ g.retired[k] = NoRetired
  BY <1>1, <1>3
<1>5. r \in InHand
  BY <1>1 DEF Sound, Placed, InHand
<1>6. Apart(d, hand) /\ Accounted(d, hand, existing) /\ PresentsKnown(d, hand) /\ QueueInOrder(d)
      /\ CallsUnused(d) /\ CallsExisted(d, existing) /\ hand \subseteq InHand
  BY DEF Sound, Placed
<1>7. r \notin hand /\ \A s \in hand : s.handle # r.handle
  BY <1>6 DEF Apart
<1> HIDE DEF g
<1>8. Apart(g, hand \union {r})
  <2>1. \A s, t \in hand \union {r} : s # t => s.handle # t.handle
    BY <1>6, <1>7 DEF Apart
  <2>2. ASSUME NEW s \in hand \union {r}, NEW l \in 1..Slots  PROVE g.retired[l].handle # s.handle
    <3>1. CASE l = k
      BY <3>1, <1>2, <1>4, <1>5, <1>6 DEF InHand
    <3>2. CASE l # k
      BY <3>2, <1>4, <1>6 DEF Apart
    <3>3. QED
      BY <3>1, <3>2
  <2>3. \A s \in hand \union {r}, i \in 1..Len(g.queue) : g.queue[i].swapchain # s.handle
    BY <1>3, <1>6 DEF Apart
  <2>4. ASSUME NEW l \in 1..Slots, NEW i \in 1..Len(g.queue)  PROVE g.queue[i].swapchain # g.retired[l].handle
    <3>1. CASE l = k
      <4>1. d.queue[i].swapchain \in Handles
        BY <1>1, <1>3, DeviceFields
      <4>2. QED
        BY <4>1, <3>1, <1>2, <1>3, <1>4, StateTypes
    <3>2. CASE l # k
      BY <3>2, <1>3, <1>4, <1>6 DEF Apart
    <3>3. QED
      BY <3>1, <3>2
  <2>5. ASSUME NEW l \in 1..Slots, NEW m \in 1..Slots, l # m, g.retired[l].handle # Null
        PROVE  g.retired[l].handle # g.retired[m].handle
    <3>1. l # k
      BY <2>5, <1>2, <1>4
    <3>2. QED
      BY <3>1, <2>5, <1>2, <1>4, <1>6 DEF Apart
  <2>6. QED
    BY <2>1, <2>2, <2>3, <2>4, <2>5, <1>3, <1>6 DEF Apart
<1>9. PresentsKnown(g, hand \union {r})
  <2> SUFFICES ASSUME NEW c \in Contexts
               PROVE  /\ presenting[c] # Null => d.present_pending[c] /\ d.swapchain[c] = presenting[c]
                      /\ ~d.present_pending[c] => d.swapchain[c] = Null
                      /\ d.present_pending[c] =>
                           /\ d.swapchain[c] \in Handles
                           /\ \/ \E s \in hand \union {r} : s.handle = d.swapchain[c]
                              \/ \E l \in 1..Slots : g.retired[l].handle = d.swapchain[c]
    BY <1>3 DEF PresentsKnown
  <2>1. ASSUME NEW l \in 1..Slots, d.retired[l].handle = d.swapchain[c]
        PROVE  \/ \E s \in hand \union {r} : s.handle = d.swapchain[c]
               \/ \E m \in 1..Slots : g.retired[m].handle = d.swapchain[c]
    BY <2>1, <1>4
  <2>2. QED
    BY <2>1, <1>6 DEF PresentsKnown
<1>10. ASSUME NEW h \in Handles, NEW v \in 0..MaxImages
       PROVE  Owned(g, hand \union {r}, h, v) <=> Owned(d, hand, h, v)
  <2>1. ASSUME NEW l \in 1..Slots, g.retired[l].handle = h  PROVE l # k
    BY <2>1, <1>2, <1>4, StateTypes
  <2>2. ASSUME Owned(g, hand \union {r}, h, v)  PROVE Owned(d, hand, h, v)
    BY <2>1, <2>2, <1>3, <1>4 DEF Owned
  <2>3. ASSUME Owned(d, hand, h, v)  PROVE Owned(g, hand \union {r}, h, v)
    BY <2>3, <1>3, <1>4 DEF Owned
  <2>4. QED
    BY <2>2, <2>3
<1>11. Accounted(g, hand \union {r}, existing)
  <2>1. \A h, v : Dead(g, h, v) <=> Dead(d, h, v)
    BY <1>3 DEF Dead
  <2>2. QED
    BY <2>1, <1>6, <1>10 DEF Accounted
<1>12. QueueInOrder(g) /\ CallsUnused(g) /\ CallsExisted(g, existing)
  BY <1>3, <1>6 DEF QueueInOrder, CallsUnused, CallsExisted
<1>13. \A l \in 1..Slots : g.retired[l].handle # Null => g.retired[l].view_count >= 1
  BY <1>2, <1>4 DEF Sound, Placed
<1>14. hand \union {r} \subseteq InHand
  BY <1>5, <1>6
<1>15. Sound(g, hand \union {r}, existing)
  BY <1>3, <1>8, <1>9, <1>11, <1>12, <1>13, <1>14 DEF Sound, Placed
<1>16. QED
  BY <1>7, <1>15 DEF g

(* A swapchain in hand goes to a free slot.                                *)
LEMMA FillSlot ==
  ASSUME TypeOK, NEW d, NEW hand, NEW existing, Sound(d, hand, existing),
         NEW k \in 1..Slots, d.retired[k].handle = Null, NEW r \in hand
  PROVE  Sound([d EXCEPT !.retired[k] = r], hand \ {r}, existing)
<1> DEFINE g == [d EXCEPT !.retired[k] = r]
<1>1. d \in Devices /\ d.retired \in [1..Slots -> RetiredSwapchains]
  BY DeviceFields DEF Sound, Placed
<1>2. Apart(d, hand) /\ Accounted(d, hand, existing) /\ PresentsKnown(d, hand) /\ QueueInOrder(d)
      /\ CallsUnused(d) /\ CallsExisted(d, existing) /\ hand \subseteq InHand
  BY DEF Sound, Placed
<1>3. r \in RetiredSwapchains /\ r.handle # Null /\ r.view_count >= 1
  BY <1>2 DEF InHand
<1>4. /\ g \in Devices
      /\ g.present_pending = d.present_pending /\ g.swapchain = d.swapchain
      /\ g.queue = d.queue /\ g.calls = d.calls
      /\ g.retired = [d.retired EXCEPT ![k] = r]
  BY <1>1, <1>3 DEF Devices
<1>5. /\ \A l \in 1..Slots : l # k => g.retired[l] = d.retired[l]
      /\ g.retired[k] = r
  BY <1>1, <1>4
<1> HIDE DEF g
<1>6. /\ \A s \in hand \ {r} : s.handle # r.handle
      /\ \A l \in 1..Slots : d.retired[l].handle # r.handle
      /\ \A i \in 1..Len(d.queue) : d.queue[i].swapchain # r.handle
  BY <1>2 DEF Apart
<1>7. Apart(g, hand \ {r})
  <2>2. ASSUME NEW s \in hand \ {r}, NEW l \in 1..Slots  PROVE g.retired[l].handle # s.handle
    BY <1>2, <1>5, <1>6 DEF Apart
  <2>3. \A s \in hand \ {r}, i \in 1..Len(g.queue) : g.queue[i].swapchain # s.handle
    BY <1>2, <1>4 DEF Apart
  <2>4. ASSUME NEW l \in 1..Slots, NEW i \in 1..Len(g.queue)  PROVE g.queue[i].swapchain # g.retired[l].handle
    BY <1>2, <1>4, <1>5, <1>6 DEF Apart
  <2>5. ASSUME NEW l \in 1..Slots, NEW m \in 1..Slots, l # m, g.retired[l].handle # Null
        PROVE  g.retired[l].handle # g.retired[m].handle
    <3>1. CASE l = k
      BY <3>1, <2>5, <1>5, <1>6
    <3>2. CASE m = k
      BY <3>2, <2>5, <1>5, <1>6
    <3>3. CASE l # k /\ m # k
      BY <3>3, <2>5, <1>2, <1>5 DEF Apart
    <3>4. QED
      BY <3>1, <3>2, <3>3
  <2>6. QED
    BY <2>2, <2>3, <2>4, <2>5, <1>2, <1>4 DEF Apart
<1>8. PresentsKnown(g, hand \ {r})
  <2> SUFFICES ASSUME NEW c \in Contexts
               PROVE  /\ presenting[c] # Null => d.present_pending[c] /\ d.swapchain[c] = presenting[c]
                      /\ ~d.present_pending[c] => d.swapchain[c] = Null
                      /\ d.present_pending[c] =>
                           /\ d.swapchain[c] \in Handles
                           /\ \/ \E s \in hand \ {r} : s.handle = d.swapchain[c]
                              \/ \E l \in 1..Slots : g.retired[l].handle = d.swapchain[c]
    BY <1>4 DEF PresentsKnown
  <2>1. ASSUME NEW l \in 1..Slots, d.retired[l].handle = d.swapchain[c], d.swapchain[c] \in Handles
        PROVE  g.retired[l].handle = d.swapchain[c]
    <3>1. l # k
      BY <2>1, StateTypes
    <3>2. QED
      BY <3>1, <2>1, <1>5
  <2>2. ASSUME NEW s \in hand, s.handle = d.swapchain[c]
        PROVE  \/ \E t \in hand \ {r} : t.handle = d.swapchain[c]
               \/ \E l \in 1..Slots : g.retired[l].handle = d.swapchain[c]
    BY <2>2, <1>5
  <2>3. QED
    BY <2>1, <2>2, <1>2 DEF PresentsKnown
<1>9. ASSUME NEW h \in Handles, NEW v \in 0..MaxImages
      PROVE  Owned(g, hand \ {r}, h, v) <=> Owned(d, hand, h, v)
  <2>1. ASSUME NEW l \in 1..Slots, d.retired[l].handle = h  PROVE l # k
    BY <2>1, StateTypes
  <2>2. ASSUME Owned(g, hand \ {r}, h, v)  PROVE Owned(d, hand, h, v)
    <3>1. ASSUME NEW l \in 1..Slots, g.retired[l].handle = h, v <= g.retired[l].view_count
          PROVE  Owned(d, hand, h, v)
      <4>1. CASE l = k
        BY <3>1, <4>1, <1>5 DEF Owned
      <4>2. CASE l # k
        BY <3>1, <4>2, <1>5 DEF Owned
      <4>3. QED
        BY <4>1, <4>2
    <3>2. QED
      BY <3>1, <2>2, <1>4 DEF Owned
  <2>3. ASSUME Owned(d, hand, h, v)  PROVE Owned(g, hand \ {r}, h, v)
    <3>1. ASSUME NEW s \in hand, s.handle = h, v <= s.view_count
          PROVE  Owned(g, hand \ {r}, h, v)
      <4>1. CASE s = r
        BY <3>1, <4>1, <1>5 DEF Owned
      <4>2. CASE s # r
        BY <3>1, <4>2 DEF Owned
      <4>3. QED
        BY <4>1, <4>2
    <3>2. ASSUME NEW l \in 1..Slots, d.retired[l].handle = h, v <= d.retired[l].view_count
          PROVE  Owned(g, hand \ {r}, h, v)
      BY <3>2, <2>1, <1>5 DEF Owned
    <3>3. QED
      BY <3>1, <3>2, <2>3, <1>4 DEF Owned
  <2>4. QED
    BY <2>2, <2>3
<1>10. Accounted(g, hand \ {r}, existing)
  <2>1. \A h, v : Dead(g, h, v) <=> Dead(d, h, v)
    BY <1>4 DEF Dead
  <2>2. QED
    BY <2>1, <1>2, <1>9 DEF Accounted
<1>11. QueueInOrder(g) /\ CallsUnused(g) /\ CallsExisted(g, existing)
  BY <1>2, <1>4 DEF QueueInOrder, CallsUnused, CallsExisted
<1>12. \A l \in 1..Slots : g.retired[l].handle # Null => g.retired[l].view_count >= 1
  BY <1>3, <1>5 DEF Sound, Placed
<1>13. Sound(g, hand \ {r}, existing)
  BY <1>2, <1>4, <1>7, <1>8, <1>10, <1>11, <1>12 DEF Sound, Placed
<1>14. QED
  BY <1>13 DEF g

(***************************************************************************)
(* The present of a context is finished.                                   *)
(***************************************************************************)
Unpended(d, c) == [d EXCEPT !.present_pending[c] = FALSE, !.swapchain[c] = Null]

LEMMA UnpendSound ==
  ASSUME TypeOK, NEW d, NEW hand, NEW existing, Sound(d, hand, existing),
         NEW c \in Contexts, Signalled(c)
  PROVE  /\ Sound(Unpended(d, c), hand, existing)
         /\ Unpended(d, c).present_pending = [d.present_pending EXCEPT ![c] = FALSE]
         /\ Unpended(d, c).retired = d.retired /\ Unpended(d, c).queue = d.queue
         /\ \A h \in Handles : PendingOn(Unpended(d, c), h) = PendingOn(d, h) \ {c}
<1> DEFINE g == Unpended(d, c)
<1>1. /\ d \in Devices /\ d.present_pending \in [Contexts -> BOOLEAN]
      /\ d.swapchain \in [Contexts -> HandleOrNull]
  BY DeviceFields DEF Sound, Placed
<1>2. /\ g \in Devices
      /\ g.present_pending = [d.present_pending EXCEPT ![c] = FALSE]
      /\ g.swapchain = [d.swapchain EXCEPT ![c] = Null]
      /\ g.retired = d.retired /\ g.queue = d.queue /\ g.calls = d.calls
  <2>1. Null \in HandleOrNull
    BY DEF HandleOrNull
  <2>2. QED
    BY <1>1, <2>1 DEF Devices, Unpended
<1> HIDE DEF g
<1>3. /\ ~g.present_pending[c] /\ g.swapchain[c] = Null
      /\ \A b \in Contexts : b # c => g.present_pending[b] = d.present_pending[b] /\ g.swapchain[b] = d.swapchain[b]
  BY <1>1, <1>2
<1>4. Apart(d, hand) /\ Accounted(d, hand, existing) /\ PresentsKnown(d, hand) /\ QueueInOrder(d)
      /\ CallsUnused(d) /\ CallsExisted(d, existing) /\ hand \subseteq InHand
  BY DEF Sound, Placed
<1>5. PresentsKnown(g, hand)
  <2> SUFFICES ASSUME NEW b \in Contexts
               PROVE  /\ presenting[b] # Null => g.present_pending[b] /\ g.swapchain[b] = presenting[b]
                      /\ ~g.present_pending[b] => g.swapchain[b] = Null
                      /\ g.present_pending[b] =>
                           /\ g.swapchain[b] \in Handles
                           /\ \/ \E s \in hand : s.handle = g.swapchain[b]
                              \/ \E k \in 1..Slots : g.retired[k].handle = g.swapchain[b]
    BY DEF PresentsKnown
  <2>1. CASE b = c
    BY <2>1, <1>3 DEF Signalled
  <2>2. CASE b # c
    BY <2>2, <1>2, <1>3, <1>4 DEF PresentsKnown
  <2>3. QED
    BY <2>1, <2>2
<1>6. Apart(g, hand) /\ Accounted(g, hand, existing) /\ QueueInOrder(g) /\ CallsUnused(g) /\ CallsExisted(g, existing)
  BY <1>2, <1>4 DEF Apart, Accounted, Owned, Dead, QueueInOrder, CallsUnused, CallsExisted
<1>7. Sound(g, hand, existing)
  BY <1>2, <1>4, <1>5, <1>6 DEF Sound, Placed
<1>8. ASSUME NEW h \in Handles  PROVE PendingOn(g, h) = PendingOn(d, h) \ {c}
  BY <1>3 DEF PendingOn
<1>9. QED
  BY <1>2, <1>7, <1>8 DEF g

LEMMA FinishContextSound ==
  ASSUME TypeOK, NEW d, NEW hand, NEW existing,
         Sound(d, hand, existing), SlotsBusy(d), ~Overdue(d, completed),
         NEW c \in Contexts, d.present_pending[c], Signalled(c)
  PROVE  /\ Sound(FinishContext(d, c), hand, existing)
         /\ SlotsBusy(FinishContext(d, c)) /\ ~Overdue(FinishContext(d, c), completed)
         /\ FinishContext(d, c).present_pending = [d.present_pending EXCEPT ![c] = FALSE]
<1> DEFINE h == d.swapchain[c]
           g == Unpended(d, c)
           slots == {k \in 1..Slots : d.retired[k].handle = h}
           k0 == Min(slots)
           e == FinishContext(d, c)
<1>1. h \in Handles /\ h # Null
  BY StateTypes DEF Sound, Placed, PresentsKnown
<1>2. /\ Sound(g, hand, existing)
      /\ g.present_pending = [d.present_pending EXCEPT ![c] = FALSE]
      /\ g.retired = d.retired /\ g.queue = d.queue
      /\ \A x \in Handles : PendingOn(g, x) = PendingOn(d, x) \ {c}
  BY UnpendSound
<1>3. e = IF slots = {} \/ PendingOn(g, h) # {} THEN g
          ELSE QueueRetired([g EXCEPT !.retired[k0] = NoRetired], d.retired[k0])
  BY DEF FinishContext, Unpended
<1>4. \A k \in 1..Slots : d.retired[k].handle # Null => d.retired[k].handle \in Handles
  <2>1. d.retired \in [1..Slots -> RetiredSwapchains]
    BY DeviceFields DEF Sound, Placed
  <2>2. QED
    BY <2>1 DEF RetiredSwapchains, HandleOrNull
<1>5. ASSUME NEW x \in Handles, x # h  PROVE PendingOn(g, x) = PendingOn(d, x)
  <2>1. c \notin PendingOn(d, x)
    BY <1>5 DEF PendingOn
  <2>2. QED
    BY <2>1, <1>2
<1> HIDE DEF g, e, h
<1>6. CASE slots = {} \/ PendingOn(g, h) # {}
  <2>1. e = g
    BY <1>3, <1>6
  <2>2. ASSUME NEW k \in 1..Slots, g.retired[k].handle # Null  PROVE PendingOn(g, g.retired[k].handle) # {}
    <3>1. d.retired[k].handle \in Handles /\ PendingOn(d, d.retired[k].handle) # {}
      BY <2>2, <1>2, <1>4 DEF SlotsBusy
    <3>2. CASE d.retired[k].handle = h
      BY <3>2, <1>2, <1>6
    <3>3. CASE d.retired[k].handle # h
      BY <3>1, <3>3, <1>2, <1>5
    <3>4. QED
      BY <3>2, <3>3
  <2>3. ~Overdue(g, completed)
    BY <1>2 DEF Overdue
  <2>4. QED
    BY <2>1, <2>2, <2>3, <1>2 DEF SlotsBusy, e
<1>7. CASE slots # {} /\ PendingOn(g, h) = {}
  <2> DEFINE r == d.retired[k0]
             f == [g EXCEPT !.retired[k0] = NoRetired]
  <2>1. k0 \in 1..Slots /\ r.handle = h
    <3>1. slots \in SUBSET Nat
      BY StateTypes
    <3>2. k0 \in slots
      BY <3>1, <1>7, LeastElement
    <3>3. QED
      BY <3>2
  <2>2. e = QueueRetired(f, r)
    BY <1>3, <1>7
  <2>3. Sound(f, hand \union {r}, existing) /\ r \notin hand
    <3>1. g.retired[k0].handle # Null /\ g.retired[k0] = r
      BY <2>1, <1>1, <1>2
    <3>2. QED
      BY <3>1, <2>1, <1>2, TakeSlot
  <2>4. /\ f.present_pending = g.present_pending /\ f.swapchain = g.swapchain
        /\ f.retired = [d.retired EXCEPT ![k0] = NoRetired]
    <3>1. g \in Devices
      BY <1>2 DEF Sound, Placed
    <3>2. QED
      BY <3>1, <1>2 DEF Devices
  <2>5. \A x : PendingOn(f, x) = PendingOn(g, x)
    BY <2>4 DEF PendingOn
  <2> HIDE DEF k0, f, slots
  <2>6. PendingOn(f, r.handle) = {}
    BY <2>1, <2>5, <1>7
  <2>7. /\ Sound(e, (hand \union {r}) \ {r}, existing)
        /\ ~Overdue(e, completed)
        /\ e.present_pending = f.present_pending /\ e.swapchain = f.swapchain
        /\ e.retired = f.retired
    BY <2>2, <2>3, <2>6, QueueRetiredSound
  <2>8. (hand \union {r}) \ {r} = hand
    BY <2>3
  <2>9. \A x : PendingOn(e, x) = PendingOn(g, x)
    <3>1. \A x : PendingOn(e, x) = PendingOn(f, x)
      BY <2>7 DEF PendingOn
    <3>2. QED
      BY <3>1, <2>5
  <2>10. ASSUME NEW k \in 1..Slots, e.retired[k].handle # Null  PROVE PendingOn(e, e.retired[k].handle) # {}
    <3>1. d.retired \in [1..Slots -> RetiredSwapchains]
      BY DeviceFields DEF Sound, Placed
    <3>2. k # k0
      <4>1. e.retired[k0] = NoRetired
        BY <3>1, <2>1, <2>4, <2>7
      <4>2. NoRetired.handle = Null
        BY DEF NoRetired
      <4>3. QED
        BY <4>1, <4>2, <2>10
    <3>3. e.retired[k] = d.retired[k]
      BY <3>1, <3>2, <2>1, <2>4, <2>7
    <3>4. d.retired[k].handle # h
      <4>1. Apart(d, hand)
        BY DEF Sound, Placed
      <4>2. QED
        BY <4>1, <3>2, <3>3, <2>1, <2>10 DEF Apart
    <3>5. d.retired[k].handle \in Handles /\ PendingOn(d, d.retired[k].handle) # {}
      BY <3>3, <2>10, <1>4 DEF SlotsBusy
    <3>6. QED
      BY <3>3, <3>4, <3>5, <2>9, <1>5
  <2>11. e.present_pending = [d.present_pending EXCEPT ![c] = FALSE]
    BY <2>4, <2>7, <1>2
  <2>12. QED
    BY <2>7, <2>8, <2>10, <2>11 DEF SlotsBusy, e
<1>8. QED
  BY <1>6, <1>7

-----------------------------------------------------------------------------
(***************************************************************************)
(* The loop over the contexts is well defined: there is a function with    *)
(* its value after every iteration.  A least number of iterations without  *)
(* one would be 0, or follow one that has it.                              *)
(***************************************************************************)
Iteration(due, x, n) == IF n - 1 \in due THEN FinishContext(x, n - 1) ELSE x
Iterates(d, due, f, last) == f = [n \in 0..last |-> IF n = 0 THEN d ELSE Iteration(due, f[n - 1], n)]

LEMMA IteratesExist ==
  ASSUME NEW d, NEW due, NEW last \in Nat
  PROVE  \E f : Iterates(d, due, f, last)
<1> DEFINE Without == {n \in Nat : ~ \E f : Iterates(d, due, f, n)}
<1>1. SUFFICES ASSUME Without # {} PROVE FALSE
  OBVIOUS
<1> DEFINE m == Min(Without)
<1>2. m \in Without /\ \A n \in Without : m <= n
  <2>1. Without \in SUBSET Nat
    OBVIOUS
  <2> HIDE DEF Without
  <2>2. QED
    BY <1>1, <2>1, LeastElement
<1> HIDE DEF m
<1>3. CASE m = 0
  <2> DEFINE f == [n \in 0..0 |-> d]
  <2>1. f = [n \in 0..0 |-> IF n = 0 THEN d ELSE Iteration(due, f[n - 1], n)]
    <3>1. \A n \in 0..0 : n = 0
      OBVIOUS
    <3>2. QED
      BY <3>1
  <2>2. Iterates(d, due, f, 0)
    BY <2>1 DEF Iterates
  <2>3. QED
    BY <2>2, <1>2, <1>3
<1>4. CASE m # 0
  <2>1. m \in Nat /\ m - 1 \in Nat /\ m - 1 \notin Without
    <3>1. m \in Nat /\ m - 1 \in Nat /\ ~(m <= m - 1)
      BY <1>2, <1>4
    <3>2. QED
      BY <1>2, <3>1
  <2>2. PICK f : Iterates(d, due, f, m - 1)
    BY <2>1
  <2> DEFINE g == [n \in 0..m |-> IF n = m THEN Iteration(due, f[m - 1], m) ELSE f[n]]
  <2>3. ASSUME NEW n \in 0..m
        PROVE  g[n] = IF n = 0 THEN d ELSE Iteration(due, g[n - 1], n)
    <3>1. CASE n = 0
      <4>1. g[n] = f[0] /\ 0 \in 0..(m - 1)
        BY <2>1, <3>1, <1>4
      <4>2. f[0] = d
        BY <2>2, <4>1 DEF Iterates
      <4>3. QED
        BY <3>1, <4>1, <4>2
    <3>2. CASE n = m
      <4>1. g[n] = Iteration(due, f[m - 1], m) /\ g[m - 1] = f[m - 1]
        BY <2>1, <3>2
      <4>2. QED
        BY <3>2, <4>1, <1>4
    <3>3. CASE n # 0 /\ n # m
      <4>1. n \in 0..(m - 1) /\ g[n] = f[n] /\ g[n - 1] = f[n - 1]
        BY <2>1, <3>3
      <4>2. f[n] = Iteration(due, f[n - 1], n)
        BY <2>2, <3>3, <4>1 DEF Iterates
      <4>3. QED
        BY <3>3, <4>1, <4>2
    <3>4. QED
      BY <3>1, <3>2, <3>3
  <2>4. g = [n \in 0..m |-> IF n = 0 THEN d ELSE Iteration(due, g[n - 1], n)]
    <3>1. g = [n \in 0..m |-> g[n]]
      OBVIOUS
    <3> HIDE DEF g
    <3>2. QED
      BY <2>3, <3>1
  <2>5. Iterates(d, due, g, m)
    BY <2>4 DEF Iterates
  <2>6. QED
    BY <2>5, <1>2
<1>5. QED
  BY <1>3, <1>4

LEMMA FinishContextsIterates ==
  ASSUME NEW d, NEW due, PresentContexts \in Nat
  PROVE  \E f : Iterates(d, due, f, PresentContexts) /\ FinishContexts(d, due) = f[PresentContexts]
<1> DEFINE f == CHOOSE f : Iterates(d, due, f, PresentContexts)
<1>1. Iterates(d, due, f, PresentContexts)
  BY IteratesExist
<1>2. FinishContexts(d, due) = f[PresentContexts]
  BY DEF FinishContexts, Iterates, Iteration
<1>3. QED
  BY <1>1, <1>2

(***************************************************************************)
(* The loop finishes the presents of due, and disturbs nothing.            *)
(***************************************************************************)
LEMMA FinishContextsSound ==
  ASSUME TypeOK, NEW d, NEW hand, NEW existing,
         Sound(d, hand, existing), SlotsBusy(d), ~Overdue(d, completed),
         NEW due, \A c \in due : c \in Contexts /\ d.present_pending[c] /\ Signalled(c)
  PROVE  /\ Sound(FinishContexts(d, due), hand, existing)
         /\ SlotsBusy(FinishContexts(d, due)) /\ ~Overdue(FinishContexts(d, due), completed)
         /\ \A c \in Contexts :
              FinishContexts(d, due).present_pending[c] <=> d.present_pending[c] /\ c \notin due
<1>1. PresentContexts \in Nat
  BY StateTypes
<1>2. PICK f : Iterates(d, due, f, PresentContexts) /\ FinishContexts(d, due) = f[PresentContexts]
  BY <1>1, FinishContextsIterates
<1> DEFINE Good(n) ==
             /\ Sound(f[n], hand, existing) /\ SlotsBusy(f[n]) /\ ~Overdue(f[n], completed)
             /\ \A c \in Contexts : f[n].present_pending[c] <=> d.present_pending[c] /\ ~(c \in due /\ c < n)
           Spoilt == {n \in 0..PresentContexts : ~Good(n)}
<1>3. f[0] = d /\ \A n \in 1..PresentContexts : f[n] = Iteration(due, f[n - 1], n)
  BY <1>1, <1>2 DEF Iterates
<1>4. Good(0)
  <2>1. \A c \in Contexts : ~(c < 0)
    BY <1>1 DEF Contexts
  <2>2. QED
    BY <2>1, <1>3
<1>5. ASSUME NEW n \in 1..PresentContexts, Good(n - 1)  PROVE Good(n)
  <2>1. n - 1 \in Contexts
    BY <1>1 DEF Contexts
  <2>2. \A c \in Contexts : c < n <=> c < n - 1 \/ c = n - 1
    BY <1>1 DEF Contexts
  <2>3. CASE n - 1 \in due
    <3> DEFINE x == f[n - 1]
               b == n - 1
    <3>0. f[n] = FinishContext(x, b)
      BY <2>3, <1>3 DEF Iteration
    <3>1. /\ Sound(x, hand, existing) /\ SlotsBusy(x) /\ ~Overdue(x, completed)
          /\ \A c \in Contexts : x.present_pending[c] <=> d.present_pending[c] /\ ~(c \in due /\ c < b)
      BY <1>5
    <3>2. b \in Contexts /\ ~(b < b)
      BY <2>1, <1>1
    <3> HIDE DEF Good, Spoilt, x, b
    <3>3. x.present_pending[b] /\ Signalled(b)
      <4>1. b \in due
        BY <2>3 DEF b
      <4>2. QED
        BY <3>1, <3>2, <4>1
    <3>4. /\ Sound(f[n], hand, existing) /\ SlotsBusy(f[n]) /\ ~Overdue(f[n], completed)
          /\ f[n].present_pending = [x.present_pending EXCEPT ![b] = FALSE]
      BY <3>0, <3>1, <3>2, <3>3, FinishContextSound
    <3>5. x.present_pending \in [Contexts -> BOOLEAN]
      <4>1. x \in Devices
        BY <3>1 DEF Sound, Placed
      <4>2. QED
        BY <4>1, DeviceFields
    <3>6. ASSUME NEW c \in Contexts
          PROVE  f[n].present_pending[c] <=> d.present_pending[c] /\ ~(c \in due /\ c < n)
      <4>1. CASE c = b
        <5>1. ~f[n].present_pending[c]
          BY <4>1, <3>4, <3>5
        <5>2. c \in due /\ c < n
          BY <4>1, <2>2, <2>3 DEF b
        <5>3. QED
          BY <5>1, <5>2
      <4>2. CASE c # b
        <5>1. f[n].present_pending[c] <=> x.present_pending[c]
          BY <4>2, <3>4, <3>5
        <5>2. c < n <=> c < b
          BY <4>2, <2>2 DEF b
        <5>3. QED
          BY <5>1, <5>2, <3>1
      <4>3. QED
        BY <4>1, <4>2
    <3>7. QED
      BY <3>4, <3>6 DEF Good
  <2>4. CASE n - 1 \notin due
    <3>1. f[n] = f[n - 1]
      BY <2>4, <1>3 DEF Iteration
    <3>2. \A c \in Contexts : c \in due /\ c < n <=> c \in due /\ c < n - 1
      BY <2>2, <2>4
    <3>3. QED
      BY <3>1, <3>2, <1>5
  <2>5. QED
    BY <2>3, <2>4
<1> HIDE DEF Good
<1>6. Spoilt = {}
  <2>1. SUFFICES ASSUME Spoilt # {} PROVE FALSE
    OBVIOUS
  <2> DEFINE m == Min(Spoilt)
  <2>2. m \in Spoilt /\ \A n \in Spoilt : m <= n
    <3>1. Spoilt \in SUBSET Nat
      BY <1>1
    <3> HIDE DEF Spoilt
    <3>2. QED
      BY <2>1, <3>1, LeastElement
  <2> HIDE DEF m
  <2>3. m \in 0..PresentContexts /\ ~Good(m)
    BY <2>2
  <2>4. m # 0
    BY <2>3, <1>4
  <2>5. m \in 1..PresentContexts /\ m - 1 \in 0..PresentContexts /\ ~(m <= m - 1)
    BY <2>3, <2>4, <1>1
  <2>6. Good(m - 1)
    BY <2>2, <2>5
  <2>7. QED
    BY <2>3, <2>5, <2>6, <1>5
<1>7. Good(PresentContexts)
  BY <1>1, <1>6
<1>8. \A c \in Contexts : c < PresentContexts
  BY <1>1 DEF Contexts
<1>9. QED
  BY <1>2, <1>7, <1>8 DEF Good

(***************************************************************************)
(* Occupied slots and a swapchain in hand with a pending present each need *)
(* a context of their own, and there are no more contexts than slots.      *)
(***************************************************************************)
LEMMA SlotIsFree ==
  ASSUME TypeOK, NEW d, NEW hand, NEW existing, Sound(d, hand, existing), SlotsBusy(d),
         NEW r \in hand, PendingOn(d, r.handle) # {}
  PROVE  FreeSlots(d) # {}
<1>1. SUFFICES ASSUME FreeSlots(d) = {} PROVE FALSE
  OBVIOUS
<1>2. Slots \in Nat /\ PresentContexts \in Nat /\ Slots >= PresentContexts
  BY StateTypes
<1>3. \A k \in 1..Slots : d.retired[k].handle # Null
  BY <1>1 DEF FreeSlots
<1> DEFINE HandleAt(k) == IF k = 0 THEN r.handle ELSE d.retired[k].handle
           f == [k \in 0..Slots |-> CHOOSE c \in Contexts : c \in PendingOn(d, HandleAt(k))]
<1>4. ASSUME NEW k \in 0..Slots  PROVE PendingOn(d, HandleAt(k)) # {}
  <2>1. CASE k = 0
    BY <2>1
  <2>2. CASE k # 0
    <3>1. k \in 1..Slots
      BY <2>2, <1>2
    <3>2. QED
      BY <3>1, <2>2, <1>3 DEF SlotsBusy
  <2>3. QED
    BY <2>1, <2>2
<1>5. ASSUME NEW k \in 0..Slots  PROVE f[k] \in Contexts /\ d.swapchain[f[k]] = HandleAt(k)
  <2>1. \E c \in Contexts : c \in PendingOn(d, HandleAt(k))
    BY <1>4 DEF PendingOn
  <2>2. f[k] \in Contexts /\ f[k] \in PendingOn(d, HandleAt(k))
    BY <2>1
  <2>3. QED
    BY <2>2 DEF PendingOn
<1>6. ASSUME NEW k \in 0..Slots, NEW l \in 0..Slots, k # l  PROVE HandleAt(k) # HandleAt(l)
  <2>1. Apart(d, hand)
    BY DEF Sound, Placed
  <2>2. CASE k = 0
    <3>1. l \in 1..Slots
      BY <1>2, <1>6, <2>2
    <3>2. QED
      BY <2>1, <2>2, <3>1 DEF Apart
  <2>3. CASE l = 0
    <3>1. k \in 1..Slots
      BY <1>2, <1>6, <2>3
    <3>2. QED
      BY <2>1, <2>3, <3>1 DEF Apart
  <2>4. CASE k # 0 /\ l # 0
    <3>1. k \in 1..Slots /\ l \in 1..Slots
      BY <1>2, <2>4
    <3>2. QED
      BY <2>1, <2>4, <3>1, <1>3, <1>6 DEF Apart
  <2>5. QED
    BY <2>2, <2>3, <2>4
<1>7. f \in [0..Slots -> Contexts]
  BY <1>5
<1> HIDE DEF f, HandleAt
<1>8. IsFiniteSet(0..Slots) /\ Cardinality(0..Slots) = Slots + 1
  <2>1. 0 \in Int /\ Slots \in Int /\ ~(0 > Slots) /\ Slots - 0 + 1 = Slots + 1
    BY <1>2
  <2>2. QED
    BY <2>1, FS_Interval
<1>9. IsFiniteSet(Contexts) /\ Cardinality(Contexts) = PresentContexts
  <2>1. 0 \in Int /\ PresentContexts - 1 \in Int /\ ~(0 > PresentContexts - 1)
        /\ (PresentContexts - 1) - 0 + 1 = PresentContexts
    BY <1>2, StateTypes
  <2>2. QED
    BY <2>1, FS_Interval DEF Contexts
<1>10. Cardinality(Contexts) < Cardinality(0..Slots)
  BY <1>2, <1>8, <1>9
<1>11. \E k, l \in 0..Slots : k # l /\ f[k] = f[l]
  BY <1>7, <1>8, <1>9, <1>10, FS_PigeonHole
<1>12. QED
  BY <1>5, <1>6, <1>11

(***************************************************************************)
(* retire_swapchain_handle, up to the choice among queue, slot and wait.   *)
(***************************************************************************)
LEMMA RetiredSound ==
  ASSUME TypeOK, NEW d, NEW hand, NEW existing,
         Sound(d, hand, existing), SlotsBusy(d), ~Overdue(d, completed), NEW r \in hand
  PROVE  /\ Sound(Retired(d, r), hand \ {r}, existing)
         /\ SlotsBusy(Retired(d, r)) /\ ~Overdue(Retired(d, r), completed)
         /\ Retired(d, r).present_pending = d.present_pending
<1>1. d \in Devices /\ d.retired \in [1..Slots -> RetiredSwapchains]
  BY DeviceFields DEF Sound, Placed
<1>2. r.handle # Null /\ r \in RetiredSwapchains
  BY DEF Sound, Placed, InHand
<1>3. CASE PendingOn(d, r.handle) = {}
  <2> DEFINE e == QueueRetired(d, r)
  <2>1. Retired(d, r) = e
    BY <1>3 DEF Retired
  <2>2. /\ Sound(e, hand \ {r}, existing) /\ ~Overdue(e, completed)
        /\ e.present_pending = d.present_pending /\ e.swapchain = d.swapchain /\ e.retired = d.retired
    BY <1>3, QueueRetiredSound
  <2> HIDE DEF e
  <2>3. SlotsBusy(e)
    BY <2>2 DEF SlotsBusy, PendingOn
  <2>4. QED
    BY <2>1, <2>2, <2>3
<1>4. CASE PendingOn(d, r.handle) # {}
  <2> DEFINE k == Min(FreeSlots(d))
             e == [d EXCEPT !.retired[k] = r]
  <2>1. FreeSlots(d) # {}
    BY <1>4, SlotIsFree
  <2>2. Retired(d, r) = e
    BY <1>4, <2>1 DEF Retired
  <2>3. k \in 1..Slots /\ d.retired[k].handle = Null
    <3>1. FreeSlots(d) \in SUBSET Nat
      BY StateTypes DEF FreeSlots
    <3>2. k \in FreeSlots(d)
      BY <2>1, <3>1, LeastElement
    <3>3. QED
      BY <3>2 DEF FreeSlots
  <2> HIDE DEF k
  <2>4. Sound(e, hand \ {r}, existing)
    BY <2>3, FillSlot
  <2>5. /\ e.present_pending = d.present_pending /\ e.swapchain = d.swapchain /\ e.queue = d.queue
        /\ e.retired = [d.retired EXCEPT ![k] = r]
    BY <1>1 DEF Devices
  <2> HIDE DEF e
  <2>6. \A h : PendingOn(e, h) = PendingOn(d, h)
    BY <2>5 DEF PendingOn
  <2>7. ASSUME NEW l \in 1..Slots, e.retired[l].handle # Null  PROVE PendingOn(e, e.retired[l].handle) # {}
    <3>1. CASE l = k
      <4>1. e.retired[l] = r
        BY <3>1, <2>5, <1>1
      <4>2. QED
        BY <4>1, <2>6, <1>4
    <3>2. CASE l # k
      <4>1. e.retired[l] = d.retired[l]
        BY <3>2, <2>5, <1>1
      <4>2. QED
        BY <4>1, <2>6, <2>7 DEF SlotsBusy
    <3>3. QED
      BY <3>1, <3>2
  <2>8. ~Overdue(e, completed)
    BY <2>5 DEF Overdue
  <2>9. QED
    BY <2>2, <2>4, <2>5, <2>7, <2>8 DEF SlotsBusy
<1>5. QED
  BY <1>3, <1>4

(* Replacing a swapchain never waits, and leaves nothing in hand.          *)
LEMMA RetireHandleSound ==
  ASSUME TypeOK, DeviceInv, SwapchainInv
  PROVE  /\ Sound(RetireHandle, {}, live)
         /\ SlotsBusy(RetireHandle) /\ ~Overdue(RetireHandle, completed)
         /\ \A c \in Contexts : RetireHandle.present_pending[c] => device.present_pending[c]
<1>1. Sound(device, Current, live) /\ SlotsBusy(device) /\ ~Overdue(device, completed)
  BY DEF DeviceInv
<1>2. CASE swapchain.handle = Null
  <2>1. RetireHandle = device /\ Current = {}
    BY <1>2 DEF RetireHandle, Current
  <2>2. QED
    BY <1>1, <2>1
<1>3. CASE swapchain.handle # Null
  <2> DEFINE due == {c \in Contexts : device.present_pending[c] /\ Signalled(c)}
             p == PollPresentContexts(device)
             r == [handle |-> swapchain.handle, view_count |-> swapchain.image_count]
  <2>1. RetireHandle = Retired(p, r) /\ Current = {r} /\ p = FinishContexts(device, due)
    BY <1>3 DEF RetireHandle, Current, PollPresentContexts
  <2>2. \A c \in due : c \in Contexts /\ device.present_pending[c] /\ Signalled(c)
    OBVIOUS
  <2> HIDE DEF due, p, r
  <2>3. /\ Sound(p, {r}, live) /\ SlotsBusy(p) /\ ~Overdue(p, completed)
        /\ \A c \in Contexts : p.present_pending[c] <=> device.present_pending[c] /\ c \notin due
    BY <1>1, <2>1, <2>2, FinishContextsSound
  <2>4. /\ Sound(Retired(p, r), {r} \ {r}, live)
        /\ SlotsBusy(Retired(p, r)) /\ ~Overdue(Retired(p, r), completed)
        /\ Retired(p, r).present_pending = p.present_pending
    <3>1. r \in {r}
      OBVIOUS
    <3>2. QED
      BY <2>3, <3>1, RetiredSound
  <2>5. {r} \ {r} = {}
    OBVIOUS
  <2>6. QED
    BY <2>1, <2>3, <2>4, <2>5
<1>4. QED
  BY <1>2, <1>3

-----------------------------------------------------------------------------
(* The end of a step.                                                      *)
LEMMA ClearCalls ==
  ASSUME TypeOK, NEW d, NEW hand, NEW existing, Sound(d, hand, existing),
         existing \subseteq Handles \X (0..MaxImages)
  PROVE  LET e == [d EXCEPT !.calls = <<>>]
             rest == existing \ DestroyedBy(d.calls)
         IN /\ Sound(e, hand, rest)
            /\ e.calls = <<>> /\ e.present_pending = d.present_pending /\ e.swapchain = d.swapchain
            /\ e.retired = d.retired /\ e.queue = d.queue
            /\ rest \subseteq Handles \X (0..MaxImages)
<1> DEFINE e == [d EXCEPT !.calls = <<>>]
           rest == existing \ DestroyedBy(d.calls)
<1>1. d \in Devices /\ d.calls \in Seq(Calls) /\ Len(d.calls) \in Nat
  BY DeviceFields DEF Sound, Placed
<1>2. /\ e \in Devices
      /\ e.calls = <<>> /\ e.present_pending = d.present_pending /\ e.swapchain = d.swapchain
      /\ e.retired = d.retired /\ e.queue = d.queue
  <2>1. <<>> \in Seq(Calls)
    OBVIOUS
  <2>2. QED
    BY <1>1, <2>1 DEF Devices
<1> HIDE DEF e
<1>3. ASSUME NEW h \in Handles, NEW v \in 0..MaxImages
      PROVE  <<h, v>> \in DestroyedBy(d.calls) <=> Dead(d, h, v)
  <2>1. DOMAIN d.calls = 1..Len(d.calls)
    BY <1>1
  <2>2. ASSUME Dead(d, h, v)  PROVE <<h, v>> \in DestroyedBy(d.calls)
    BY <2>1, <2>2 DEF Dead, DestroyedBy
  <2>3. ASSUME <<h, v>> \in DestroyedBy(d.calls)  PROVE Dead(d, h, v)
    BY <2>1, <2>3 DEF Dead, DestroyedBy
  <2>4. QED
    BY <2>2, <2>3
<1>4. Apart(d, hand) /\ Accounted(d, hand, existing) /\ PresentsKnown(d, hand) /\ QueueInOrder(d)
  BY DEF Sound, Placed
<1>5. ASSUME NEW h \in Handles, NEW v \in 0..MaxImages
      PROVE  /\ <<h, v>> \in rest <=> Owned(e, hand, h, v) \/ Dead(e, h, v)
             /\ ~(Owned(e, hand, h, v) /\ Dead(e, h, v))
  <2>1. ~Dead(e, h, v)
    BY <1>2 DEF Dead
  <2>2. Owned(e, hand, h, v) <=> Owned(d, hand, h, v)
    BY <1>2 DEF Owned
  <2>3. /\ <<h, v>> \in existing <=> Owned(d, hand, h, v) \/ Dead(d, h, v)
        /\ ~(Owned(d, hand, h, v) /\ Dead(d, h, v))
    BY <1>4 DEF Accounted
  <2>4. QED
    BY <2>1, <2>2, <2>3, <1>3
<1>6. Accounted(e, hand, rest)
  BY <1>5 DEF Accounted
<1>7. Apart(e, hand) /\ PresentsKnown(e, hand) /\ QueueInOrder(e)
  BY <1>2, <1>4 DEF Apart, PresentsKnown, QueueInOrder
<1>8. CallsUnused(e) /\ CallsExisted(e, rest)
  BY <1>2 DEF CallsUnused, CallsExisted
<1>9. hand \subseteq InHand /\ \A k \in 1..Slots : e.retired[k].handle # Null => e.retired[k].view_count >= 1
  BY <1>2 DEF Sound, Placed
<1>10. Sound(e, hand, rest)
  BY <1>2, <1>6, <1>7, <1>8, <1>9 DEF Sound, Placed
<1>11. QED
  BY <1>2, <1>10 DEF e

(* A new swapchain comes to hand.                                          *)
LEMMA CreateSound ==
  ASSUME TypeOK, NEW d, NEW existing, Sound(d, {}, existing), d.calls = <<>>,
         NEW handle \in Handles, <<handle, 0>> \notin existing, NEW count \in 1..MaxImages
  PROVE  /\ Placed(d, {[handle |-> handle, view_count |-> count]}, existing \union {<<handle, i>> : i \in 0..count})
         /\ \A i \in 1..Len(d.queue) : d.queue[i].swapchain # handle
<1> DEFINE r == [handle |-> handle, view_count |-> count]
           more == existing \union {<<handle, i>> : i \in 0..count}
<1>1. Apart(d, {}) /\ Accounted(d, {}, existing) /\ PresentsKnown(d, {}) /\ d \in Devices
  BY DEF Sound, Placed
<1>2. MaxImages \in Nat /\ 0 \in 0..MaxImages /\ handle # Null
  <2>1. MaxImages \in Nat /\ Null \notin Handles
    BY StateTypes
  <2>2. QED
    BY <2>1
<1>3. r \in InHand
  <2>1. r \in RetiredSwapchains
    BY <1>2 DEF RetiredSwapchains, HandleOrNull
  <2>2. QED
    BY <2>1, <1>2 DEF InHand
<1>4. ~Owned(d, {}, handle, 0)
  BY <1>1, <1>2 DEF Accounted
<1>5. \A i \in 1..Len(d.queue) : d.queue[i].swapchain # handle
  BY <1>4 DEF Owned
<1>6. ASSUME NEW k \in 1..Slots  PROVE d.retired[k].handle # handle
  <2>1. d.retired[k].view_count \in 0..MaxImages
    BY <1>1, DeviceFields DEF RetiredSwapchains
  <2>2. 0 <= d.retired[k].view_count
    BY <2>1, <1>2
  <2>3. QED
    BY <2>2, <1>4 DEF Owned
<1>7. Apart(d, {r})
  BY <1>1, <1>5, <1>6 DEF Apart
<1>8. ASSUME NEW h \in Handles, NEW v \in 0..MaxImages
      PROVE  /\ <<h, v>> \in more <=> Owned(d, {r}, h, v)
             /\ ~Dead(d, h, v)
  <2>1. ~Dead(d, h, v)
    BY DEF Dead
  <2>2. <<h, v>> \in existing <=> Owned(d, {}, h, v)
    BY <2>1, <1>1 DEF Accounted
  <2>3. Owned(d, {r}, h, v) <=> Owned(d, {}, h, v) \/ (h = handle /\ v <= count)
    BY DEF Owned
  <2>4. <<h, v>> \in {<<handle, i>> : i \in 0..count} <=> h = handle /\ v <= count
    BY <1>2
  <2>5. QED
    BY <2>1, <2>2, <2>3, <2>4
<1>9. Accounted(d, {r}, more)
  BY <1>8 DEF Accounted
<1>10. \A k \in 1..Slots : d.retired[k].handle # Null => d.retired[k].view_count >= 1
  BY DEF Sound, Placed
<1>11. QED
  BY <1>1, <1>3, <1>5, <1>7, <1>9, <1>10 DEF Placed

(***************************************************************************)
(* The property DestroysOnlyUnused, of one step.                           *)
(***************************************************************************)
Unused ==
  \A i \in 1..Len(calls') :
    LET handle == calls'[i].swapchain
    IN /\ <<handle, calls'[i].view>> \in live /\ <<handle, 0>> \in live
       /\ \A j \in 1..(i - 1) :
            calls'[j].swapchain = handle => calls'[j].view # calls'[i].view /\ ~calls'[j].final_image
       /\ lastUse[handle] <= gpuWork
       /\ \A c \in Contexts : presenting[c] # handle

LEMMA SoundIsUnused ==
  ASSUME NEW d, NEW hand, Sound(d, hand, live), calls' = d.calls
  PROVE  Unused
BY DEF Sound, CallsUnused, CallsExisted, Unused

LEMMA NothingIsUnused == calls' = <<>> => Unused
BY DEF Unused

(* The part of TypeOK about the device.                                    *)
LEMMA DeviceType ==
  ASSUME NEW dd \in Devices, dd = device'
  PROVE  /\ device'.present_pending \in [Contexts -> BOOLEAN]
         /\ device'.swapchain \in [Contexts -> HandleOrNull]
         /\ device'.retired \in [1..Slots -> [handle : HandleOrNull, view_count : 0..MaxImages]]
BY DeviceFields DEF RetiredSwapchains

LEMMA PlacedAfter ==
  ASSUME NEW dd, NEW hh, NEW ll, dd = device', hh = Current', ll = live',
         Placed(dd, hh, ll), dd.calls = <<>>, SlotsBusy(dd), NEW value, value = completed', ~Overdue(dd, value),
         PresentsKnown(device, Current)', QueueInOrder(device)'
  PROVE  DeviceInv'
<1>1. Placed(device, Current, live)'
  BY DEF Placed, Apart, Accounted, Owned, Dead
<1>2. CallsUnused(device)' /\ CallsExisted(device, live)'
  BY DEF CallsUnused, CallsExisted
<1>3. SlotsBusy(device)' /\ (~Overdue(device, completed))'
  BY DEF SlotsBusy, PendingOn, Overdue
<1>4. QED
  BY <1>1, <1>2, <1>3 DEF DeviceInv, Sound

LEMMA DeviceAfter ==
  ASSUME TypeOK, NEW dd, NEW hh, NEW ll, dd = device', hh = Current', ll = live',
         Sound(dd, hh, ll), dd.calls = <<>>, SlotsBusy(dd), NEW value, value = completed', ~Overdue(dd, value),
         submitted' \in Nat, submitted <= submitted', lastUse' = lastUse,
         \A c \in Contexts : presenting'[c] # Null => presenting'[c] = presenting[c]
  PROVE  DeviceInv'
<1>1. dd \in Devices /\ PresentsKnown(dd, hh) /\ QueueInOrder(dd)
  BY DEF Sound, Placed
<1>2. PresentsKnown(device, Current)'
  BY <1>1 DEF PresentsKnown
<1>3. QueueInOrder(device)'
  <2>1. submitted \in Nat /\ \A i \in 1..Len(dd.queue) : dd.queue[i].retire_value \in Nat
    BY <1>1, DeviceFields, StateTypes
  <2>2. \A i \in 1..Len(dd.queue) : dd.queue[i].retire_value <= submitted'
    BY <2>1, <1>1 DEF QueueInOrder
  <2>3. QED
    BY <2>2, <1>1 DEF QueueInOrder
<1>4. Placed(dd, hh, ll)
  BY DEF Sound
<1>5. QED
  BY <1>2, <1>3, <1>4, PlacedAfter

(***************************************************************************)
(* A step that leaves the device alone, and one in which it becomes d.     *)
(***************************************************************************)
LEMMA DeviceStays ==
  ASSUME TypeOK, DeviceInv, device' = device, live' = live, Current' = Current, completed' = completed,
         submitted' \in Nat, submitted <= submitted', lastUse' = lastUse,
         \A c \in Contexts : presenting'[c] # Null => presenting'[c] = presenting[c]
  PROVE  DeviceInv'
<1> PICK dd, hh, ll, value : dd = device /\ hh = Current /\ ll = live /\ value = completed
  OBVIOUS
<1>1. Sound(dd, hh, ll) /\ dd.calls = <<>> /\ SlotsBusy(dd) /\ ~Overdue(dd, value)
  BY DEF DeviceInv
<1>2. dd = device' /\ hh = Current' /\ ll = live' /\ value = completed'
  OBVIOUS
<1>3. QED
  BY <1>1, <1>2, DeviceAfter

LEMMA DeviceBecomes ==
  ASSUME TypeOK, NEW d, NEW hand, hand = Current', Sound(d, hand, live), SlotsBusy(d),
         NEW value, value = completed', ~Overdue(d, value),
         Become(d), live' = live \ Destroyed(d), submitted' = submitted, lastUse' = lastUse,
         presenting' = presenting
  PROVE  /\ DeviceInv' /\ Unused
         /\ device'.present_pending = d.present_pending
         /\ device'.present_pending \in [Contexts -> BOOLEAN]
         /\ device'.swapchain \in [Contexts -> HandleOrNull]
         /\ device'.retired \in [1..Slots -> [handle : HandleOrNull, view_count : 0..MaxImages]]
         /\ live' \subseteq Handles \X (0..MaxImages)
<1> DEFINE dd == [d EXCEPT !.calls = <<>>]
           ll == live \ DestroyedBy(d.calls)
<1>1. device' = dd /\ live' = ll /\ calls' = d.calls
  BY DEF Become, Destroyed
<1>2. live \subseteq Handles \X (0..MaxImages) /\ submitted \in Nat
  BY StateTypes DEF TypeOK
<1>3. /\ Sound(dd, hand, ll)
      /\ dd.calls = <<>> /\ dd.present_pending = d.present_pending /\ dd.swapchain = d.swapchain
      /\ dd.retired = d.retired /\ dd.queue = d.queue
      /\ ll \subseteq Handles \X (0..MaxImages)
  BY <1>2, ClearCalls
<1> HIDE DEF dd, ll
<1>4. SlotsBusy(dd) /\ ~Overdue(dd, value)
  BY <1>3 DEF SlotsBusy, PendingOn, Overdue
<1>5. dd \in Devices
  BY <1>3 DEF Sound, Placed
<1>6. submitted' \in Nat /\ submitted <= submitted'
      /\ \A c \in Contexts : presenting'[c] # Null => presenting'[c] = presenting[c]
  BY <1>2
<1>7. DeviceInv'
  BY <1>1, <1>3, <1>4, <1>6, DeviceAfter
<1>8. Unused
  BY <1>1, SoundIsUnused
<1>9. /\ device'.present_pending \in [Contexts -> BOOLEAN]
      /\ device'.swapchain \in [Contexts -> HandleOrNull]
      /\ device'.retired \in [1..Slots -> [handle : HandleOrNull, view_count : 0..MaxImages]]
  BY <1>1, <1>5, DeviceType
<1>10. QED
  BY <1>1, <1>3, <1>7, <1>8, <1>9

-----------------------------------------------------------------------------
(* The initial state.                                                      *)
LEMMA InitIInv == Init => IInv
<1> SUFFICES ASSUME Init PROVE IInv
  OBVIOUS
<1> USE DEF Init
<1>1. PresentContexts \in Nat \ {0} /\ Slots \in Nat /\ MaxImages \in Nat \ {0} /\ MaxSubmissions \in Nat
  BY ConstantsAssumption
<1>2. NoRetired \in RetiredSwapchains
  BY <1>1 DEF NoRetired, RetiredSwapchains, HandleOrNull
<1>3. TypeOK
  <2>1. /\ phase \in Phases /\ position \in 0..PresentContexts /\ next_present_context \in Contexts
        /\ completed \in 0..gpuRetired /\ gpuRetired \in 0..gpuWork
        /\ gpuWork \in 0..submitted /\ submitted \in 0..MaxSubmissions
    BY <1>1 DEF Phases, Contexts
  <2>2. /\ device.present_pending \in [Contexts -> BOOLEAN]
        /\ device.swapchain \in [Contexts -> HandleOrNull]
        /\ device.retired \in [1..Slots -> [handle : HandleOrNull, view_count : 0..MaxImages]]
    BY <1>2 DEF RetiredSwapchains, HandleOrNull
  <2>3. swapchain \in [handle : HandleOrNull, image_count : 0..MaxImages, image_index : 0..MaxImages,
                       extent : Extents \union {Minimized}, recreate_required : BOOLEAN,
                       initialized : [1..MaxImages -> BOOLEAN]]
    BY <1>1 DEF NoSwapchain, HandleOrNull
  <2>4. /\ presenting \in [Contexts -> HandleOrNull] /\ presentedBy \in [Contexts -> 0..submitted]
        /\ live \subseteq Handles \X (0..MaxImages)
        /\ lastUse \in [Handles -> 0..submitted]
        /\ window \in Extents \union {Minimized} /\ resizes \in 0..MaxResizes
    BY ConstantsAssumption DEF HandleOrNull
  <2>5. QED
    BY <2>1, <2>2, <2>3, <2>4 DEF TypeOK
<1>4. device \in Devices
  <2>1. <<>> \in Seq(Entries) /\ <<>> \in Seq(Calls)
    OBVIOUS
  <2>2. QED
    BY <1>2, <2>1 DEF Devices, HandleOrNull
<1>5. Current = {}
  BY DEF Current, NoSwapchain
<1>6. device.queue = <<>> /\ device.calls = <<>> /\ \A k \in 1..Slots : device.retired[k].handle = Null
  BY DEF NoRetired
<1>7. Null \notin Handles
  BY ConstantsAssumption
<1>8. Placed(device, {}, {})
  <2>1. Apart(device, {})
    BY <1>6 DEF Apart
  <2>2. Accounted(device, {}, {})
    BY <1>6, <1>7 DEF Accounted, Owned, Dead
  <2>3. QED
    BY <1>4, <1>6, <2>1, <2>2 DEF Placed
<1>9. PresentsKnown(device, {}) /\ QueueInOrder(device) /\ CallsUnused(device) /\ CallsExisted(device, {})
  BY <1>6 DEF PresentsKnown, QueueInOrder, CallsUnused, CallsExisted
<1>10. DeviceInv
  BY <1>5, <1>6, <1>8, <1>9 DEF DeviceInv, Sound, SlotsBusy, Overdue
<1>11. SwapchainInv
  BY DEF SwapchainInv, HasFrame, NoSwapchain
<1>12. LayoutInv
  BY DEF LayoutInv, NoSwapchain
<1>13. PhaseInv
  BY DEF PhaseInv, HasContext, HasFrame, Draining, WaitingForPresents
<1>14. QED
  BY <1>3, <1>10, <1>11, <1>12, <1>13 DEF IInv

-----------------------------------------------------------------------------
(* Steps that leave the device alone.                                      *)
LEMMA RecreateMinimizedKeeps == IInv /\ RecreateMinimized => IInv' /\ Unused
<1> SUFFICES ASSUME IInv, RecreateMinimized PROVE IInv' /\ Unused
  OBVIOUS
<1> USE DEF RecreateMinimized, Returning, ReturnEmpty, outside
<1>1. TypeOK /\ DeviceInv /\ SwapchainInv /\ LayoutInv /\ PhaseInv
  BY DEF IInv
<1>2. TypeOK'
  <2>1. phase' \in Phases /\ position' \in 0..PresentContexts
    BY <1>1, ConstantsAssumption DEF Phases
  <2>2. swapchain' \in [handle : HandleOrNull, image_count : 0..MaxImages, image_index : 0..MaxImages,
                        extent : Extents \union {Minimized}, recreate_required : BOOLEAN,
                        initialized : [1..MaxImages -> BOOLEAN]]
    BY <1>1 DEF TypeOK
  <2>3. QED
    BY <1>1, <2>1, <2>2 DEF TypeOK
<1>3. /\ swapchain'.handle = swapchain.handle /\ swapchain'.image_count = swapchain.image_count
      /\ swapchain'.initialized = swapchain.initialized /\ swapchain'.recreate_required
  BY <1>1 DEF TypeOK
<1>4. DeviceInv'
  BY <1>1, <1>3, StateTypes, DeviceStays DEF Current
<1>5. SwapchainInv'
  BY <1>1, <1>3 DEF SwapchainInv, HasFrame
<1>6. LayoutInv'
  BY <1>1, <1>3 DEF LayoutInv, LayoutOf
<1>7. PhaseInv'
  BY <1>1 DEF PhaseInv, HasContext, HasFrame, Draining, WaitingForPresents
<1>8. QED
  BY <1>2, <1>4, <1>5, <1>6, <1>7, NothingIsUnused DEF IInv

LEMMA AcquireKeeps == IInv /\ Acquire => IInv' /\ Unused
<1> SUFFICES ASSUME IInv, Acquire PROVE IInv' /\ Unused
  OBVIOUS
<1> USE DEF Acquire, outside
<1>1. TypeOK /\ DeviceInv /\ SwapchainInv /\ LayoutInv /\ PhaseInv
  BY DEF IInv
<1>2. TypeOK'
  BY <1>1, ConstantsAssumption DEF TypeOK, Phases
<1>3. DeviceInv'
  BY <1>1, StateTypes, DeviceStays DEF Current
<1>4. SwapchainInv' /\ LayoutInv' /\ PhaseInv'
  BY <1>1 DEF SwapchainInv, LayoutInv, LayoutOf, PhaseInv, HasContext, HasFrame, Draining, WaitingForPresents
<1>5. QED
  BY <1>2, <1>3, <1>4, NothingIsUnused DEF IInv

LEMMA AcquireOutOfDateKeeps == IInv /\ AcquireOutOfDate => IInv' /\ Unused
<1> SUFFICES ASSUME IInv, AcquireOutOfDate PROVE IInv' /\ Unused
  OBVIOUS
<1> USE DEF AcquireOutOfDate, outside
<1>1. TypeOK /\ DeviceInv /\ SwapchainInv /\ LayoutInv /\ PhaseInv
  BY DEF IInv
<1>2. TypeOK'
  BY <1>1 DEF TypeOK
<1>3. /\ swapchain'.handle = swapchain.handle /\ swapchain'.image_count = swapchain.image_count
      /\ swapchain'.initialized = swapchain.initialized /\ swapchain'.recreate_required
  BY <1>1 DEF TypeOK
<1>4. DeviceInv'
  BY <1>1, <1>3, StateTypes, DeviceStays DEF Current
<1>5. SwapchainInv' /\ LayoutInv'
  BY <1>1, <1>3 DEF SwapchainInv, HasFrame, LayoutInv, LayoutOf
<1>6. PhaseInv'
  BY <1>1 DEF PhaseInv, HasContext, HasFrame, Draining, WaitingForPresents
<1>7. QED
  BY <1>2, <1>4, <1>5, <1>6, NothingIsUnused DEF IInv

LEMMA AcquireImageKeeps ==
  ASSUME IInv, NEW image \in 1..swapchain.image_count, NEW suboptimal \in BOOLEAN, AcquireImage(image, suboptimal)
  PROVE  IInv' /\ Unused
<1> USE DEF AcquireImage, outside
<1>1. TypeOK /\ DeviceInv /\ SwapchainInv /\ LayoutInv /\ PhaseInv
  BY DEF IInv
<1>2. swapchain.image_count \in 0..MaxImages /\ image \in 0..MaxImages
  <2>1. swapchain.image_count \in 0..MaxImages /\ MaxImages \in Nat
    BY <1>1, StateTypes DEF TypeOK
  <2>2. QED
    BY <2>1
<1>3. /\ swapchain'.handle = swapchain.handle /\ swapchain'.image_count = swapchain.image_count
      /\ swapchain'.initialized = swapchain.initialized /\ swapchain'.image_index = image
      /\ swapchain'.extent = swapchain.extent
  BY <1>1 DEF TypeOK
<1>4. swapchain.handle # Null /\ swapchain.extent # Minimized
  BY <1>1 DEF SwapchainInv, NeedsRecreation
<1>5. TypeOK'
  <2>1. (suboptimal /\ ConfigurationChanged) \in BOOLEAN
    OBVIOUS
  <2>2. swapchain' \in [handle : HandleOrNull, image_count : 0..MaxImages, image_index : 0..MaxImages,
                        extent : Extents \union {Minimized}, recreate_required : BOOLEAN,
                        initialized : [1..MaxImages -> BOOLEAN]]
    BY <1>1, <1>2, <2>1 DEF TypeOK
  <2>3. QED
    BY <1>1, <2>2 DEF TypeOK, Phases
<1>6. DeviceInv'
  BY <1>1, <1>3, StateTypes, DeviceStays DEF Current
<1>7. SwapchainInv'
  BY <1>1, <1>3, <1>4 DEF SwapchainInv, HasFrame
<1>8. LayoutInv'
  BY <1>1, <1>3 DEF LayoutInv, LayoutOf
<1>9. PhaseInv'
  BY <1>1 DEF PhaseInv, HasContext, HasFrame, Draining, WaitingForPresents
<1>10. QED
  BY <1>5, <1>6, <1>7, <1>8, <1>9, NothingIsUnused DEF IInv

LEMMA BeginCommandsKeeps == IInv /\ BeginCommands => IInv' /\ Unused
<1> SUFFICES ASSUME IInv, BeginCommands PROVE IInv' /\ Unused
  OBVIOUS
<1> USE DEF BeginCommands
<1>1. TypeOK /\ DeviceInv /\ SwapchainInv /\ LayoutInv /\ PhaseInv
  BY DEF IInv
<1>2. TypeOK'
  BY <1>1 DEF TypeOK, Phases
<1>3. DeviceInv'
  BY <1>1, StateTypes, DeviceStays DEF Current
<1>4. SwapchainInv' /\ PhaseInv'
  BY <1>1 DEF SwapchainInv, PhaseInv, HasContext, HasFrame, Draining, WaitingForPresents
<1>5. LayoutInv'
  <2>1. /\ layout \in [Handles -> [1..MaxImages -> {"undefined", "general", "present"}]]
        /\ \A i \in 1..MaxImages : i > swapchain.image_count => ~swapchain.initialized[i]
        /\ swapchain.handle # Null =>
             \A i \in 1..swapchain.image_count : layout[swapchain.handle][i] = LayoutOf(i)
    BY <1>1 DEF LayoutInv
  <2>2. layout' \in [Handles -> [1..MaxImages -> {"undefined", "general", "present"}]]
    BY <2>1
  <2>3. \A i \in 1..swapchain.image_count :
          swapchain.handle # Null /\ i # swapchain.image_index => layout'[swapchain.handle][i] = layout[swapchain.handle][i]
    BY <2>1, <2>2
  <2>4. QED
    BY <2>1, <2>2, <2>3 DEF LayoutInv, LayoutOf
<1>6. QED
  BY <1>2, <1>3, <1>4, <1>5, NothingIsUnused DEF IInv

LEMMA SubmitKeeps == IInv /\ Submit => IInv' /\ Unused
<1> SUFFICES ASSUME IInv, Submit PROVE IInv' /\ Unused
  OBVIOUS
<1> USE DEF Submit, outside
<1>1. TypeOK /\ DeviceInv /\ SwapchainInv /\ LayoutInv /\ PhaseInv
  BY DEF IInv
<1>2. /\ submitted \in Nat /\ submitted' \in Nat /\ submitted <= submitted' /\ gpuWork \in 0..submitted'
      /\ submitted' \in 0..MaxSubmissions /\ 0..submitted \subseteq 0..submitted'
  BY <1>1, StateTypes, ConstantsAssumption
<1>3. TypeOK'
  <2>1. presentedBy \in [Contexts -> 0..submitted'] /\ lastUse \in [Handles -> 0..submitted']
    BY <1>1, <1>2 DEF TypeOK
  <2>2. QED
    BY <1>1, <1>2, <2>1 DEF TypeOK
<1>4. DeviceInv'
  BY <1>1, <1>2, DeviceStays DEF Current
<1>5. SwapchainInv' /\ LayoutInv' /\ PhaseInv'
  BY <1>1 DEF SwapchainInv, LayoutInv, LayoutOf, PhaseInv, HasContext, HasFrame, Draining, WaitingForPresents
<1>6. QED
  BY <1>3, <1>4, <1>5, NothingIsUnused DEF IInv

LEMMA GetDrawableExtentKeeps == IInv /\ GetDrawableExtent => IInv' /\ Unused
<1> SUFFICES ASSUME IInv, GetDrawableExtent PROVE IInv' /\ Unused
  OBVIOUS
<1> USE DEF GetDrawableExtent, outside
<1>1. TypeOK /\ DeviceInv /\ SwapchainInv /\ LayoutInv /\ PhaseInv
  BY DEF IInv
<1>2. /\ swapchain'.handle = swapchain.handle /\ swapchain'.image_count = swapchain.image_count
      /\ swapchain'.initialized = swapchain.initialized /\ swapchain'.image_index = swapchain.image_index
      /\ swapchain'.extent = swapchain.extent
      /\ swapchain.recreate_required => swapchain'.recreate_required
  BY <1>1 DEF TypeOK
<1>3. TypeOK'
  <2>1. (swapchain.recreate_required \/ (swapchain.handle # Null /\ ConfigurationChanged)) \in BOOLEAN
    OBVIOUS
  <2>2. swapchain' \in [handle : HandleOrNull, image_count : 0..MaxImages, image_index : 0..MaxImages,
                        extent : Extents \union {Minimized}, recreate_required : BOOLEAN,
                        initialized : [1..MaxImages -> BOOLEAN]]
    BY <1>1, <2>1 DEF TypeOK
  <2>3. QED
    BY <1>1, <2>2 DEF TypeOK
<1>4. DeviceInv'
  BY <1>1, <1>2, StateTypes, DeviceStays DEF Current
<1>5. SwapchainInv' /\ LayoutInv'
  BY <1>1, <1>2 DEF SwapchainInv, HasFrame, LayoutInv, LayoutOf
<1>6. PhaseInv'
  BY <1>1 DEF PhaseInv, HasContext, HasFrame, Draining, WaitingForPresents
<1>7. QED
  BY <1>3, <1>4, <1>5, <1>6, NothingIsUnused DEF IInv

LEMMA BeginDrainKeeps == IInv /\ BeginDrain => IInv' /\ Unused
<1> SUFFICES ASSUME IInv, BeginDrain PROVE IInv' /\ Unused
  OBVIOUS
<1>1. TypeOK /\ DeviceInv /\ SwapchainInv /\ LayoutInv /\ PhaseInv
  BY DEF IInv
<1>2. phase' = "drain" \/ phase' = "drain and destroy"
  BY DEF BeginDrain
<1>3. /\ position' = 0 /\ calls' = <<>> /\ next_present_context' = next_present_context
      /\ device' = device /\ live' = live /\ completed' = completed /\ lastUse' = lastUse
      /\ submitted' = submitted /\ presenting' = presenting /\ swapchain' = swapchain
      /\ gpuWork' = gpuWork /\ gpuRetired' = gpuRetired /\ presentedBy' = presentedBy /\ layout' = layout
      /\ window' = window /\ resizes' = resizes
  BY DEF BeginDrain, outside
<1>4. TypeOK'
  <2>1. phase' \in Phases
    BY <1>2 DEF Phases
  <2>2. position' \in 0..PresentContexts
    BY <1>3, ConstantsAssumption
  <2>3. QED
    BY <1>1, <1>3, <2>1, <2>2 DEF TypeOK
<1>5. DeviceInv'
  <2>1. Current' = Current
    BY <1>3 DEF Current
  <2>2. submitted \in Nat /\ submitted <= submitted
    BY <1>1, StateTypes
  <2>3. QED
    BY <1>1, <1>3, <2>1, <2>2, DeviceStays
<1>6. SwapchainInv' /\ LayoutInv' /\ PhaseInv'
  <2>1. phase = "ready"
    BY DEF BeginDrain
  <2>2. ~HasFrame' /\ ~HasContext' /\ ~WaitingForPresents' 
        /\ phase' \notin {"acquiring", "acquired", "recording", "destroyed"}
    BY <1>2 DEF HasFrame, HasContext, WaitingForPresents
  <2>3. SwapchainInv'
    BY <1>1, <1>3, <2>2 DEF SwapchainInv
  <2>4. LayoutInv'
    BY <1>1, <1>3, <2>1, <2>2 DEF LayoutInv, LayoutOf
  <2>5. PhaseInv'
    BY <1>1, <1>3, <2>2 DEF PhaseInv
  <2>6. QED
    BY <2>3, <2>4, <2>5
<1>7. QED
  BY <1>3, <1>4, <1>5, <1>6, NothingIsUnused DEF IInv

LEMMA StoppedKeeps == IInv /\ UNCHANGED vars => IInv'
<1> SUFFICES ASSUME IInv, UNCHANGED vars PROVE IInv'
  OBVIOUS
<1> USE DEF vars, program, outside
<1>1. TypeOK /\ DeviceInv /\ SwapchainInv /\ LayoutInv /\ PhaseInv
  BY DEF IInv
<1>2. TypeOK'
  BY <1>1 DEF TypeOK
<1>3. DeviceInv'
  BY <1>1, StateTypes, DeviceStays DEF Current
<1>4. SwapchainInv' /\ LayoutInv' /\ PhaseInv'
  BY <1>1 DEF SwapchainInv, LayoutInv, LayoutOf, PhaseInv, HasContext, HasFrame, Draining, WaitingForPresents
<1>5. QED
  BY <1>2, <1>3, <1>4 DEF IInv

-----------------------------------------------------------------------------
(* The world outside.                                                      *)
LEMMA GpuCompletesWorkKeeps == IInv /\ GpuCompletesWork => IInv' /\ Unused
<1> SUFFICES ASSUME IInv, GpuCompletesWork PROVE IInv' /\ Unused
  OBVIOUS
<1> USE DEF GpuCompletesWork
<1>1. TypeOK /\ DeviceInv /\ SwapchainInv /\ LayoutInv /\ PhaseInv
  BY DEF IInv
<1>2. gpuWork' \in 0..submitted /\ gpuRetired \in 0..gpuWork' /\ gpuWork' = gpuWork + 1 /\ gpuWork \in Nat
  BY <1>1, StateTypes
<1>3. TypeOK'
  BY <1>1, <1>2 DEF TypeOK
<1>4. DeviceInv'
  BY <1>1, StateTypes, DeviceStays DEF Current
<1>5. SwapchainInv' /\ LayoutInv'
  BY <1>1 DEF SwapchainInv, LayoutInv, LayoutOf, HasFrame
<1>6. \A c \in Contexts : presentedBy[c] \in Nat /\ (presentedBy[c] <= gpuWork => presentedBy[c] <= gpuWork')
  <2>1. \A c \in Contexts : presentedBy[c] \in 0..submitted
    BY <1>1 DEF TypeOK
  <2>2. QED
    BY <2>1, <1>2
<1>7. PhaseInv'
  BY <1>1, <1>6 DEF PhaseInv, HasContext, HasFrame, Draining, WaitingForPresents
<1>8. QED
  BY <1>3, <1>4, <1>5, <1>7, NothingIsUnused DEF IInv

LEMMA GpuSignalsRetirementKeeps == IInv /\ GpuSignalsRetirement => IInv' /\ Unused
<1> SUFFICES ASSUME IInv, GpuSignalsRetirement PROVE IInv' /\ Unused
  OBVIOUS
<1> USE DEF GpuSignalsRetirement
<1>1. TypeOK /\ DeviceInv /\ SwapchainInv /\ LayoutInv /\ PhaseInv
  BY DEF IInv
<1>2. gpuRetired' \in 0..gpuWork /\ completed \in 0..gpuRetired'
  BY <1>1, StateTypes
<1>3. TypeOK'
  BY <1>1, <1>2 DEF TypeOK
<1>4. DeviceInv'
  BY <1>1, StateTypes, DeviceStays DEF Current
<1>5. SwapchainInv' /\ LayoutInv' /\ PhaseInv'
  BY <1>1 DEF SwapchainInv, LayoutInv, LayoutOf, PhaseInv, HasContext, HasFrame, Draining, WaitingForPresents
<1>6. QED
  BY <1>3, <1>4, <1>5, NothingIsUnused DEF IInv

LEMMA EngineSignalsFenceKeeps ==
  ASSUME IInv, NEW c \in Contexts, EngineSignalsFence(c)
  PROVE  IInv' /\ Unused
<1> USE DEF EngineSignalsFence
<1>1. TypeOK /\ DeviceInv /\ SwapchainInv /\ LayoutInv /\ PhaseInv
  BY DEF IInv
<1>2. /\ presenting' \in [Contexts -> HandleOrNull]
      /\ \A x \in Contexts : x # c => presenting'[x] = presenting[x]
      /\ presenting'[c] = Null
  BY <1>1 DEF TypeOK, HandleOrNull
<1>3. TypeOK'
  BY <1>1, <1>2 DEF TypeOK
<1>4. \A x \in Contexts : presenting'[x] # Null => presenting'[x] = presenting[x]
  BY <1>2
<1>5. DeviceInv'
  BY <1>1, <1>4, StateTypes, DeviceStays DEF Current
<1>6. SwapchainInv' /\ LayoutInv'
  BY <1>1 DEF SwapchainInv, LayoutInv, LayoutOf, HasFrame
<1>7. \A x \in Contexts : presenting'[x] = Null => presentedBy[x] <= gpuWork
  BY <1>1, <1>2 DEF PhaseInv
<1>8. PhaseInv'
  BY <1>1, <1>7 DEF PhaseInv, HasContext, HasFrame, Draining, WaitingForPresents
<1>9. QED
  BY <1>3, <1>5, <1>6, <1>8, NothingIsUnused DEF IInv

LEMMA WindowChangesKeeps == IInv /\ WindowChanges => IInv' /\ Unused
<1> SUFFICES ASSUME IInv, WindowChanges PROVE IInv' /\ Unused
  OBVIOUS
<1> USE DEF WindowChanges
<1>1. TypeOK /\ DeviceInv /\ SwapchainInv /\ LayoutInv /\ PhaseInv
  BY DEF IInv
<1>2. TypeOK'
  <2>1. resizes' \in 0..MaxResizes
    <3>1. resizes \in 0..MaxResizes /\ MaxResizes \in Nat
      BY <1>1, ConstantsAssumption DEF TypeOK
    <3>2. QED
      BY <3>1
  <2>2. QED
    BY <1>1, <2>1 DEF TypeOK
<1>3. DeviceInv'
  BY <1>1, StateTypes, DeviceStays DEF Current
<1>4. SwapchainInv' /\ LayoutInv' /\ PhaseInv'
  BY <1>1 DEF SwapchainInv, LayoutInv, LayoutOf, PhaseInv, HasContext, HasFrame, Draining, WaitingForPresents
<1>5. QED
  BY <1>2, <1>3, <1>4, NothingIsUnused DEF IInv

-----------------------------------------------------------------------------
(* Steps that collect what is due, or finish a present.                    *)
LEMMA CollectedSound ==
  ASSUME TypeOK, DeviceInv, NEW value \in 0..gpuWork
  PROVE  /\ Sound(CollectDevice(device, value), Current, live)
         /\ SlotsBusy(CollectDevice(device, value)) /\ ~Overdue(CollectDevice(device, value), value)
         /\ CollectDevice(device, value).present_pending = device.present_pending
<1> DEFINE d == CollectDevice(device, value)
<1>1. Sound(device, Current, live) /\ SlotsBusy(device)
  BY DEF DeviceInv
<1>2. /\ Sound(d, Current, live) /\ ~Overdue(d, value)
      /\ d.present_pending = device.present_pending /\ d.swapchain = device.swapchain /\ d.retired = device.retired
  BY <1>1, CollectSound
<1> HIDE DEF d
<1>3. SlotsBusy(d)
  BY <1>1, <1>2 DEF SlotsBusy, PendingOn
<1>4. QED
  BY <1>2, <1>3 DEF d

(***************************************************************************)
(* wait_present_context and wait_and_finish_present_context.               *)
(***************************************************************************)
Waited(c) == IF device.present_pending[c] THEN FinishContext(device, c) ELSE device

LEMMA WaitedSound ==
  ASSUME TypeOK, DeviceInv, NEW c \in Contexts, FenceAllows(c)
  PROVE  /\ Sound(Waited(c), Current, live)
         /\ SlotsBusy(Waited(c)) /\ ~Overdue(Waited(c), completed)
         /\ ~Waited(c).present_pending[c]
         /\ \A x \in Contexts : ~device.present_pending[x] => ~Waited(c).present_pending[x]
<1>1. Sound(device, Current, live) /\ SlotsBusy(device) /\ ~Overdue(device, completed)
  BY DEF DeviceInv
<1>2. CASE ~device.present_pending[c]
  BY <1>1, <1>2 DEF Waited
<1>3. CASE device.present_pending[c]
  <2> DEFINE d == FinishContext(device, c)
  <2>1. Signalled(c) /\ Waited(c) = d
    BY <1>3 DEF FenceAllows, Waited
  <2>2. /\ Sound(d, Current, live) /\ SlotsBusy(d) /\ ~Overdue(d, completed)
        /\ d.present_pending = [device.present_pending EXCEPT ![c] = FALSE]
    BY <1>1, <1>3, <2>1, FinishContextSound
  <2>3. device.present_pending \in [Contexts -> BOOLEAN]
    BY DEF TypeOK
  <2> HIDE DEF d
  <2>4. QED
    BY <2>1, <2>2, <2>3
<1>4. QED
  BY <1>2, <1>3

LEMMA WaitPresentContextKeeps == IInv /\ WaitPresentContext => IInv' /\ Unused
<1> SUFFICES ASSUME IInv, WaitPresentContext PROVE IInv' /\ Unused
  OBVIOUS
<1> DEFINE c == next_present_context
           d == Waited(c)
<1>1. TypeOK /\ DeviceInv /\ SwapchainInv /\ LayoutInv /\ PhaseInv
  BY DEF IInv
<1>2. /\ phase = "acquiring" /\ phase' = phase /\ position' = 1 /\ FenceAllows(c)
      /\ Become(d) /\ live' = live \ Destroyed(d)
      /\ next_present_context' = next_present_context /\ swapchain' = swapchain
      /\ submitted' = submitted /\ completed' = completed /\ gpuWork' = gpuWork /\ gpuRetired' = gpuRetired
      /\ presenting' = presenting /\ presentedBy' = presentedBy /\ lastUse' = lastUse
      /\ layout' = layout /\ window' = window /\ resizes' = resizes
  BY DEF WaitPresentContext, Waited
<1>3. c \in Contexts
  BY <1>1 DEF TypeOK
<1> HIDE DEF d
<1>4. Sound(d, Current, live) /\ SlotsBusy(d) /\ ~Overdue(d, completed) /\ ~d.present_pending[c]
  BY <1>1, <1>2, <1>3, WaitedSound DEF d
<1>5. Current = Current'
  BY <1>2 DEF Current
<1>6. /\ DeviceInv' /\ Unused /\ device'.present_pending = d.present_pending
      /\ device'.present_pending \in [Contexts -> BOOLEAN]
      /\ device'.swapchain \in [Contexts -> HandleOrNull]
      /\ device'.retired \in [1..Slots -> [handle : HandleOrNull, view_count : 0..MaxImages]]
      /\ live' \subseteq Handles \X (0..MaxImages)
  BY <1>1, <1>2, <1>4, <1>5, DeviceBecomes
<1>7. TypeOK'
  <2>1. position' \in 0..PresentContexts
    BY <1>2, ConstantsAssumption
  <2>2. QED
    BY <1>1, <1>2, <1>6, <2>1 DEF TypeOK
<1>8. SwapchainInv'
  BY <1>1, <1>2 DEF SwapchainInv, HasFrame
<1>9. LayoutInv'
  BY <1>1, <1>2 DEF LayoutInv, LayoutOf
<1>10. PhaseInv'
  BY <1>1, <1>2, <1>4, <1>6 DEF PhaseInv, HasContext, HasFrame, Draining, WaitingForPresents
<1>11. QED
  BY <1>6, <1>7, <1>8, <1>9, <1>10 DEF IInv

LEMMA DrainPresentKeeps == IInv /\ DrainPresent => IInv' /\ Unused
<1> SUFFICES ASSUME IInv, DrainPresent PROVE IInv' /\ Unused
  OBVIOUS
<1> DEFINE c == position
           d == Waited(c)
<1>1. TypeOK /\ DeviceInv /\ SwapchainInv /\ LayoutInv /\ PhaseInv
  BY DEF IInv
<1>2. /\ WaitingForPresents /\ phase' = phase /\ position' = c + 1 /\ FenceAllows(c) /\ c \in Contexts
      /\ Become(d) /\ live' = live \ Destroyed(d)
      /\ next_present_context' = next_present_context /\ swapchain' = swapchain
      /\ submitted' = submitted /\ completed' = completed /\ gpuWork' = gpuWork /\ gpuRetired' = gpuRetired
      /\ presenting' = presenting /\ presentedBy' = presentedBy /\ lastUse' = lastUse
      /\ layout' = layout /\ window' = window /\ resizes' = resizes
  BY DEF DrainPresent, Waited
<1> HIDE DEF d
<1>3. /\ Sound(d, Current, live) /\ SlotsBusy(d) /\ ~Overdue(d, completed) /\ ~d.present_pending[c]
      /\ \A x \in Contexts : ~device.present_pending[x] => ~d.present_pending[x]
  BY <1>1, <1>2, WaitedSound DEF d
<1>4. Current = Current'
  BY <1>2 DEF Current
<1>5. /\ DeviceInv' /\ Unused /\ device'.present_pending = d.present_pending
      /\ device'.present_pending \in [Contexts -> BOOLEAN]
      /\ device'.swapchain \in [Contexts -> HandleOrNull]
      /\ device'.retired \in [1..Slots -> [handle : HandleOrNull, view_count : 0..MaxImages]]
      /\ live' \subseteq Handles \X (0..MaxImages)
  BY <1>1, <1>2, <1>3, <1>4, DeviceBecomes
<1>6. TypeOK'
  <2>1. position' \in 0..PresentContexts
    <3>1. c \in 0..(PresentContexts - 1) /\ PresentContexts \in Nat
      BY <1>2, ConstantsAssumption DEF Contexts
    <3>2. QED
      BY <1>2, <3>1
  <2>2. QED
    BY <1>1, <1>2, <1>5, <2>1 DEF TypeOK
<1>7. SwapchainInv'
  BY <1>1, <1>2 DEF SwapchainInv, HasFrame
<1>8. LayoutInv'
  BY <1>1, <1>2 DEF LayoutInv, LayoutOf
<1>9. PhaseInv'
  <2>1. phase' # "drain" /\ phase' # "drain and destroy" /\ phase' # "destroyed" /\ ~HasContext'
        /\ phase' \notin {"acquiring", "acquired", "recording"}
    BY <1>2 DEF WaitingForPresents, HasContext, HasFrame
  <2>2. completed = submitted /\ \A x \in Contexts : x < c => ~device.present_pending[x]
    BY <1>1, <1>2 DEF PhaseInv
  <2>3. ASSUME NEW x \in Contexts, x < c + 1  PROVE ~d.present_pending[x]
    <3>1. x \in Nat /\ c \in Nat
      BY <1>2 DEF Contexts
    <3>2. x < c \/ x = c
      BY <3>1, <2>3
    <3>3. QED
      BY <3>2, <2>2, <1>3
  <2>4. QED
    BY <1>1, <1>2, <1>5, <2>1, <2>2, <2>3 DEF PhaseInv, Draining
<1>10. QED
  BY <1>5, <1>6, <1>7, <1>8, <1>9 DEF IInv

LEMMA ObserveRetirementKeeps ==
  ASSUME IInv, NEW value \in 1..MaxSubmissions, ObserveRetirement(value)
  PROVE  IInv' /\ Unused
<1> DEFINE d == CollectDevice(device, value)
<1>1. TypeOK /\ DeviceInv /\ SwapchainInv /\ LayoutInv /\ PhaseInv
  BY DEF IInv
<1>2. /\ phase \in {"ready", "acquired", "recording"} /\ value \in (completed + 1)..gpuRetired
      /\ completed' = value /\ phase' = phase /\ position' = position
      /\ Become(d) /\ live' = live \ Destroyed(d)
      /\ next_present_context' = next_present_context /\ swapchain' = swapchain
      /\ submitted' = submitted /\ gpuWork' = gpuWork /\ gpuRetired' = gpuRetired
      /\ presenting' = presenting /\ presentedBy' = presentedBy /\ lastUse' = lastUse
      /\ layout' = layout /\ window' = window /\ resizes' = resizes
  BY DEF ObserveRetirement, Observed
<1> HIDE DEF d
<1>3. value \in 0..gpuWork /\ value \in 0..gpuRetired
  BY <1>1, <1>2, StateTypes
<1>4. /\ Sound(d, Current, live) /\ SlotsBusy(d) /\ ~Overdue(d, value)
      /\ d.present_pending = device.present_pending
  BY <1>1, <1>3, CollectedSound DEF d
<1>5. Current = Current' /\ value = completed'
  BY <1>2 DEF Current
<1>6. /\ DeviceInv' /\ Unused /\ device'.present_pending = d.present_pending
      /\ device'.present_pending \in [Contexts -> BOOLEAN]
      /\ device'.swapchain \in [Contexts -> HandleOrNull]
      /\ device'.retired \in [1..Slots -> [handle : HandleOrNull, view_count : 0..MaxImages]]
      /\ live' \subseteq Handles \X (0..MaxImages)
  BY <1>1, <1>2, <1>4, <1>5, DeviceBecomes
<1>7. TypeOK'
  BY <1>1, <1>2, <1>3, <1>6 DEF TypeOK
<1>8. SwapchainInv' /\ LayoutInv'
  BY <1>1, <1>2 DEF SwapchainInv, HasFrame, LayoutInv, LayoutOf
<1>9. PhaseInv'
  <2>1. ~WaitingForPresents'
    BY <1>2 DEF WaitingForPresents
  <2>2. QED
    BY <1>1, <1>2, <1>4, <1>6, <2>1 DEF PhaseInv, HasContext, HasFrame, Draining
<1>10. QED
  BY <1>6, <1>7, <1>8, <1>9 DEF IInv

LEMMA DrainRetirementKeeps == IInv /\ DrainRetirement => IInv' /\ Unused
<1> SUFFICES ASSUME IInv, DrainRetirement PROVE IInv' /\ Unused
  OBVIOUS
<1> DEFINE d == CollectDevice(device, submitted)
<1>1. TypeOK /\ DeviceInv /\ SwapchainInv /\ LayoutInv /\ PhaseInv
  BY DEF IInv
<1>2. /\ Draining /\ gpuRetired = submitted /\ completed' = submitted /\ position' = position
      /\ Become(d) /\ live' = live \ Destroyed(d)
      /\ next_present_context' = next_present_context /\ swapchain' = swapchain
      /\ submitted' = submitted /\ gpuWork' = gpuWork /\ gpuRetired' = gpuRetired
      /\ presenting' = presenting /\ presentedBy' = presentedBy /\ lastUse' = lastUse
      /\ layout' = layout /\ window' = window /\ resizes' = resizes
  BY DEF DrainRetirement
<1>3. phase' = "presents" \/ phase' = "presents and destroy"
  BY DEF DrainRetirement
<1> HIDE DEF d
<1>4. submitted \in 0..gpuWork /\ submitted \in 0..gpuRetired
  BY <1>1, <1>2, StateTypes
<1>5. /\ Sound(d, Current, live) /\ SlotsBusy(d) /\ ~Overdue(d, submitted)
      /\ d.present_pending = device.present_pending
  BY <1>1, <1>4, CollectedSound DEF d
<1>6. Current = Current' /\ submitted = completed'
  BY <1>2 DEF Current
<1>7. /\ DeviceInv' /\ Unused /\ device'.present_pending = d.present_pending
      /\ device'.present_pending \in [Contexts -> BOOLEAN]
      /\ device'.swapchain \in [Contexts -> HandleOrNull]
      /\ device'.retired \in [1..Slots -> [handle : HandleOrNull, view_count : 0..MaxImages]]
      /\ live' \subseteq Handles \X (0..MaxImages)
  BY <1>1, <1>2, <1>5, <1>6, DeviceBecomes
<1>8. TypeOK'
  <2>1. phase' \in Phases
    BY <1>3 DEF Phases
  <2>2. QED
    BY <1>1, <1>2, <1>4, <1>7, <2>1 DEF TypeOK
<1>9. ~HasFrame' /\ ~HasContext' /\ ~Draining'
      /\ phase' \notin {"acquiring", "acquired", "recording", "destroyed"} /\ phase # "recording"
  BY <1>2, <1>3 DEF HasFrame, HasContext, Draining
<1>10. SwapchainInv' /\ LayoutInv'
  BY <1>1, <1>2, <1>9 DEF SwapchainInv, LayoutInv, LayoutOf
<1>11. PhaseInv'
  <2>1. position = 0
    BY <1>1, <1>2 DEF PhaseInv
  <2>2. \A c \in Contexts : ~(c < 0)
    BY DEF Contexts
  <2>3. QED
    BY <1>1, <1>2, <1>9, <2>1, <2>2 DEF PhaseInv
<1>12. QED
  BY <1>7, <1>8, <1>10, <1>11 DEF IInv

LEMMA WaitIdleReturnsKeeps == IInv /\ WaitIdleReturns => IInv' /\ Unused
<1> SUFFICES ASSUME IInv, WaitIdleReturns PROVE IInv' /\ Unused
  OBVIOUS
<1> DEFINE d == CollectDevice(device, completed)
<1>1. TypeOK /\ DeviceInv /\ SwapchainInv /\ LayoutInv /\ PhaseInv
  BY DEF IInv
<1>2. /\ phase = "presents" /\ phase' = "ready" /\ position' = 0 /\ next_present_context' = 0
      /\ Become(d) /\ live' = live \ Destroyed(d) /\ swapchain' = swapchain
      /\ submitted' = submitted /\ completed' = completed /\ gpuWork' = gpuWork /\ gpuRetired' = gpuRetired
      /\ presenting' = presenting /\ presentedBy' = presentedBy /\ lastUse' = lastUse
      /\ layout' = layout /\ window' = window /\ resizes' = resizes
  BY DEF WaitIdleReturns, Returning
<1> HIDE DEF d
<1>3. completed \in 0..gpuWork
  BY <1>1, StateTypes
<1>4. /\ Sound(d, Current, live) /\ SlotsBusy(d) /\ ~Overdue(d, completed)
      /\ d.present_pending = device.present_pending
  BY <1>1, <1>3, CollectedSound DEF d
<1>5. Current = Current' /\ completed = completed'
  BY <1>2 DEF Current
<1>6. /\ DeviceInv' /\ Unused
      /\ device'.present_pending \in [Contexts -> BOOLEAN]
      /\ device'.swapchain \in [Contexts -> HandleOrNull]
      /\ device'.retired \in [1..Slots -> [handle : HandleOrNull, view_count : 0..MaxImages]]
      /\ live' \subseteq Handles \X (0..MaxImages)
  BY <1>1, <1>2, <1>4, <1>5, DeviceBecomes
<1>7. TypeOK'
  <2>1. phase' \in Phases
    BY <1>2 DEF Phases
  <2>2. position' \in 0..PresentContexts /\ next_present_context' \in Contexts
    BY <1>2, ConstantsAssumption DEF Contexts
  <2>3. QED
    BY <1>1, <1>2, <1>6, <2>1, <2>2 DEF TypeOK
<1>8. SwapchainInv' /\ LayoutInv'
  BY <1>1, <1>2 DEF SwapchainInv, HasFrame, LayoutInv, LayoutOf
<1>9. PhaseInv'
  BY <1>1, <1>2 DEF PhaseInv, HasContext, HasFrame, Draining, WaitingForPresents
<1>10. QED
  BY <1>6, <1>7, <1>8, <1>9 DEF IInv

-----------------------------------------------------------------------------
(* Steps that replace or give up the swapchain.                            *)
LEMMA EmptiedSwapchain ==
  ASSUME TypeOK, LayoutInv
  PROVE  /\ Emptied(swapchain) \in [handle : HandleOrNull, image_count : 0..MaxImages, image_index : 0..MaxImages,
                                    extent : Extents \union {Minimized}, recreate_required : BOOLEAN,
                                    initialized : [1..MaxImages -> BOOLEAN]]
         /\ Emptied(swapchain).handle = Null /\ Emptied(swapchain).image_count = 0
         /\ \A i \in 1..MaxImages : ~Emptied(swapchain).initialized[i]
<1>1. swapchain \in [handle : HandleOrNull, image_count : 0..MaxImages, image_index : 0..MaxImages,
                     extent : Extents \union {Minimized}, recreate_required : BOOLEAN,
                     initialized : [1..MaxImages -> BOOLEAN]]
  BY DEF TypeOK
<1>2. Null \in HandleOrNull /\ 0 \in 0..MaxImages /\ Minimized \in Extents \union {Minimized}
  BY StateTypes DEF HandleOrNull
<1> DEFINE none == [i \in 1..MaxImages |-> i > swapchain.image_count /\ swapchain.initialized[i]]
<1>3. none \in [1..MaxImages -> BOOLEAN] /\ \A i \in 1..MaxImages : ~none[i]
  BY DEF LayoutInv
<1>4. Emptied(swapchain) = [swapchain EXCEPT !.handle = Null, !.image_count = 0, !.extent = Minimized,
                                             !.initialized = none]
  BY DEF Emptied
<1> HIDE DEF none
<1>5. QED
  BY <1>1, <1>2, <1>3, <1>4

LEMMA RecreateFailsKeeps == IInv /\ RecreateFails => IInv' /\ Unused
<1> SUFFICES ASSUME IInv, RecreateFails PROVE IInv' /\ Unused
  OBVIOUS
<1> DEFINE d == RetireHandle
<1>1. TypeOK /\ DeviceInv /\ SwapchainInv /\ LayoutInv /\ PhaseInv
  BY DEF IInv
<1>2. /\ phase' = "drain and destroy" \/ phase' = "aborted"
      /\ position' = 0 /\ swapchain' = Emptied(swapchain)
      /\ Become(d) /\ live' = live \ Destroyed(d)
      /\ next_present_context' = next_present_context
      /\ submitted' = submitted /\ completed' = completed /\ gpuWork' = gpuWork /\ gpuRetired' = gpuRetired
      /\ presenting' = presenting /\ presentedBy' = presentedBy /\ lastUse' = lastUse
      /\ layout' = layout /\ window' = window /\ resizes' = resizes
  BY DEF RecreateFails
<1> HIDE DEF d
<1>3. Sound(d, {}, live) /\ SlotsBusy(d) /\ ~Overdue(d, completed)
  BY <1>1, RetireHandleSound DEF d
<1>4. /\ swapchain' \in [handle : HandleOrNull, image_count : 0..MaxImages, image_index : 0..MaxImages,
                         extent : Extents \union {Minimized}, recreate_required : BOOLEAN,
                         initialized : [1..MaxImages -> BOOLEAN]]
      /\ swapchain'.handle = Null /\ swapchain'.image_count = 0
      /\ \A i \in 1..MaxImages : ~swapchain'.initialized[i]
  BY <1>1, <1>2, EmptiedSwapchain
<1>5. {} = Current'
  BY <1>4 DEF Current
<1>6. /\ DeviceInv' /\ Unused
      /\ device'.present_pending \in [Contexts -> BOOLEAN]
      /\ device'.swapchain \in [Contexts -> HandleOrNull]
      /\ device'.retired \in [1..Slots -> [handle : HandleOrNull, view_count : 0..MaxImages]]
      /\ live' \subseteq Handles \X (0..MaxImages)
  BY <1>1, <1>2, <1>3, <1>5, DeviceBecomes
<1>7. TypeOK'
  <2>1. phase' \in Phases
    BY <1>2 DEF Phases
  <2>2. position' \in 0..PresentContexts
    <3>1. position' = 0
      BY <1>2
    <3>2. PresentContexts \in Nat
      BY ConstantsAssumption
    <3>3. QED
      BY <3>1, <3>2
  <2>3. QED
    BY <1>1, <1>2, <1>4, <1>6, <2>1, <2>2 DEF TypeOK
<1>8. ~HasFrame' /\ ~HasContext' /\ ~WaitingForPresents'
      /\ phase' \notin {"acquiring", "acquired", "recording", "destroyed"}
  BY <1>2 DEF HasFrame, HasContext, WaitingForPresents
<1>9. SwapchainInv'
  BY <1>4, <1>8 DEF SwapchainInv
<1>10. LayoutInv'
  BY <1>1, <1>2, <1>4 DEF LayoutInv
<1>11. PhaseInv'
  BY <1>1, <1>2, <1>8 DEF PhaseInv
<1>12. QED
  BY <1>6, <1>7, <1>9, <1>10, <1>11 DEF IInv

(***************************************************************************)
(* Without a pending present, and with all submissions observed, slots and *)
(* queue are empty.                                                        *)
(***************************************************************************)
LEMMA NothingWaits ==
  ASSUME TypeOK, NEW d, NEW hand, NEW existing, Sound(d, hand, existing), SlotsBusy(d), ~Overdue(d, submitted),
         \A c \in Contexts : ~d.present_pending[c]
  PROVE  /\ \A k \in 1..Slots : d.retired[k].handle = Null
         /\ Len(d.queue) = 0 /\ d.queue = <<>>
<1>1. \A k \in 1..Slots : d.retired[k].handle = Null
  BY DEF SlotsBusy, PendingOn
<1>2. Len(d.queue) \in Nat /\ d.queue \in Seq(Entries)
  BY DeviceFields DEF Sound, Placed
<1>3. ASSUME Len(d.queue) # 0  PROVE FALSE
  <2>1. 1 \in 1..Len(d.queue)
    BY <1>2, <1>3
  <2>2. d.queue[1].retire_value <= submitted
    BY <2>1 DEF Sound, QueueInOrder
  <2>3. QED
    BY <2>1, <2>2 DEF Overdue
<1>4. QED
  BY <1>1, <1>2, <1>3

LEMMA DestroyDeviceKeeps == IInv /\ DestroyDevice => IInv' /\ Unused
<1> SUFFICES ASSUME IInv, DestroyDevice PROVE IInv' /\ Unused
  OBVIOUS
<1> DEFINE d == CollectDevice(RetireHandle, completed)
<1>1. TypeOK /\ DeviceInv /\ SwapchainInv /\ LayoutInv /\ PhaseInv
  BY DEF IInv
<1>2. /\ phase = "presents and destroy" /\ position = PresentContexts
      /\ phase' = "destroyed" /\ position' = position /\ swapchain' = Emptied(swapchain)
      /\ Become(d) /\ live' = live \ Destroyed(d)
      /\ next_present_context' = next_present_context
      /\ submitted' = submitted /\ completed' = completed /\ gpuWork' = gpuWork /\ gpuRetired' = gpuRetired
      /\ presenting' = presenting /\ presentedBy' = presentedBy /\ lastUse' = lastUse
      /\ layout' = layout /\ window' = window /\ resizes' = resizes
  BY DEF DestroyDevice
<1> HIDE DEF d
<1>3. /\ Sound(d, {}, live) /\ SlotsBusy(d) /\ ~Overdue(d, completed)
      /\ \A c \in Contexts : d.present_pending[c] => device.present_pending[c]
  <2> DEFINE r == RetireHandle
  <2>1. /\ Sound(r, {}, live) /\ SlotsBusy(r)
        /\ \A c \in Contexts : r.present_pending[c] => device.present_pending[c]
    BY <1>1, RetireHandleSound
  <2>2. completed \in 0..gpuWork /\ d = CollectDevice(r, completed)
    BY <1>1, StateTypes DEF d
  <2> HIDE DEF r
  <2>3. /\ Sound(d, {}, live) /\ ~Overdue(d, completed)
        /\ d.present_pending = r.present_pending /\ d.swapchain = r.swapchain /\ d.retired = r.retired
    BY <1>1, <2>1, <2>2, CollectSound
  <2>4. SlotsBusy(d)
    BY <2>1, <2>3 DEF SlotsBusy, PendingOn
  <2>5. QED
    BY <2>1, <2>3, <2>4
<1>4. /\ swapchain' \in [handle : HandleOrNull, image_count : 0..MaxImages, image_index : 0..MaxImages,
                         extent : Extents \union {Minimized}, recreate_required : BOOLEAN,
                         initialized : [1..MaxImages -> BOOLEAN]]
      /\ swapchain'.handle = Null /\ swapchain'.image_count = 0
      /\ \A i \in 1..MaxImages : ~swapchain'.initialized[i]
  BY <1>1, <1>2, EmptiedSwapchain
<1>5. {} = Current'
  BY <1>4 DEF Current
<1>6. /\ DeviceInv' /\ Unused
      /\ device'.present_pending \in [Contexts -> BOOLEAN]
      /\ device'.swapchain \in [Contexts -> HandleOrNull]
      /\ device'.retired \in [1..Slots -> [handle : HandleOrNull, view_count : 0..MaxImages]]
      /\ live' \subseteq Handles \X (0..MaxImages)
  BY <1>1, <1>2, <1>3, <1>5, DeviceBecomes
<1>7. TypeOK'
  <2>1. phase' \in Phases
    BY <1>2 DEF Phases
  <2>2. QED
    BY <1>1, <1>2, <1>4, <1>6, <2>1 DEF TypeOK
<1>8. ~HasFrame' /\ ~HasContext' /\ ~WaitingForPresents' /\ ~Draining'
      /\ phase' \notin {"acquiring", "acquired", "recording"}
  BY <1>2 DEF HasFrame, HasContext, WaitingForPresents, Draining
<1>9. SwapchainInv'
  BY <1>4, <1>8 DEF SwapchainInv
<1>10. LayoutInv'
  BY <1>1, <1>2, <1>4 DEF LayoutInv
<1>11. live' = {}
  <2>1. completed = submitted /\ \A c \in Contexts : ~d.present_pending[c]
    <3>1. completed = submitted /\ \A c \in Contexts : c < PresentContexts => ~device.present_pending[c]
      BY <1>1, <1>2 DEF PhaseInv, WaitingForPresents
    <3>2. \A c \in Contexts : c < PresentContexts
      BY ConstantsAssumption DEF Contexts
    <3>3. QED
      BY <1>3, <3>1, <3>2
  <2>2. (\A k \in 1..Slots : d.retired[k].handle = Null) /\ Len(d.queue) = 0
    BY <1>1, <1>3, <2>1, NothingWaits
  <2>3. ASSUME NEW h \in Handles, NEW v \in 0..MaxImages, <<h, v>> \in live  PROVE <<h, v>> \in Destroyed(d)
    <3>1. ~Owned(d, {}, h, v)
      BY <2>2, StateTypes, <1>1 DEF Owned
    <3>2. Dead(d, h, v)
      BY <1>3, <2>3, <3>1 DEF Sound, Placed, Accounted
    <3>3. DOMAIN d.calls = 1..Len(d.calls)
      BY <1>3, DeviceFields DEF Sound, Placed
    <3>4. QED
      BY <3>2, <3>3 DEF Dead, Destroyed, DestroyedBy
  <2>4. live \subseteq Handles \X (0..MaxImages)
    BY <1>1 DEF TypeOK
  <2>5. ASSUME NEW p \in live, p \notin Destroyed(d)  PROVE FALSE
    <3>1. PICK h \in Handles, v \in 0..MaxImages : p = <<h, v>>
      BY <2>4
    <3>2. QED
      BY <2>3, <2>5, <3>1
  <2>6. live' = live \ Destroyed(d)
    BY <1>2
  <2>7. QED
    BY <2>5, <2>6
<1>12. PhaseInv'
  BY <1>1, <1>2, <1>8, <1>11 DEF PhaseInv
<1>13. QED
  BY <1>6, <1>7, <1>9, <1>10, <1>12 DEF IInv

LEMMA RecreateSucceedsKeeps ==
  ASSUME IInv, NEW handle \in Handles, NEW count \in 1..MaxImages, RecreateSucceeds(handle, count)
  PROVE  IInv' /\ Unused
<1> DEFINE d == RetireHandle
           e == [d EXCEPT !.calls = <<>>]
           rest == live \ DestroyedBy(d.calls)
           hand == {[handle |-> handle, view_count |-> count]}
           more == rest \union {<<handle, i>> : i \in 0..count}
<1>1. TypeOK /\ DeviceInv /\ SwapchainInv /\ LayoutInv /\ PhaseInv
  BY DEF IInv
<1>2. /\ <<handle, 0>> \notin live /\ window # Minimized
      /\ device' = e /\ calls' = d.calls /\ live' = more
      /\ swapchain' = [Emptied(swapchain) EXCEPT !.handle = handle, !.image_count = count, !.extent = window,
                                                 !.recreate_required = FALSE]
      /\ lastUse' = [lastUse EXCEPT ![handle] = 0]
      /\ layout' = [layout EXCEPT ![handle] = [i \in 1..MaxImages |-> "undefined"]]
      /\ next_present_context' = next_present_context
      /\ submitted' = submitted /\ completed' = completed /\ gpuWork' = gpuWork /\ gpuRetired' = gpuRetired
      /\ presenting' = presenting /\ presentedBy' = presentedBy /\ window' = window /\ resizes' = resizes
  BY DEF RecreateSucceeds, Become, Destroyed, NoExtent
<1>3. \/ phase' = "ready" /\ position' = 0
      \/ phase = "acquiring" /\ phase' = phase /\ position' = position
  BY DEF RecreateSucceeds, Returning
<1>4. /\ Sound(d, {}, live) /\ SlotsBusy(d) /\ ~Overdue(d, completed)
      /\ \A c \in Contexts : d.present_pending[c] => device.present_pending[c]
  BY <1>1, RetireHandleSound
<1>5. live \subseteq Handles \X (0..MaxImages)
  BY <1>1 DEF TypeOK
<1>6. /\ Sound(e, {}, rest)
      /\ e.calls = <<>> /\ e.present_pending = d.present_pending /\ e.swapchain = d.swapchain
      /\ e.retired = d.retired /\ e.queue = d.queue
      /\ rest \subseteq Handles \X (0..MaxImages)
  BY <1>1, <1>4, <1>5, ClearCalls
<1>7. <<handle, 0>> \notin rest
  BY <1>2
<1>8. Unused
  BY <1>2, <1>4, SoundIsUnused
<1> HIDE DEF d, e, rest
<1>9. Placed(e, hand, more) /\ \A i \in 1..Len(e.queue) : e.queue[i].swapchain # handle
  BY <1>1, <1>6, <1>7, CreateSound
<1>10. SlotsBusy(e) /\ ~Overdue(e, completed)
  BY <1>4, <1>6 DEF SlotsBusy, PendingOn, Overdue
<1>11. e \in Devices /\ PresentsKnown(e, {}) /\ QueueInOrder(e)
  BY <1>6 DEF Sound, Placed
<1>12. /\ swapchain' \in [handle : HandleOrNull, image_count : 0..MaxImages, image_index : 0..MaxImages,
                          extent : Extents \union {Minimized}, recreate_required : BOOLEAN,
                          initialized : [1..MaxImages -> BOOLEAN]]
       /\ swapchain'.handle = handle /\ swapchain'.image_count = count /\ swapchain'.extent = window
       /\ \A i \in 1..MaxImages : ~swapchain'.initialized[i]
  <2> DEFINE old == Emptied(swapchain)
  <2>1. /\ old \in [handle : HandleOrNull, image_count : 0..MaxImages, image_index : 0..MaxImages,
                    extent : Extents \union {Minimized}, recreate_required : BOOLEAN,
                    initialized : [1..MaxImages -> BOOLEAN]]
        /\ \A i \in 1..MaxImages : ~old.initialized[i]
    BY <1>1, EmptiedSwapchain
  <2>2. handle \in HandleOrNull /\ count \in 0..MaxImages /\ window \in Extents \union {Minimized}
    BY <1>1, StateTypes DEF HandleOrNull, TypeOK
  <2>3. swapchain' = [old EXCEPT !.handle = handle, !.image_count = count, !.extent = window,
                                 !.recreate_required = FALSE]
    BY <1>2
  <2> HIDE DEF old
  <2>4. QED
    BY <2>1, <2>2, <2>3
<1>13. handle # Null /\ count \in Nat /\ count # 0
  BY <1>1, StateTypes
<1>14. hand = Current'
  BY <1>12, <1>13 DEF Current
<1>15. lastUse \in [Handles -> 0..submitted] /\ lastUse' \in [Handles -> 0..submitted]
       /\ \A h \in Handles : h # handle => lastUse'[h] = lastUse[h]
  <2>1. lastUse \in [Handles -> 0..submitted] /\ 0 \in 0..submitted
    BY <1>1, StateTypes DEF TypeOK
  <2>2. QED
    BY <1>2, <2>1
<1>16. DeviceInv'
  <2>1. PresentsKnown(device, Current)'
    BY <1>2, <1>11 DEF PresentsKnown
  <2>2. QueueInOrder(device)'
    <3>1. \A i \in 1..Len(e.queue) : lastUse'[e.queue[i].swapchain] = lastUse[e.queue[i].swapchain]
      BY <1>9, <1>11, <1>15, DeviceFields
    <3>2. QED
      BY <1>2, <1>11, <3>1 DEF QueueInOrder
  <2>3. QED
    BY <1>2, <1>6, <1>9, <1>10, <1>14, <2>1, <2>2, PlacedAfter
<1>17. TypeOK'
  <2>1. phase' \in Phases
    BY <1>3 DEF Phases
  <2>2. position' \in 0..PresentContexts
    <3>1. 0 \in 0..PresentContexts /\ position \in 0..PresentContexts
      BY <1>1, ConstantsAssumption DEF TypeOK
    <3>2. QED
      BY <1>3, <3>1
  <2>3. /\ device'.present_pending \in [Contexts -> BOOLEAN]
        /\ device'.swapchain \in [Contexts -> HandleOrNull]
        /\ device'.retired \in [1..Slots -> [handle : HandleOrNull, view_count : 0..MaxImages]]
    BY <1>2, <1>11, DeviceType
  <2>4. live' \subseteq Handles \X (0..MaxImages)
    <3>1. MaxImages \in Nat
      BY <1>1, StateTypes
    <3>2. \A i \in 0..count : i \in 0..MaxImages
      BY <1>13, <3>1
    <3>3. QED
      BY <1>2, <1>6, <3>2
  <2>5. QED
    BY <1>1, <1>2, <1>12, <1>15, <2>1, <2>2, <2>3, <2>4 DEF TypeOK
<1>18. ~HasFrame' /\ ~WaitingForPresents' /\ ~Draining' /\ phase' # "destroyed" /\ phase' # "recording"
  BY <1>3 DEF HasFrame, WaitingForPresents, Draining
<1>19. SwapchainInv'
  BY <1>2, <1>12, <1>13, <1>18 DEF SwapchainInv
<1>20. LayoutInv'
  <2>1. layout \in [Handles -> [1..MaxImages -> {"undefined", "general", "present"}]]
    BY <1>1 DEF LayoutInv
  <2>2. [i \in 1..MaxImages |-> "undefined"] \in [1..MaxImages -> {"undefined", "general", "present"}]
    OBVIOUS
  <2>3. layout' \in [Handles -> [1..MaxImages -> {"undefined", "general", "present"}]]
        /\ \A i \in 1..MaxImages : layout'[handle][i] = "undefined"
    BY <1>2, <2>1, <2>2
  <2>4. \A i \in 1..count : i \in 1..MaxImages
    BY <1>1, StateTypes
  <2>5. QED
    BY <1>12, <2>3, <2>4 DEF LayoutInv, LayoutOf
<1>21. PhaseInv'
  <2>1. HasContext' => HasContext
    BY <1>3 DEF HasContext, HasFrame
  <2>2. next_present_context \in Contexts
    BY <1>1 DEF TypeOK
  <2>3. HasContext' => ~device'.present_pending[next_present_context]
    BY <1>1, <1>2, <1>4, <1>6, <2>1, <2>2 DEF PhaseInv
  <2>4. phase' \in {"acquiring", "acquired", "recording"} => submitted' < MaxSubmissions
    BY <1>1, <1>2, <1>3 DEF PhaseInv
  <2>5. QED
    BY <1>1, <1>2, <1>18, <2>3, <2>4 DEF PhaseInv
<1>22. QED
  BY <1>8, <1>16, <1>17, <1>19, <1>20, <1>21 DEF IInv

-----------------------------------------------------------------------------
(* submit_and_present.                                                     *)
LEMMA SubmitAndPresentKeeps ==
  ASSUME IInv, NEW outOfDate \in BOOLEAN, SubmitAndPresent(outOfDate)
  PROVE  IInv' /\ Unused
<1> DEFINE c == next_present_context
           h == swapchain.handle
           x == swapchain.image_index
           d == device
           e == [d EXCEPT !.present_pending[c] = TRUE, !.swapchain[c] = h]
           hand == Current
           existing == live
<1>1. TypeOK /\ DeviceInv /\ SwapchainInv /\ LayoutInv /\ PhaseInv
  BY DEF IInv
<1>2. /\ phase = "recording" /\ submitted' = submitted + 1
      /\ device' = e /\ next_present_context' = FollowingContext(c)
      /\ swapchain' = [swapchain EXCEPT !.initialized[x] = TRUE,
                                        !.recreate_required = @ \/ (outOfDate /\ ConfigurationChanged)]
      /\ presenting' = [presenting EXCEPT ![c] = h]
      /\ presentedBy' = [presentedBy EXCEPT ![c] = submitted + 1]
      /\ lastUse' = [lastUse EXCEPT ![h] = submitted + 1]
      /\ layout' = [layout EXCEPT ![h][x] = "present"]
      /\ phase' = "ready" /\ position' = 0 /\ calls' = <<>>
      /\ completed' = completed /\ gpuWork' = gpuWork /\ gpuRetired' = gpuRetired
      /\ live' = existing /\ window' = window /\ resizes' = resizes
  BY DEF SubmitAndPresent, Returning
<1>3. /\ c \in Contexts /\ h \in Handles /\ h # Null /\ x \in 1..swapchain.image_count
      /\ swapchain.image_count \in 0..MaxImages /\ x \in 1..MaxImages
  <2>1. c \in Contexts /\ h \in HandleOrNull /\ swapchain.image_count \in 0..MaxImages
    BY <1>1 DEF TypeOK
  <2>2. h # Null /\ x \in 1..swapchain.image_count
    BY <1>1, <1>2 DEF SwapchainInv, HasFrame
  <2>3. MaxImages \in Nat
    BY <1>1, StateTypes
  <2>4. QED
    BY <2>1, <2>2, <2>3 DEF HandleOrNull
<1>4. ~d.present_pending[c] /\ submitted < MaxSubmissions
  BY <1>1, <1>2 DEF PhaseInv, HasContext, HasFrame
<1>5. /\ submitted \in Nat /\ submitted' \in Nat /\ submitted <= submitted' /\ submitted' \in 0..MaxSubmissions
      /\ gpuWork \in 0..submitted' /\ \A v \in 0..submitted : v \in 0..submitted'
  BY <1>1, <1>2, <1>4, StateTypes, ConstantsAssumption
<1>6. /\ swapchain' \in [handle : HandleOrNull, image_count : 0..MaxImages, image_index : 0..MaxImages,
                         extent : Extents \union {Minimized}, recreate_required : BOOLEAN,
                         initialized : [1..MaxImages -> BOOLEAN]]
      /\ swapchain'.handle = h /\ swapchain'.image_count = swapchain.image_count
      /\ swapchain'.extent = swapchain.extent
      /\ swapchain.recreate_required => swapchain'.recreate_required
      /\ \A i \in 1..MaxImages : i # x => swapchain'.initialized[i] = swapchain.initialized[i]
      /\ swapchain'.initialized[x]
  <2>1. swapchain \in [handle : HandleOrNull, image_count : 0..MaxImages, image_index : 0..MaxImages,
                       extent : Extents \union {Minimized}, recreate_required : BOOLEAN,
                       initialized : [1..MaxImages -> BOOLEAN]]
    BY <1>1 DEF TypeOK
  <2> DEFINE need == swapchain.recreate_required \/ (outOfDate /\ ConfigurationChanged)
             shown == [swapchain.initialized EXCEPT ![x] = TRUE]
  <2>2. need \in BOOLEAN /\ (swapchain.recreate_required => need)
    OBVIOUS
  <2>3. /\ shown \in [1..MaxImages -> BOOLEAN] /\ shown[x]
        /\ \A i \in 1..MaxImages : i # x => shown[i] = swapchain.initialized[i]
    BY <2>1, <1>3
  <2>4. swapchain' = [swapchain EXCEPT !.initialized = shown, !.recreate_required = need]
    BY <1>2, <2>1
  <2> HIDE DEF need, shown
  <2>5. QED
    BY <2>1, <2>2, <2>3, <2>4
<1>7. /\ Placed(d, hand, existing) /\ PresentsKnown(d, hand) /\ QueueInOrder(d) /\ d.calls = <<>>
      /\ SlotsBusy(d) /\ ~Overdue(d, completed) /\ d \in Devices
  BY <1>1 DEF DeviceInv, Sound, Placed
<1>8. /\ e \in Devices /\ e.retired = d.retired /\ e.queue = d.queue /\ e.calls = d.calls
      /\ e.present_pending = [d.present_pending EXCEPT ![c] = TRUE]
      /\ e.swapchain = [d.swapchain EXCEPT ![c] = h]
  BY <1>3, <1>7 DEF Devices, HandleOrNull
<1>9. Current = Current' /\ [handle |-> h, view_count |-> swapchain.image_count] \in hand
  BY <1>3, <1>6 DEF Current
<1>10. /\ presenting' \in [Contexts -> HandleOrNull] /\ presenting'[c] = h
       /\ \A y \in Contexts : y # c => presenting'[y] = presenting[y]
  BY <1>1, <1>2, <1>3 DEF TypeOK, HandleOrNull
<1>11. /\ presentedBy' \in [Contexts -> 0..submitted']
       /\ \A y \in Contexts : y # c => presentedBy'[y] = presentedBy[y]
  <2>1. presentedBy \in [Contexts -> 0..submitted'] /\ submitted + 1 \in 0..submitted'
    BY <1>1, <1>2, <1>5 DEF TypeOK
  <2>2. QED
    BY <1>2, <2>1
<1>12. /\ lastUse' \in [Handles -> 0..submitted']
       /\ \A y \in Handles : y # h => lastUse'[y] = lastUse[y]
  <2>1. lastUse \in [Handles -> 0..submitted'] /\ submitted + 1 \in 0..submitted'
    BY <1>1, <1>2, <1>5 DEF TypeOK
  <2>2. QED
    BY <1>2, <2>1
<1> HIDE DEF d, e, hand, existing
<1>13. Placed(e, hand, existing)
  <2>1. Apart(e, hand)  BY <1>7, <1>8 DEF Placed, Apart, Owned
  <2>2. Accounted(e, hand, existing)
    <3>1. e.retired = d.retired /\ e.queue = d.queue /\ e.calls = d.calls  BY <1>8
    <3>2. \A y \in Handles, v \in 0..MaxImages : Owned(e, hand, y, v) = Owned(d, hand, y, v)
      BY ONLY <3>1 DEF Owned
    <3>3. \A y \in Handles, v \in 0..MaxImages : Dead(e, y, v) = Dead(d, y, v)
      BY ONLY <3>1 DEF Dead
    <3>4. Accounted(d, hand, existing)  BY <1>7 DEF Placed
    <3>5. QED  BY ONLY <3>2, <3>3, <3>4 DEF Accounted
  <2>3. QED  BY <1>7, <1>8, <2>1, <2>2 DEF Placed
<1>14. SlotsBusy(e) /\ ~Overdue(e, completed)
  <2>1. ASSUME NEW k \in 1..Slots, e.retired[k].handle # Null  PROVE PendingOn(e, e.retired[k].handle) # {}
    <3>1. PICK y \in Contexts : d.present_pending[y] /\ d.swapchain[y] = d.retired[k].handle
      BY <1>7, <1>8, <2>1 DEF SlotsBusy, PendingOn
    <3>2. y # c
      BY <1>4, <3>1
    <3>3. e.present_pending[y] /\ e.swapchain[y] = e.retired[k].handle
      BY <1>7, <1>8, <3>1, <3>2, DeviceFields
    <3>4. QED
      BY <3>3 DEF PendingOn
  <2>2. QED
    BY <1>7, <1>8, <2>1 DEF SlotsBusy, Overdue
<1>15. ASSUME NEW y \in Contexts
       PROVE  /\ presenting'[y] # Null => e.present_pending[y] /\ e.swapchain[y] = presenting'[y]
              /\ ~e.present_pending[y] => e.swapchain[y] = Null
              /\ e.present_pending[y] =>
                   /\ e.swapchain[y] \in Handles
                   /\ \/ \E r \in hand : r.handle = e.swapchain[y]
                      \/ \E k \in 1..Slots : e.retired[k].handle = e.swapchain[y]
  <2>1. d.present_pending \in [Contexts -> BOOLEAN] /\ d.swapchain \in [Contexts -> HandleOrNull]
    BY <1>7, DeviceFields
  <2>2. CASE y = c
    <3>1. e.present_pending[y] /\ e.swapchain[y] = h
      BY <1>8, <2>1, <2>2
    <3>2. \E r \in hand : r.handle = h
      BY <1>9
    <3>3. QED
      BY <1>3, <1>10, <2>2, <3>1, <3>2
  <2>3. CASE y # c
    <3>1. e.present_pending[y] = d.present_pending[y] /\ e.swapchain[y] = d.swapchain[y]
      BY <1>8, <2>1, <2>3
    <3>2. QED
      BY <1>7, <1>8, <1>10, <2>3, <3>1 DEF PresentsKnown
  <2>4. QED
    BY <2>2, <2>3
<1>16. PresentsKnown(device, Current)'
  <2>1. hand = Current'
    BY <1>9 DEF hand
  <2>2. QED
    BY <1>2, <1>15, <2>1 DEF PresentsKnown
<1>17. QueueInOrder(device)'
  <2>1. ASSUME NEW i \in 1..Len(d.queue)
        PROVE  d.queue[i].retire_value <= submitted' /\ lastUse'[d.queue[i].swapchain] <= d.queue[i].retire_value
    <3>1. d.queue[i].swapchain \in Handles /\ d.queue[i].retire_value \in Nat
      BY <1>7, DeviceFields
    <3>2. d.queue[i].swapchain # h
      BY <1>7, <1>9 DEF Placed, Apart
    <3>3. d.queue[i].retire_value <= submitted /\ lastUse[d.queue[i].swapchain] <= d.queue[i].retire_value
      BY <1>7 DEF QueueInOrder
    <3>4. d.queue[i].retire_value <= submitted'
      BY <1>5, <3>1, <3>3
    <3>5. QED
      BY <1>12, <3>1, <3>2, <3>3, <3>4
  <2>2. QED
    BY <1>2, <1>7, <1>8, <2>1 DEF QueueInOrder
<1>18. DeviceInv'
  <2>1. hand = Current' /\ existing = live' /\ e = device' /\ completed = completed' /\ e.calls = <<>>
    BY <1>2, <1>7, <1>8, <1>9 DEF hand
  <2>2. QED
    BY <1>13, <1>14, <1>16, <1>17, <2>1, PlacedAfter
<1>19. TypeOK'
  <2>1. phase' \in Phases
    BY <1>2 DEF Phases
  <2>2. position' \in 0..PresentContexts
    BY <1>2, ConstantsAssumption
  <2>3. next_present_context' \in Contexts
    <3>1. c \in Nat /\ PresentContexts \in Nat \ {0}
      BY <1>3, ConstantsAssumption DEF Contexts
    <3>2. ((c + 1) % PresentContexts) \in 0..(PresentContexts - 1)
      BY <3>1
    <3>3. QED
      BY <1>2, <3>2 DEF FollowingContext, Contexts
  <2>4. /\ device'.present_pending \in [Contexts -> BOOLEAN]
        /\ device'.swapchain \in [Contexts -> HandleOrNull]
        /\ device'.retired \in [1..Slots -> [handle : HandleOrNull, view_count : 0..MaxImages]]
    BY <1>2, <1>8, DeviceType
  <2>5. QED
    BY <1>1, <1>2, <1>5, <1>6, <1>10, <1>11, <1>12, <2>1, <2>2, <2>3, <2>4 DEF TypeOK, existing
<1>20. SwapchainInv'
  BY <1>1, <1>2, <1>6 DEF SwapchainInv, HasFrame
<1>21. LayoutInv'
  <2>1. layout \in [Handles -> [1..MaxImages -> {"undefined", "general", "present"}]]
    BY <1>1 DEF LayoutInv
  <2>2. /\ layout' \in [Handles -> [1..MaxImages -> {"undefined", "general", "present"}]]
        /\ layout'[h][x] = "present"
        /\ \A i \in 1..MaxImages : i # x => layout'[h][i] = layout[h][i]
    BY <1>2, <1>3, <2>1
  <2>3. ASSUME NEW i \in 1..MaxImages, i > swapchain.image_count  PROVE ~swapchain'.initialized[i]
    <3>1. i # x
      BY <1>3, <2>3
    <3>2. ~swapchain.initialized[i]
      BY <1>1, <2>3 DEF LayoutInv
    <3>3. QED
      BY <1>6, <3>1, <3>2
  <2>4. ASSUME NEW i \in 1..swapchain.image_count
        PROVE  layout'[h][i] = IF swapchain'.initialized[i] THEN "present" ELSE "undefined"
    <3>1. i \in 1..MaxImages
      <4>1. MaxImages \in Nat /\ swapchain.image_count \in 0..MaxImages
        BY <1>1, <1>3, StateTypes
      <4>2. QED
        BY <4>1
    <3>2. CASE i = x
      BY <1>6, <2>2, <3>2
    <3>3. CASE i # x
      <4>1. layout[h][i] = LayoutOf(i)
        BY <1>1, <1>2, <1>3, <3>3 DEF LayoutInv
      <4>2. QED
        BY <1>6, <2>2, <3>1, <3>3, <4>1 DEF LayoutOf
    <3>4. QED
      BY <3>2, <3>3
  <2>5. QED
    BY <1>2, <1>6, <2>2, <2>3, <2>4 DEF LayoutInv, LayoutOf
<1>22. PhaseInv'
  <2>1. ~HasContext' /\ ~Draining' /\ ~WaitingForPresents' /\ phase' # "destroyed"
        /\ phase' \notin {"acquiring", "acquired", "recording"}
    BY <1>2 DEF HasContext, HasFrame, Draining, WaitingForPresents
  <2>2. \A y \in Contexts : presenting'[y] = Null => presentedBy'[y] <= gpuWork
    BY <1>1, <1>3, <1>10, <1>11 DEF PhaseInv
  <2>3. QED
    BY <1>2, <2>1, <2>2 DEF PhaseInv
<1>23. QED
  BY <1>18, <1>19, <1>20, <1>21, <1>22, <1>2, NothingIsUnused DEF IInv

-----------------------------------------------------------------------------
(* The theorems.                                                           *)
LEMMA StepKeeps ==
  ASSUME IInv, Next
  PROVE  IInv' /\ (UNCHANGED vars \/ Unused)
<1>1. CASE RecreateMinimized  BY <1>1, RecreateMinimizedKeeps
<1>2. CASE \E handle \in Handles, count \in 1..MaxImages : RecreateSucceeds(handle, count)
  BY <1>2, RecreateSucceedsKeeps
<1>3. CASE WaitPresentContext  BY <1>3, WaitPresentContextKeeps
<1>4. CASE \E image \in 1..swapchain.image_count, suboptimal \in BOOLEAN : AcquireImage(image, suboptimal)
  BY <1>4, AcquireImageKeeps
<1>5. CASE AcquireOutOfDate  BY <1>5, AcquireOutOfDateKeeps
<1>6. CASE DrainRetirement  BY <1>6, DrainRetirementKeeps
<1>7. CASE DrainPresent  BY <1>7, DrainPresentKeeps
<1>8. CASE WaitIdleReturns  BY <1>8, WaitIdleReturnsKeeps
<1>9. CASE DestroyDevice  BY <1>9, DestroyDeviceKeeps
<1>10. CASE RecreateFails  BY <1>10, RecreateFailsKeeps
<1>11. CASE Acquire  BY <1>11, AcquireKeeps
<1>12. CASE BeginCommands  BY <1>12, BeginCommandsKeeps
<1>13. CASE Submit  BY <1>13, SubmitKeeps
<1>14. CASE GetDrawableExtent  BY <1>14, GetDrawableExtentKeeps
<1>15. CASE BeginDrain  BY <1>15, BeginDrainKeeps
<1>16. CASE \E outOfDate \in BOOLEAN : SubmitAndPresent(outOfDate)
  BY <1>16, SubmitAndPresentKeeps
<1>17. CASE \E value \in 1..MaxSubmissions : ObserveRetirement(value)
  BY <1>17, ObserveRetirementKeeps
<1>18. CASE GpuCompletesWork  BY <1>18, GpuCompletesWorkKeeps
<1>19. CASE GpuSignalsRetirement  BY <1>19, GpuSignalsRetirementKeeps
<1>20. CASE WindowChanges  BY <1>20, WindowChangesKeeps
<1>21. CASE \E c \in Contexts : EngineSignalsFence(c)
  BY <1>21, EngineSignalsFenceKeeps
<1>22. CASE Stopped
  <2>1. UNCHANGED vars
    BY <1>22 DEF Stopped
  <2>2. QED
    BY <2>1, StoppedKeeps
<1>23. QED
  BY <1>1, <1>2, <1>3, <1>4, <1>5, <1>6, <1>7, <1>8, <1>9, <1>10, <1>11, <1>12, <1>13, <1>14, <1>15, <1>16,
     <1>17, <1>18, <1>19, <1>20, <1>21, <1>22
     DEF Next, InsideCall, Application, Outside

THEOREM Invariance == Spec => []IInv
<1>1. IInv /\ [Next]_vars => IInv'
  BY StepKeeps, StoppedKeeps
<1>2. QED
  BY InitIInv, <1>1, PTL DEF Spec

(***************************************************************************)
(* No swapchain and no view of one is destroyed twice, before its views,   *)
(* or while the GPU renders to it or the engine presents from it.          *)
(***************************************************************************)
THEOREM DestructionIsSafe == Spec => DestroysOnlyUnused
<1>1. ASSUME IInv, [Next]_vars  PROVE UNCHANGED vars \/ Unused
  BY <1>1, StepKeeps
<1>2. IInv /\ [Next]_vars =>
        [\A i \in 1..Len(calls') :
           LET handle == calls'[i].swapchain
           IN /\ <<handle, calls'[i].view>> \in live /\ <<handle, 0>> \in live
              /\ \A j \in 1..(i - 1) :
                   calls'[j].swapchain = handle => calls'[j].view # calls'[i].view /\ ~calls'[j].final_image
              /\ lastUse[handle] <= gpuWork
              /\ \A c \in Contexts : presenting[c] # handle]_vars
  BY <1>1 DEF Unused
<1>3. QED
  BY <1>2, Invariance, PTL DEF Spec, DestroysOnlyUnused

(***************************************************************************)
(* At every point of every call each swapchain, with all of its views, is  *)
(* in one place: the Swapchain object, a slot or the queue.                *)
(***************************************************************************)
LEMMA OneOwner == IInv => OneOwnerEach
<1> SUFFICES ASSUME IInv PROVE OneOwnerEach
  OBVIOUS
<1> DEFINE current == IF swapchain.handle = Null THEN {} ELSE Views(swapchain.handle, swapchain.image_count)
           kept(k) == IF device.retired[k].handle = Null THEN {}
                      ELSE Views(device.retired[k].handle, device.retired[k].view_count)
           waiting(i) == <<device.queue[i].swapchain, device.queue[i].view>>
           queued == {waiting(i) : i \in 1..Len(device.queue)}
           owned == current \union (UNION {kept(k) : k \in 1..Slots}) \union queued
           Has(h, v) == Owned(device, Current, h, v)
<1>1. /\ TypeOK /\ device \in Devices /\ Apart(device, Current) /\ Accounted(device, Current, live)
      /\ device.calls = <<>> /\ Current \subseteq InHand
      /\ \A k \in 1..Slots : device.retired[k].handle # Null => device.retired[k].view_count >= 1
  BY DEF IInv, DeviceInv, Sound, Placed
<1>2. MaxImages \in Nat \ {0} /\ Null \notin Handles /\ live \subseteq Handles \X (0..MaxImages)
  BY <1>1, StateTypes DEF TypeOK
<1>3. \A h \in Handles, v \in 0..MaxImages : <<h, v>> \in live <=> Has(h, v)
  <2>1. \A h, v : ~Dead(device, h, v)
    BY <1>1 DEF Dead
  <2>2. QED
    BY <1>1, <2>1 DEF Accounted
<1>4. /\ \A k \in 1..Slots : device.retired[k].handle \in HandleOrNull /\ device.retired[k].view_count \in 0..MaxImages
      /\ \A i \in 1..Len(device.queue) : device.queue[i].swapchain \in Handles /\ device.queue[i].view \in 1..MaxImages
      /\ swapchain.handle \in HandleOrNull /\ swapchain.image_count \in 0..MaxImages
  BY <1>1, DeviceFields DEF RetiredSwapchains, TypeOK
<1>5. swapchain.handle # Null => swapchain.image_count >= 1
  <2>1. swapchain.handle # Null => swapchain.image_count # 0
    BY DEF IInv, SwapchainInv
  <2>2. QED
    BY <1>2, <1>4, <2>1
<1>6. \A h, v : <<h, v>> \in current <=> swapchain.handle = h /\ h # Null /\ v \in 1..swapchain.image_count
  BY DEF Views
<1>7. \A k \in 1..Slots : \A h, v :
        <<h, v>> \in kept(k) <=> device.retired[k].handle = h /\ h # Null /\ v \in 1..device.retired[k].view_count
  BY DEF Views
<1>8. \A h, v : <<h, v>> \in queued <=> \E i \in 1..Len(device.queue) : device.queue[i].swapchain = h /\ device.queue[i].view = v
  OBVIOUS
<1>9. /\ \A p \in current : p = <<p[1], p[2]>>
      /\ \A k \in 1..Slots : \A p \in kept(k) : p = <<p[1], p[2]>>
      /\ \A p \in queued : p = <<p[1], p[2]>>
  BY DEF Views
<1>10. \A h, v : Has(h, v) <=> \/ swapchain.handle = h /\ h # Null /\ v <= swapchain.image_count
                               \/ \E k \in 1..Slots : device.retired[k].handle = h /\ v <= device.retired[k].view_count
                               \/ \E i \in 1..Len(device.queue) :
                                    device.queue[i].swapchain = h /\ (v = 0 \/ v = device.queue[i].view)
  <2>1. \A r : r \in Current <=> swapchain.handle # Null
                                  /\ r = [handle |-> swapchain.handle, view_count |-> swapchain.image_count]
    BY DEF Current
  <2>2. ASSUME NEW h, NEW v
        PROVE  (\E r \in Current : r.handle = h /\ v <= r.view_count)
                 <=> swapchain.handle = h /\ h # Null /\ v <= swapchain.image_count
    <3>1. ASSUME NEW r \in Current, r.handle = h, v <= r.view_count
          PROVE  swapchain.handle = h /\ h # Null /\ v <= swapchain.image_count
      <4>1. swapchain.handle # Null /\ r = [handle |-> swapchain.handle, view_count |-> swapchain.image_count]
        BY <2>1
      <4>2. r.handle = swapchain.handle /\ r.view_count = swapchain.image_count
        BY <4>1
      <4>3. QED
        BY <3>1, <4>1, <4>2
    <3>2. ASSUME swapchain.handle = h, h # Null, v <= swapchain.image_count
          PROVE  \E r \in Current : r.handle = h /\ v <= r.view_count
      <4> DEFINE r == [handle |-> swapchain.handle, view_count |-> swapchain.image_count]
      <4>1. r \in Current /\ r.handle = h /\ r.view_count = swapchain.image_count
        BY <2>1, <3>2
      <4>2. QED
        BY <3>2, <4>1
    <3>3. QED
      BY <3>1, <3>2
  <2>3. QED
    BY <2>2 DEF Owned
<1> HIDE DEF current, kept, queued, Has
<1>11. ASSUME NEW h, NEW v
       PROVE  <<h, v>> \in owned <=> \/ <<h, v>> \in current
                                     \/ \E k \in 1..Slots : <<h, v>> \in kept(k)
                                     \/ <<h, v>> \in queued
  <2>1. <<h, v>> \in UNION {kept(k) : k \in 1..Slots} <=> \E k \in 1..Slots : <<h, v>> \in kept(k)
    OBVIOUS
  <2>2. QED
    BY <2>1
<1>12. \A p \in owned : p = <<p[1], p[2]>>
  <2>1. \A p \in UNION {kept(k) : k \in 1..Slots} : \E k \in 1..Slots : p \in kept(k)
    OBVIOUS
  <2>2. QED
    BY <1>9, <2>1
<1> HIDE DEF owned
<1>13. ASSUME NEW h, NEW v
       PROVE  <<h, v>> \in owned <=> h \in Handles /\ v \in 1..MaxImages /\ Has(h, v)
  <2>1. ASSUME <<h, v>> \in owned  PROVE h \in Handles /\ v \in 1..MaxImages /\ Has(h, v)
    <3>1. CASE <<h, v>> \in current
      <4>1. swapchain.handle = h /\ h # Null /\ v \in 1..swapchain.image_count
        BY <1>6, <3>1
      <4>2. v \in 1..MaxImages /\ v <= swapchain.image_count
        BY <1>2, <1>4, <4>1
      <4>3. QED
        BY <1>4, <1>10, <4>1, <4>2 DEF HandleOrNull
    <3>2. CASE \E k \in 1..Slots : <<h, v>> \in kept(k)
      <4>1. PICK k \in 1..Slots : device.retired[k].handle = h /\ h # Null /\ v \in 1..device.retired[k].view_count
        BY <1>7, <3>2
      <4>2. v \in 1..MaxImages /\ v <= device.retired[k].view_count
        BY <1>2, <1>4, <4>1
      <4>3. QED
        BY <1>4, <1>10, <4>1, <4>2 DEF HandleOrNull
    <3>3. CASE <<h, v>> \in queued
      BY <1>4, <1>8, <1>10, <3>3
    <3>4. QED
      BY <1>11, <2>1, <3>1, <3>2, <3>3
  <2>2. ASSUME h \in Handles, v \in 1..MaxImages, Has(h, v)  PROVE <<h, v>> \in owned
    <3>1. v \in Nat /\ v >= 1 /\ v # 0 /\ h # Null
      BY <1>2, <2>2
    <3>2. CASE swapchain.handle = h /\ v <= swapchain.image_count
      BY <1>4, <1>6, <1>11, <3>1, <3>2
    <3>3. CASE \E k \in 1..Slots : device.retired[k].handle = h /\ v <= device.retired[k].view_count
      <4>1. PICK k \in 1..Slots : device.retired[k].handle = h /\ v <= device.retired[k].view_count
        BY <3>3
      <4>2. v \in 1..device.retired[k].view_count
        BY <1>4, <3>1, <4>1
      <4>3. QED
        BY <1>7, <1>11, <3>1, <4>1, <4>2
    <3>4. CASE \E i \in 1..Len(device.queue) : device.queue[i].swapchain = h /\ (v = 0 \/ v = device.queue[i].view)
      BY <1>8, <1>11, <3>1, <3>4
    <3>5. QED
      BY <1>10, <2>2, <3>2, <3>3, <3>4
  <2>3. QED
    BY <2>1, <2>2
<1>14. ASSUME NEW h \in Handles
       PROVE  Has(h, 0) <=> \E v \in 1..MaxImages : Has(h, v)
  <2>1. ASSUME Has(h, 0)  PROVE \E v \in 1..MaxImages : Has(h, v)
    <3>1. 1 \in 1..MaxImages /\ h # Null
      BY <1>2
    <3>2. CASE swapchain.handle = h /\ 0 <= swapchain.image_count
      BY <1>5, <1>10, <3>1, <3>2
    <3>3. CASE \E k \in 1..Slots : device.retired[k].handle = h /\ 0 <= device.retired[k].view_count
      <4>1. PICK k \in 1..Slots : device.retired[k].handle = h
        BY <3>3
      <4>2. 1 <= device.retired[k].view_count
        BY <1>1, <1>4, <3>1, <4>1
      <4>3. QED
        BY <1>10, <3>1, <4>1, <4>2
    <3>4. CASE \E i \in 1..Len(device.queue) : device.queue[i].swapchain = h
      BY <1>4, <1>10, <3>4
    <3>5. QED
      BY <1>10, <2>1, <3>2, <3>3, <3>4
  <2>2. ASSUME NEW v \in 1..MaxImages, Has(h, v)  PROVE Has(h, 0)
    <3>1. v \in Nat
      OBVIOUS
    <3>2. CASE swapchain.handle = h /\ h # Null
      <4>1. 0 <= swapchain.image_count
        BY <1>4
      <4>2. QED
        BY <1>10, <3>2, <4>1
    <3>3. CASE \E k \in 1..Slots : device.retired[k].handle = h /\ v <= device.retired[k].view_count
      <4>1. PICK k \in 1..Slots : device.retired[k].handle = h
        BY <3>3
      <4>2. 0 <= device.retired[k].view_count
        BY <1>4
      <4>3. QED
        BY <1>10, <4>1, <4>2
    <3>4. CASE \E i \in 1..Len(device.queue) : device.queue[i].swapchain = h
      BY <1>10, <3>4
    <3>5. QED
      BY <1>10, <2>2, <3>2, <3>3, <3>4
  <2>3. QED
    BY <2>1, <2>2
<1>15. live = owned \union {<<view[1], 0>> : view \in owned}
  <2>1. ASSUME NEW p \in live  PROVE p \in owned \union {<<view[1], 0>> : view \in owned}
    <3>1. PICK h \in Handles, v \in 0..MaxImages : p = <<h, v>>
      BY <1>2
    <3>2. Has(h, v)
      BY <1>3, <3>1
    <3>3. CASE v # 0
      <4>1. v \in 1..MaxImages
        BY <1>2, <3>3
      <4>2. QED
        BY <1>13, <3>1, <3>2, <4>1
    <3>4. CASE v = 0
      <4>1. PICK w \in 1..MaxImages : Has(h, w)
        BY <1>14, <3>2, <3>4
      <4>2. <<h, w>> \in owned
        BY <1>13, <4>1
      <4>3. <<h, w>>[1] = h
        OBVIOUS
      <4>4. QED
        BY <3>1, <3>4, <4>2, <4>3
    <3>5. QED
      BY <3>3, <3>4
  <2>2. ASSUME NEW p \in owned  PROVE p \in live /\ <<p[1], 0>> \in live
    <3>1. PICK h, v : p = <<h, v>>
      BY <1>12
    <3>2. h \in Handles /\ v \in 1..MaxImages /\ Has(h, v)
      BY <1>13, <3>1
    <3>3. v \in 0..MaxImages /\ 0 \in 0..MaxImages
      BY <1>2, <3>2
    <3>4. p \in live /\ <<h, 0>> \in live
      BY <1>3, <1>14, <3>1, <3>2, <3>3
    <3>5. QED
      BY <3>1, <3>4
  <2>3. QED
    BY <2>1, <2>2
<1>16. current \intersect queued = {}
  <2>1. ASSUME NEW p \in current, p \in queued  PROVE FALSE
    <3>1. PICK h, v : p = <<h, v>>
      BY <1>9
    <3>2. swapchain.handle = h /\ h # Null /\ \E i \in 1..Len(device.queue) : device.queue[i].swapchain = h
      BY <1>6, <1>8, <2>1, <3>1
    <3>3. [handle |-> swapchain.handle, view_count |-> swapchain.image_count] \in Current
      BY <3>2 DEF Current
    <3>4. QED
      BY <1>1, <3>2, <3>3 DEF Apart
  <2>2. QED
    BY <2>1
<1>17. ASSUME NEW k \in 1..Slots  PROVE kept(k) \intersect (current \union queued) = {}
  <2>1. ASSUME NEW p \in kept(k), p \in current \union queued  PROVE FALSE
    <3>1. PICK h, v : p = <<h, v>>
      BY <1>9
    <3>2. device.retired[k].handle = h /\ h # Null
      BY <1>7, <2>1, <3>1
    <3>3. CASE p \in current
      <4>1. swapchain.handle = h
        BY <1>6, <3>1, <3>3
      <4>2. [handle |-> swapchain.handle, view_count |-> swapchain.image_count] \in Current
        BY <3>2, <4>1 DEF Current
      <4>3. QED
        BY <1>1, <3>2, <4>1, <4>2 DEF Apart
    <3>4. CASE p \in queued
      <4>1. \E i \in 1..Len(device.queue) : device.queue[i].swapchain = h
        BY <1>8, <3>1, <3>4
      <4>2. QED
        BY <1>1, <3>2, <4>1 DEF Apart
    <3>5. QED
      BY <2>1, <3>3, <3>4
  <2>2. QED
    BY <2>1
<1>18. ASSUME NEW k \in 1..Slots, NEW l \in 1..Slots, k # l  PROVE kept(k) \intersect kept(l) = {}
  <2>1. ASSUME NEW p \in kept(k), p \in kept(l)  PROVE FALSE
    <3>1. PICK h, v : p = <<h, v>>
      BY <1>9
    <3>2. device.retired[k].handle = h /\ h # Null /\ device.retired[l].handle = h
      BY <1>7, <2>1, <3>1
    <3>3. QED
      BY <1>1, <1>18, <3>2 DEF Apart
  <2>2. QED
    BY <2>1
<1>19. ASSUME NEW i \in 1..Len(device.queue), NEW j \in 1..Len(device.queue), i # j  PROVE waiting(i) # waiting(j)
  BY <1>1, <1>19 DEF Apart
<1>20. QED
  BY <1>15, <1>16, <1>17, <1>18, <1>19 DEF OneOwnerEach, owned, queued, kept, current

THEOREM OwnershipIsExact == Spec => []EveryViewHasOneOwner
<1>1. IInv => NothingOverdue
  <2> SUFFICES ASSUME IInv PROVE NothingOverdue
    OBVIOUS
  <2>1. TypeOK /\ device \in Devices /\ ~Overdue(device, completed)
    BY DEF IInv, DeviceInv, Sound, Placed
  <2>2. completed \in Nat /\ \A i \in 1..Len(device.queue) : device.queue[i].retire_value \in Nat
    BY <2>1, StateTypes, DeviceFields
  <2>3. QED
    BY <2>1, <2>2 DEF NothingOverdue, Overdue
<1>2. IInv => EveryViewHasOneOwner
  BY <1>1, OneOwner DEF IInv, EveryViewHasOneOwner
<1>3. QED
  BY <1>2, Invariance, PTL

(***************************************************************************)
(* There are as many slots as contexts, so a swapchain with a pending      *)
(* present finds a free one: replacing it never waits.                     *)
(***************************************************************************)
THEOREM ReplacingNeverWaits == Spec => []SlotsSuffice
<1>1. IInv => SlotsSuffice
  <2> SUFFICES ASSUME IInv PROVE SlotsSuffice
    OBVIOUS
  <2>1. TypeOK /\ Sound(device, Current, live) /\ SlotsBusy(device)
    BY DEF IInv, DeviceInv
  <2>2. ASSUME swapchain.handle # Null  PROVE MustWait(device, swapchain.handle) = {}
    <3> DEFINE r == [handle |-> swapchain.handle, view_count |-> swapchain.image_count]
    <3>1. r \in Current /\ r.handle = swapchain.handle
      BY <2>2 DEF Current
    <3>2. PendingOn(device, r.handle) # {} => FreeSlots(device) # {}
      BY <2>1, <3>1, SlotIsFree
    <3>3. QED
      BY <3>1, <3>2 DEF MustWait
  <2>3. QED
    BY <2>1, <2>2 DEF SlotsSuffice, SlotsBusy
<1>2. QED
  BY <1>1, Invariance, PTL

(***************************************************************************)
(* The first transition of a frame starts from the layout its image is in. *)
(***************************************************************************)
THEOREM TransitionsStartRight == Spec => []OldLayoutIsReal
<1>1. IInv => OldLayoutIsReal
  BY DEF IInv, SwapchainInv, LayoutInv, LayoutOf, OldLayoutIsReal, OldLayout, HasFrame
<1>2. QED
  BY <1>1, Invariance, PTL

(***************************************************************************)
(* The context of a frame is free: its present is known to be finished,    *)
(* its fence is signalled, and the GPU is done with its semaphores.        *)
(***************************************************************************)
THEOREM ContextsAreFree == Spec => []SemaphoresReusable
<1>1. IInv => SemaphoresReusable
  <2> SUFFICES ASSUME IInv, HasContext PROVE /\ ~device.present_pending[next_present_context]
                                            /\ device.swapchain[next_present_context] = Null
                                            /\ presenting[next_present_context] = Null
                                            /\ presentedBy[next_present_context] <= gpuWork
    BY DEF SemaphoresReusable, HasContext, HasFrame
  <2>1. next_present_context \in Contexts /\ PresentsKnown(device, Current)
    BY DEF IInv, TypeOK, DeviceInv, Sound
  <2>2. ~device.present_pending[next_present_context]
    BY DEF IInv, PhaseInv
  <2>3. device.swapchain[next_present_context] = Null /\ presenting[next_present_context] = Null
    BY <2>1, <2>2 DEF PresentsKnown
  <2>4. presentedBy[next_present_context] <= gpuWork
    BY <2>1, <2>3 DEF IInv, PhaseInv
  <2>5. QED
    BY <2>2, <2>3, <2>4
<1>2. QED
  BY <1>1, Invariance, PTL

(***************************************************************************)
(* wait_idle leaves no present, no retired swapchain and nothing to        *)
(* destroy behind; ~Device leaves no swapchain and no view.                *)
(***************************************************************************)
THEOREM DrainIsComplete == Spec => []DrainsCompletely
<1>1. IInv => DrainsCompletely
  <2> SUFFICES ASSUME IInv PROVE DrainsCompletely
    OBVIOUS
  <2>1. /\ TypeOK /\ Sound(device, Current, live) /\ SlotsBusy(device) /\ ~Overdue(device, completed)
        /\ PhaseInv
    BY DEF IInv, DeviceInv
  <2>2. ASSUME phase \in {"presents", "presents and destroy"}, position = PresentContexts
        PROVE  /\ \A c \in Contexts : ~device.present_pending[c]
               /\ \A k \in 1..Slots : device.retired[k].handle = Null
               /\ device.queue = <<>>
    <3>1. completed = submitted /\ \A c \in Contexts : c < PresentContexts => ~device.present_pending[c]
      BY <2>1, <2>2 DEF PhaseInv, WaitingForPresents
    <3>2. \A c \in Contexts : c < PresentContexts
      BY ConstantsAssumption DEF Contexts
    <3>3. \A c \in Contexts : ~device.present_pending[c]
      BY <3>1, <3>2
    <3>4. QED
      BY <2>1, <3>1, <3>3, NothingWaits
  <2>3. phase = "destroyed" => live = {}
    BY <2>1 DEF PhaseInv
  <2>4. QED
    BY <2>2, <2>3 DEF DrainsCompletely
<1>2. QED
  BY <1>1, Invariance, PTL

(***************************************************************************)
(* acquire returns an empty frame only for a window without an extent, and *)
(* no frame of a swapchain given up for that.                              *)
(***************************************************************************)
THEOREM EmptyFramesAreJustified == Spec => EmptyOnlyWhenMinimized
<1>1. ASSUME IInv, Next, phase = "acquiring"
      PROVE  /\ phase' = "ready" => window = Minimized
             /\ phase' = "acquired" => swapchain'.handle # Null /\ swapchain'.extent # Minimized
  <2>1. CASE RecreateMinimized
    BY <2>1 DEF RecreateMinimized, ReturnEmpty, Returning, NoExtent
  <2>2. CASE \E handle \in Handles, count \in 1..MaxImages : RecreateSucceeds(handle, count)
    BY <1>1, <2>2 DEF RecreateSucceeds
  <2>3. CASE WaitPresentContext
    BY <1>1, <2>3 DEF WaitPresentContext
  <2>4. CASE \E image \in 1..swapchain.image_count, suboptimal \in BOOLEAN : AcquireImage(image, suboptimal)
    <3>1. PICK image, suboptimal : AcquireImage(image, suboptimal)
      BY <2>4
    <3>2. swapchain.handle # Null /\ swapchain.extent # Minimized
      BY <1>1, <3>1 DEF AcquireImage, NeedsRecreation, IInv, SwapchainInv
    <3>3. swapchain'.handle = swapchain.handle /\ swapchain'.extent = swapchain.extent /\ phase' = "acquired"
      BY <1>1, <3>1 DEF AcquireImage, IInv, TypeOK
    <3>4. QED
      BY <3>2, <3>3
  <2>5. CASE RecreateFails
    BY <1>1, <2>5 DEF RecreateFails
  <2>6. CASE AcquireOutOfDate
    BY <1>1, <2>6 DEF AcquireOutOfDate
  <2>7. CASE Outside
    BY <1>1, <2>7 DEF Outside, GpuCompletesWork, GpuSignalsRetirement, WindowChanges, EngineSignalsFence
  <2>8. CASE DrainRetirement \/ DrainPresent \/ WaitIdleReturns \/ DestroyDevice
    BY <1>1, <2>8 DEF DrainRetirement, DrainPresent, WaitIdleReturns, DestroyDevice, Draining, WaitingForPresents
  <2>9. CASE Acquire \/ BeginCommands \/ Submit \/ GetDrawableExtent \/ BeginDrain
    BY <1>1, <2>9 DEF Acquire, BeginCommands, Submit, GetDrawableExtent, BeginDrain
  <2>10. CASE \E outOfDate \in BOOLEAN : SubmitAndPresent(outOfDate)
    BY <1>1, <2>10 DEF SubmitAndPresent
  <2>11. CASE \E value \in 1..MaxSubmissions : ObserveRetirement(value)
    BY <1>1, <2>11 DEF ObserveRetirement
  <2>12. CASE Stopped
    BY <1>1, <2>12 DEF Stopped
  <2>13. QED
    BY <1>1, <2>1, <2>2, <2>3, <2>4, <2>5, <2>6, <2>7, <2>8, <2>9, <2>10, <2>11, <2>12
       DEF Next, InsideCall, Application
<1>2. IInv /\ [Next]_vars =>
        [phase = "acquiring" =>
           /\ phase' = "ready" => window = Minimized
           /\ phase' = "acquired" => swapchain'.handle # Null /\ swapchain'.extent # Minimized]_vars
  BY <1>1
<1>3. QED
  BY <1>2, Invariance, PTL DEF Spec, EmptyOnlyWhenMinimized
=============================================================================
