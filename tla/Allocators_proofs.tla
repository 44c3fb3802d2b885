-------------------------- MODULE Allocators_proofs --------------------------
(***************************************************************************)
(* Proofs about the allocators, for every value of their constants:        *)
(* BumpAllocator, with any number of workers and allocators, any storage   *)
(* and request sizes; HeapAllocator, over any storage, index width and     *)
(* limit of allocations, from the lemmas of RangeAllocator_proofs; the     *)
(* memory heaps of GpuHeaps, under any device limits, sizes and placement  *)
(* by the driver, with the search for a memory type that they rest on; and *)
(* TextureAllocator, with any textures, any heap and any size of the array *)
(* of barriers.                                                            *)
(***************************************************************************)
EXTENDS BumpAllocator, HeapAllocator, GpuHeaps, TextureAllocator, RangeAllocator_proofs

-----------------------------------------------------------------------------
(* BumpAllocator                                                           *)

(***************************************************************************)
(* Where a range may begin or the storage ends: every value the offset     *)
(* ever has.                                                               *)
(***************************************************************************)
Boundary(value) == value % alignment = 0 \/ value = Size

(***************************************************************************)
(* Stale values are boundaries as much as the offset is, and whatever was  *)
(* granted lies below the offset: that is why a range cut off at the       *)
(* offset overlaps no other.                                               *)
(***************************************************************************)
OneHolder == \A x, y \in BumpAllocators : Holds(x) /\ Holds(y) => x = y
OffsetsInside == \A x \in BumpAllocators : offset_[x] <= storage_[x]
Boundaries ==
  /\ \A x \in BumpAllocators : Holds(x) => Boundary(offset_[x])
  /\ \A value \in history : Boundary(value)
GrantedBelowOffset ==
  \A g \in granted, x \in BumpAllocators : Holds(x) => g.offset + g.size <= offset_[x]

AskingWorkers == \A t \in Workers : pc[t] = "loop" => request[t] \in ByteSizes

BumpIInv ==
  /\ BumpTypeOK
  /\ AskingWorkers
  /\ OneHolder
  /\ OffsetsInside
  /\ Boundaries
  /\ GrantedBelowOffset
  /\ RangesUsable
  /\ RangesDisjoint

(***************************************************************************)
(* A request that fits at a boundary starts at a multiple of the           *)
(* alignment, and the offset it leaves is a boundary beyond its bytes.     *)
(***************************************************************************)
LEMMA Advance ==
  ASSUME NEW x \in BumpAllocators, storage_[x] = Size,
         NEW offset \in 0..Size, Boundary(offset),
         NEW bytes \in ByteSizes, Fits(x, offset, bytes)
  PROVE  /\ offset % alignment = 0
         /\ NextOffset(x, offset, bytes) \in 0..Size
         /\ Boundary(NextOffset(x, offset, bytes))
         /\ offset + bytes <= NextOffset(x, offset, bytes)
         /\ offset + bytes <= Size
<1>1. /\ bytes \in Nat /\ bytes >= 1
      /\ Size \in Nat /\ WordLimit \in Nat /\ Size + 16 <= WordLimit
      /\ bytes <= Size - offset
  BY BumpAssumption DEF Fits, alignment
<1>2. offset % 16 = 0
  BY <1>1 DEF Boundary, alignment
<1> DEFINE padded == bytes + 15
           aligned == padded - (padded % 16)
<1>3. AlignedSize(bytes) = aligned
  BY <1>1 DEF AlignedSize, alignment
<1>4. aligned \in Nat /\ bytes <= aligned /\ aligned % 16 = 0
  BY <1>1
<1>5. NextOffset(x, offset, bytes) = offset + (IF aligned < Size - offset THEN aligned ELSE Size - offset)
  BY <1>3 DEF NextOffset
<1>6. (offset + aligned) % 16 = 0
  <2> HIDE DEF aligned
  <2>1. QED
    BY <1>1, <1>2, <1>4
<1>7. QED
  <2> HIDE DEF aligned
  <2>1. CASE aligned < Size - offset
    BY <2>1, <1>1, <1>2, <1>4, <1>5, <1>6 DEF Boundary, alignment
  <2>2. CASE ~(aligned < Size - offset)
    <3>1. NextOffset(x, offset, bytes) = Size
      BY <2>2, <1>1, <1>5
    <3>2. QED
      BY <3>1, <1>1, <1>2 DEF Boundary, alignment
  <2>3. QED
    BY <2>1, <2>2

(***************************************************************************)
(* Cutting a range off at the offset of the holder keeps everything that   *)
(* BumpIInv says about offsets and ranges.                                     *)
(***************************************************************************)
LEMMA CutKeepsRanges ==
  ASSUME BumpIInv,
         NEW x \in BumpAllocators, Holds(x),
         NEW bytes \in ByteSizes, Fits(x, offset_[x], bytes),
         offset_' = [offset_ EXCEPT ![x] = NextOffset(x, offset_[x], bytes)],
         granted' = granted \union {BumpRange(offset_[x], bytes)},
         storage_' = storage_,
         history' \subseteq history \union {NextOffset(x, offset_[x], bytes)}
  PROVE  /\ NextOffset(x, offset_[x], bytes) \in 0..Size
         /\ offset_' \in [BumpAllocators -> 0..Size]
         /\ history' \subseteq 0..Size
         /\ granted' \subseteq [offset : 0..Size, size : ByteSizes]
         /\ OneHolder' /\ OffsetsInside' /\ Boundaries' /\ GrantedBelowOffset'
         /\ RangesUsable' /\ RangesDisjoint'
<1> DEFINE next == NextOffset(x, offset_[x], bytes)
           new == BumpRange(offset_[x], bytes)
<1>1. /\ storage_ \in [BumpAllocators -> {0, Size}]
      /\ offset_ \in [BumpAllocators -> 0..Size]
      /\ history \subseteq 0..Size
      /\ granted \subseteq [offset : 0..Size, size : ByteSizes]
      /\ storage_[x] = Size
      /\ offset_[x] \in 0..Size
      /\ Boundary(offset_[x])
  BY DEF BumpIInv, BumpTypeOK, Holds, Boundaries
<1>2. /\ offset_[x] % alignment = 0
      /\ next \in 0..Size
      /\ Boundary(next)
      /\ offset_[x] + bytes <= next
      /\ offset_[x] + bytes <= Size
  BY <1>1, Advance
<1>3. /\ new \in [offset : 0..Size, size : ByteSizes]
      /\ new.offset = offset_[x] /\ new.size = bytes
      /\ bytes \in Nat /\ Size \in Nat
  BY <1>1, BumpAssumption DEF BumpRange
<1> HIDE DEF next, new
<1>4. /\ offset_' = [offset_ EXCEPT ![x] = next]
      /\ granted' = granted \union {new}
      /\ history' \subseteq history \union {next}
  BY DEF next, new
<1>5. \A g \in granted : /\ g.offset \in Nat /\ g.size \in Nat
                         /\ g.offset + g.size <= offset_[x]
                         /\ g.offset % alignment = 0
                         /\ g.offset + g.size <= Size
  <2>1. \A g \in granted : g.offset \in 0..Size /\ g.size \in ByteSizes
    BY <1>1
  <2>2. \A g \in granted : g.offset \in Nat /\ g.size \in Nat
    <3>1. \A n \in ByteSizes : n \in Nat
      BY BumpAssumption
    <3>2. \A n \in 0..Size : n \in Nat
      OBVIOUS
    <3>3. QED
      BY <2>1, <3>1, <3>2
  <2>3. /\ \A g \in granted : g.offset + g.size <= offset_[x]
        /\ \A g \in granted : g.offset % alignment = 0
        /\ \A g \in granted : g.offset + g.size <= Size
    BY DEF BumpIInv, GrantedBelowOffset, RangesUsable
  <2>4. QED
    BY <2>2, <2>3
<1>6. \A y \in BumpAllocators : Holds(y)' => y = x
  BY DEF BumpIInv, OneHolder, Holds
<1>7. offset_' \in [BumpAllocators -> 0..Size] /\ history' \subseteq 0..Size
  BY <1>1, <1>2, <1>4
<1>8. granted' \subseteq [offset : 0..Size, size : ByteSizes]
  BY <1>1, <1>3, <1>4
<1>9. OneHolder'
  BY DEF BumpIInv, OneHolder, Holds
<1>10. OffsetsInside'
  <2> SUFFICES ASSUME NEW y \in BumpAllocators PROVE offset_'[y] <= storage_'[y]
    BY DEF OffsetsInside
  <2>1. CASE y = x
    BY <2>1, <1>1, <1>2, <1>4
  <2>2. CASE y # x
    BY <2>2, <1>1, <1>4 DEF BumpIInv, OffsetsInside
  <2>3. QED
    BY <2>1, <2>2
<1>11. Boundaries'
  BY <1>1, <1>2, <1>4, <1>6 DEF BumpIInv, Boundaries, Boundary
<1>12. GrantedBelowOffset'
  <2> SUFFICES ASSUME NEW g \in granted', NEW y \in BumpAllocators, Holds(y)'
               PROVE  g.offset + g.size <= offset_'[y]
    BY DEF GrantedBelowOffset
  <2>1. offset_'[y] = next
    BY <1>1, <1>4, <1>6
  <2>2. CASE g = new
    BY <2>1, <2>2, <1>2, <1>3
  <2>3. CASE g \in granted
    <3>1. offset_[x] <= next /\ next \in Nat /\ offset_[x] \in Nat
      BY <1>1, <1>2, <1>3
    <3>2. QED
      BY <2>1, <2>3, <3>1, <1>5
  <2>4. QED
    BY <2>2, <2>3, <1>4
<1>13. RangesUsable'
  BY <1>2, <1>3, <1>4, <1>5 DEF RangesUsable
<1>14. RangesDisjoint'
  <2>1. \A g, h \in granted : g # h => g.offset + g.size <= h.offset \/ h.offset + h.size <= g.offset
    BY DEF BumpIInv, RangesDisjoint
  <2>2. \A g \in granted : g.offset + g.size <= new.offset
    BY <1>3, <1>5
  <2>3. QED
    BY <1>4, <2>1, <2>2 DEF RangesDisjoint
<1>15. QED
  BY <1>2, <1>7, <1>8, <1>9, <1>10, <1>11, <1>12, <1>13, <1>14 DEF next

LEMMA InitEstablishes == BumpInit => BumpIInv
<1> SUFFICES ASSUME BumpInit PROVE BumpIInv
  OBVIOUS
<1>1. PICK x \in BumpAllocators : storage_ = [y \in BumpAllocators |-> IF y = x THEN Size ELSE 0]
  BY DEF BumpInit
<1>2. Size \in Nat /\ Size # 0 /\ 0 \in 0..Size
  BY BumpAssumption
<1>3. /\ offset_ = [y \in BumpAllocators |-> 0] /\ history = {0} /\ granted = {}
      /\ pc = [t \in Workers |-> "idle"]
      /\ request = [t \in Workers |-> 0] /\ seen = [t \in Workers |-> 0]
  BY DEF BumpInit
<1>4. BumpTypeOK
  BY <1>1, <1>2, <1>3 DEF BumpTypeOK
<1>5. OneHolder /\ OffsetsInside
  BY <1>1, <1>2, <1>3 DEF OneHolder, OffsetsInside, Holds
<1>6. Boundaries
  BY <1>1, <1>2, <1>3 DEF Boundaries, Boundary, alignment
<1>7. GrantedBelowOffset /\ RangesUsable /\ RangesDisjoint
  BY <1>3 DEF GrantedBelowOffset, RangesUsable, RangesDisjoint
<1>8. AskingWorkers
  BY <1>3 DEF AskingWorkers
<1>9. QED
  BY <1>4, <1>5, <1>6, <1>7, <1>8 DEF BumpIInv

LEMMA NextPreserves == BumpIInv /\ [BumpNext]_bump_vars => BumpIInv'
<1> SUFFICES ASSUME BumpIInv, [BumpNext]_bump_vars PROVE BumpIInv'
  OBVIOUS
<1>1. /\ storage_ \in [BumpAllocators -> {0, Size}]
      /\ offset_ \in [BumpAllocators -> 0..Size]
      /\ history \subseteq 0..Size
      /\ pc \in [Workers -> {"idle", "loop"}]
      /\ request \in [Workers -> ByteSizes \union {0}]
      /\ seen \in [Workers -> 0..Size]
      /\ granted \subseteq [offset : 0..Size, size : ByteSizes]
      /\ Size \in Nat /\ Size # 0 /\ 0 \in 0..Size
  BY BumpAssumption DEF BumpIInv, BumpTypeOK
<1>2. ASSUME UNCHANGED <<storage_, offset_, history, granted>>,
             BumpTypeOK', AskingWorkers'
      PROVE  BumpIInv'
  BY <1>2 DEF BumpIInv, OneHolder, OffsetsInside, Boundaries, Boundary, GrantedBelowOffset,
              RangesUsable, RangesDisjoint, Holds
<1>3. ASSUME NEW t \in Workers, NEW x \in BumpAllocators, NEW bytes \in ByteSizes, Load(t, x, bytes)
      PROVE  BumpIInv'
  <2>1. BumpTypeOK'
    <3>1. PICK value \in history : seen' = [seen EXCEPT ![t] = value]
      BY <1>3 DEF Load
    <3>2. /\ seen' \in [Workers -> 0..Size]
          /\ pc' \in [Workers -> {"idle", "loop"}]
          /\ request' \in [Workers -> ByteSizes \union {0}]
      BY <1>1, <1>3, <3>1 DEF Load
    <3>3. QED
      BY <1>1, <1>3, <3>2 DEF Load, BumpTypeOK
  <2>2. AskingWorkers'
    BY <1>1, <1>3 DEF Load, BumpIInv, AskingWorkers
  <2>3. QED
    BY <1>2, <1>3, <2>1, <2>2 DEF Load
<1>4. ASSUME NEW t \in Workers, NEW x \in BumpAllocators, ReturnEmpty(t, x)
      PROVE  BumpIInv'
  <2>1. BumpTypeOK'
    BY <1>1, <1>4 DEF ReturnEmpty, BumpTypeOK
  <2>2. AskingWorkers'
    BY <1>1, <1>4 DEF ReturnEmpty, BumpIInv, AskingWorkers
  <2>3. QED
    BY <1>2, <1>4, <2>1, <2>2 DEF ReturnEmpty
<1>5. ASSUME NEW t \in Workers, NEW x \in BumpAllocators, ExchangeSucceeds(t, x)
      PROVE  BumpIInv'
  <2> DEFINE next == NextOffset(x, offset_[x], request[t])
  <2>1. /\ Holds(x)
        /\ request[t] \in ByteSizes
        /\ Fits(x, offset_[x], request[t])
        /\ offset_' = [offset_ EXCEPT ![x] = next]
        /\ history' = history \union {next}
        /\ seen' = [seen EXCEPT ![t] = next]
        /\ granted' = granted \union {BumpRange(offset_[x], request[t])}
        /\ pc' = [pc EXCEPT ![t] = "idle"]
        /\ storage_' = storage_ /\ request' = request
    BY <1>5 DEF ExchangeSucceeds, Matches, BumpIInv, AskingWorkers
  <2> HIDE DEF next
  <2>2. /\ next \in 0..Size
        /\ offset_' \in [BumpAllocators -> 0..Size]
        /\ history' \subseteq 0..Size
        /\ granted' \subseteq [offset : 0..Size, size : ByteSizes]
        /\ OneHolder' /\ OffsetsInside' /\ Boundaries' /\ GrantedBelowOffset'
        /\ RangesUsable' /\ RangesDisjoint'
    BY <2>1, CutKeepsRanges DEF next
  <2>3. BumpTypeOK'
    BY <1>1, <2>1, <2>2 DEF BumpTypeOK
  <2>4. AskingWorkers'
    BY <1>1, <2>1 DEF BumpIInv, AskingWorkers
  <2>5. QED
    BY <2>2, <2>3, <2>4 DEF BumpIInv
<1>6. ASSUME NEW t \in Workers, NEW x \in BumpAllocators, ExchangeFails(t, x)
      PROVE  BumpIInv'
  <2>1. BumpTypeOK'
    <3>1. PICK value \in history : seen' = [seen EXCEPT ![t] = value]
      BY <1>6 DEF ExchangeFails
    <3>2. seen' \in [Workers -> 0..Size]
      BY <1>1, <3>1
    <3>3. QED
      BY <1>1, <1>6, <3>2 DEF ExchangeFails, BumpTypeOK
  <2>2. AskingWorkers'
    BY <1>6 DEF ExchangeFails, BumpIInv, AskingWorkers
  <2>3. QED
    BY <1>2, <1>6, <2>1, <2>2 DEF ExchangeFails
<1>7. ASSUME NEW x \in BumpAllocators, NEW bytes \in ByteSizes, BumpAllocate(x, bytes)
      PROVE  BumpIInv'
  <2> DEFINE next == NextOffset(x, offset_[x], bytes)
  <2>1. /\ Holds(x)
        /\ Fits(x, offset_[x], bytes)
        /\ offset_' = [offset_ EXCEPT ![x] = next]
        /\ history' = {next}
        /\ granted' = granted \union {BumpRange(offset_[x], bytes)}
        /\ UNCHANGED <<storage_, pc, request, seen>>
    BY <1>7 DEF BumpAllocate
  <2> HIDE DEF next
  <2>2. /\ offset_' \in [BumpAllocators -> 0..Size]
        /\ history' \subseteq 0..Size
        /\ granted' \subseteq [offset : 0..Size, size : ByteSizes]
        /\ OneHolder' /\ OffsetsInside' /\ Boundaries' /\ GrantedBelowOffset'
        /\ RangesUsable' /\ RangesDisjoint'
    BY <2>1, CutKeepsRanges DEF next
  <2>3. BumpTypeOK'
    BY <1>1, <2>1, <2>2 DEF BumpTypeOK
  <2>4. QED
    BY <2>1, <2>2, <2>3 DEF BumpIInv, AskingWorkers
<1>8. ASSUME NEW x \in BumpAllocators, BumpReset(x)
      PROVE  BumpIInv'
  <2>1. /\ offset_' = [offset_ EXCEPT ![x] = 0] /\ history' = {0} /\ granted' = {}
        /\ seen' = [t \in Workers |-> 0]
        /\ UNCHANGED <<storage_, pc, request>>
    BY <1>8 DEF BumpReset
  <2>2. BumpTypeOK'
    BY <1>1, <2>1 DEF BumpTypeOK
  <2>3. AskingWorkers' /\ OneHolder'
    BY <2>1 DEF BumpIInv, AskingWorkers, OneHolder, Holds
  <2>4. OffsetsInside' /\ Boundaries'
    BY <1>1, <2>1 DEF BumpIInv, OffsetsInside, Boundaries, Boundary, Holds, alignment
  <2>5. GrantedBelowOffset' /\ RangesUsable' /\ RangesDisjoint'
    BY <2>1 DEF GrantedBelowOffset, RangesUsable, RangesDisjoint
  <2>6. QED
    BY <2>2, <2>3, <2>4, <2>5 DEF BumpIInv
<1>9. ASSUME NEW from \in BumpAllocators, NEW to \in BumpAllocators, Move(from, to)
      PROVE  BumpIInv'
  <2>1. /\ from # to
        /\ storage_' = [storage_ EXCEPT ![to] = storage_[from], ![from] = 0]
        /\ offset_' = [offset_ EXCEPT ![to] = offset_[from], ![from] = 0]
        /\ history' = IF Holds(from) THEN {offset_[from]} ELSE history
        /\ UNCHANGED <<pc, request, seen, granted>>
    BY <1>9 DEF Move
  <2>2. /\ storage_' \in [BumpAllocators -> {0, Size}]
        /\ offset_' \in [BumpAllocators -> 0..Size]
        /\ history' \subseteq 0..Size
    BY <1>1, <2>1
  <2>3. BumpTypeOK'
    BY <1>1, <2>1, <2>2 DEF BumpTypeOK
  <2>4. /\ storage_'[to] = storage_[from] /\ offset_'[to] = offset_[from]
        /\ storage_'[from] = 0 /\ offset_'[from] = 0
        /\ \A y \in BumpAllocators \ {from, to} : storage_'[y] = storage_[y] /\ offset_'[y] = offset_[y]
    BY <1>1, <2>1
  <2>5. AskingWorkers' /\ OneHolder'
    BY <2>1, <2>4 DEF BumpIInv, AskingWorkers, OneHolder, Holds
  <2>6. OffsetsInside'
    BY <2>4 DEF BumpIInv, OffsetsInside
  <2>7. Boundaries'
    <3>1. \A y \in BumpAllocators : Holds(y)' => Boundary(offset_'[y])
      BY <2>4 DEF BumpIInv, Boundaries, Holds
    <3>2. \A value \in history' : Boundary(value)
      BY <2>1 DEF BumpIInv, Boundaries
    <3>3. QED
      BY <3>1, <3>2 DEF Boundaries, Boundary
  <2>8. GrantedBelowOffset'
    BY <2>1, <2>4 DEF BumpIInv, GrantedBelowOffset, Holds
  <2>9. RangesUsable' /\ RangesDisjoint'
    BY <2>1 DEF BumpIInv, RangesUsable, RangesDisjoint
  <2>10. QED
    BY <2>3, <2>5, <2>6, <2>7, <2>8, <2>9 DEF BumpIInv
<1>10. CASE UNCHANGED bump_vars
  BY <1>10, <1>2 DEF bump_vars, BumpIInv, BumpTypeOK, AskingWorkers
<1>11. QED
  BY <1>3, <1>4, <1>5, <1>6, <1>7, <1>8, <1>9, <1>10 DEF BumpNext, AtomicStep

(***************************************************************************)
(* The inductive invariant holds throughout.                               *)
(***************************************************************************)
THEOREM Invariance == BumpSpec => []BumpIInv
  BY InitEstablishes, NextPreserves, PTL DEF BumpSpec

(***************************************************************************)
(* Offsets never leave the storage, however requests are rounded up.       *)
(***************************************************************************)
THEOREM TypeCorrect == BumpSpec => []BumpTypeOK
<1>1. BumpIInv => BumpTypeOK
  BY DEF BumpIInv
<1>2. QED
  BY <1>1, Invariance, PTL

(***************************************************************************)
(* All calls since the last reset return disjoint ranges, concurrent ones  *)
(* that read stale offsets included, aligned and inside the storage.       *)
(***************************************************************************)
THEOREM RangesAreSound == BumpSpec => []RangesSound
<1>1. BumpIInv => RangesSound
  BY DEF BumpIInv, RangesSound
<1>2. QED
  BY <1>1, Invariance, PTL

-----------------------------------------------------------------------------
(* Space and exhaustion.                                                   *)

(***************************************************************************)
(* What a request reserves beyond its own bytes is the padding.            *)
(***************************************************************************)
LEMMA OnlyPadding ==
  ASSUME NEW x \in BumpAllocators, storage_[x] = Size,
         NEW offset \in 0..Size, offset % alignment = 0,
         NEW bytes \in ByteSizes, Fits(x, offset, bytes),
         NEW byte \in offset..(NextOffset(x, offset, bytes) - 1)
  PROVE  byte < offset + bytes + alignment - 1 /\ byte - (byte % alignment) < offset + bytes
<1>1. /\ bytes \in Nat /\ bytes >= 1
      /\ Size \in Nat /\ WordLimit \in Nat /\ Size + 16 <= WordLimit
      /\ bytes <= Size - offset
  BY BumpAssumption DEF Fits, alignment
<1> DEFINE padded == bytes + 15
           aligned == padded - (padded % 16)
<1>2. AlignedSize(bytes) = aligned
  BY <1>1 DEF AlignedSize, alignment
<1>3. aligned \in Nat /\ aligned <= bytes + 15 /\ aligned % 16 = 0
  BY <1>1
<1>4. NextOffset(x, offset, bytes) = offset + (IF aligned < Size - offset THEN aligned ELSE Size - offset)
  BY <1>2 DEF NextOffset
<1> HIDE DEF aligned
<1>5. byte \in Nat /\ offset <= byte /\ byte < offset + aligned
  BY <1>1, <1>3, <1>4
<1>6. offset % 16 = 0
  BY DEF alignment
<1>7. byte - (byte % 16) <= offset + aligned - 16
  <2> DEFINE top == offset + aligned
             base == byte - (byte % 16)
  <2>1. top \in Nat /\ top % 16 = 0
    BY <1>3, <1>6
  <2>2. base \in Nat /\ base % 16 = 0 /\ base <= byte
    BY <1>5
  <2>3. base < top
    BY <1>3, <1>5, <2>1, <2>2
  <2> HIDE DEF top, base
  <2>4. base <= top - 16
    BY <2>1, <2>2, <2>3
  <2>5. QED
    BY <1>3, <1>5, <2>4 DEF top, base
<1>8. QED
  BY <1>1, <1>3, <1>5, <1>7 DEF alignment

(***************************************************************************)
(* An offset without storage is 0; no value a thread has seen or may still *)
(* see is beyond the offset.                                               *)
(***************************************************************************)
NothingAhead ==
  \A x \in BumpAllocators : Holds(x) =>
    /\ \A value \in history : value <= offset_[x]
    /\ \A t \in Workers : seen[t] <= offset_[x]

Space == BumpIInv /\ NoSpaceLost /\ NothingAhead

LEMMA CutSpends ==
  ASSUME Space,
         NEW x \in BumpAllocators, Holds(x),
         NEW bytes \in ByteSizes, Fits(x, offset_[x], bytes),
         offset_' = [offset_ EXCEPT ![x] = NextOffset(x, offset_[x], bytes)],
         granted' = granted \union {BumpRange(offset_[x], bytes)}
  PROVE  NoSpaceLost' /\ offset_[x] <= NextOffset(x, offset_[x], bytes)
<1> DEFINE next == NextOffset(x, offset_[x], bytes)
           new == BumpRange(offset_[x], bytes)
<1>1. /\ offset_ \in [BumpAllocators -> 0..Size] /\ storage_[x] = Size /\ offset_[x] \in 0..Size
      /\ Boundary(offset_[x]) /\ Size \in Nat /\ bytes \in Nat
  BY BumpAssumption DEF Space, BumpIInv, BumpTypeOK, Holds, Boundaries
<1>2. offset_[x] % alignment = 0 /\ next \in 0..Size /\ offset_[x] + bytes <= next
  BY <1>1, Advance
<1>3. \A byte \in offset_[x]..(next - 1) :
        byte < offset_[x] + bytes + alignment - 1 /\ byte - (byte % alignment) < offset_[x] + bytes
  BY <1>1, <1>2, OnlyPadding
<1>4. new \in granted' /\ new.offset = offset_[x] /\ new.size = bytes /\ granted \subseteq granted'
  BY DEF BumpRange
<1> HIDE DEF next, new
<1>5. offset_' = [offset_ EXCEPT ![x] = next]
  BY DEF next
<1>6. ASSUME NEW y \in BumpAllocators, NEW byte \in 0..(offset_'[y] - 1)
      PROVE  \E g \in granted' : /\ g.offset <= byte
                                 /\ byte < g.offset + g.size + alignment - 1
                                 /\ byte - (byte % alignment) < g.offset + g.size
  <2>1. CASE byte < offset_[y]
    <3>1. offset_[y] \in 0..Size /\ byte \in Nat
      BY <1>1, <1>2, <1>5
    <3>2. byte \in 0..(offset_[y] - 1)
      BY <1>1, <2>1, <3>1
    <3>3. PICK g \in granted : /\ g.offset <= byte
                               /\ byte < g.offset + g.size + alignment - 1
                               /\ byte - (byte % alignment) < g.offset + g.size
      BY <3>2 DEF Space, NoSpaceLost
    <3>4. QED
      BY <3>3, <1>4
  <2>2. CASE ~(byte < offset_[y])
    <3>1. y = x
      BY <1>1, <1>5, <2>2
    <3>2. byte \in offset_[x]..(next - 1)
      BY <1>1, <1>2, <1>5, <2>2, <3>1
    <3>3. byte < new.offset + new.size + alignment - 1 /\ byte - (byte % alignment) < new.offset + new.size
      BY <1>3, <1>4, <3>2
    <3>4. new.offset <= byte
      BY <1>4, <3>2
    <3>5. QED
      BY <1>4, <3>3, <3>4
  <2>3. QED
    BY <2>1, <2>2
<1>7. NoSpaceLost'
  BY <1>6 DEF NoSpaceLost
<1>8. offset_[x] <= next
  BY <1>1, <1>2
<1>9. QED
  BY <1>7, <1>8 DEF next

LEMMA InitSpace == BumpInit => NoSpaceLost /\ NothingAhead
<1> SUFFICES ASSUME BumpInit PROVE NoSpaceLost /\ NothingAhead
  OBVIOUS
<1>1. \A x \in BumpAllocators : offset_[x] = 0
  BY DEF BumpInit
<1>2. NoSpaceLost
  <2>1. \A x \in BumpAllocators : 0..(offset_[x] - 1) = {}
    BY <1>1
  <2>2. QED
    BY <2>1 DEF NoSpaceLost
<1>3. NothingAhead
  BY <1>1 DEF NothingAhead, BumpInit
<1>4. QED
  BY <1>2, <1>3

LEMMA NextSpace == Space /\ [BumpNext]_bump_vars => NoSpaceLost' /\ NothingAhead'
<1> SUFFICES ASSUME Space, [BumpNext]_bump_vars PROVE NoSpaceLost' /\ NothingAhead'
  OBVIOUS
<1>1. /\ storage_ \in [BumpAllocators -> {0, Size}]
      /\ offset_ \in [BumpAllocators -> 0..Size]
      /\ history \subseteq 0..Size /\ seen \in [Workers -> 0..Size]
      /\ Size \in Nat /\ Size # 0
      /\ NoSpaceLost /\ NothingAhead /\ OneHolder /\ OffsetsInside
  BY BumpAssumption DEF Space, BumpIInv, BumpTypeOK
<1>2. ASSUME UNCHANGED <<storage_, offset_, history, granted>>,
             \A t \in Workers : seen'[t] = seen[t] \/ seen'[t] \in history
      PROVE  NoSpaceLost' /\ NothingAhead'
  BY <1>1, <1>2 DEF NoSpaceLost, NothingAhead, Holds
<1>3. ASSUME NEW t \in Workers, NEW x \in BumpAllocators, NEW bytes \in ByteSizes, Load(t, x, bytes)
      PROVE  NoSpaceLost' /\ NothingAhead'
  BY <1>1, <1>2, <1>3 DEF Load
<1>4. ASSUME NEW t \in Workers, NEW x \in BumpAllocators, ReturnEmpty(t, x)
      PROVE  NoSpaceLost' /\ NothingAhead'
  BY <1>2, <1>4 DEF ReturnEmpty
<1>5. ASSUME NEW t \in Workers, NEW x \in BumpAllocators, ExchangeFails(t, x)
      PROVE  NoSpaceLost' /\ NothingAhead'
  BY <1>1, <1>2, <1>5 DEF ExchangeFails
<1>6. ASSUME NEW t \in Workers, NEW x \in BumpAllocators, ExchangeSucceeds(t, x)
      PROVE  NoSpaceLost' /\ NothingAhead'
  <2> DEFINE next == NextOffset(x, offset_[x], request[t])
  <2>1. /\ Holds(x) /\ request[t] \in ByteSizes /\ Fits(x, offset_[x], request[t])
        /\ offset_' = [offset_ EXCEPT ![x] = next]
        /\ history' = history \union {next}
        /\ seen' = [seen EXCEPT ![t] = next]
        /\ granted' = granted \union {BumpRange(offset_[x], request[t])}
        /\ storage_' = storage_
    BY <1>6 DEF ExchangeSucceeds, Matches, Space, BumpIInv, AskingWorkers
  <2>2. NoSpaceLost' /\ offset_[x] <= next
    BY <2>1, CutSpends
  <2>3. next \in Nat
    BY <1>1, <2>1, Advance DEF Space, BumpIInv, Boundaries, Holds
  <2> HIDE DEF next
  <2>4. ASSUME NEW y \in BumpAllocators, Holds(y)'
        PROVE  /\ \A value \in history' : value <= offset_'[y]
               /\ \A u \in Workers : seen'[u] <= offset_'[y]
    <3>1. y = x /\ offset_'[y] = next
      BY <1>1, <2>1, <2>4 DEF OneHolder, Holds
    <3>2. \A value \in history : value <= offset_[x] /\ value \in Nat
      BY <1>1, <2>1 DEF NothingAhead
    <3>3. \A u \in Workers : seen[u] <= offset_[x] /\ seen[u] \in Nat
      BY <1>1, <2>1 DEF NothingAhead
    <3>4. offset_[x] \in Nat
      BY <1>1
    <3>5. \A value \in history' : value <= next
      BY <2>1, <2>2, <2>3, <3>2, <3>4
    <3>6. \A u \in Workers : seen'[u] <= next
      BY <1>1, <2>1, <2>2, <2>3, <3>3, <3>4
    <3>7. QED
      BY <3>1, <3>5, <3>6
  <2>5. QED
    BY <2>2, <2>4 DEF NothingAhead
<1>7. ASSUME NEW x \in BumpAllocators, NEW bytes \in ByteSizes, BumpAllocate(x, bytes)
      PROVE  NoSpaceLost' /\ NothingAhead'
  <2> DEFINE next == NextOffset(x, offset_[x], bytes)
  <2>1. /\ Holds(x) /\ Fits(x, offset_[x], bytes)
        /\ offset_' = [offset_ EXCEPT ![x] = next]
        /\ history' = {next}
        /\ granted' = granted \union {BumpRange(offset_[x], bytes)}
        /\ UNCHANGED <<storage_, pc, request, seen>>
    BY <1>7 DEF BumpAllocate
  <2>2. NoSpaceLost' /\ offset_[x] <= next
    BY <2>1, CutSpends
  <2>3. next \in Nat
    BY <1>1, <2>1, Advance DEF Space, BumpIInv, Boundaries, Holds
  <2> HIDE DEF next
  <2>4. ASSUME NEW y \in BumpAllocators, Holds(y)'
        PROVE  /\ \A value \in history' : value <= offset_'[y]
               /\ \A u \in Workers : seen'[u] <= offset_'[y]
    <3>1. y = x /\ offset_'[y] = next
      BY <1>1, <2>1, <2>4 DEF OneHolder, Holds
    <3>2. \A u \in Workers : seen[u] <= offset_[x] /\ seen[u] \in Nat
      BY <1>1, <2>1 DEF NothingAhead
    <3>3. offset_[x] \in Nat
      BY <1>1
    <3>4. QED
      BY <2>1, <2>2, <2>3, <3>1, <3>2, <3>3
  <2>5. QED
    BY <2>2, <2>4 DEF NothingAhead
<1>8. ASSUME NEW x \in BumpAllocators, BumpReset(x)
      PROVE  NoSpaceLost' /\ NothingAhead'
  <2>1. /\ Holds(x) /\ offset_' = [offset_ EXCEPT ![x] = 0] /\ history' = {0}
        /\ seen' = [t \in Workers |-> 0] /\ storage_' = storage_
    BY <1>8 DEF BumpReset
  <2>2. \A y \in BumpAllocators : offset_'[y] = 0
    <3>1. \A y \in BumpAllocators : y # x => storage_[y] = 0
      BY <1>1, <2>1 DEF OneHolder, Holds
    <3>2. \A y \in BumpAllocators : offset_[y] \in 0..Size /\ offset_[y] <= storage_[y]
      BY <1>1 DEF OffsetsInside
    <3>3. \A y \in BumpAllocators : y # x => offset_[y] = 0
      BY <1>1, <3>1, <3>2
    <3>4. QED
      BY <1>1, <2>1, <3>3
  <2>3. NoSpaceLost'
    <3>1. \A y \in BumpAllocators : 0..(offset_'[y] - 1) = {}
      BY <2>2
    <3>2. QED
      BY <3>1 DEF NoSpaceLost
  <2>4. NothingAhead'
    BY <2>1, <2>2 DEF NothingAhead
  <2>5. QED
    BY <2>3, <2>4
<1>9. ASSUME NEW from \in BumpAllocators, NEW to \in BumpAllocators, Move(from, to)
      PROVE  NoSpaceLost' /\ NothingAhead'
  <2>1. /\ from # to
        /\ storage_' = [storage_ EXCEPT ![to] = storage_[from], ![from] = 0]
        /\ offset_' = [offset_ EXCEPT ![to] = offset_[from], ![from] = 0]
        /\ history' = IF Holds(from) THEN {offset_[from]} ELSE history
        /\ UNCHANGED <<pc, request, seen, granted>>
    BY <1>9 DEF Move
  <2>2. /\ storage_'[to] = storage_[from] /\ offset_'[to] = offset_[from]
        /\ storage_'[from] = 0 /\ offset_'[from] = 0
        /\ \A y \in BumpAllocators \ {from, to} : storage_'[y] = storage_[y] /\ offset_'[y] = offset_[y]
    BY <1>1, <2>1
  <2>3. ASSUME NEW y \in BumpAllocators
            PROVE offset_'[y] = 0 \/ \E z \in BumpAllocators : offset_'[y] = offset_[z]
    BY <2>2
  <2>4. NoSpaceLost'
    <3>1. ASSUME NEW y \in BumpAllocators, NEW byte \in 0..(offset_'[y] - 1)
          PROVE  \E z \in BumpAllocators : byte \in 0..(offset_[z] - 1)
      <4>1. CASE offset_'[y] = 0
        BY <3>1, <4>1
      <4>2. CASE \E z \in BumpAllocators : offset_'[y] = offset_[z]
        BY <3>1, <4>2
      <4>3. QED
        BY <2>3, <4>1, <4>2
    <3>2. QED
      BY <1>1, <2>1, <3>1 DEF NoSpaceLost
  <2>5. NothingAhead'
    <3> SUFFICES ASSUME NEW y \in BumpAllocators, Holds(y)'
                 PROVE  /\ \A value \in history' : value <= offset_'[y]
                        /\ \A t \in Workers : seen[t] <= offset_'[y]
      BY <2>1 DEF NothingAhead
    <3>1. CASE y = to
      <4>1. Holds(from) /\ offset_'[y] = offset_[from] /\ history' = {offset_[from]}
        BY <2>1, <2>2, <3>1 DEF Holds
      <4>2. offset_[from] \in Nat
        BY <1>1
      <4>3. QED
        BY <1>1, <4>1, <4>2 DEF NothingAhead
    <3>2. CASE y = from
      BY <2>2, <3>2 DEF Holds
    <3>3. CASE y # to /\ y # from
      <4>1. Holds(y) /\ offset_'[y] = offset_[y]
        BY <2>2, <3>3 DEF Holds
      <4>2. ~Holds(from)
        BY <1>1, <3>3, <4>1 DEF OneHolder
      <4>3. QED
        BY <1>1, <2>1, <4>1, <4>2 DEF NothingAhead
    <3>4. QED
      BY <3>1, <3>2, <3>3
  <2>6. QED
    BY <2>4, <2>5
<1>10. CASE UNCHANGED bump_vars
  BY <1>2, <1>10 DEF bump_vars
<1>11. QED
  BY <1>3, <1>4, <1>5, <1>6, <1>7, <1>8, <1>9, <1>10 DEF BumpNext, AtomicStep

LEMMA SpaceInvariant == BumpSpec => []Space
<1>1. BumpInit => Space
  BY InitEstablishes, InitSpace DEF Space
<1>2. Space /\ [BumpNext]_bump_vars => Space'
  <2>1. Space => BumpIInv
    BY DEF Space
  <2>2. QED
    BY <2>1, NextPreserves, NextSpace DEF Space
<1>3. QED
  BY <1>1, <1>2, PTL DEF BumpSpec

(***************************************************************************)
(* However many threads reserve space with stale offsets, none of it is    *)
(* lost but the padding behind a range.                                    *)
(***************************************************************************)
THEOREM SpaceIsAccounted == BumpSpec => []NoSpaceLost
<1>1. Space => NoSpaceLost
  BY DEF Space
<1>2. QED
  BY <1>1, SpaceInvariant, PTL

(***************************************************************************)
(* An empty range is returned only when the storage cannot hold the        *)
(* request, although the thread may decide on a stale offset.              *)
(***************************************************************************)
THEOREM EmptyIsExhausted == BumpSpec => EmptyMeansExhausted
<1>1. ASSUME Space, BumpNext, NEW t \in Workers, NEW x \in BumpAllocators,
             pc[t] = "loop", pc'[t] = "idle", granted' = granted, Holds(x)
      PROVE  request[t] > storage_[x] - offset_[x]
  <2>1. /\ pc \in [Workers -> {"idle", "loop"}] /\ storage_[x] = Size /\ Size \in Nat
        /\ offset_[x] \in 0..Size /\ seen[t] \in 0..Size /\ seen[t] <= offset_[x]
        /\ OneHolder /\ request[t] \in ByteSizes /\ request[t] \in Nat
    <3>1. BumpTypeOK /\ AskingWorkers /\ OneHolder /\ NothingAhead
      BY <1>1 DEF Space, BumpIInv
    <3>2. /\ pc \in [Workers -> {"idle", "loop"}] /\ storage_[x] = Size
          /\ offset_[x] \in 0..Size /\ seen[t] \in 0..Size
      BY <1>1, <3>1 DEF BumpTypeOK, Holds
    <3>3. seen[t] <= offset_[x] /\ request[t] \in ByteSizes
      BY <1>1, <3>1 DEF NothingAhead, AskingWorkers
    <3>4. Size \in Nat /\ \A bytes \in ByteSizes : bytes \in Nat
      BY BumpAssumption
    <3>5. QED
      BY <3>1, <3>2, <3>3, <3>4
  <2>2. ASSUME NEW u \in Workers, NEW y \in BumpAllocators, ReturnEmpty(u, y)
        PROVE  request[t] > storage_[x] - offset_[x]
    <3>1. u = t /\ y = x
      BY <1>1, <2>1, <2>2 DEF ReturnEmpty, OneHolder
    <3>2. ~(request[t] <= Size - seen[t])
      BY <2>1, <2>2, <3>1 DEF ReturnEmpty, Fits
    <3>3. QED
      BY <2>1, <3>2
  <2>3. ASSUME NEW u \in Workers, NEW y \in BumpAllocators, ExchangeSucceeds(u, y)
        PROVE  FALSE
    <3>1. u = t /\ Holds(y) /\ seen[t] = offset_[y] /\ BumpRange(offset_[y], request[t]) \in granted'
      BY <1>1, <2>1, <2>3 DEF ExchangeSucceeds, Matches
    <3>2. y = x
      BY <1>1, <2>1, <3>1 DEF OneHolder
    <3>3. BumpRange(offset_[x], request[t]).offset + BumpRange(offset_[x], request[t]).size <= offset_[x]
      BY <1>1, <3>1, <3>2 DEF Space, BumpIInv, GrantedBelowOffset
    <3>4. request[t] >= 1
      BY <2>1, BumpAssumption
    <3>5. QED
      BY <2>1, <3>3, <3>4 DEF BumpRange
  <2>4. ASSUME NEW u \in Workers, NEW y \in BumpAllocators, ExchangeFails(u, y)  PROVE FALSE
    BY <1>1, <2>4 DEF ExchangeFails
  <2>5. ASSUME NEW u \in Workers, NEW y \in BumpAllocators, NEW bytes \in ByteSizes, Load(u, y, bytes)
            PROVE FALSE
    BY <1>1, <2>1, <2>5 DEF Load
  <2>6. ASSUME NEW y \in BumpAllocators, NEW bytes \in ByteSizes, BumpAllocate(y, bytes)  PROVE FALSE
    BY <1>1, <2>6 DEF BumpAllocate
  <2>7. ASSUME NEW y \in BumpAllocators, BumpReset(y)  PROVE FALSE
    BY <1>1, <2>7 DEF BumpReset
  <2>8. ASSUME NEW from \in BumpAllocators, NEW to \in BumpAllocators, Move(from, to)  PROVE FALSE
    BY <1>1, <2>8 DEF Move
  <2>9. QED
    BY <1>1, <2>2, <2>3, <2>4, <2>5, <2>6, <2>7, <2>8 DEF BumpNext, AtomicStep
<1>2. Space /\ [BumpNext]_bump_vars =>
        [\A t \in Workers, x \in BumpAllocators :
           /\ pc[t] = "loop" /\ pc'[t] = "idle" /\ granted' = granted
           /\ Holds(x)
           => request[t] > storage_[x] - offset_[x]]_bump_vars
  BY <1>1
<1>3. QED
  BY <1>2, SpaceInvariant, PTL DEF BumpSpec, EmptyMeansExhausted

-----------------------------------------------------------------------------
(* The inductive invariant of HeapAllocator                                *)

HeldRecords == [offset : Nat, size : Nat \ {0}, token : NodeIndex]

(* The nodes in use and the allocations H are the same thing.              *)
Accounts(a, H) ==
  /\ RangesInv(a) /\ a.allocation_count <= max_allocations
  /\ H \subseteq HeldRecords /\ IsFiniteSet(H)
  /\ UsedOnes(a) = {h.token : h \in H} /\ a.allocation_count = Cardinality(H)
  /\ \A g, h \in H : g.token = h.token => g = h
  /\ \A h \in H : /\ h.offset = a.nodes[h.token].offset * element_size
                  /\ a.nodes[h.token].size = Requested(h.size)

HeapIInv ==
  /\ ranges_ \in [Allocators -> Ranges \cup {MovedFrom}]
  /\ \A x \in Alive : Accounts(ranges_[x], held)
  /\ \A x, y \in Alive : x = y
  /\ Alive = {} => held = {}

LEMMA ResetAccounts == Accounts(ResetRanges, {})
<1>1. RangesInv(ResetRanges) /\ UsedOnes(ResetRanges) = {} /\ ResetRanges.allocation_count = 0  BY Resets
<1>2. IsFiniteSet({}) /\ Cardinality({}) = 0  BY FS_EmptySet
<1>3. 0 <= max_allocations  BY Constants
<1>4. QED  BY <1>1, <1>2, <1>3 DEF Accounts

LEMMA AllocateAccounts ==
  ASSUME NEW a, NEW H, Accounts(a, H), NEW byte_size \in Nat \ {0},
         Candidate(a, byte_size) # unused_node
  PROVE  LET n == Candidate(a, byte_size)
         IN Accounts(Split(a, n, Uint32(Requested(byte_size))),
                     H \cup {Allocation(a.nodes[n].offset * element_size, byte_size, n)})
<1> PICK n, size : n = Candidate(a, byte_size) /\ size = Requested(byte_size)  OBVIOUS
<1>1. RangesInv(a)  BY DEF Accounts
<1>2. /\ a.allocation_count # max_allocations /\ n \in FreeOnes(a) /\ size <= a.nodes[n].size
      /\ Uint32(size) = size
  BY <1>1, CandidateFits
<1>3. size \in Nat /\ 0 < size  BY RequestedType
<1>4. a.allocation_count < max_allocations
  <2>1. a.allocation_count \in Int /\ max_allocations \in Nat  BY <1>1, Constants DEF RangesInv, Ranges
  <2>2. a.allocation_count <= max_allocations  BY DEF Accounts
  <2>3. QED  BY <1>2, <2>1, <2>2
<1> DEFINE r == Split(a, n, size)
           offset == a.nodes[n].offset * element_size
           new == Allocation(offset, byte_size, n)
<1>5. Allocated(r, a, n, size)  BY <1>1, <1>2, <1>3, <1>4, Splits
<1>6. /\ a \in Ranges /\ n \in NodeIndex /\ n \notin UsedOnes(a)  BY <1>1, <1>2, OneMoreUsed
<1>7. a.nodes[n].offset \in Nat /\ element_size \in Nat /\ offset \in Nat
  <2>1. a.nodes[n].offset \in Nat  BY <1>6, NodeTypes DEF Ranges
  <2>2. element_size \in Nat  BY RangeAllocatorAssumption
  <2>3. QED  BY <2>1, <2>2
<1> HIDE DEF r
<1>8. /\ new.offset = offset /\ new.size = byte_size /\ new.token = n /\ new \in HeldRecords
  BY <1>6, <1>7 DEF Allocation, HeldRecords
<1> HIDE DEF new, offset
<1>9. /\ H \subseteq HeldRecords /\ IsFiniteSet(H) /\ a.allocation_count = Cardinality(H)
      /\ UsedOnes(a) = {h.token : h \in H} /\ \A g, h \in H : g.token = h.token => g = h
      /\ \A h \in H : /\ h.offset = a.nodes[h.token].offset * element_size
                      /\ a.nodes[h.token].size = Requested(h.size)
  BY DEF Accounts
<1>10. \A h \in H : h.token \in UsedOnes(a) /\ h.token # n  BY <1>6, <1>9
<1>11. new \notin H  BY <1>8, <1>10
<1>12. IsFiniteSet(H \cup {new}) /\ Cardinality(H \cup {new}) = Cardinality(H) + 1
  BY <1>9, <1>11, FS_AddElement
<1>13. /\ RangesInv(r) /\ UsedOnes(r) = UsedOnes(a) \cup {n} /\ r.allocation_count = a.allocation_count + 1
       /\ r.nodes[n].offset = a.nodes[n].offset /\ r.nodes[n].size = size
       /\ \A m \in UsedOnes(a) : r.nodes[m].offset = a.nodes[m].offset /\ r.nodes[m].size = a.nodes[m].size
  BY <1>5 DEF Allocated
<1>14. UsedOnes(r) = {h.token : h \in H \cup {new}}  BY <1>8, <1>9, <1>13
<1>15. ASSUME NEW g \in H \cup {new}, NEW h \in H \cup {new}, g.token = h.token PROVE g = h
  BY <1>8, <1>9, <1>10, <1>15
<1>16. ASSUME NEW h \in H \cup {new}
       PROVE  h.offset = r.nodes[h.token].offset * element_size /\ r.nodes[h.token].size = Requested(h.size)
  <2>1. CASE h \in H  BY <1>9, <1>10, <1>13, <2>1
  <2>2. CASE h = new  BY <1>8, <1>13, <2>2 DEF offset
  <2>3. QED  BY <2>1, <2>2
<1>17. r.allocation_count <= max_allocations
  <2>1. a.allocation_count \in Int /\ max_allocations \in Nat  BY <1>6, Constants DEF Ranges
  <2>2. QED  BY <1>4, <1>13, <2>1
<1>18. Accounts(r, H \cup {new})
  BY <1>8, <1>9, <1>12, <1>13, <1>14, <1>15, <1>16, <1>17 DEF Accounts
<1>19. QED  BY <1>2, <1>18 DEF r, new, offset

LEMMA FreeAccounts ==
  ASSUME NEW a, NEW H, Accounts(a, H), NEW h \in H
  PROVE  Accounts(Freed(a, h.token), H \ {h})
<1> PICK token : token = h.token  OBVIOUS
<1> DEFINE r == Freed(a, token)
           rest == H \ {h}
<1>1. /\ H \subseteq HeldRecords /\ IsFiniteSet(H) /\ a.allocation_count = Cardinality(H)
      /\ UsedOnes(a) = {g.token : g \in H} /\ \A f, g \in H : f.token = g.token => f = g
      /\ \A g \in H : /\ g.offset = a.nodes[g.token].offset * element_size
                      /\ a.nodes[g.token].size = Requested(g.size)
      /\ RangesInv(a) /\ a.allocation_count <= max_allocations
  BY DEF Accounts
<1>2. token \in UsedOnes(a)  BY <1>1
<1>3. FreedOf(r, a, token)  BY <1>1, <1>2, Frees
<1> HIDE DEF r
<1>4. /\ RangesInv(r) /\ UsedOnes(r) = UsedOnes(a) \ {token} /\ r.allocation_count = a.allocation_count - 1
      /\ \A m \in UsedOnes(r) : r.nodes[m].offset = a.nodes[m].offset /\ r.nodes[m].size = a.nodes[m].size
  BY <1>3 DEF FreedOf
<1>5. IsFiniteSet(rest) /\ Cardinality(rest) = Cardinality(H) - 1  BY <1>1, FS_RemoveElement
<1>6. \A g \in rest : g \in H /\ g.token # token  BY <1>1
<1>7. UsedOnes(r) = {g.token : g \in rest}
  <2>1. \A m \in UsedOnes(r) : \E g \in rest : m = g.token  BY <1>1, <1>4
  <2>2. \A g \in rest : g.token \in UsedOnes(r)  BY <1>1, <1>4, <1>6
  <2>3. QED  BY <2>1, <2>2
<1>8. \A g \in rest : /\ g.offset = r.nodes[g.token].offset * element_size
                      /\ r.nodes[g.token].size = Requested(g.size)
  <2>1. \A g \in rest : g.token \in UsedOnes(r)  BY <1>1, <1>4, <1>6
  <2>2. QED  BY <1>1, <1>4, <1>6, <2>1
<1>9. r.allocation_count <= max_allocations
  <2>1. a.allocation_count \in Int /\ max_allocations \in Nat  BY <1>1, Constants DEF RangesInv, Ranges
  <2>2. QED  BY <1>1, <1>4, <2>1
<1>10. Accounts(r, rest)  BY <1>1, <1>4, <1>5, <1>6, <1>7, <1>8, <1>9 DEF Accounts
<1>11. QED  BY <1>10 DEF r

LEMMA AccountsNotMoved == ASSUME NEW a, NEW H, Accounts(a, H) PROVE a \in Ranges /\ a # MovedFrom
  BY NotMovedFrom DEF Accounts, RangesInv

LEMMA HeapInitInv == HeapInit => HeapIInv
<1> SUFFICES ASSUME HeapInit PROVE HeapIInv  OBVIOUS
<1>1. PICK x \in Allocators : ranges_ = [y \in Allocators |-> IF y = x THEN ResetRanges ELSE MovedFrom]
  BY DEF HeapInit
<1>2. Accounts(ResetRanges, {}) /\ held = {}  BY ResetAccounts DEF HeapInit
<1>3. ResetRanges \in Ranges /\ ResetRanges # MovedFrom  BY <1>2, AccountsNotMoved
<1>4. Alive = {x}  BY <1>1, <1>3 DEF Alive
<1>5. QED  BY <1>1, <1>2, <1>3, <1>4 DEF HeapIInv

(* Of the only variable that has the nodes                                 *)
LEMMA AliveOne ==
  ASSUME HeapIInv, NEW x \in Allocators
  PROVE  IF ranges_[x] = MovedFrom THEN x \notin Alive
         ELSE Alive = {x} /\ Accounts(ranges_[x], held) /\ ranges_[x] \in Ranges
  BY DEF HeapIInv, Alive

(* A step that leaves its nodes with x.                                    *)
LEMMA StaysWith ==
  ASSUME HeapIInv, NEW x \in Allocators, ranges_[x] # MovedFrom, NEW r,
         ranges_' = [ranges_ EXCEPT ![x] = r], Accounts(r, held')
  PROVE  HeapIInv'
<1>1. r \in Ranges /\ r # MovedFrom  BY AccountsNotMoved
<1>2. Alive = {x} /\ ranges_ \in [Allocators -> Ranges \cup {MovedFrom}]  BY AliveOne DEF HeapIInv
<1>3. Alive' = {x}  BY <1>1, <1>2 DEF Alive
<1>4. ranges_' \in [Allocators -> Ranges \cup {MovedFrom}] /\ ranges_'[x] = r  BY <1>1, <1>2
<1>5. QED  BY <1>3, <1>4 DEF HeapIInv

LEMMA HeapStep == HeapIInv /\ [HeapNext]_heap_vars => HeapIInv'
<1> SUFFICES ASSUME HeapIInv, [HeapNext]_heap_vars PROVE HeapIInv'  OBVIOUS
<1>1. ASSUME NEW x \in Allocators, NEW b \in Requests, Allocate(x, b) PROVE HeapIInv'
  <2> PICK n : n = Candidate(ranges_[x], b)  OBVIOUS
  <2>1. /\ n # unused_node
        /\ ranges_' = [ranges_ EXCEPT ![x] = Split(@, n, Uint32(Requested(b)))]
        /\ held' = held \cup {Allocation(ranges_[x].nodes[n].offset * element_size, b, n)}
    BY <1>1 DEF Allocate
  <2>2. ranges_[x] # MovedFrom  BY <2>1 DEF Candidate
  <2>3. Accounts(ranges_[x], held) /\ b \in Nat \ {0}  BY <2>2, AliveOne, StorageAssumption
  <2> PICK r : r = Split(ranges_[x], n, Uint32(Requested(b)))  OBVIOUS
  <2>4. Accounts(r, held')  BY <2>1, <2>3, AllocateAccounts
  <2>5. ranges_' = [ranges_ EXCEPT ![x] = r]  BY <2>1
  <2>6. QED  BY <2>2, <2>4, <2>5, StaysWith
<1>2. ASSUME NEW x \in Allocators, NEW h \in held, FreeAllocation(x, h) PROVE HeapIInv'
  <2>1. /\ ranges_[x] # MovedFrom /\ ranges_' = [ranges_ EXCEPT ![x] = Freed(@, h.token)]
        /\ held' = held \ {h}
    BY <1>2 DEF FreeAllocation
  <2>2. Accounts(ranges_[x], held)  BY <2>1, AliveOne
  <2> PICK r : r = Freed(ranges_[x], h.token)  OBVIOUS
  <2>3. Accounts(r, held')  BY <2>1, <2>2, FreeAccounts
  <2>4. ranges_' = [ranges_ EXCEPT ![x] = r]  BY <2>1
  <2>5. QED  BY <2>1, <2>3, <2>4, StaysWith
<1>3. ASSUME NEW x \in Allocators, Reset(x) PROVE HeapIInv'
  <2>1. ranges_[x] # MovedFrom /\ ranges_' = [ranges_ EXCEPT ![x] = ResetRanges] /\ held' = {}
    BY <1>3 DEF Reset
  <2>2. QED  BY <2>1, ResetAccounts, StaysWith
<1>4. ASSUME NEW x \in Allocators, NEW y \in Allocators, MoveAssign(x, y) PROVE HeapIInv'
  <2>1. /\ x # y /\ ranges_' = [ranges_ EXCEPT ![x] = ranges_[y], ![y] = MovedFrom]
        /\ held' = IF ranges_[x] = MovedFrom THEN held ELSE {}
    BY <1>4 DEF MoveAssign
  <2>2. ranges_ \in [Allocators -> Ranges \cup {MovedFrom}]  BY DEF HeapIInv
  <2>3. /\ ranges_' \in [Allocators -> Ranges \cup {MovedFrom}]
        /\ ranges_'[x] = ranges_[y] /\ ranges_'[y] = MovedFrom
        /\ \A z \in Allocators \ {x, y} : ranges_'[z] = ranges_[z]
    BY <2>1, <2>2
  <2>4. CASE ranges_[y] # MovedFrom
    <3>1. Alive = {y} /\ Accounts(ranges_[y], held)  BY <2>4, AliveOne
    <3>2. ranges_[x] = MovedFrom /\ \A z \in Allocators \ {x, y} : ranges_[z] = MovedFrom
      BY <2>1, <3>1 DEF Alive
    <3>3. Alive' = {x}  BY <2>3, <2>4, <3>2 DEF Alive
    <3>4. QED  BY <2>1, <2>3, <3>1, <3>2, <3>3 DEF HeapIInv
  <2>5. CASE ranges_[y] = MovedFrom /\ ranges_[x] # MovedFrom
    <3>1. Alive = {x}  BY <2>5, AliveOne
    <3>2. Alive' = {}  BY <2>3, <2>5, <3>1 DEF Alive
    <3>3. QED  BY <2>1, <2>3, <2>5, <3>2 DEF HeapIInv
  <2>6. CASE ranges_[y] = MovedFrom /\ ranges_[x] = MovedFrom
    <3>1. ranges_' = ranges_ /\ held' = held  BY <2>1, <2>2, <2>6
    <3>2. QED  BY <3>1 DEF HeapIInv, Alive
  <2>7. QED  BY <2>4, <2>5, <2>6
<1>5. CASE UNCHANGED heap_vars
  <2>1. ranges_' = ranges_ /\ held' = held  BY <1>5 DEF heap_vars
  <2>2. QED  BY <2>1 DEF HeapIInv, Alive
<1>6. ASSUME NEW x \in Allocators, NEW b \in Requests, AllocateExhausted(x, b) PROVE HeapIInv'
  BY <1>5, <1>6 DEF AllocateExhausted
<1>7. ASSUME NEW x \in Allocators, ResetMovedFrom(x) \/ MoveToItself(x) PROVE HeapIInv'
  BY <1>5, <1>7 DEF ResetMovedFrom, MoveToItself
<1>8. QED  BY <1>1, <1>2, <1>3, <1>4, <1>5, <1>6, <1>7 DEF HeapNext

LEMMA HeapAlways == HeapSpec => []HeapIInv
  BY HeapInitInv, HeapStep, PTL DEF HeapSpec

-----------------------------------------------------------------------------
(* Bytes and elements                                                      *)

LEMMA RequestedCovers ==
  ASSUME NEW byte_size \in Nat \ {0}
  PROVE  byte_size <= Requested(byte_size) * element_size
<1> PICK e \in Nat \ {0} : e = element_size  BY RangeAllocatorAssumption
<1> PICK q, t \in Nat : q = (byte_size - 1) \div e /\ byte_size - 1 = q * e + t /\ t < e
  <2>1. byte_size - 1 \in Nat  OBVIOUS
  <2>2. QED  BY <2>1, Quotient
<1>1. Requested(byte_size) = 1 + q  BY DEF Requested
<1>2. (1 + q) * e = q * e + e /\ q * e \in Nat  BY SMT
<1>3. QED  BY <1>1, <1>2

LEMMA CapacityFits == capacity * element_size <= storage_size
<1>1. storage_size \in Nat /\ element_size \in Nat \ {0} /\ capacity = storage_size \div element_size
  BY StorageAssumption, RangeAllocatorAssumption
<1>2. storage_size = capacity * element_size + (storage_size % element_size) /\ capacity \in Nat
  BY <1>1, Quotient
<1>3. storage_size % element_size \in Nat  BY <1>1, Quotient
<1>4. capacity * element_size \in Nat  BY <1>1, <1>2, Products
<1>5. QED  BY <1>2, <1>3, <1>4

LEMMA AccountsHeld ==
  ASSUME NEW a, Accounts(a, held)
  PROVE  HeldIsUsed(a)
<1>1. /\ a \in Ranges /\ RangesInv(a) /\ UsedOnes(a) = {h.token : h \in held}
      /\ a.allocation_count = Cardinality(held) /\ held \subseteq HeldRecords
  BY DEF Accounts, RangesInv
<1>2. ASSUME NEW h \in held
      PROVE  /\ h.offset = a.nodes[h.token].offset * element_size
             /\ h.size <= a.nodes[h.token].size * element_size
             /\ h.offset + h.size <= storage_size
  <2> PICK o, s, e, b : /\ o = a.nodes[h.token].offset /\ s = a.nodes[h.token].size
                        /\ e = element_size /\ b = h.size
    OBVIOUS
  <2>1. h.offset = o * e /\ s = Requested(b)  BY DEF Accounts
  <2>2. h.token \in LiveNodes(a) /\ h.token \in NodeIndex  BY <1>1, LiveAreNodes
  <2>3. o \in Nat /\ s \in Nat  BY <1>1, <2>2, NodeTypes DEF Ranges
  <2>4. o + s <= capacity  BY <1>1, <2>2 DEF RangesInv, Whole, Tiling, End
  <2>5. e \in Nat /\ b \in Nat \ {0} /\ capacity \in Nat /\ storage_size \in Nat
    BY <1>1, Constants, RangeAllocatorAssumption, StorageAssumption DEF HeldRecords
  <2>6. b <= s * e  BY <2>1, <2>5, RequestedCovers
  <2>7. (o + s) * e <= capacity * e /\ (o + s) * e \in Nat /\ capacity * e \in Nat
    <3>1. e \in Nat /\ o + s \in Nat /\ capacity \in Nat /\ o + s <= capacity  BY <2>3, <2>4, <2>5
    <3>2. QED  BY ONLY <3>1, Products
  <2>8. (o + s) * e = o * e + s * e /\ o * e \in Nat /\ s * e \in Nat  BY <2>3, <2>5
  <2>9. capacity * e <= storage_size  BY CapacityFits
  <2>10. o * e + b <= storage_size  BY <2>5, <2>6, <2>7, <2>8, <2>9
  <2>11. QED  BY <2>1, <2>6, <2>10
<1>3. QED  BY <1>1, <1>2 DEF HeldIsUsed, UsedOnes

LEMMA AliveAtMostOne ==
  ASSUME HeapIInv
  PROVE  Cardinality(Alive) <= 1
<1>1. CASE Alive = {}
  <2>1. Cardinality({}) = 0  BY FS_EmptySet
  <2>2. QED  BY <1>1, <2>1
<1>2. CASE Alive # {}
  <2>1. PICK x : Alive = {x}  BY <1>2 DEF HeapIInv
  <2>2. Cardinality({x}) = 1  BY FS_Singleton
  <2>3. QED  BY <2>1, <2>2
<1>3. QED  BY <1>1, <1>2

LEMMA HeapInvTiles == HeapIInv => NodesTileTheHeap
<1> SUFFICES ASSUME HeapIInv PROVE NodesTileTheHeap  OBVIOUS
<1>1. ASSUME NEW x \in Alive
      PROVE  /\ RangesTypeOK(ranges_[x]) /\ Tiled(ranges_[x]) /\ HeldIsUsed(ranges_[x])
             /\ Binned(ranges_[x]) /\ NodePoolSuffices(ranges_[x])
  <2> PICK a : a = ranges_[x]  OBVIOUS
  <2>1. Accounts(a, held)  BY DEF HeapIInv
  <2>2. RangesInv(a) /\ a.allocation_count <= max_allocations  BY <2>1 DEF Accounts
  <2>3. RangesTypeOK(a) /\ Tiled(a) /\ Binned(a)  BY <2>2, RangesAreTyped, RangesAreTiled, RangesAreBinned
  <2>4. HeldIsUsed(a)  BY <2>1, AccountsHeld
  <2>5. NodePoolSuffices(a)  BY <2>2, PoolSuffices DEF NodePoolSuffices
  <2>6. QED  BY <2>3, <2>4, <2>5
<1>2. Alive = {} => held = {}  BY DEF HeapIInv
<1>3. QED  BY <1>1, <1>2, AliveAtMostOne DEF NodesTileTheHeap, HeapTypeOK

(* Whatever the sequence of allocations, frees, resets and moves, for any  *)
(* heap, any element size and any width of the index type: the nodes tile  *)
(* the heap, each free one is in its bin, the used ones are what the caller*)
(* holds, and the pool of nodes does not run dry.                          *)
THEOREM HeapIsTiled == HeapSpec => []NodesTileTheHeap
  BY HeapAlways, HeapInvTiles, PTL

-----------------------------------------------------------------------------
(* Gaps between the allocations held, and free nodes                       *)

Clear(a, o, size) == \A m \in UsedOnes(a) : End(a.nodes, m) <= o \/ o + size <= a.nodes[m].offset

(* The node that covers the first element of a gap is free, and the whole  *)
(* gap lies in it: what follows a free node is used.                       *)
LEMMA GapIsFree ==
  ASSUME NEW a, RangesInv(a), NEW size \in 1..capacity, NEW o \in 0..(capacity - size), Clear(a, o, size)
  PROVE  \E n \in FreeOnes(a) : a.nodes[n].size >= size
<1>1. /\ a \in Ranges /\ Tiling(a.nodes, LiveNodes(a)) /\ FreeApart(a.nodes, LiveNodes(a))
      /\ \A n \in LiveNodes(a) : LinkedOn(a.nodes, LiveNodes(a), n)
  BY DEF RangesInv, Whole
<1>2. /\ LiveNodes(a) \in SUBSET NodeIndex /\ UsedOnes(a) \in SUBSET LiveNodes(a)
      /\ FreeOnes(a) = LiveNodes(a) \ UsedOnes(a)
  BY <1>1, LiveAreNodes
<1>3. a.nodes \in [NodeIndex -> AnyNode]  BY <1>1 DEF Ranges
<1>4. capacity \in Nat  BY Constants
<1>5. o \in Nat /\ size \in Nat /\ size > 0 /\ o + size <= capacity /\ o \in 0..(capacity - 1)  BY <1>4
<1>6. PICK n \in LiveNodes(a) : a.nodes[n].offset <= o /\ o < End(a.nodes, n)  BY <1>1, <1>5 DEF Tiling
<1>7. /\ a.nodes[n].offset \in Nat /\ a.nodes[n].size \in Nat
      /\ End(a.nodes, n) = a.nodes[n].offset + a.nodes[n].size
  BY <1>2, <1>3, NodeTypes DEF End
<1>8. n \notin UsedOnes(a)  BY <1>5, <1>6, <1>7 DEF Clear
<1>9. n \in FreeOnes(a)  BY <1>2, <1>8
<1>10. ASSUME a.nodes[n].size < size PROVE FALSE
  <2>1. End(a.nodes, n) < o + size  BY <1>5, <1>6, <1>7, <1>10
  <2>2. End(a.nodes, n) # capacity  BY <1>4, <1>5, <1>7, <2>1
  <2>3. PICK m \in LiveNodes(a) : a.nodes[m].offset = End(a.nodes, n)
    <3>1. LinkedOn(a.nodes, LiveNodes(a), n)  BY <1>1
    <3>2. QED  BY <2>2, <3>1 DEF LinkedOn
  <2>4. m \in UsedOnes(a)
    <3>1. ~a.nodes[n].used  BY <1>9 DEF FreeOnes
    <3>2. a.nodes[m].used  BY <1>1, <1>6, <2>3, <3>1 DEF FreeApart
    <3>3. QED  BY <3>2 DEF UsedOnes
  <2>5. /\ a.nodes[m].offset \in Nat /\ a.nodes[m].size \in Nat
        /\ End(a.nodes, m) = a.nodes[m].offset + a.nodes[m].size
    BY <1>2, <1>3, NodeTypes DEF End
  <2>6. End(a.nodes, m) <= o \/ o + size <= a.nodes[m].offset  BY <2>4 DEF Clear
  <2>7. QED  BY <1>5, <1>6, <1>7, <2>1, <2>3, <2>5, <2>6
<1>11. QED  BY <1>5, <1>7, <1>9, <1>10

LEMMA FreeIsGap ==
  ASSUME NEW a, RangesInv(a), NEW size \in 1..capacity, NEW n \in FreeOnes(a), a.nodes[n].size >= size
  PROVE  a.nodes[n].offset \in 0..(capacity - size) /\ Clear(a, a.nodes[n].offset, size)
<1>1. a \in Ranges /\ Tiling(a.nodes, LiveNodes(a))  BY DEF RangesInv, Whole
<1>2. /\ LiveNodes(a) \in SUBSET NodeIndex /\ UsedOnes(a) \in SUBSET LiveNodes(a)
      /\ FreeOnes(a) = LiveNodes(a) \ UsedOnes(a)
  BY <1>1, LiveAreNodes
<1>3. a.nodes \in [NodeIndex -> AnyNode]  BY <1>1 DEF Ranges
<1>4. n \in LiveNodes(a) /\ n \in NodeIndex  BY <1>2
<1>5. a.nodes[n].offset \in Nat /\ a.nodes[n].size \in Nat  BY <1>3, <1>4, NodeTypes
<1>6. capacity \in Nat  BY Constants
<1>7. a.nodes[n].offset + size <= End(a.nodes, n) /\ End(a.nodes, n) <= capacity /\ End(a.nodes, n) \in Nat
  BY <1>1, <1>4, <1>5 DEF Tiling, End
<1>8. a.nodes[n].offset \in 0..(capacity - size)  BY <1>5, <1>6, <1>7
<1>9. ASSUME NEW m \in UsedOnes(a)
      PROVE  End(a.nodes, m) <= a.nodes[n].offset \/ a.nodes[n].offset + size <= a.nodes[m].offset
  <2>1. m \in LiveNodes(a) /\ m # n /\ m \in NodeIndex  BY <1>2
  <2>2. End(a.nodes, m) <= a.nodes[n].offset \/ End(a.nodes, n) <= a.nodes[m].offset
    BY <1>1, <1>4, <2>1 DEF Tiling
  <2>3. a.nodes[m].offset \in Nat  BY <1>3, <2>1, NodeTypes
  <2>4. QED  BY <1>5, <1>7, <2>2, <2>3
<1>10. QED  BY <1>8, <1>9 DEF Clear

(* A range of the abstract heap                                            *)
RangeOf(h) == [offset |-> h.offset \div element_size, size |-> Requested(h.size)]

LEMMA Uncovers ==
  ASSUME NEW o \in Nat, NEW e \in Nat \ {0}, NEW s \in 0..(e - 1)
  PROVE  (o * e + s) \div e = o
<1>1. s \in Nat /\ s < e /\ o * e \in Nat  OBVIOUS
<1> PICK p : p = o * e + s  OBVIOUS
<1>2. p \in Nat  BY <1>1
<1>3. p \div e \in Nat /\ p % e \in 0 .. e - 1 /\ p = (p \div e) * e + (p % e)  BY <1>2, Quotient
<1> PICK q, t : q = p \div e /\ t = p % e  OBVIOUS
<1>4. q \in Nat /\ t \in Nat /\ t < e  BY <1>3
<1>5. o * e + s = q * e + t  BY <1>3
<1>6. PICK x, y \in Nat : x = o * e /\ y = q * e  BY <1>1, <1>4, Products
<1>7. x + s = y + t  BY <1>5, <1>6
<1>8. ~(o < q)
  <2>1. SUFFICES ASSUME o < q PROVE FALSE  OBVIOUS
  <2>2. o + 1 \in Nat /\ o + 1 <= q  BY <1>4, <2>1
  <2>3. (o + 1) * e <= q * e  BY <1>4, <2>2, Products
  <2>4. (o + 1) * e = o * e + e  OBVIOUS
  <2>5. x + e <= y  BY <1>6, <2>3, <2>4
  <2>6. QED  BY <1>1, <1>4, <1>6, <1>7, <2>5
<1>9. ~(q < o)
  <2>1. SUFFICES ASSUME q < o PROVE FALSE  OBVIOUS
  <2>2. q + 1 \in Nat /\ q + 1 <= o  BY <1>4, <2>1
  <2>3. (q + 1) * e <= o * e  BY <2>2, Products
  <2>4. (q + 1) * e = q * e + e  BY <1>4
  <2>5. y + e <= x  BY <1>6, <2>3, <2>4
  <2>6. QED  BY <1>1, <1>4, <1>6, <1>7, <2>5
<1>10. q = o  BY <1>4, <1>8, <1>9
<1>11. QED  BY <1>10

LEMMA RangesOfHeld ==
  ASSUME NEW a, Accounts(a, held), NEW h \in held
  PROVE  /\ RangeOf(h).offset = a.nodes[h.token].offset /\ RangeOf(h).size = a.nodes[h.token].size
         /\ h.token \in UsedOnes(a)
         /\ RangeOf(h).offset + RangeOf(h).size = End(a.nodes, h.token)
<1>1. a \in Ranges /\ UsedOnes(a) = {g.token : g \in held}  BY DEF Accounts, RangesInv
<1>2. h.token \in UsedOnes(a) /\ h.token \in NodeIndex  BY <1>1, LiveAreNodes
<1> PICK o, e : o = a.nodes[h.token].offset /\ e = element_size  OBVIOUS
<1>3. o \in Nat /\ e \in Nat \ {0}  BY <1>1, <1>2, NodeTypes, RangeAllocatorAssumption DEF Ranges
<1>4. h.offset = o * e /\ a.nodes[h.token].size = Requested(h.size)  BY DEF Accounts
<1>5. (o * e) \div e = o
  <2>1. 0 \in 0..(e - 1)  BY <1>3
  <2>2. (o * e + 0) \div e = o  BY <1>3, <2>1, Uncovers
  <2>3. o * e + 0 = o * e  BY <1>3
  <2>4. QED  BY <2>2, <2>3
<1>6. RangeOf(h).offset = o /\ RangeOf(h).size = a.nodes[h.token].size  BY <1>4, <1>5 DEF RangeOf
<1>7. QED  BY <1>2, <1>6 DEF End

LEMMA PlacementsAreGaps ==
  ASSUME NEW a, Accounts(a, held), NEW size \in 1..capacity
  PROVE  Abstract!Placements(size) = {o \in 0..(capacity - size) : Clear(a, o, size)}
<1>1. Abstract!Placements(size)
        = {o \in 0..(capacity - size) : \A r \in {RangeOf(h) : h \in held} :
             r.offset + r.size <= o \/ o + size <= r.offset}
  BY DEF Abstract!Placements, Abstract!Disjoint, Abstract!Range, RangeOf
<1>2. ASSUME NEW o \in 0..(capacity - size)
      PROVE  (\A r \in {RangeOf(h) : h \in held} : r.offset + r.size <= o \/ o + size <= r.offset)
               <=> Clear(a, o, size)
  <2>1. \A h \in held : /\ RangeOf(h).offset = a.nodes[h.token].offset
                        /\ RangeOf(h).offset + RangeOf(h).size = End(a.nodes, h.token)
    BY RangesOfHeld
  <2>2. UsedOnes(a) = {h.token : h \in held}  BY DEF Accounts
  <2>3. Clear(a, o, size)
          <=> \A h \in held : End(a.nodes, h.token) <= o \/ o + size <= a.nodes[h.token].offset
    BY <2>2 DEF Clear
  <2>4. QED  BY <2>1, <2>3
<1>3. QED  BY <1>1, <1>2

LEMMA RequestedExactly ==
  ASSUME NEW size \in 1..capacity
  PROVE  size * element_size \in Nat \ {0} /\ Requested(size * element_size) = size
<1> PICK e \in Nat \ {0} : e = element_size  BY RangeAllocatorAssumption
<1>1. size \in Nat \ {0} /\ size - 1 \in Nat /\ e - 1 \in 0..(e - 1)  BY Constants
<1>2. size * e - 1 = (size - 1) * e + (e - 1)  BY <1>1
<1>3. (size * e - 1) \div e = size - 1  BY <1>1, <1>2, Uncovers
<1>4. Requested(size * e) = size  BY <1>1, <1>3 DEF Requested
<1>5. size * e # 0
  <2>1. 1 * e <= size * e  BY <1>1, Products
  <2>2. QED  BY <2>1
<1>6. QED  BY <1>1, <1>4, <1>5

LEMMA FullWhenExhausted ==
  ASSUME NEW a, Accounts(a, held), NEW size \in 1..capacity
  PROVE  Candidate(a, size * element_size) = unused_node
           <=> Cardinality(held) = max_allocations \/ Abstract!Placements(size) = {}
<1> PICK b, n : b = size * element_size /\ n = Candidate(a, b)  OBVIOUS
<1>1. b \in Nat \ {0} /\ Requested(b) = size  BY RequestedExactly
<1>2. RangesInv(a) /\ a.allocation_count = Cardinality(held)  BY DEF Accounts
<1>3. /\ n = unused_node => \/ a.allocation_count = max_allocations \/ size > capacity
                            \/ \A m \in FreeOnes(a) : a.nodes[m].size < size
      /\ n # unused_node => /\ a.allocation_count # max_allocations
                            /\ n \in FreeOnes(a) /\ size <= a.nodes[n].size
  BY <1>1, <1>2, CandidateFits
<1>4. Abstract!Placements(size) = {o \in 0..(capacity - size) : Clear(a, o, size)}  BY PlacementsAreGaps
<1>5. \A m \in FreeOnes(a) : a.nodes[m].size \in Nat  BY <1>2, OneMoreUsed
<1>6. size \in Nat /\ ~(size > capacity)  BY Constants
<1>7. ASSUME n = unused_node, Cardinality(held) # max_allocations PROVE Abstract!Placements(size) = {}
  <2>1. \A m \in FreeOnes(a) : ~(a.nodes[m].size >= size)  BY <1>2, <1>3, <1>5, <1>6, <1>7
  <2>2. \A o \in 0..(capacity - size) : ~Clear(a, o, size)  BY <1>2, <2>1, GapIsFree
  <2>3. QED  BY <1>4, <2>2
<1>8. ASSUME n # unused_node
      PROVE  Cardinality(held) # max_allocations /\ Abstract!Placements(size) # {}
  <2>1. n \in FreeOnes(a) /\ size <= a.nodes[n].size  BY <1>3, <1>8
  <2>2. a.nodes[n].size >= size  BY <1>5, <1>6, <2>1
  <2>3. a.nodes[n].offset \in 0..(capacity - size) /\ Clear(a, a.nodes[n].offset, size)
    BY <1>2, <2>1, <2>2, FreeIsGap
  <2>4. QED  BY <1>2, <1>3, <1>4, <1>8, <2>3
<1>9. QED  BY <1>7, <1>8

LEMMA HeapInvExhausted == HeapIInv => ExhaustedOnlyWhenFull
<1> SUFFICES ASSUME HeapIInv, NEW x \in Allocators, NEW size \in 1..capacity
             PROVE  (Candidate(ranges_[x], size * element_size) = unused_node)
                      <=> \/ x \notin Alive
                          \/ Cardinality(held) = max_allocations
                          \/ Abstract!Placements(size) = {}
  BY DEF ExhaustedOnlyWhenFull
<1>1. CASE ranges_[x] = MovedFrom
  <2>1. x \notin Alive  BY <1>1, AliveOne
  <2>2. Candidate(ranges_[x], size * element_size) = unused_node  BY <1>1 DEF Candidate
  <2>3. QED  BY <2>1, <2>2
<1>2. CASE ranges_[x] # MovedFrom
  <2>1. x \in Alive /\ Accounts(ranges_[x], held)  BY <1>2, AliveOne
  <2>2. QED  BY <2>1, FullWhenExhausted
<1>3. QED  BY <1>1, <1>2

(* allocate fails only at the limit, or when the allocations held leave no *)
(* gap of the size it was asked for.                                       *)
THEOREM NoGapIsHidden == HeapSpec => []ExhaustedOnlyWhenFull
  BY HeapAlways, HeapInvExhausted, PTL

-----------------------------------------------------------------------------
(* The refinement                                                          *)

LEMMA FewerRanges ==
  ASSUME NEW a, Accounts(a, held)
  PROVE  /\ Cardinality({RangeOf(h) : h \in held}) <= a.allocation_count
         /\ Cardinality({RangeOf(h) : h \in held}) \in Nat
<1> DEFINE T == {RangeOf(h) : h \in held}
           f == [h \in held |-> RangeOf(h)]
<1>1. IsFiniteSet(held) /\ a.allocation_count = Cardinality(held)  BY DEF Accounts
<1>2. f \in Surjection(held, T)  BY DEF Surjection
<1>3. IsFiniteSet(T) /\ Cardinality(T) <= Cardinality(held)  BY <1>1, <1>2, FS_Surjection
<1>4. Cardinality(T) \in Nat  BY <1>3, FS_CardinalityType
<1>5. QED  BY <1>1, <1>3, <1>4

LEMMA OneRangeEach ==
  ASSUME NEW a, Accounts(a, held), NEW g \in held, NEW h \in held, RangeOf(g) = RangeOf(h)
  PROVE  g = h
<1>1. /\ a.nodes[g.token].offset = a.nodes[h.token].offset
      /\ g.token \in UsedOnes(a) /\ h.token \in UsedOnes(a)
  BY RangesOfHeld
<1>2. a \in Ranges /\ Tiling(a.nodes, LiveNodes(a))  BY DEF Accounts, RangesInv, Whole
<1>3. g.token \in LiveNodes(a) /\ h.token \in LiveNodes(a)  BY <1>1, <1>2, LiveAreNodes
<1>4. a.nodes \in [NodeIndex -> AnyNode]  BY <1>2 DEF Ranges
<1>5. g.token = h.token  BY <1>1, <1>2, <1>3, <1>4, OneNodeThere
<1>6. QED  BY <1>5 DEF Accounts

LEMMA SameCardinality == \A S : Abstract!Cardinality(S) = Cardinality(S)
  BY DEF Abstract!Cardinality, Cardinality, Abstract!IsFiniteSet, IsFiniteSet

LEMMA HeapRefinesInit == HeapInit => Abstract!Init
  BY DEF HeapInit, Abstract!Init

LEMMA HeapRefinesStep ==
  HeapIInv /\ [HeapNext]_heap_vars => [Abstract!Next]_{RangeOf(h) : h \in held}
<1> DEFINE live == {RangeOf(h) : h \in held}
           next == {RangeOf(h) : h \in held'}
<1> SUFFICES ASSUME HeapIInv, [HeapNext]_heap_vars
             PROVE  Abstract!Next \/ next = live
  BY DEF RangeOf
<1>1. ASSUME NEW x \in Allocators, NEW b \in Requests, Allocate(x, b) PROVE Abstract!Next
  <2> PICK n, a, size : n = Candidate(ranges_[x], b) /\ a = ranges_[x] /\ size = Requested(b)  OBVIOUS
  <2> PICK o : o = a.nodes[n].offset  OBVIOUS
  <2>1. n # unused_node /\ held' = held \cup {Allocation(o * element_size, b, n)}
    BY <1>1 DEF Allocate
  <2>2. a # MovedFrom  BY <2>1 DEF Candidate
  <2>3. Accounts(a, held) /\ b \in Nat \ {0}  BY <2>2, AliveOne, StorageAssumption
  <2>4. RangesInv(a) /\ a.allocation_count <= max_allocations  BY <2>3 DEF Accounts
  <2>5. /\ a.allocation_count # max_allocations
        /\ n \in FreeOnes(a) /\ size <= a.nodes[n].size /\ size <= capacity
    BY <2>1, <2>3, <2>4, CandidateFits
  <2>6. size \in 1..capacity /\ a.nodes[n].size >= size
    <3>1. size \in Nat \ {0}  BY <2>3, RequestedType
    <3>2. capacity \in Nat /\ a.nodes[n].size \in Nat  BY <2>4, <2>5, OneMoreUsed, Constants
    <3>3. QED  BY <2>5, <3>1, <3>2
  <2>7. o \in 0..(capacity - size) /\ Clear(a, o, size)  BY <2>4, <2>5, <2>6, FreeIsGap
  <2>8. o \in Abstract!Placements(size)  BY <2>3, <2>6, <2>7, PlacementsAreGaps
  <2>9. next = live \cup {[offset |-> o, size |-> size]}
    <3>1. o \in Nat /\ element_size \in Nat \ {0}  BY <2>7, RangeAllocatorAssumption
    <3>2. (o * element_size) \div element_size = o
      <4>1. 0 \in 0..(element_size - 1)  BY <3>1
      <4>2. (o * element_size + 0) \div element_size = o  BY <3>1, <4>1, Uncovers
      <4>3. o * element_size + 0 = o * element_size  BY <3>1
      <4>4. QED  BY <4>2, <4>3
    <3>3. RangeOf(Allocation(o * element_size, b, n)) = [offset |-> o, size |-> size]
      BY <3>2 DEF RangeOf, Allocation
    <3>4. QED  BY <2>1, <3>3
  <2>10. Cardinality(live) < max_allocations
    <3>1. Cardinality(live) <= a.allocation_count /\ Cardinality(live) \in Nat  BY <2>3, FewerRanges
    <3>2. a.allocation_count \in Int /\ max_allocations \in Nat  BY <2>4, Constants DEF RangesInv, Ranges
    <3>3. QED  BY <2>4, <2>5, <3>1, <3>2
  <2>11. Abstract!Allocate(size)
    <3>1. Abstract!Allocate(size) <=>
            /\ Cardinality(live) < max_allocations
            /\ \E p \in Abstract!Placements(size) : next = live \cup {[offset |-> p, size |-> size]}
      BY SameCardinality DEF Abstract!Allocate, Abstract!Range, RangeOf
    <3> HIDE DEF live, next
    <3>2. QED  BY <2>8, <2>9, <2>10, <3>1
  <2>12. QED  BY <2>6, <2>11 DEF Abstract!Next
<1>2. ASSUME NEW x \in Allocators, NEW h \in held, FreeAllocation(x, h) PROVE Abstract!Next
  <2>1. ranges_[x] # MovedFrom /\ held' = held \ {h}  BY <1>2 DEF FreeAllocation
  <2>2. Accounts(ranges_[x], held)  BY <2>1, AliveOne
  <2>3. \A g \in held : RangeOf(g) = RangeOf(h) => g = h  BY <2>2, OneRangeEach
  <2>4. next = live \ {RangeOf(h)}  BY <2>1, <2>3
  <2>5. Abstract!Free(RangeOf(h))  BY <2>4 DEF Abstract!Free, RangeOf
  <2>6. QED  BY <2>5 DEF Abstract!Next, RangeOf
<1>3. ASSUME held' = {} PROVE Abstract!Next
  <2>1. next = {}  BY <1>3
  <2>2. QED  BY <2>1 DEF Abstract!Next, Abstract!Reset, RangeOf
<1>4. ASSUME held' = held PROVE next = live
  BY <1>4
<1>5. ASSUME NEW x \in Allocators, Reset(x) PROVE Abstract!Next
  BY <1>3, <1>5 DEF Reset
<1>6. ASSUME NEW x \in Allocators, NEW y \in Allocators, MoveAssign(x, y) PROVE Abstract!Next \/ next = live
  <2>1. held' = {} \/ held' = held  BY <1>6 DEF MoveAssign
  <2>2. QED  BY <1>3, <1>4, <2>1
<1>7. ASSUME NEW x \in Allocators, NEW b \in Requests,
             AllocateExhausted(x, b) \/ ResetMovedFrom(x) \/ MoveToItself(x)
      PROVE  next = live
  BY <1>4, <1>7 DEF AllocateExhausted, ResetMovedFrom, MoveToItself, heap_vars
<1>8. CASE UNCHANGED heap_vars  BY <1>4, <1>8 DEF heap_vars
<1>9. ASSUME NEW x \in Allocators, ResetMovedFrom(x) \/ MoveToItself(x) PROVE next = live
  BY <1>4, <1>9 DEF ResetMovedFrom, MoveToItself, heap_vars
<1> HIDE DEF live, next
<1>10. QED  BY <1>1, <1>2, <1>5, <1>6, <1>7, <1>8, <1>9 DEF HeapNext

(* HeapAllocator hands out only ranges that lie in the heap and overlap    *)
(* none that is held, never more than its limit, and takes each back whole.*)
THEOREM HeapImplementsRanges == HeapSpec => ImplementsRangeHeap
<1>1. HeapInit => Abstract!Init  BY HeapRefinesInit
<1>2. HeapIInv /\ [HeapNext]_heap_vars => [Abstract!Next]_{RangeOf(h) : h \in held}  BY HeapRefinesStep
<1>3. QED  BY <1>1, <1>2, HeapAlways, PTL DEF HeapSpec, ImplementsRangeHeap, Abstract!Spec, RangeOf

-----------------------------------------------------------------------------
(* The abstract heap keeps its ranges apart                                *)

RangesHeld == {RangeOf(h) : h \in held}

RangesApart(L) ==
  /\ L \subseteq [offset : Nat, size : Nat]
  /\ \A r \in L : r.size > 0 /\ r.offset + r.size <= capacity
  /\ \A r, s \in L : r # s => r.offset + r.size <= s.offset \/ s.offset + s.size <= r.offset

(* A range with a place to go disturbs none of those held.                 *)
LEMMA PlacedApart ==
  ASSUME NEW L, RangesApart(L), NEW size \in 1..capacity, NEW o \in 0..(capacity - size),
         \A r \in L : r.offset + r.size <= o \/ o + size <= r.offset
  PROVE  RangesApart(L \cup {[offset |-> o, size |-> size]})
<1> PICK new : new = [offset |-> o, size |-> size]  OBVIOUS
<1>1. capacity \in Nat  BY Constants
<1>2. new \in [offset : Nat, size : Nat] /\ new.offset = o /\ new.size = size  BY <1>1
<1>3. new.size > 0 /\ new.offset + new.size <= capacity  BY <1>1, <1>2
<1>4. \A r \in L : r.offset + r.size <= new.offset \/ new.offset + new.size <= r.offset  BY <1>2
<1>5. L \cup {new} \subseteq [offset : Nat, size : Nat]  BY <1>2 DEF RangesApart
<1>6. \A r \in L \cup {new} : r.size > 0 /\ r.offset + r.size <= capacity  BY <1>3 DEF RangesApart
<1>7. \A r, s \in L \cup {new} : r # s => r.offset + r.size <= s.offset \/ s.offset + s.size <= r.offset
  BY <1>4 DEF RangesApart
<1>8. QED  BY <1>5, <1>6, <1>7 DEF RangesApart

LEMMA AbstractStepApart ==
  RangesApart(RangesHeld) /\ [Abstract!Next]_RangesHeld => RangesApart(RangesHeld')
<1> SUFFICES ASSUME RangesApart(RangesHeld), [Abstract!Next]_RangesHeld PROVE RangesApart(RangesHeld')
  OBVIOUS
<1>1. ASSUME NEW size \in 1..capacity, Abstract!Allocate(size) PROVE RangesApart(RangesHeld')
  <2>1. PICK o \in Abstract!Placements(size) : RangesHeld' = RangesHeld \cup {[offset |-> o, size |-> size]}
    BY <1>1 DEF Abstract!Allocate, Abstract!Range, RangesHeld, RangeOf
  <2>2. o \in 0..(capacity - size) /\ \A r \in RangesHeld : r.offset + r.size <= o \/ o + size <= r.offset
    BY DEF Abstract!Placements, Abstract!Disjoint, Abstract!Range, RangesHeld, RangeOf
  <2>3. QED  BY <2>1, <2>2, PlacedApart
<1>2. CASE RangesHeld' \subseteq RangesHeld  BY <1>2 DEF RangesApart
<1>3. (\E r : Abstract!Free(r)) \/ Abstract!Reset => RangesHeld' \subseteq RangesHeld
  BY DEF Abstract!Free, Abstract!Reset, RangesHeld, RangeOf
<1>4. Abstract!Next => \/ \E size \in 1..capacity : Abstract!Allocate(size)
                       \/ \E r : Abstract!Free(r)
                       \/ Abstract!Reset
  BY DEF Abstract!Next
<1>5. QED  BY <1>1, <1>2, <1>3, <1>4

(***************************************************************************)
(* No two ranges of the abstract heap share an element, and none leaves    *)
(* it, whatever its capacity and its limit: what every allocator owes to   *)
(* its callers.                                                            *)
(***************************************************************************)
THEOREM DisjointForEveryCapacity == Abstract!Spec => []Abstract!RangesAreDisjoint
<1>1. Abstract!Init => RangesApart(RangesHeld)
  BY DEF Abstract!Init, RangesApart, RangesHeld, RangeOf
<1>2. RangesApart(RangesHeld) /\ [Abstract!Next]_RangesHeld => RangesApart(RangesHeld)'
  <2>1. RangesApart(RangesHeld)' <=> RangesApart(RangesHeld')  BY DEF RangesApart
  <2>2. QED  BY <2>1, AbstractStepApart
<1>3. RangesApart(RangesHeld) => Abstract!RangesAreDisjoint
  <2>1. Abstract!RangesAreDisjoint <=>
          /\ \A r \in RangesHeld : r.offset >= 0 /\ r.size > 0 /\ r.offset + r.size <= capacity
          /\ \A r, s \in RangesHeld : r # s => Abstract!Disjoint(r, s)
    BY DEF Abstract!RangesAreDisjoint, RangesHeld, RangeOf
  <2>2. ASSUME RangesApart(RangesHeld)
        PROVE  /\ \A r \in RangesHeld : r.offset >= 0 /\ r.size > 0 /\ r.offset + r.size <= capacity
               /\ \A r, s \in RangesHeld : r # s => Abstract!Disjoint(r, s)
    BY <2>2 DEF RangesApart, Abstract!Disjoint
  <2>3. QED  BY <2>1, <2>2
<1>4. QED  BY <1>1, <1>2, <1>3, PTL DEF Abstract!Spec, RangesHeld, RangeOf

(* The allocations that the callers of HeapAllocator hold lie in its       *)
(* storage and share no element of it.                                     *)
THEOREM AllocationsAreDisjoint == HeapSpec => []Abstract!RangesAreDisjoint
  BY HeapImplementsRanges, DisjointForEveryCapacity DEF ImplementsRangeHeap

-----------------------------------------------------------------------------
(* The memory heaps of GpuHeaps                                            *)

LEMMA MultipleRemainder ==
  ASSUME NEW k \in Nat, NEW d \in Nat \ {0}
  PROVE  (k * d) % d = 0
  BY SMT

(* align_up returns a multiple of the alignment, less than one alignment   *)
(* above the value.                                                        *)
LEMMA AlignUp ==
  ASSUME NEW value \in Nat, NEW unit \in Nat \ {0}
  PROVE  /\ align_up(value, unit) \in Nat
         /\ value <= align_up(value, unit)
         /\ align_up(value, unit) <= value + unit - 1
         /\ \E k \in Nat : align_up(value, unit) = k * unit
<1>1. PICK x \in Nat : x = value + unit - 1  BY SMT
<1>2. /\ x = (x \div unit) * unit + (x % unit)
      /\ x % unit \in 0 .. unit - 1 /\ x \div unit \in Nat
  BY Quotient
<1>3. align_up(value, unit) = (x \div unit) * unit  BY <1>1 DEF align_up
<1>4. (x \div unit) * unit \in Nat  BY <1>2
<1>5. value <= align_up(value, unit) /\ align_up(value, unit) <= value + unit - 1
  <2> DEFINE y == (x \div unit) * unit
             r == x % unit
  <2>1. x = y + r /\ r \in 0 .. unit - 1 /\ y \in Nat  BY <1>2, <1>4
  <2> HIDE DEF y, r
  <2>2. value <= y /\ y <= value + unit - 1  BY <1>1, <2>1
  <2>3. QED  BY <1>3, <2>2 DEF y
<1>6. \E k \in Nat : align_up(value, unit) = k * unit  BY <1>2, <1>3
<1>7. QED  BY <1>3, <1>4, <1>5, <1>6

(* A multiple of a multiple of d leaves no remainder.                      *)
LEMMA MultipleOfMultiple ==
  ASSUME NEW k \in Nat, NEW a \in Nat, NEW d \in Nat \ {0}, a % d = 0
  PROVE  (k * a) % d = 0
<1>1. PICK m \in Nat : m = a \div d  BY Quotient
<1>2. a = m * d  BY <1>1, Quotient
<1>3. k * a = (k * m) * d /\ k * m \in Nat  BY <1>2
<1>4. QED  BY <1>3, MultipleRemainder

-----------------------------------------------------------------------------
HeapOK(h) ==
  /\ h.kind \in Kinds /\ h.size \in Sizes
  /\ h.backing.address \in Nat
  /\ h.backing.size = BackingSize(h.kind, h.size)
  /\ h.gpu = RangeAddress(h.kind, h.backing.address)

BackingsApart(g, h) ==
  \/ g.backing.address + g.backing.size <= h.backing.address
  \/ h.backing.address + h.backing.size <= g.backing.address

HeapsIInv ==
  /\ device \in Devices
  /\ \A h \in heaps : HeapOK(h)
  /\ \A g, h \in heaps : g # h => BackingsApart(g, h)

(* The layout of a descriptor heap in numbers.                             *)
LEMMA LayoutFacts ==
  ASSUME device \in Devices, NEW kind \in DescriptorKinds, NEW size \in Sizes
  PROVE  /\ Layout(kind).heapAlignment \in Nat \ {0} /\ Layout(kind).reserved \in Nat
         /\ ReservedAlignment(kind) \in Nat \ {0}
         /\ AllocationAlignment(kind) \in Nat \ {0}
         /\ AllocationAlignment(kind) % Layout(kind).heapAlignment = 0
         /\ size \in Nat \ {0}
<1>1. LayoutOK(Layout(kind))  BY HeapsAssumption DEF Layout
<1>2. /\ Layout(kind).heapAlignment \in Nat \ {0} /\ Layout(kind).reserved \in Nat
      /\ ReservedAlignment(kind) \in Nat \ {0}
      /\ AllocationAlignment(kind) \in Nat \ {0}
  BY <1>1, HeapsAssumption DEF LayoutOK, ReservedAlignment, AllocationAlignment, Larger
<1>3. \/ gpu_allocation_alignment % Layout(kind).heapAlignment = 0
      \/ Layout(kind).heapAlignment > gpu_allocation_alignment
  BY HeapsAssumption DEF Layout
<1>4. Layout(kind).heapAlignment % Layout(kind).heapAlignment = 0
  BY <1>2, MultipleRemainder
<1>5. AllocationAlignment(kind) % Layout(kind).heapAlignment = 0
  BY <1>2, <1>3, <1>4, HeapsAssumption DEF AllocationAlignment, Larger
<1>6. QED  BY <1>2, <1>5, HeapsAssumption

(* A heap of either sort lies inside its backing, with all that is bound.  *)
LEMMA HeapInside ==
  ASSUME device \in Devices, NEW h, HeapOK(h)
  PROVE  Inside(h) /\ Extent(h) \in Nat /\ h.gpu \in Nat /\ h.backing.size \in Nat
<1>1. h.backing.address \in Nat /\ h.size \in Nat \ {0}  BY HeapsAssumption DEF HeapOK
<1>2. CASE h.kind \in DescriptorKinds
  <2> DEFINE reserved == align_up(h.size, ReservedAlignment(h.kind))
             A == AllocationAlignment(h.kind)
             R == Layout(h.kind).reserved
  <2>1. ReservedAlignment(h.kind) \in Nat \ {0} /\ A \in Nat \ {0} /\ R \in Nat
    BY <1>2, LayoutFacts DEF HeapOK
  <2>2. reserved \in Nat  BY <1>1, <2>1, AlignUp
  <2>3. /\ h.gpu \in Nat /\ h.backing.address <= h.gpu
        /\ h.gpu <= h.backing.address + A - 1
    BY <1>1, <1>2, <2>1, AlignUp DEF HeapOK, RangeAddress
  <2>4. Extent(h) = reserved + R  BY <1>2 DEF Extent, BindInfo
  <2>5. h.backing.size = reserved + R + A - 1
    BY <1>2 DEF HeapOK, BackingSize, BindSize, ReservedOffset
  <2> HIDE DEF reserved, A, R
  <2>6. QED  BY <1>1, <2>1, <2>2, <2>3, <2>4, <2>5 DEF Inside
<1>3. CASE h.kind \notin DescriptorKinds
  <2>1. h.gpu = h.backing.address /\ h.backing.size = h.size /\ Extent(h) = h.size
    BY <1>3 DEF HeapOK, RangeAddress, BackingSize, Extent
  <2>2. QED  BY <1>1, <2>1 DEF Inside
<1>4. QED  BY <1>2, <1>3

(* No heap exists at first, and every step keeps the backings apart.       *)
LEMMA InitHeaps == Init => HeapsIInv
  BY DEF Init, HeapsIInv

LEMMA NextHeaps == HeapsIInv /\ [Next]_vars => HeapsIInv'
<1> SUFFICES ASSUME HeapsIInv, [Next]_vars PROVE HeapsIInv'
  OBVIOUS
<1>1. CASE device' = device /\ heaps' \subseteq heaps
  BY <1>1 DEF HeapsIInv, HeapOK, BackingsApart, BackingSize, BindSize, ReservedOffset, ReservedAlignment,
              RangeAddress, AllocationAlignment, Layout
<1>2. ASSUME NEW kind \in Kinds, NEW size \in Sizes, create_gpu_heap(kind, size)
      PROVE  HeapsIInv'
  <2>1. PICK address \in 1 .. AddressLimit :
           /\ FreeAt(address, BackingSize(kind, size))
           /\ heaps' = heaps \cup {Heap(kind, size, address)}
    BY <1>2 DEF create_gpu_heap
  <2>2. device' = device /\ device \in Devices  BY <1>2 DEF create_gpu_heap, HeapsIInv
  <2> DEFINE n == Heap(kind, size, address)
  <2>3. HeapOK(n)
    BY HeapsAssumption DEF HeapOK, Heap
  <2>4. \A h \in heaps : BackingsApart(n, h) /\ BackingsApart(h, n)
    BY <2>1 DEF FreeAt, BackingsApart, Heap
  <2> HIDE DEF n
  <2>5. /\ \A h \in heaps' : HeapOK(h)
        /\ \A g, h \in heaps' : g # h => BackingsApart(g, h)
    BY <2>1, <2>3, <2>4 DEF HeapsIInv, n
  <2>6. QED
    BY <2>2, <2>5 DEF HeapsIInv, HeapOK, BackingsApart, BackingSize, BindSize, ReservedOffset,
                      ReservedAlignment, RangeAddress, AllocationAlignment, Layout
<1>3. CASE ProbeMemory  BY <1>1, <1>3 DEF ProbeMemory
<1>4. ASSUME NEW kind \in Kinds, NEW size \in Sizes, CreateAborts(kind, size)
      PROVE  HeapsIInv'
  BY <1>1, <1>4 DEF CreateAborts
<1>5. ASSUME NEW h \in heaps, destroy_gpu_heap(h)
      PROVE  HeapsIInv'
  BY <1>1, <1>5 DEF destroy_gpu_heap
<1>6. CASE UNCHANGED vars  BY <1>1, <1>6 DEF vars
<1>7. QED  BY <1>2, <1>3, <1>4, <1>5, <1>6 DEF Next

(* Whatever the driver's placement and the device's limits, the heaps and  *)
(* what is bound behind them stay in their backings and apart.             *)
THEOREM HeapsApart == Spec => []HeapsStayApart
<1>1. ASSUME HeapsIInv PROVE HeapsStayApart
  <2>1. \A h \in heaps : /\ Inside(h) /\ Extent(h) \in Nat /\ h.gpu \in Nat
                         /\ h.backing.size \in Nat /\ h.backing.address \in Nat
    BY <1>1, HeapInside DEF HeapsIInv, HeapOK
  <2>2. ASSUME NEW g \in heaps, NEW h \in heaps, g # h PROVE Apart(g, h)
    <3>1. BackingsApart(g, h)  BY <1>1, <2>2 DEF HeapsIInv
    <3>2. QED  BY <2>1, <3>1 DEF BackingsApart, Inside, Apart
  <2>3. QED  BY <2>1, <2>2 DEF HeapsStayApart
<1>2. Spec => []HeapsIInv  BY InitHeaps, NextHeaps, PTL DEF Spec
<1>3. QED  BY <1>1, <1>2, PTL

(* A descriptor heap is bound at an address and with a reserved range      *)
(* aligned as the device asks, the reserved bytes behind the caller's.     *)
THEOREM BindsLegal == Spec => []BindsAreLegal
<1>1. ASSUME HeapsIInv PROVE BindsAreLegal
  <2> SUFFICES ASSUME NEW h \in heaps, h.kind \in DescriptorKinds PROVE BindOK(h)
    BY DEF BindsAreLegal
  <2>1. device \in Devices /\ HeapOK(h)  BY <1>1 DEF HeapsIInv
  <2> DEFINE D == ReservedAlignment(h.kind)
             A == AllocationAlignment(h.kind)
             L == Layout(h.kind)
             offset == align_up(h.size, D)
  <2>2. /\ L.heapAlignment \in Nat \ {0} /\ L.reserved \in Nat
        /\ D \in Nat \ {0} /\ A \in Nat \ {0} /\ A % L.heapAlignment = 0
        /\ h.size \in Nat \ {0} /\ h.backing.address \in Nat
    BY <2>1, LayoutFacts DEF HeapOK
  <2>3. BindInfo(h) = [address |-> h.gpu, size |-> offset + L.reserved, reservedRangeOffset |-> offset]
    BY DEF BindInfo
  <2>4. h.gpu = align_up(h.backing.address, A)  BY <2>1 DEF HeapOK, RangeAddress
  <2> HIDE DEF D, A, L, offset
  <2>5. h.gpu % L.heapAlignment = 0
    <3>1. PICK k \in Nat : h.gpu = k * A  BY <2>2, <2>4, AlignUp
    <3>2. (k * A) % L.heapAlignment = 0  BY <2>2, MultipleOfMultiple
    <3>3. QED  BY <3>1, <3>2
  <2>6. offset \in Nat /\ h.size <= offset /\ offset % D = 0
    <3>1. /\ offset \in Nat /\ h.size <= offset
          /\ \E k \in Nat : offset = k * D
      BY <2>2, AlignUp DEF offset
    <3>2. QED  BY <2>2, <3>1, MultipleRemainder
  <2>7. QED  BY <2>2, <2>3, <2>5, <2>6 DEF BindOK, D, L
<1>2. Spec => []HeapsIInv  BY InitHeaps, NextHeaps, PTL DEF Spec
<1>3. QED  BY <1>1, <1>2, PTL

-----------------------------------------------------------------------------
(***************************************************************************)
(* find_memory_type fails only when no type qualifies. A least number of   *)
(* iterations without a value, or after which the loop has nothing though  *)
(* it has seen a type that qualifies, would follow one that is right.      *)
(***************************************************************************)
LEMMA LeastNumber ==
  ASSUME NEW S \in SUBSET Nat, S # {}
  PROVE  \E x \in S : \A y \in S : x <= y
<1>1. PICK x \in S : \A y \in S : ~(<<y, x>> \in OpToRel(<, Nat))
  <2> DEFINE R == OpToRel(<, Nat)
  <2>1. IsWellFoundedOn(R, Nat)  BY NatLessThanWellFounded
  <2> HIDE DEF R
  <2>2. \E x \in S : \A y \in S : ~(<<y, x>> \in R)  BY <2>1, WFMin
  <2>3. QED  BY <2>2 DEF R
<1>2. \A y \in S : ~(<<y, x>> \in {ss \in Nat \X Nat : ss[1] < ss[2]})
  BY <1>1 DEF OpToRel
<1>3. ASSUME NEW y \in S  PROVE x <= y
  <2>1. x \in Nat /\ y \in Nat  OBVIOUS
  <2>2. SUFFICES ASSUME y < x PROVE FALSE  BY <2>1
  <2> DEFINE p == <<y, x>>
  <2>3. p \in Nat \X Nat /\ p[1] = y /\ p[2] = x  BY <2>1
  <2>4. p \in {ss \in Nat \X Nat : ss[1] < ss[2]}  BY <2>2, <2>3
  <2>5. QED  BY <1>2, <2>4
<1>4. QED  BY <1>3

Bests(d, q, f, last) == f = [k \in 0..last |-> IF k = 0 THEN none ELSE Scanned(d, q, k - 1, f[k - 1])]

LEMMA BestsExist ==
  ASSUME NEW d, NEW q, NEW last \in Nat
  PROVE  \E f : Bests(d, q, f, last)
<1> DEFINE Without == {k \in Nat : ~ \E f : Bests(d, q, f, k)}
<1>1. SUFFICES ASSUME Without # {} PROVE FALSE  OBVIOUS
<1>2. PICK m \in Without : \A k \in Without : m <= k
  <2>1. Without \in SUBSET Nat  OBVIOUS
  <2> HIDE DEF Without
  <2>2. QED  BY <1>1, <2>1, LeastNumber
<1>3. CASE m = 0
  <2> DEFINE f == [k \in 0..0 |-> none]
  <2>1. f = [k \in 0..0 |-> IF k = 0 THEN none ELSE Scanned(d, q, k - 1, f[k - 1])]
    <3>1. \A k \in 0..0 : k = 0  OBVIOUS
    <3>2. QED  BY <3>1
  <2>2. Bests(d, q, f, 0)  BY <2>1 DEF Bests
  <2>3. QED  BY <2>2, <1>2, <1>3
<1>4. CASE m # 0
  <2>1. m \in Nat /\ m - 1 \in Nat /\ m - 1 \notin Without
    <3>1. m \in Nat /\ m - 1 \in Nat /\ ~(m <= m - 1)  BY <1>2, <1>4
    <3>2. QED  BY <1>2, <3>1
  <2>2. PICK f : Bests(d, q, f, m - 1)  BY <2>1
  <2> DEFINE g == [k \in 0..m |-> IF k = m THEN Scanned(d, q, m - 1, f[m - 1]) ELSE f[k]]
  <2>3. ASSUME NEW k \in 0..m
        PROVE  g[k] = IF k = 0 THEN none ELSE Scanned(d, q, k - 1, g[k - 1])
    <3>1. CASE k = 0
      <4>1. g[k] = f[0] /\ 0 \in 0..(m - 1)  BY <2>1, <3>1, <1>4
      <4>2. f[0] = none  BY <2>2, <4>1 DEF Bests
      <4>3. QED  BY <3>1, <4>1, <4>2
    <3>2. CASE k = m
      <4>1. g[k] = Scanned(d, q, m - 1, f[m - 1]) /\ g[m - 1] = f[m - 1]  BY <2>1, <3>2
      <4>2. QED  BY <3>2, <4>1, <1>4
    <3>3. CASE k # 0 /\ k # m
      <4>1. k \in 0..(m - 1) /\ g[k] = f[k] /\ g[k - 1] = f[k - 1]  BY <2>1, <3>3
      <4>2. f[k] = Scanned(d, q, k - 1, f[k - 1])  BY <2>2, <3>3, <4>1 DEF Bests
      <4>3. QED  BY <3>3, <4>1, <4>2
    <3>4. QED  BY <3>1, <3>2, <3>3
  <2>4. g = [k \in 0..m |-> IF k = 0 THEN none ELSE Scanned(d, q, k - 1, g[k - 1])]
    <3>1. g = [k \in 0..m |-> g[k]]  OBVIOUS
    <3> HIDE DEF g
    <3>2. QED  BY <2>3, <3>1
  <2>5. Bests(d, q, g, m)  BY <2>4 DEF Bests
  <2>6. QED  BY <2>5, <1>2
<1>5. QED  BY <1>3, <1>4

LEMMA NoneMeansNone ==
  ASSUME NEW d, NEW q
  PROVE  find_memory_type(d, q) = none <=> \A t \in Types : ~Qualifies(d, q, t)
<1> PICK c \in Nat : c = memory_type_count  BY MemoryAssumption
<1> DEFINE f == CHOOSE f : Bests(d, q, f, c)
<1>1. Bests(d, q, f, c)  BY BestsExist
<1>2. find_memory_type(d, q) = f[c]  BY DEF find_memory_type, Bests
<1> HIDE DEF f
<1>3. f[0] = none /\ \A k \in 1..c : f[k] = Scanned(d, q, k - 1, f[k - 1])  BY <1>1 DEF Bests
<1> DEFINE Right(k) == f[k] = none <=> \A t \in 0..(k - 1) : ~Qualifies(d, q, t)
           Wrong == {k \in 0..c : ~Right(k)}
<1>4. Right(0)
  <2>1. \A t \in 0..(0 - 1) : FALSE  OBVIOUS
  <2>2. QED  BY <1>3, <2>1
<1>5. ASSUME NEW k \in 1..c, Right(k - 1)  PROVE Right(k)
  <2>1. \A t \in 0..(k - 1) : t \in 0..(k - 2) \/ t = k - 1  OBVIOUS
  <2>2. (k - 1) - 1 = k - 2 /\ k - 1 \in 0..(k - 1) /\ \A t \in 0..(k - 2) : t \in 0..(k - 1)  OBVIOUS
  <2>3. f[k] = Scanned(d, q, k - 1, f[k - 1]) /\ k - 1 # none  BY <1>3 DEF none
  <2>4. f[k - 1] = none <=> \A t \in 0..(k - 2) : ~Qualifies(d, q, t)  BY <1>5, <2>2
  <2> HIDE DEF Right, Wrong
  <2>5. CASE Qualifies(d, q, k - 1)
    <3>1. f[k] # none  BY <2>3, <2>5 DEF Scanned, Improves
    <3>2. QED  BY <2>2, <2>5, <3>1 DEF Right
  <2>6. CASE ~Qualifies(d, q, k - 1)
    <3>1. f[k] = f[k - 1]  BY <2>3, <2>6 DEF Scanned
    <3>2. QED  BY <2>1, <2>2, <2>4, <2>6, <3>1 DEF Right
  <2>7. QED  BY <2>5, <2>6
<1>6. Wrong = {}
  <2>1. SUFFICES ASSUME Wrong # {} PROVE FALSE  OBVIOUS
  <2>2. PICK m \in Wrong : \A k \in Wrong : m <= k
    <3>1. Wrong \in SUBSET Nat  OBVIOUS
    <3> HIDE DEF Wrong
    <3>2. QED  BY <2>1, <3>1, LeastNumber
  <2> HIDE DEF Right
  <2>3. m \in 1..c /\ m - 1 \in 0..c  BY <2>2, <1>4
  <2>4. m - 1 \notin Wrong  BY <2>2, <2>3
  <2>5. Right(m - 1)  BY <2>3, <2>4
  <2>6. Right(m)  BY <1>5, <2>3, <2>5
  <2>7. QED  BY <2>2, <2>6
<1>7. Right(c)
  <2> HIDE DEF Right
  <2>1. c \in 0..c  OBVIOUS
  <2>2. QED  BY <1>6, <2>1
<1>8. QED  BY <1>2, <1>7 DEF Types

(* What was probed still has a memory type.                                *)
Probed == state \in {"supported", "aborted"} => supports_gpu_heap_memory

LEMMA ProbedStays ==
  ASSUME Probed, [Next]_vars
  PROVE  Probed'
<1>1. device' = device
  BY DEF Next, vars, ProbeMemory, create_gpu_heap, CreateAborts, destroy_gpu_heap
<1>2. supports_gpu_heap_memory' = supports_gpu_heap_memory
  BY <1>1 DEF supports_gpu_heap_memory, Find, Query, RequiredSize
<1>3. \/ state' = state
      \/ state' = "aborted" /\ state = "supported"
      \/ state' = IF supports_gpu_heap_memory THEN "supported" ELSE "unsupported"
  BY DEF Next, vars, ProbeMemory, create_gpu_heap, CreateAborts, destroy_gpu_heap
<1>4. QED  BY <1>2, <1>3 DEF Probed

(* A type that qualifies for one byte fits but for its size.               *)
LEMMA FoundFits ==
  ASSUME NEW usage, NEW required, NEW preferred, NEW avoided,
         Find(usage, 1, required, preferred, avoided) # none
  PROVE  {t \in device.bits[usage] :
            required \subseteq Flags(device, t) /\ is_usable_memory_type(device, t)} # {}
<1> DEFINE q == Query(usage, 1, required, preferred, avoided)
<1>1. PICK t \in Types : Qualifies(device, q, t)  BY NoneMeansNone DEF Find
<1>2. q.bits = device.bits[usage] /\ q.required = required  BY DEF Query
<1> HIDE DEF q
<1>3. t \in device.bits[usage] /\ required \subseteq Flags(device, t) /\ is_usable_memory_type(device, t)
  BY <1>1, <1>2 DEF Qualifies
<1>4. QED  BY <1>3

(* On a device create_device accepts, making a heap of any kind and size   *)
(* fails only for want of a memory heap that is large enough.              *)
THEOREM AbortsAreJustified == Spec => []AbortsOnlyWhenTooLarge
<1>1. ASSUME HeapsIInv, Probed PROVE AbortsOnlyWhenTooLarge
  <2> SUFFICES ASSUME state \in {"supported", "aborted"}, NEW kind \in Kinds, NEW size \in Sizes,
                      MemoryTypeOf(kind, size) = none
               PROVE  TooLarge(kind, size)
    BY DEF AbortsOnlyWhenTooLarge
  <2> DEFINE usage == Usage(kind)
             minimum == RequiredSize(usage, BackingSize(kind, size))
             fitting == {t \in device.bits[usage] :
                           RequiredFlags(kind) \subseteq Flags(device, t) /\ is_usable_memory_type(device, t)}
             q == Query(usage, BackingSize(kind, size), RequiredFlags(kind), PreferredFlags(kind),
                        AvoidedFlags(kind))
  <2>1. supports_gpu_heap_memory  BY <1>1 DEF Probed
  <2>2. fitting # {}
    <3>1. CASE kind \in DescriptorKinds
      <4>1. usage = "descriptor" /\ RequiredFlags(kind) = cpu_visible_memory_properties
        BY <3>1 DEF Usage, RequiredFlags, DescriptorKinds
      <4>2. QED  BY <2>1, <4>1, FoundFits DEF supports_gpu_heap_memory
    <3>2. CASE kind = "gpu_only"
      <4>1. usage = "universal" /\ RequiredFlags(kind) = {"DEVICE_LOCAL"}
        BY <3>2 DEF Usage, RequiredFlags, DescriptorKinds
      <4>2. QED  BY <2>1, <4>1, FoundFits DEF supports_gpu_heap_memory
    <3>3. CASE kind \in {"cpu_visible", "readback"}
      <4>1. usage = "universal" /\ RequiredFlags(kind) = cpu_visible_memory_properties
        BY <3>3 DEF Usage, RequiredFlags, DescriptorKinds
      <4>2. QED  BY <2>1, <4>1, FoundFits DEF supports_gpu_heap_memory
    <3>4. QED  BY <3>1, <3>2, <3>3 DEF Kinds, OrdinaryKinds
  <2>3. \A t \in Types : ~Qualifies(device, q, t)
    BY NoneMeansNone DEF MemoryTypeOf, Find
  <2>4. q.bits = device.bits[usage] /\ q.required = RequiredFlags(kind) /\ q.minimum = minimum
    BY DEF Query
  <2>5. device.bits[usage] \subseteq Types /\ DeviceOK(device)
    <3>1. device \in Devices /\ usage \in Usages  BY <1>1 DEF HeapsIInv, Usage, Usages
    <3>2. QED  BY <3>1, HeapsAssumption
  <2>6. minimum \in Nat
    <3>1. BackingSize(kind, size) \in Nat
      <4>1. size \in Nat \ {0}  BY HeapsAssumption
      <4>2. CASE kind \in DescriptorKinds
        <5>1. /\ Layout(kind).reserved \in Nat /\ ReservedAlignment(kind) \in Nat \ {0}
              /\ AllocationAlignment(kind) \in Nat \ {0}
          BY <1>1, <4>2, LayoutFacts DEF HeapsIInv
        <5>2. align_up(size, ReservedAlignment(kind)) \in Nat  BY <4>1, <5>1, AlignUp
        <5>3. QED  BY <4>2, <5>1, <5>2 DEF BackingSize, BindSize, ReservedOffset
      <4>3. CASE kind \notin DescriptorKinds  BY <4>1, <4>3 DEF BackingSize
      <4>4. QED  BY <4>2, <4>3
    <3>2. device \in Devices /\ usage \in Usages  BY <1>1 DEF HeapsIInv, Usage, Usages
    <3>3. device.granularity[usage] \in Nat \ {0}  BY <3>2, HeapsAssumption
    <3>4. QED  BY <3>1, <3>3, AlignUp DEF RequiredSize
  <2> HIDE DEF usage, minimum, q
  <2>7. ASSUME NEW t \in fitting  PROVE HeapSize(device, t) < minimum
    <3>1. t \in Types /\ ~Qualifies(device, q, t)  BY <2>3, <2>5
    <3>2. ~(HeapSize(device, t) >= minimum)  BY <2>4, <3>1 DEF Qualifies
    <3>3. HeapSize(device, t) \in Nat  BY <2>5, <3>1 DEF DeviceOK, HeapSize
    <3>4. QED  BY <2>6, <3>2, <3>3
  <2>8. QED  BY <2>2, <2>7 DEF TooLarge, usage, minimum
<1>2. Init => HeapsIInv /\ Probed  BY InitHeaps DEF Init, Probed
<1>3. HeapsIInv /\ Probed /\ [Next]_vars => HeapsIInv' /\ Probed'  BY NextHeaps, ProbedStays
<1>4. QED  BY <1>1, <1>2, <1>3, PTL DEF Spec

-----------------------------------------------------------------------------
(* Functions that the loops compute, and induction over their steps        *)

LEMMA StepByStep ==
  ASSUME NEW c \in Nat, NEW Good, 0 \in Good, \A k \in 1..c : k - 1 \in Good => k \in Good
  PROVE  \A k \in 0..c : k \in Good
<1> DEFINE Bad == {k \in 0..c : k \notin Good}
<1>1. SUFFICES ASSUME Bad # {} PROVE FALSE  OBVIOUS
<1>2. PICK m \in Bad : \A k \in Bad : m <= k
  <2>1. Bad \in SUBSET Nat  OBVIOUS
  <2> HIDE DEF Bad
  <2>2. QED  BY <1>1, <2>1, LeastElement
<1>3. m \in 1..c /\ m - 1 \in 0..c /\ ~(m <= m - 1) /\ m \notin Good  BY <1>2
<1>4. m - 1 \notin Bad  BY <1>2, <1>3
<1>5. QED  BY <1>3, <1>4

(* The states of a loop: step k takes the state before it to the next.     *)
Steps(g, start, step, last) == g = [k \in 0..last |-> IF k = 0 THEN start ELSE step[k][g[k - 1]]]

LEMMA StepsExist ==
  ASSUME NEW start, NEW step, NEW last \in Nat
  PROVE  \E g : Steps(g, start, step, last)
<1> DEFINE Good == {n \in Nat : \E g : Steps(g, start, step, n)}
<1>1. 0 \in Good
  <2> PICK f : f = [k \in 0..0 |-> start]  OBVIOUS
  <2>1. \A k \in 0..0 : k = 0  OBVIOUS
  <2>2. f = [k \in 0..0 |-> IF k = 0 THEN start ELSE step[k][f[k - 1]]]  BY <2>1
  <2>3. QED  BY <2>2 DEF Steps
<1>2. ASSUME NEW m \in 1..last, m - 1 \in Good  PROVE m \in Good
  <2>1. m \in Nat /\ m # 0 /\ m - 1 \in Nat  OBVIOUS
  <2>2. PICK f : Steps(f, start, step, m - 1)  BY <1>2
  <2> PICK g : g = [n \in 0..m |-> IF n = m THEN step[m][f[m - 1]] ELSE f[n]]  OBVIOUS
  <2>3. ASSUME NEW n \in 0..m  PROVE g[n] = IF n = 0 THEN start ELSE step[n][g[n - 1]]
    <3>1. CASE n = 0
      <4>1. g[n] = f[0] /\ 0 \in 0..(m - 1)  BY <2>1, <3>1
      <4>2. f[0] = start  BY <2>2, <4>1 DEF Steps
      <4>3. QED  BY <3>1, <4>1, <4>2
    <3>2. CASE n = m
      <4>1. g[n] = step[m][f[m - 1]] /\ g[m - 1] = f[m - 1]  BY <2>1, <3>2
      <4>2. QED  BY <2>1, <3>2, <4>1
    <3>3. CASE n # 0 /\ n # m
      <4>1. n \in 0..(m - 1) /\ g[n] = f[n] /\ g[n - 1] = f[n - 1]  BY <2>1, <3>3
      <4>2. f[n] = step[n][f[n - 1]]  BY <2>2, <3>3, <4>1 DEF Steps
      <4>3. QED  BY <3>3, <4>1, <4>2
    <3>4. QED  BY <3>1, <3>2, <3>3
  <2>4. g = [n \in 0..m |-> IF n = 0 THEN start ELSE step[n][g[n - 1]]]
    <3>1. g = [n \in 0..m |-> g[n]]  OBVIOUS
    <3>2. QED  BY <2>3, <3>1
  <2>5. Steps(g, start, step, m)  BY <2>4 DEF Steps
  <2>6. QED  BY <2>1, <2>5
<1> HIDE DEF Good
<1>3. \A k \in 0..last : k \in Good  BY <1>1, <1>2, StepByStep
<1>4. last \in 0..last  OBVIOUS
<1>5. QED  BY <1>3, <1>4 DEF Good

-----------------------------------------------------------------------------
(* The list of textures that await their first transition: the sequence of *)
(* them, in the order of their creation, is threaded through them.         *)

ImageOrNone == Images \cup {NoImage}
LinksOfOne == [previous : ImageOrNone, next : ImageOrNone, owned : BOOLEAN]
ImageAt(q, k) == IF k \in 1..Len(q) THEN q[k] ELSE NoImage
OnList(q) == {q[k] : k \in 1..Len(q)}
Injective(q) == \A j, k \in 1..Len(q) : q[j] = q[k] => j = k
Between(q, k) == [previous |-> ImageAt(q, k - 1), next |-> ImageAt(q, k + 1), owned |-> TRUE]

Threaded(l, q) ==
  /\ q \in Seq(Images) /\ Injective(q)
  /\ l \in Lists
  /\ l.first = ImageAt(q, 1) /\ l.last = ImageAt(q, Len(q))
  /\ \A k \in 1..Len(q) : l.links[q[k]] = Between(q, k)
  /\ \A i \in Images \ OnList(q) : l.links[i] = Detached

LEMMA ImageAtType ==
  ASSUME NEW q \in Seq(Images), NEW k \in Int
  PROVE  ImageAt(q, k) \in ImageOrNone /\ (ImageAt(q, k) # NoImage <=> k \in 1..Len(q))
  BY ImagesAssumption DEF ImageAt, ImageOrNone

LEMMA ListOfNone == Threaded(EmptyList, <<>>)
<1>1. <<>> \in Seq(Images) /\ Len(<<>>) = 0 /\ Injective(<<>>)  BY DEF Injective
<1>2. Detached \in LinksOfOne  BY DEF Detached, LinksOfOne, ImageOrNone
<1>3. EmptyList \in Lists  BY <1>2 DEF EmptyList, Lists, LinksOfOne, ImageOrNone
<1>4. EmptyList.first = NoImage /\ EmptyList.last = NoImage /\ \A i \in Images : EmptyList.links[i] = Detached
  BY DEF EmptyList
<1>5. \A k \in Int : ImageAt(<<>>, k) = NoImage  BY <1>1 DEF ImageAt
<1>6. QED  BY <1>1, <1>3, <1>4, <1>5 DEF Threaded

LEMMA WithLinkFields ==
  ASSUME NEW links \in [Images -> LinksOfOne], NEW i \in ImageOrNone, NEW target \in ImageOrNone
  PROVE  /\ WithLink(links, i, "next", target) \in [Images -> LinksOfOne]
         /\ \A m \in Images : WithLink(links, i, "next", target)[m] =
              [previous |-> links[m].previous, next |-> IF m = i THEN target ELSE links[m].next,
               owned |-> links[m].owned]
         /\ WithLink(links, i, "previous", target) \in [Images -> LinksOfOne]
         /\ \A m \in Images : WithLink(links, i, "previous", target)[m] =
              [previous |-> IF m = i THEN target ELSE links[m].previous, next |-> links[m].next,
               owned |-> links[m].owned]
<1>1. \A m \in Images : links[m] = [previous |-> links[m].previous, next |-> links[m].next,
                                    owned |-> links[m].owned]
  BY DEF LinksOfOne
<1>2. CASE i = NoImage
  <2>1. \A m \in Images : m # i  BY <1>2, ImagesAssumption
  <2>2. WithLink(links, i, "next", target) = links /\ WithLink(links, i, "previous", target) = links
    BY <1>2 DEF WithLink
  <2>3. QED  BY <1>1, <2>1, <2>2
<1>3. CASE i \in Images
  <2>1. i # NoImage  BY <1>3, ImagesAssumption
  <2>2. /\ WithLink(links, i, "next", target) = [links EXCEPT ![i] = [links[i] EXCEPT !.next = target]]
        /\ WithLink(links, i, "previous", target)
             = [links EXCEPT ![i] = [links[i] EXCEPT !.previous = target]]
    BY <1>3, <2>1 DEF WithLink
  <2>3. links[i] \in LinksOfOne  BY <1>3
  <2>4. /\ [links[i] EXCEPT !.next = target]
             = [previous |-> links[i].previous, next |-> target, owned |-> links[i].owned]
        /\ [links[i] EXCEPT !.previous = target]
             = [previous |-> target, next |-> links[i].next, owned |-> links[i].owned]
    BY <2>3 DEF LinksOfOne
  <2>5. /\ [links[i] EXCEPT !.next = target] \in LinksOfOne
        /\ [links[i] EXCEPT !.previous = target] \in LinksOfOne
    BY <2>3, <2>4 DEF LinksOfOne
  <2>6. /\ WithLink(links, i, "next", target) \in [Images -> LinksOfOne]
        /\ WithLink(links, i, "previous", target) \in [Images -> LinksOfOne]
    BY <2>2, <2>5
  <2>7. QED  BY <1>1, <1>3, <2>2, <2>4, <2>6
<1>4. QED  BY <1>2, <1>3 DEF ImageOrNone

(* Textures are appended at the end                                        *)
LEMMA AppendThreads ==
  ASSUME NEW l, NEW q, Threaded(l, q), NEW i \in Images \ OnList(q)
  PROVE  Threaded(append_texture_initialization(l, i), Append(q, i))
<1> PICK n \in Nat : n = Len(q)  BY DEF Threaded
<1> PICK r : r = append_texture_initialization(l, i)  OBVIOUS
<1> PICK w : w = Append(q, i)  OBVIOUS
<1>1. /\ q \in Seq(Images) /\ Injective(q) /\ l \in Lists /\ l.first = ImageAt(q, 1) /\ l.last = ImageAt(q, n)
      /\ l.links \in [Images -> LinksOfOne]
  BY DEF Threaded, Lists, LinksOfOne, ImageOrNone
<1>2. w \in Seq(Images) /\ Len(w) = n + 1 /\ w[n + 1] = i /\ \A k \in 1..n : w[k] = q[k] /\ q[k] # i
  BY <1>1 DEF OnList
<1>3. l.last \in ImageOrNone  BY <1>1, ImageAtType
<1> DEFINE around == WithLink(l.links, l.last, "next", i)
<1>4. /\ around \in [Images -> LinksOfOne]
      /\ \A m \in Images : around[m] = [previous |-> l.links[m].previous,
                                        next |-> IF m = l.last THEN i ELSE l.links[m].next,
                                        owned |-> l.links[m].owned]
  <2>1. i \in ImageOrNone /\ l.last \in ImageOrNone /\ l.links \in [Images -> LinksOfOne]
    BY <1>1, <1>3 DEF ImageOrNone
  <2>2. QED  BY <2>1, WithLinkFields
<1>5. /\ r.first = IF l.last = NoImage THEN i ELSE l.first
      /\ r.last = i
      /\ r.links = [around EXCEPT ![i] = [previous |-> l.last, next |-> NoImage, owned |-> TRUE]]
      /\ r = [first |-> r.first, last |-> r.last, links |-> r.links]
  BY DEF append_texture_initialization
<1> HIDE DEF around
<1>6. r \in Lists
  <2>1. [previous |-> l.last, next |-> NoImage, owned |-> TRUE] \in LinksOfOne
    BY <1>3 DEF LinksOfOne, ImageOrNone
  <2>2. r.links \in [Images -> LinksOfOne]  BY <1>4, <1>5, <2>1
  <2>3. r.first \in ImageOrNone /\ r.last \in ImageOrNone  BY <1>1, <1>5, ImageAtType DEF ImageOrNone
  <2>4. QED  BY <1>5, <2>2, <2>3 DEF Lists, LinksOfOne, ImageOrNone
<1>7. Injective(w)
  <2>1. SUFFICES ASSUME NEW j \in 1..(n + 1), NEW k \in 1..(n + 1), w[j] = w[k] PROVE j = k
    BY <1>2 DEF Injective
  <2>2. CASE j \in 1..n /\ k \in 1..n  BY <1>1, <1>2, <2>1, <2>2 DEF Injective
  <2>3. CASE j \in 1..n /\ k = n + 1  BY <1>2, <2>1, <2>3
  <2>4. CASE j = n + 1 /\ k \in 1..n  BY <1>2, <2>1, <2>4
  <2>5. QED  BY <2>2, <2>3, <2>4
<1>8. /\ \A k \in Int : k <= n => ImageAt(w, k) = ImageAt(q, k)
      /\ ImageAt(w, n + 1) = i /\ ImageAt(w, n + 2) = NoImage
  BY <1>2 DEF ImageAt
<1>9. r.first = ImageAt(w, 1)
  <2>1. CASE n = 0
    <3>1. l.last = NoImage  BY <1>1, <2>1 DEF ImageAt
    <3>2. QED  BY <1>5, <1>8, <2>1, <3>1
  <2>2. CASE n # 0
    <3>1. n \in 1..n /\ 1 <= n  BY <2>2
    <3>2. l.last # NoImage  BY <1>1, <3>1, ImageAtType
    <3>3. QED  BY <1>1, <1>5, <1>8, <3>1, <3>2
  <2>3. QED  BY <2>1, <2>2
<1>10. r.last = ImageAt(w, Len(w))  BY <1>2, <1>5, <1>8
<1>11. \A m \in Images : r.links[m] = IF m = i THEN [previous |-> l.last, next |-> NoImage, owned |-> TRUE]
                                      ELSE around[m]
  BY <1>4, <1>5
<1>12. ASSUME NEW k \in 1..(n + 1)  PROVE r.links[w[k]] = Between(w, k)
  <2>1. CASE k = n + 1
    <3>1. r.links[w[k]] = [previous |-> l.last, next |-> NoImage, owned |-> TRUE]  BY <1>2, <1>11, <2>1
    <3>2. ImageAt(w, k - 1) = l.last /\ ImageAt(w, k + 1) = NoImage  BY <1>1, <1>8, <2>1
    <3>3. QED  BY <3>1, <3>2 DEF Between
  <2>2. CASE k \in 1..n
    <3>1. w[k] = q[k] /\ q[k] # i /\ q[k] \in Images  BY <1>1, <1>2, <2>2
    <3>2. l.links[q[k]] = Between(q, k)  BY <2>2 DEF Threaded
    <3>3. r.links[w[k]] = [previous |-> ImageAt(q, k - 1),
                           next |-> IF q[k] = l.last THEN i ELSE ImageAt(q, k + 1), owned |-> TRUE]
      <4>1. r.links[w[k]] = around[q[k]]  BY <1>11, <3>1
      <4>2. around[q[k]] = [previous |-> l.links[q[k]].previous,
                            next |-> IF q[k] = l.last THEN i ELSE l.links[q[k]].next,
                            owned |-> l.links[q[k]].owned]
        BY <1>4, <3>1
      <4>3. /\ l.links[q[k]].previous = ImageAt(q, k - 1) /\ l.links[q[k]].next = ImageAt(q, k + 1)
            /\ l.links[q[k]].owned = TRUE
        BY <3>2 DEF Between
      <4>4. QED  BY <4>1, <4>2, <4>3
    <3>4. ImageAt(w, k - 1) = ImageAt(q, k - 1)  BY <1>8, <2>2
    <3>5. CASE k = n
      <4>1. q[k] = l.last  BY <1>1, <2>2, <3>5 DEF ImageAt
      <4>2. QED  BY <1>8, <3>3, <3>4, <3>5, <4>1 DEF Between
    <3>6. CASE k # n
      <4>1. n \in 1..n /\ k + 1 <= n  BY <2>2, <3>6
      <4>2. l.last = q[n]  BY <1>1, <4>1 DEF ImageAt
      <4>3. q[k] # l.last  BY <1>1, <2>2, <3>6, <4>1, <4>2 DEF Injective
      <4>4. ImageAt(w, k + 1) = ImageAt(q, k + 1)  BY <1>8, <2>2, <4>1
      <4>5. QED  BY <3>3, <3>4, <4>3, <4>4 DEF Between
    <3>7. QED  BY <3>5, <3>6
  <2>3. QED  BY <2>1, <2>2
<1>13. ASSUME NEW m \in Images \ OnList(w)  PROVE r.links[m] = Detached
  <2>1. m # i /\ m \notin OnList(q)
    <3>1. \A k \in 1..n : k \in 1..(n + 1)  OBVIOUS
    <3>2. n + 1 \in 1..(n + 1)  OBVIOUS
    <3>3. QED  BY <1>2, <3>1, <3>2 DEF OnList
  <2>2. l.links[m] = Detached  BY <2>1 DEF Threaded
  <2>3. m # l.last  BY <1>1, <2>1, ImagesAssumption DEF ImageAt, OnList
  <2>4. QED  BY <1>4, <1>11, <2>1, <2>2, <2>3 DEF Detached
<1>14. Threaded(r, w)  BY <1>2, <1>6, <1>7, <1>9, <1>10, <1>12, <1>13 DEF Threaded
<1>15. QED  BY <1>14

Without(q, p) == [k \in 1..(Len(q) - 1) |-> IF k < p THEN q[k] ELSE q[k + 1]]

(* A sequence without one of its elements                                  *)
LEMMA WithoutOne ==
  ASSUME NEW q \in Seq(Images), Injective(q), NEW p \in 1..Len(q)
  PROVE  /\ Without(q, p) \in Seq(Images) /\ Len(Without(q, p)) = Len(q) - 1
         /\ Injective(Without(q, p)) /\ OnList(Without(q, p)) = OnList(q) \ {q[p]}
<1> PICK n \in Nat : n = Len(q)  OBVIOUS
<1> PICK w : w = Without(q, p)  OBVIOUS
<1>1. n - 1 \in Nat /\ \A k \in 1..n : q[k] \in Images  OBVIOUS
<1>2. w = [k \in 1..(n - 1) |-> IF k < p THEN q[k] ELSE q[k + 1]]  BY DEF Without
<1>3. \A k \in 1..(n - 1) : (IF k < p THEN q[k] ELSE q[k + 1]) \in Images
  <2>1. \A k \in 1..(n - 1) : k \in 1..n /\ k + 1 \in 1..n  OBVIOUS
  <2>2. QED  BY <1>1, <2>1
<1>4. w \in Seq(Images) /\ Len(w) = n - 1  BY <1>1, <1>2, <1>3
<1>5. ASSUME NEW j \in 1..(n - 1), NEW k \in 1..(n - 1), w[j] = w[k]  PROVE j = k
  <2> PICK a : a = IF j < p THEN j ELSE j + 1  OBVIOUS
  <2> PICK b : b = IF k < p THEN k ELSE k + 1  OBVIOUS
  <2>1. a \in 1..n /\ b \in 1..n  OBVIOUS
  <2>2. w[j] = q[a] /\ w[k] = q[b]  BY <1>2
  <2>3. a = b  BY <1>5, <2>1, <2>2 DEF Injective
  <2>4. QED  BY <2>3
<1>6. Injective(w)  BY <1>4, <1>5 DEF Injective
<1>7. ASSUME NEW i \in OnList(w)  PROVE i \in OnList(q) \ {q[p]}
  <2>1. PICK k \in 1..(n - 1) : w[k] = i  BY <1>4 DEF OnList
  <2> PICK a : a = IF k < p THEN k ELSE k + 1  OBVIOUS
  <2>2. a \in 1..n /\ a # p /\ i = q[a]  BY <1>2, <2>1
  <2>3. q[a] # q[p]  BY <2>2 DEF Injective
  <2>4. QED  BY <2>2, <2>3 DEF OnList
<1>8. ASSUME NEW i \in OnList(q) \ {q[p]}  PROVE i \in OnList(w)
  <2>1. PICK a \in 1..n : q[a] = i  BY DEF OnList
  <2>2. a # p  BY <2>1
  <2> PICK k : k = IF a < p THEN a ELSE a - 1  OBVIOUS
  <2>3. k \in 1..(n - 1) /\ (k < p => k = a) /\ (~(k < p) => k + 1 = a)  BY <2>2
  <2>4. w[k] = i  BY <1>2, <2>1, <2>3
  <2>5. QED  BY <1>4, <2>3, <2>4 DEF OnList
<1>9. QED  BY <1>4, <1>6, <1>7, <1>8

LEMMA WithoutAround ==
  ASSUME NEW q \in Seq(Images), NEW p \in 1..Len(q), NEW k \in 0..Len(q)
  PROVE  ImageAt(Without(q, p), k) = IF k < p THEN ImageAt(q, k) ELSE ImageAt(q, k + 1)
<1> PICK n \in Nat : n = Len(q)  OBVIOUS
<1>1. Without(q, p) = [m \in 1..(n - 1) |-> IF m < p THEN q[m] ELSE q[m + 1]]  BY DEF Without
<1>2. n - 1 \in Nat /\ Len(Without(q, p)) = n - 1
  <2>1. \A m \in 1..(n - 1) : m \in 1..n /\ m + 1 \in 1..n  OBVIOUS
  <2>2. \A m \in 1..n : q[m] \in Images  OBVIOUS
  <2>3. Without(q, p) \in [1..(n - 1) -> Images]  BY <1>1, <2>1, <2>2
  <2>4. n - 1 \in Nat  OBVIOUS
  <2>5. QED  BY <1>1, <2>3, <2>4
<1>3. CASE k \in 1..(n - 1)  BY <1>1, <1>2, <1>3 DEF ImageAt
<1>4. CASE k = 0  BY <1>2, <1>4 DEF ImageAt
<1>5. CASE k = n  BY <1>2, <1>5 DEF ImageAt
<1>6. QED  BY <1>3, <1>4, <1>5

(* A texture may be removed from anywhere in the list                      *)
LEMMA RemoveThreads ==
  ASSUME NEW l, NEW q, Threaded(l, q), NEW p \in 1..Len(q)
  PROVE  Threaded(remove_texture_initialization(l, q[p]), Without(q, p))
<1> PICK n \in Nat : n = Len(q)  BY DEF Threaded
<1> PICK r : r = remove_texture_initialization(l, q[p])  OBVIOUS
<1> PICK w : w = Without(q, p)  OBVIOUS
<1> PICK i : i = q[p]  OBVIOUS
<1> PICK before : before = ImageAt(q, p - 1)  OBVIOUS
<1> PICK after : after = ImageAt(q, p + 1)  OBVIOUS
<1>1. /\ q \in Seq(Images) /\ Injective(q) /\ l \in Lists /\ l.first = ImageAt(q, 1) /\ l.last = ImageAt(q, n)
      /\ l.links \in [Images -> LinksOfOne]
  BY DEF Threaded, Lists, LinksOfOne, ImageOrNone
<1>2. i \in Images /\ p - 1 \in Int /\ p + 1 \in Int /\ p \in 1..n  BY <1>1
<1>3. /\ before \in ImageOrNone /\ (before # NoImage <=> p - 1 \in 1..n)
      /\ after \in ImageOrNone /\ (after # NoImage <=> p + 1 \in 1..n)
  BY <1>1, <1>2, ImageAtType
<1>4. l.links[i] = [previous |-> before, next |-> after, owned |-> TRUE]
  BY <1>2 DEF Threaded, Between
<1> DEFINE once == WithLink(l.links, before, "next", after)
           around == WithLink(once, after, "previous", before)
<1>5. /\ once \in [Images -> LinksOfOne]
      /\ \A m \in Images : once[m] = [previous |-> l.links[m].previous,
                                      next |-> IF m = before THEN after ELSE l.links[m].next,
                                      owned |-> l.links[m].owned]
  BY <1>1, <1>3, WithLinkFields
<1> HIDE DEF once
<1>6. /\ around \in [Images -> LinksOfOne]
      /\ \A m \in Images : around[m] = [previous |-> IF m = after THEN before ELSE once[m].previous,
                                        next |-> once[m].next, owned |-> once[m].owned]
  <2>1. once \in [Images -> LinksOfOne] /\ before \in ImageOrNone /\ after \in ImageOrNone  BY <1>3, <1>5
  <2>2. QED  BY <2>1, WithLinkFields
<1>7. /\ r.first = IF before = NoImage THEN after ELSE l.first
      /\ r.last = IF after = NoImage THEN before ELSE l.last
      /\ r.links = [around EXCEPT ![i] = Detached]
      /\ r = [first |-> r.first, last |-> r.last, links |-> r.links]
  BY <1>4 DEF remove_texture_initialization, once
<1> HIDE DEF around
<1>8. r \in Lists
  <2>1. Detached \in LinksOfOne  BY DEF Detached, LinksOfOne, ImageOrNone
  <2>2. r.links \in [Images -> LinksOfOne]  BY <1>6, <1>7, <2>1
  <2>3. l.first \in ImageOrNone /\ l.last \in ImageOrNone  BY <1>1, ImageAtType
  <2>4. r.first \in ImageOrNone /\ r.last \in ImageOrNone  BY <1>3, <1>7, <2>3
  <2>5. QED  BY <1>7, <2>2, <2>4 DEF Lists, LinksOfOne, ImageOrNone
<1>9. /\ w \in Seq(Images) /\ Len(w) = n - 1 /\ Injective(w) /\ OnList(w) = OnList(q) \ {i}
  BY <1>1, <1>2, WithoutOne
<1>10. \A k \in 0..n : ImageAt(w, k) = IF k < p THEN ImageAt(q, k) ELSE ImageAt(q, k + 1)
  BY <1>1, <1>2, WithoutAround
<1>11. r.first = ImageAt(w, 1)
  <2>1. 1 \in 0..n /\ ImageAt(w, 1) = IF 1 < p THEN ImageAt(q, 1) ELSE ImageAt(q, 2)  BY <1>10
  <2>2. CASE p = 1
    <3>1. before = NoImage  BY <1>3, <2>2
    <3>2. QED  BY <1>7, <2>1, <2>2, <3>1
  <2>3. CASE p # 1
    <3>1. p - 1 \in 1..n  BY <1>2, <2>3
    <3>2. before # NoImage /\ 1 < p  BY <1>2, <1>3, <2>3, <3>1
    <3>3. QED  BY <1>1, <1>7, <2>1, <3>2
  <2>4. QED  BY <2>2, <2>3
<1>12. r.last = ImageAt(w, n - 1)
  <2>1. n - 1 \in 0..n /\ ImageAt(w, n - 1) = IF n - 1 < p THEN ImageAt(q, n - 1) ELSE ImageAt(q, n)
    <3>1. n - 1 \in 0..n /\ (n - 1) + 1 = n  BY <1>2
    <3>2. QED  BY <1>10, <3>1
  <2>2. CASE p = n
    <3>1. after = NoImage /\ n - 1 < p  BY <1>3, <2>2
    <3>2. QED  BY <1>7, <2>1, <2>2, <3>1
  <2>3. CASE p # n
    <3>1. p + 1 \in 1..n /\ ~(n - 1 < p)  BY <1>2, <2>3
    <3>2. after # NoImage  BY <1>3, <3>1
    <3>3. QED  BY <1>1, <1>7, <2>1, <3>1, <3>2
  <2>4. QED  BY <2>2, <2>3
<1>13. \A m \in Images : r.links[m] = IF m = i THEN Detached ELSE around[m]
  BY <1>6, <1>7
<1>14. \A m \in Images \ {i} :
         r.links[m] = [previous |-> IF m = after THEN before ELSE l.links[m].previous,
                       next |-> IF m = before THEN after ELSE l.links[m].next,
                       owned |-> l.links[m].owned]
  <2> SUFFICES ASSUME NEW m \in Images \ {i}
               PROVE  r.links[m] = [previous |-> IF m = after THEN before ELSE l.links[m].previous,
                                    next |-> IF m = before THEN after ELSE l.links[m].next,
                                    owned |-> l.links[m].owned]
    OBVIOUS
  <2>1. r.links[m] = around[m]  BY <1>13
  <2>2. around[m] = [previous |-> IF m = after THEN before ELSE once[m].previous,
                     next |-> once[m].next, owned |-> once[m].owned]
    BY <1>6
  <2>3. /\ once[m].previous = l.links[m].previous /\ once[m].owned = l.links[m].owned
        /\ once[m].next = IF m = before THEN after ELSE l.links[m].next
    BY <1>5
  <2>4. QED  BY <2>1, <2>2, <2>3
<1>15. ASSUME NEW k \in 1..(n - 1)  PROVE r.links[w[k]] = Between(w, k)
  <2> PICK a : a = IF k < p THEN k ELSE k + 1  OBVIOUS
  <2>1. a \in 1..n /\ a # p /\ a - 1 \in Int /\ a + 1 \in Int  BY <1>2
  <2>2. w[k] = q[a]  BY DEF Without
  <2>3. q[a] \in Images /\ q[a] # i  BY <1>1, <1>2, <2>1 DEF Injective
  <2>4. l.links[q[a]] = [previous |-> ImageAt(q, a - 1), next |-> ImageAt(q, a + 1), owned |-> TRUE]
    <3>1. l.links[q[a]] = Between(q, a)  BY <2>1 DEF Threaded
    <3>2. QED  BY <3>1 DEF Between
  <2>5. q[a] = after <=> a = p + 1
    <3>1. CASE p + 1 \in 1..n
      <4>1. after = q[p + 1]  BY <3>1 DEF ImageAt
      <4>2. QED  BY <1>1, <2>1, <3>1, <4>1 DEF Injective
    <3>2. CASE p + 1 \notin 1..n
      <4>1. after = NoImage  BY <1>3, <3>2
      <4>2. q[a] # after  BY <2>3, <4>1, ImagesAssumption
      <4>3. a # p + 1  BY <2>1, <3>2
      <4>4. QED  BY <4>2, <4>3
    <3>3. QED  BY <3>1, <3>2
  <2>6. q[a] = before <=> a = p - 1
    <3>1. CASE p - 1 \in 1..n
      <4>1. before = q[p - 1]  BY <3>1 DEF ImageAt
      <4>2. QED  BY <1>1, <2>1, <3>1, <4>1 DEF Injective
    <3>2. CASE p - 1 \notin 1..n
      <4>1. before = NoImage  BY <1>3, <3>2
      <4>2. q[a] # before  BY <2>3, <4>1, ImagesAssumption
      <4>3. a # p - 1  BY <2>1, <3>2
      <4>4. QED  BY <4>2, <4>3
    <3>3. QED  BY <3>1, <3>2
  <2>7. r.links[w[k]] = [previous |-> IF a = p + 1 THEN before ELSE ImageAt(q, a - 1),
                         next |-> IF a = p - 1 THEN after ELSE ImageAt(q, a + 1), owned |-> TRUE]
    <3>1. r.links[q[a]] = [previous |-> IF q[a] = after THEN before ELSE l.links[q[a]].previous,
                           next |-> IF q[a] = before THEN after ELSE l.links[q[a]].next,
                           owned |-> l.links[q[a]].owned]
      BY <1>14, <2>3
    <3>2. /\ l.links[q[a]].previous = ImageAt(q, a - 1) /\ l.links[q[a]].next = ImageAt(q, a + 1)
          /\ l.links[q[a]].owned = TRUE
      BY <2>4
    <3>3. QED  BY <2>2, <2>5, <2>6, <3>1, <3>2
  <2>8. k - 1 \in 0..n /\ k + 1 \in 0..n  BY <1>2
  <2>9. ImageAt(w, k - 1) = IF a = p + 1 THEN before ELSE ImageAt(q, a - 1)
    <3>1. ImageAt(w, k - 1) = IF k - 1 < p THEN ImageAt(q, k - 1) ELSE ImageAt(q, k - 1 + 1)  BY <1>10, <2>8
    <3>2. CASE a = p + 1
      <4>1. k - 1 = p - 1 /\ k - 1 < p  BY <1>2, <3>2
      <4>2. QED  BY <3>1, <3>2, <4>1
    <3>3. CASE a # p + 1 /\ k < p
      <4>1. k - 1 = a - 1 /\ k - 1 < p  BY <1>2, <3>3
      <4>2. QED  BY <3>1, <3>3, <4>1
    <3>4. CASE a # p + 1 /\ ~(k < p)
      <4>1. k - 1 + 1 = a - 1 /\ ~(k - 1 < p)  BY <1>2, <3>4
      <4>2. QED  BY <3>1, <3>4, <4>1
    <3>5. QED  BY <3>2, <3>3, <3>4
  <2>10. ImageAt(w, k + 1) = IF a = p - 1 THEN after ELSE ImageAt(q, a + 1)
    <3>1. ImageAt(w, k + 1) = IF k + 1 < p THEN ImageAt(q, k + 1) ELSE ImageAt(q, k + 1 + 1)  BY <1>10, <2>8
    <3>2. CASE a = p - 1
      <4>1. k + 1 + 1 = p + 1 /\ ~(k + 1 < p)  BY <1>2, <3>2
      <4>2. QED  BY <3>1, <3>2, <4>1
    <3>3. CASE a # p - 1 /\ k < p
      <4>1. k + 1 = a + 1 /\ k + 1 < p  BY <1>2, <3>3
      <4>2. QED  BY <3>1, <3>3, <4>1
    <3>4. CASE a # p - 1 /\ ~(k < p)
      <4>1. k + 1 + 1 = a + 1 /\ ~(k + 1 < p)  BY <1>2, <3>4
      <4>2. QED  BY <3>1, <3>4, <4>1
    <3>5. QED  BY <3>2, <3>3, <3>4
  <2>11. QED  BY <2>7, <2>9, <2>10 DEF Between
<1>16. ASSUME NEW m \in Images \ OnList(w)  PROVE r.links[m] = Detached
  <2>1. CASE m = i  BY <1>13, <2>1
  <2>2. CASE m # i
    <3>1. m \notin OnList(q)  BY <1>9, <2>2
    <3>2. l.links[m] = Detached  BY <3>1 DEF Threaded
    <3>3. m # before /\ m # after  BY <1>1, <3>1, ImagesAssumption DEF ImageAt, OnList
    <3>4. m \in Images \ {i}  BY <2>2
    <3>5. QED  BY <1>14, <3>2, <3>3, <3>4 DEF Detached
  <2>3. QED  BY <2>1, <2>2
<1>17. Threaded(r, w)  BY <1>8, <1>9, <1>11, <1>12, <1>15, <1>16 DEF Threaded
<1>18. QED  BY <1>17

LEMMA FewOnList ==
  ASSUME NEW q \in Seq(Images), Injective(q)
  PROVE  Cardinality(Images) \in Nat /\ Len(q) <= Cardinality(Images)
<1> PICK n \in Nat : n = Len(q)  OBVIOUS
<1>1. IsFiniteSet(Images)  BY ImagesAssumption
<1>2. q \in [1..n -> Images] /\ DOMAIN q = 1..n  OBVIOUS
<1>3. q \in Injection(1..n, Images)  BY <1>2 DEF Injective, Injection, IsInjective
<1>4. Cardinality(1..n) <= Cardinality(Images)  BY <1>1, <1>3, FS_Injection
<1>5. Cardinality(1..n) = n
  <2>1. 1 \in Int /\ n \in Int /\ (1 > n => n = 0)  OBVIOUS
  <2>2. Cardinality(1..n) = IF 1 > n THEN 0 ELSE n - 1 + 1  BY <2>1, FS_Interval
  <2>3. QED  BY <2>1, <2>2
<1>6. Cardinality(Images) \in Nat  BY <1>1, FS_CardinalityType
<1>7. QED  BY <1>4, <1>5, <1>6

(* The walk along the links returns the textures they chain                *)
LEMMA WalkIs ==
  ASSUME NEW l, NEW end, NEW link, NEW s \in Seq(Images), Injective(s),
         end = ImageAt(s, 1),
         \A k \in 1..Len(s) : l.links[s[k]][link] = ImageAt(s, k + 1)
  PROVE  Walk(l, end, link) = s
<1> PICK n \in Nat : n = Len(s)  OBVIOUS
<1> PICK c \in Nat : c = Cardinality(Images) /\ n <= c  BY FewOnList
<1> DEFINE Short(k) == IF k < n THEN k ELSE n
           Prefix(k) == [m \in 1..Short(k) |-> s[m]]
           g == [k \in 0..c |-> Prefix(k)]
<1>1. \A k \in 0..c : /\ Prefix(k) \in Seq(Images) /\ Len(Prefix(k)) = Short(k)
                      /\ \A m \in 1..Short(k) : Prefix(k)[m] = s[m]
  <2> SUFFICES ASSUME NEW k \in 0..c
               PROVE  /\ Prefix(k) \in Seq(Images) /\ Len(Prefix(k)) = Short(k)
                      /\ \A m \in 1..Short(k) : Prefix(k)[m] = s[m]
    OBVIOUS
  <2>1. Short(k) \in Nat /\ \A m \in 1..Short(k) : s[m] \in Images  OBVIOUS
  <2> HIDE DEF Short
  <2>2. QED  BY <2>1
<1>2. ASSUME NEW k \in 1..c  PROVE Longer(l, end, link, Prefix(k - 1)) = Prefix(k)
  <2> PICK met : met = Prefix(k - 1)  OBVIOUS
  <2> PICK j : j = Short(k - 1)  OBVIOUS
  <2>1. /\ k - 1 \in 0..c /\ k \in 0..c /\ j \in 0..n /\ k # 0
        /\ met \in Seq(Images) /\ Len(met) = j /\ \A m \in 1..j : met[m] = s[m]
    <3>1. k - 1 \in 0..c /\ k \in 0..c /\ j \in 0..n /\ k # 0  OBVIOUS
    <3> HIDE DEF Short, Prefix
    <3>2. QED  BY <1>1, <3>1
  <2>2. Following(l, end, link, met) = ImageAt(s, j + 1)
    <3>1. CASE j = 0
      <4>1. met = <<>>  BY <2>1, <3>1
      <4>2. QED  BY <3>1, <4>1 DEF Following
    <3>2. CASE j # 0
      <4>1. met # <<>> /\ j \in 1..n /\ Last(met) = s[j]  BY <2>1, <3>2 DEF Last
      <4>2. l.links[s[j]][link] = ImageAt(s, j + 1)  BY <4>1
      <4>3. QED  BY <4>1, <4>2 DEF Following
    <3>3. QED  BY <3>1, <3>2
  <2>3. CASE k <= n
    <3>1. j = k - 1 /\ j + 1 = k /\ Short(k) = k /\ k \in 1..n  BY <2>3
    <3>2. Following(l, end, link, met) = s[k] /\ s[k] \in Images  BY <2>2, <3>1 DEF ImageAt
    <3>3. Longer(l, end, link, met) = Append(met, s[k])  BY <3>2, ImagesAssumption DEF Longer
    <3>4. Append(met, s[k]) = [m \in 1..k |-> s[m]]
      <4> PICK a : a = Append(met, s[k])  OBVIOUS
      <4>1. a \in Seq(Images) /\ Len(a) = k /\ \A m \in 1..k : a[m] = s[m]  BY <2>1, <3>1, <3>2
      <4>2. a = [m \in 1..k |-> a[m]]  BY <4>1
      <4>3. QED  BY <4>1, <4>2
    <3>5. QED  BY <3>1, <3>3, <3>4
  <2>4. CASE k > n
    <3>1. j = n /\ Short(k) = n  BY <2>4
    <3>2. Following(l, end, link, met) = NoImage  BY <2>2, <3>1 DEF ImageAt
    <3>3. Longer(l, end, link, met) = met  BY <3>2 DEF Longer
    <3>4. met = Prefix(k)  BY <3>1
    <3>5. QED  BY <3>3, <3>4
  <2>5. QED  BY <2>3, <2>4
<1>3. Prefix(0) = <<>>  BY <1>1
<1>4. Prefix(c) = s
  <2>1. Short(c) = n  OBVIOUS
  <2>2. s = [m \in 1..n |-> s[m]]  OBVIOUS
  <2>3. QED  BY <2>1, <2>2
<1> HIDE DEF Prefix, Short
<1> DEFINE Loop(f) == f = [k \in 0..c |-> IF k = 0 THEN <<>> ELSE Longer(l, end, link, f[k - 1])]
<1>5. Loop(g)
  <2>1. \A k \in 0..c : g[k] = IF k = 0 THEN <<>> ELSE Longer(l, end, link, g[k - 1])
    <3> SUFFICES ASSUME NEW k \in 0..c PROVE g[k] = IF k = 0 THEN <<>> ELSE Longer(l, end, link, g[k - 1])
      OBVIOUS
    <3>1. CASE k = 0  BY <1>3, <3>1
    <3>2. CASE k # 0
      <4>1. k \in 1..c /\ k - 1 \in 0..c  BY <3>2
      <4>2. g[k - 1] = Prefix(k - 1) /\ g[k] = Prefix(k)  BY <4>1
      <4>3. QED  BY <1>2, <3>2, <4>1, <4>2
    <3>3. QED  BY <3>1, <3>2
  <2>2. g = [k \in 0..c |-> g[k]]  OBVIOUS
  <2>3. QED  BY <2>1, <2>2
<1>6. ASSUME NEW f, Loop(f)  PROVE f[c] = s
  <2> DEFINE Good == {k \in 0..c : f[k] = Prefix(k)}
  <2>1. 0 \in Good  BY <1>3, <1>6
  <2>2. ASSUME NEW k \in 1..c, k - 1 \in Good  PROVE k \in Good
    <3>1. k \in 0..c /\ k # 0  OBVIOUS
    <3>2. f[k] = Longer(l, end, link, f[k - 1])  BY <1>6, <3>1
    <3>3. QED  BY <1>2, <2>2, <3>1, <3>2
  <2> HIDE DEF Good
  <2>3. \A k \in 0..c : k \in Good  BY <2>1, <2>2, StepByStep
  <2>4. c \in 0..c  OBVIOUS
  <2>5. QED  BY <1>4, <2>3, <2>4 DEF Good
<1>7. Walk(l, end, link) = (CHOOSE f : Loop(f))[c]
  BY DEF Walk
<1>8. Loop(CHOOSE f : Loop(f))  
  <2> HIDE DEF Loop, g
  <2>1. QED  BY <1>5
<1>9. QED
  <2> HIDE DEF Loop
  <2>1. (CHOOSE f : Loop(f))[c] = s  BY <1>6, <1>8
  <2>2. QED  BY <1>7, <2>1

LEMMA ReverseOf ==
  ASSUME NEW q \in Seq(Images), Injective(q)
  PROVE  /\ Reverse(q) \in Seq(Images) /\ Len(Reverse(q)) = Len(q) /\ Injective(Reverse(q))
         /\ \A k \in 1..Len(q) : Reverse(q)[k] = q[Len(q) - k + 1]
<1> PICK n \in Nat : n = Len(q)  OBVIOUS
<1> PICK r : r = Reverse(q)  OBVIOUS
<1>1. r = [k \in 1..n |-> q[(n - k) + 1]]  BY DEF Reverse
<1>2. \A k \in 1..n : (n - k) + 1 \in 1..n  OBVIOUS
<1>3. \A k \in 1..n : q[(n - k) + 1] \in Images  BY <1>2
<1>4. r \in Seq(Images) /\ Len(r) = n  BY <1>1, <1>3
<1>5. \A j, k \in 1..n : r[j] = r[k] => j = k
  <2> SUFFICES ASSUME NEW j \in 1..n, NEW k \in 1..n, r[j] = r[k] PROVE j = k  OBVIOUS
  <2>1. q[(n - j) + 1] = q[(n - k) + 1]  BY <1>1
  <2>2. (n - j) + 1 = (n - k) + 1  BY <1>2, <2>1 DEF Injective
  <2>3. QED  BY <2>2
<1>6. QED  BY <1>1, <1>4, <1>5 DEF Injective

LEMMA WalksOf ==
  ASSUME NEW l, NEW q, Threaded(l, q)
  PROVE  Walk(l, l.first, "next") = q /\ Walk(l, l.last, "previous") = Reverse(q)
<1> PICK n \in Nat : n = Len(q)  BY DEF Threaded
<1>1. q \in Seq(Images) /\ Injective(q) /\ l.first = ImageAt(q, 1) /\ l.last = ImageAt(q, n)
  BY DEF Threaded
<1>2. \A k \in 1..n : l.links[q[k]].next = ImageAt(q, k + 1) /\ l.links[q[k]].previous = ImageAt(q, k - 1)
  <2>1. \A k \in 1..n : l.links[q[k]] = Between(q, k)  BY DEF Threaded
  <2>2. \A k \in 1..n : Between(q, k).next = ImageAt(q, k + 1) /\ Between(q, k).previous = ImageAt(q, k - 1)
    BY DEF Between
  <2>3. QED  BY <2>1, <2>2
<1>3. Walk(l, l.first, "next") = q
  <2>1. \A k \in 1..Len(q) : l.links[q[k]]["next"] = ImageAt(q, k + 1)  BY <1>2
  <2>2. QED  BY <1>1, <2>1, WalkIs
<1>4. Walk(l, l.last, "previous") = Reverse(q)
  <2> PICK r : r = Reverse(q)  OBVIOUS
  <2>1. r \in Seq(Images) /\ Len(r) = n /\ Injective(r) /\ \A k \in 1..n : r[k] = q[n - k + 1]
    BY <1>1, ReverseOf
  <2>2. l.last = ImageAt(r, 1)
    <3>1. CASE n = 0  BY <1>1, <2>1, <3>1 DEF ImageAt
    <3>2. CASE n # 0
      <4>1. 1 \in 1..n /\ n - 1 + 1 = n /\ n \in 1..n  BY <3>2
      <4>2. QED  BY <1>1, <2>1, <4>1 DEF ImageAt
    <3>3. QED  BY <3>1, <3>2
  <2>3. ASSUME NEW k \in 1..n  PROVE l.links[r[k]]["previous"] = ImageAt(r, k + 1)
    <3> PICK m : m = n - k + 1  OBVIOUS
    <3>1. m \in 1..n /\ m - 1 \in Int /\ (k + 1 \in 1..n <=> m - 1 \in 1..n)  OBVIOUS
    <3>2. l.links[r[k]].previous = ImageAt(q, m - 1)  BY <1>2, <2>1, <3>1
    <3>3. CASE k + 1 \in 1..n
      <4>1. r[k + 1] = q[m - 1]
        <5>1. n - (k + 1) + 1 = m - 1  OBVIOUS
        <5>2. QED  BY <2>1, <3>3, <5>1
      <4>2. QED  BY <2>1, <3>1, <3>2, <3>3, <4>1 DEF ImageAt
    <3>4. CASE k + 1 \notin 1..n  BY <2>1, <3>1, <3>2, <3>4 DEF ImageAt
    <3>5. QED  BY <3>3, <3>4
  <2>4. \A k \in 1..Len(r) : l.links[r[k]]["previous"] = ImageAt(r, k + 1)  BY <2>1, <2>3
  <2>5. r \in Seq(Images) /\ Injective(r)  BY <2>1
  <2>6. Walk(l, l.last, "previous") = r  BY <2>2, <2>4, <2>5, WalkIs
  <2>7. QED  BY <2>6
<1>5. QED  BY <1>3, <1>4

LEMMA OnListAppend ==
  ASSUME NEW S, NEW q \in Seq(S), NEW x \in S
  PROVE  /\ Append(q, x) \in Seq(S) /\ Len(Append(q, x)) = Len(q) + 1
         /\ OnList(Append(q, x)) = OnList(q) \cup {x}
<1> PICK n \in Nat : n = Len(q)  OBVIOUS
<1> PICK w : w = Append(q, x)  OBVIOUS
<1>1. w \in Seq(S) /\ Len(w) = n + 1 /\ w[n + 1] = x /\ \A k \in 1..n : w[k] = q[k]  OBVIOUS
<1>2. \A k \in 1..n : k \in 1..(n + 1)  OBVIOUS
<1>3. \A k \in 1..(n + 1) : k \in 1..n \/ k = n + 1  OBVIOUS
<1>4. n + 1 \in 1..(n + 1)  OBVIOUS
<1>5. OnList(w) = OnList(q) \cup {x}
  <2>1. ASSUME NEW y \in OnList(w)  PROVE y \in OnList(q) \cup {x}
    <3>1. PICK k \in 1..(n + 1) : y = w[k]  BY <1>1 DEF OnList
    <3>2. QED  BY <1>1, <1>3, <3>1 DEF OnList
  <2>2. ASSUME NEW y \in OnList(q)  PROVE y \in OnList(w)
    <3>1. PICK k \in 1..n : y = q[k]  BY DEF OnList
    <3>2. QED  BY <1>1, <1>2, <3>1 DEF OnList
  <2>3. x \in OnList(w)  BY <1>1, <1>4 DEF OnList
  <2>4. QED  BY <2>1, <2>2, <2>3
<1>6. QED  BY <1>1, <1>5

-----------------------------------------------------------------------------
(* What begin_commands has recorded of the list q when r remains of it     *)
LoopStates == [list : Lists, barriers : Seq(Images), batches : Seq(Seq(Images))]
InBatches(batches, i) == \E b \in 1..Len(batches) : i \in OnList(batches[b])
BatchesFit(batches) == \A b \in 1..Len(batches) : Len(batches[b]) \in 1..image_barrier_batch_size

Recorded(x, q, r) ==
  /\ x \in LoopStates /\ Threaded(x.list, r)
  /\ Len(x.barriers) < image_barrier_batch_size /\ BatchesFit(x.batches)
  /\ \A i \in Images : i \in OnList(q)
       <=> i \in OnList(r) \/ i \in OnList(x.barriers) \/ InBatches(x.batches, i)

LEMMA BatchesAppend ==
  ASSUME NEW batches \in Seq(Seq(Images)), BatchesFit(batches), NEW barriers \in Seq(Images),
         Len(barriers) \in 1..image_barrier_batch_size
  PROVE  /\ Append(batches, barriers) \in Seq(Seq(Images)) /\ BatchesFit(Append(batches, barriers))
         /\ \A i \in Images : InBatches(Append(batches, barriers), i)
                                <=> InBatches(batches, i) \/ i \in OnList(barriers)
<1> PICK n \in Nat : n = Len(batches)  OBVIOUS
<1> PICK w : w = Append(batches, barriers)  OBVIOUS
<1>1. /\ w \in Seq(Seq(Images)) /\ Len(w) = n + 1 /\ w[n + 1] = barriers
      /\ \A k \in 1..n : w[k] = batches[k]
  OBVIOUS
<1>2. \A k \in 1..n : k \in 1..(n + 1)  OBVIOUS
<1>3. \A k \in 1..(n + 1) : k \in 1..n \/ k = n + 1  OBVIOUS
<1>4. n + 1 \in 1..(n + 1)  OBVIOUS
<1>5. BatchesFit(w)
  <2>1. ASSUME NEW b \in 1..(n + 1)  PROVE Len(w[b]) \in 1..image_barrier_batch_size
    <3>1. CASE b \in 1..n  BY <1>1, <3>1 DEF BatchesFit
    <3>2. CASE b = n + 1  BY <1>1, <3>2
    <3>3. QED  BY <1>3, <3>1, <3>2
  <2>2. QED  BY <1>1, <2>1 DEF BatchesFit
<1>6. ASSUME NEW i \in Images  PROVE InBatches(w, i) <=> InBatches(batches, i) \/ i \in OnList(barriers)
  <2>1. ASSUME InBatches(w, i)  PROVE InBatches(batches, i) \/ i \in OnList(barriers)
    <3>1. PICK b \in 1..(n + 1) : i \in OnList(w[b])  BY <1>1, <2>1 DEF InBatches
    <3>2. CASE b \in 1..n  BY <1>1, <3>1, <3>2 DEF InBatches
    <3>3. CASE b = n + 1  BY <1>1, <3>1, <3>3
    <3>4. QED  BY <1>3, <3>2, <3>3
  <2>2. ASSUME InBatches(batches, i)  PROVE InBatches(w, i)
    <3>1. PICK b \in 1..n : i \in OnList(batches[b])  BY <2>2 DEF InBatches
    <3>2. QED  BY <1>1, <1>2, <3>1 DEF InBatches
  <2>3. ASSUME i \in OnList(barriers)  PROVE InBatches(w, i)  BY <1>1, <1>4, <2>3 DEF InBatches
  <2>4. QED  BY <2>1, <2>2, <2>3
<1>7. QED  BY <1>1, <1>5, <1>6

LEMMA IterationRecords ==
  ASSUME NEW x, NEW q, NEW r, Recorded(x, q, r)
  PROVE  \E s : /\ Recorded(Iteration(x), q, s)
                /\ Len(s) = IF Len(r) = 0 THEN 0 ELSE Len(r) - 1
<1> PICK n \in Nat : n = Len(r)  BY DEF Recorded, Threaded
<1>1. /\ r \in Seq(Images) /\ Injective(r) /\ x.list.first = ImageAt(r, 1) /\ Threaded(x.list, r)
      /\ x \in LoopStates
  BY DEF Recorded, Threaded
<1>2. CASE n = 0
  <2>1. x.list.first = NoImage  BY <1>1, <1>2 DEF ImageAt
  <2>2. Iteration(x) = x  BY <2>1 DEF Iteration
  <2>3. QED  BY <1>2, <2>2
<1>3. CASE n # 0
  <2> PICK i : i = r[1]  OBVIOUS
  <2>1. 1 \in 1..n /\ x.list.first = i /\ i \in Images /\ i # NoImage
    BY <1>1, <1>3, ImagesAssumption DEF ImageAt
  <2> PICK y : y = Recording(x)  OBVIOUS
  <2> PICK s : s = Without(r, 1)  OBVIOUS
  <2> PICK barriers : barriers = Append(x.barriers, i)  OBVIOUS
  <2> PICK rest : rest = remove_texture_initialization(x.list, i)  OBVIOUS
  <2>2. Iteration(x) = y  BY <2>1 DEF Iteration
  <2>3. Threaded(rest, s)  BY <1>1, <2>1, RemoveThreads
  <2>4. Len(s) = n - 1 /\ OnList(s) = OnList(r) \ {i}  BY <1>1, <2>1, WithoutOne
  <2>5. /\ x.barriers \in Seq(Images) /\ x.batches \in Seq(Seq(Images))
        /\ Len(x.barriers) < image_barrier_batch_size /\ BatchesFit(x.batches)
        /\ Len(x.barriers) \in Nat
    BY <1>1 DEF Recorded, LoopStates
  <2>6. /\ barriers \in Seq(Images) /\ Len(barriers) = Len(x.barriers) + 1
        /\ OnList(barriers) = OnList(x.barriers) \cup {i}
    BY <2>1, <2>5, OnListAppend
  <2>7. image_barrier_batch_size \in Nat \ {0} /\ Len(barriers) \in 1..image_barrier_batch_size
    <3>1. image_barrier_batch_size \in Nat \ {0}  BY ImagesAssumption
    <3>2. QED  BY <2>5, <2>6, <3>1
  <2>8. ASSUME NEW j \in Images
        PROVE  j \in OnList(q) <=> j \in OnList(s) \/ j \in OnList(barriers) \/ InBatches(x.batches, j)
    <3>1. j \in OnList(q) <=> j \in OnList(r) \/ j \in OnList(x.barriers) \/ InBatches(x.batches, j)
      BY DEF Recorded
    <3>2. i \in OnList(r)  BY <2>1 DEF OnList
    <3>3. QED  BY <2>4, <2>6, <3>1, <3>2
  <2>9. rest \in Lists  BY <2>3 DEF Threaded
  <2>10. CASE Len(barriers) = image_barrier_batch_size
    <3>1. y = [list |-> rest, barriers |-> <<>>, batches |-> Append(x.batches, barriers)]
      BY <2>1, <2>10 DEF Recording
    <3>2. /\ Append(x.batches, barriers) \in Seq(Seq(Images)) /\ BatchesFit(Append(x.batches, barriers))
          /\ \A j \in Images : InBatches(Append(x.batches, barriers), j)
                                 <=> InBatches(x.batches, j) \/ j \in OnList(barriers)
      BY <2>5, <2>6, <2>7, BatchesAppend
    <3>3. y \in LoopStates  BY <2>9, <3>1, <3>2 DEF LoopStates
    <3>4. /\ y.list = rest /\ y.barriers = <<>> /\ y.batches = Append(x.batches, barriers)  BY <3>1
    <3>5. Len(y.barriers) = 0 /\ 0 < image_barrier_batch_size  BY <2>7, <3>4
    <3>6. \A j \in Images : j \notin OnList(y.barriers)  BY <3>5 DEF OnList
    <3>7. Recorded(y, q, s)  BY <2>3, <2>8, <3>2, <3>3, <3>4, <3>5, <3>6 DEF Recorded
    <3>8. QED  BY <1>3, <2>2, <2>4, <3>7
  <2>11. CASE Len(barriers) # image_barrier_batch_size
    <3>1. y = [list |-> rest, barriers |-> barriers, batches |-> x.batches]
      BY <2>1, <2>11 DEF Recording
    <3>2. y \in LoopStates  BY <2>5, <2>6, <2>9, <3>1 DEF LoopStates
    <3>3. y.list = rest /\ y.barriers = barriers /\ y.batches = x.batches  BY <3>1
    <3>4. Len(y.barriers) < image_barrier_batch_size  BY <2>7, <2>11, <3>3
    <3>5. Recorded(y, q, s)  BY <2>3, <2>5, <2>8, <3>2, <3>3, <3>4 DEF Recorded
    <3>6. QED  BY <1>3, <2>2, <2>4, <3>5
  <2>12. QED  BY <2>10, <2>11
<1>4. QED  BY <1>2, <1>3

(* begin_commands empties the list and records a transition of every       *)
(* texture on it                                                           *)
LEMMA RecordsAll ==
  ASSUME NEW l, NEW q, Threaded(l, q)
  PROVE  /\ Threaded(RecordedPending(l).list, <<>>)
         /\ RecordedPending(l).batches \in Seq(Seq(Images)) /\ BatchesFit(RecordedPending(l).batches)
         /\ \A i \in Images : i \in OnList(q) <=> InBatches(RecordedPending(l).batches, i)
<1> PICK n \in Nat : n = Len(q)  BY DEF Threaded
<1> PICK c \in Nat : c = Cardinality(Images) /\ n <= c  BY FewOnList DEF Threaded
<1> PICK start : start = [list |-> l, barriers |-> <<>>, batches |-> <<>>]  OBVIOUS
<1> DEFINE Loop(f) == f = [k \in 0..c |-> IF k = 0 THEN start ELSE Iteration(f[k - 1])]
           States == {x \in LoopStates : \E r : Recorded(x, q, r)}
<1>1. Recorded(start, q, q)
  <2>1. start \in LoopStates  BY DEF Threaded, LoopStates
  <2>2. start.list = l /\ start.barriers = <<>> /\ start.batches = <<>>  OBVIOUS
  <2>3. Len(start.barriers) = 0 /\ Len(start.batches) = 0 /\ 0 < image_barrier_batch_size
    BY <2>2, ImagesAssumption
  <2>4. \A i \in Images : i \notin OnList(start.barriers) /\ ~InBatches(start.batches, i)
    BY <2>3 DEF OnList, InBatches
  <2>5. BatchesFit(start.batches)  BY <2>3 DEF BatchesFit
  <2>6. QED  BY <2>1, <2>2, <2>3, <2>4, <2>5 DEF Recorded
<1>2. start \in States  BY <1>1 DEF Recorded
<1>3. ASSUME NEW x \in States  PROVE Iteration(x) \in States
  <2>1. PICK r : Recorded(x, q, r)  OBVIOUS
  <2>2. PICK s : Recorded(Iteration(x), q, s)  BY <2>1, IterationRecords
  <2>3. QED  BY <2>2 DEF Recorded
<1>4. \E f : Loop(f)
  <2> PICK step : step = [k \in 1..c |-> [x \in States |-> Iteration(x)]]  OBVIOUS
  <2> HIDE DEF States
  <2>1. PICK f : Steps(f, start, step, c)  BY StepsExist
  <2>2. \A k \in 0..c : f[k] = IF k = 0 THEN start ELSE step[k][f[k - 1]]
    BY <2>1 DEF Steps
  <2> DEFINE Good == {k \in 0..c : f[k] \in States}
  <2>3. 0 \in Good
    <3>1. 0 \in 0..c  OBVIOUS
    <3>2. f[0] = start  BY <2>2, <3>1
    <3>3. QED  BY <1>2, <3>1, <3>2
  <2>4. ASSUME NEW k \in 1..c, k - 1 \in Good  PROVE k \in Good
    <3>1. k \in 0..c /\ k # 0 /\ f[k - 1] \in States  BY <2>4
    <3>2. f[k] = Iteration(f[k - 1])  BY <2>2, <3>1
    <3>3. QED  BY <1>3, <3>1, <3>2
  <2> HIDE DEF Good
  <2>5. \A k \in 0..c : k \in Good  BY <2>3, <2>4, StepByStep
  <2>6. ASSUME NEW k \in 0..c  PROVE f[k] = IF k = 0 THEN start ELSE Iteration(f[k - 1])
    <3>1. CASE k = 0  BY <2>2, <3>1
    <3>2. CASE k # 0
      <4>1. k \in 1..c /\ k - 1 \in 0..c  BY <3>2
      <4>2. f[k - 1] \in States  BY <2>5, <4>1 DEF Good
      <4>3. QED  BY <2>2, <3>2, <4>1, <4>2
    <3>3. QED  BY <3>1, <3>2
  <2>7. f = [k \in 0..c |-> f[k]]  BY <2>1 DEF Steps
  <2>8. Loop(f)  BY <2>6, <2>7
  <2>9. QED  BY <2>8
<1> PICK loop : loop = CHOOSE f : Loop(f)  OBVIOUS
<1>5. Loop(loop)
  <2> HIDE DEF Loop
  <2>1. QED  BY <1>4
<1>6. \E r : Recorded(loop[c], q, r) /\ Len(r) = 0
  <2> DEFINE Left(k) == IF k < n THEN n - k ELSE 0
             Good == {k \in 0..c : \E r : Recorded(loop[k], q, r) /\ Len(r) = Left(k)}
  <2>1. 0 \in Good
    <3>1. 0 \in 0..c  OBVIOUS
    <3>2. loop[0] = start  BY <1>5, <3>1
    <3>3. Left(0) = n  OBVIOUS
    <3>4. Recorded(loop[0], q, q) /\ Len(q) = Left(0)  BY <1>1, <3>2, <3>3
    <3>5. QED  BY <3>1, <3>4
  <2>2. ASSUME NEW k \in 1..c, k - 1 \in Good  PROVE k \in Good
    <3>1. PICK r : Recorded(loop[k - 1], q, r) /\ Len(r) = Left(k - 1)  BY <2>2
    <3>2. PICK s : Recorded(Iteration(loop[k - 1]), q, s) /\ Len(s) = IF Len(r) = 0 THEN 0 ELSE Len(r) - 1
      BY <3>1, IterationRecords
    <3>3. k \in 0..c /\ k # 0  OBVIOUS
    <3>4. loop[k] = Iteration(loop[k - 1])  BY <1>5, <3>3
    <3>5. Len(s) = Left(k)  BY <3>1, <3>2
    <3>6. QED  BY <3>2, <3>3, <3>4, <3>5
  <2>3. \A k \in 0..c : k \in Good
    <3> HIDE DEF Good
    <3>1. QED  BY <2>1, <2>2, StepByStep
  <2>4. c \in 0..c /\ Left(c) = 0  OBVIOUS
  <2>5. QED  BY <2>3, <2>4
<1> PICK last : last = loop[c]  OBVIOUS
<1>7. PICK r : Recorded(last, q, r) /\ Len(r) = 0  BY <1>6
<1>8. r = <<>>  BY <1>7 DEF Recorded, Threaded
<1>9. RecordedPending(l) = [list |-> last.list, batches |-> Flushed(last.batches, last.barriers)]
  <2>1. RecordedPending(l) = LET end == (CHOOSE f : Loop(f))[c]
                             IN [list |-> end.list, batches |-> Flushed(end.batches, end.barriers)]
    BY DEF RecordedPending
  <2> HIDE DEF Loop
  <2>2. QED  BY <2>1
<1>10. /\ last.barriers \in Seq(Images) /\ last.batches \in Seq(Seq(Images)) /\ BatchesFit(last.batches)
       /\ Len(last.barriers) < image_barrier_batch_size /\ Threaded(last.list, <<>>)
  BY <1>7, <1>8 DEF Recorded, LoopStates
<1>11. \A i \in Images : i \notin OnList(r)  BY <1>7 DEF OnList
<1>12. \A i \in Images : i \in OnList(q) <=> i \in OnList(last.barriers) \/ InBatches(last.batches, i)
  BY <1>7, <1>11 DEF Recorded
<1> PICK batches : batches = Flushed(last.batches, last.barriers)  OBVIOUS
<1>13. /\ batches \in Seq(Seq(Images)) /\ BatchesFit(batches)
       /\ \A i \in Images : i \in OnList(q) <=> InBatches(batches, i)
  <2>1. CASE last.barriers = <<>>
    <3>1. batches = last.batches /\ Len(last.barriers) = 0  BY <2>1 DEF Flushed
    <3>2. \A i \in Images : i \notin OnList(last.barriers)  BY <3>1 DEF OnList
    <3>3. QED  BY <1>10, <1>12, <3>1, <3>2
  <2>2. CASE last.barriers # <<>>
    <3>1. batches = Append(last.batches, last.barriers)  BY <2>2 DEF Flushed
    <3>2. Len(last.barriers) \in 1..image_barrier_batch_size
      <4>1. image_barrier_batch_size \in Nat \ {0}  BY ImagesAssumption
      <4>2. QED  BY <1>10, <2>2, <4>1
    <3>3. /\ batches \in Seq(Seq(Images)) /\ BatchesFit(batches)
          /\ \A i \in Images : InBatches(batches, i)
                                 <=> InBatches(last.batches, i) \/ i \in OnList(last.barriers)
      <4>1. last.batches \in Seq(Seq(Images)) /\ BatchesFit(last.batches) /\ last.barriers \in Seq(Images)
        BY <1>10
      <4>2. QED  BY ONLY <3>1, <3>2, <4>1, BatchesAppend
    <3>4. QED  BY <1>12, <3>3
  <2>3. QED  BY <2>1, <2>2
<1>14. RecordedPending(l).list = last.list /\ RecordedPending(l).batches = batches  BY <1>9
<1>15. QED  BY <1>10, <1>13, <1>14

-----------------------------------------------------------------------------
(* The caller's textures, the memory they are bound to and the nodes of    *)
(* the heap                                                                *)

Textures == [texture : ImageOrNone, token : NodeIndex]
Bindings == [offset : Nat, size : TextureSizes \cup {0}]
Occupied(p) == {s \in Slots : p[s].texture # NoImage}
HeldIn(p, b, s) == Allocation(b[p[s].texture].offset, b[p[s].texture].size, p[s].token)
TexturesHeld(p, b) == {HeldIn(p, b, s) : s \in Occupied(p)}

(* The textures of the variables p, bound as b says, in the heap a         *)
SlotsExact(p, b, a) ==
  /\ p \in [Slots -> Textures] /\ b \in [Images -> Bindings]
  /\ \A s, t \in Occupied(p) : p[s].texture = p[t].texture => s = t
  /\ \A s, t \in Occupied(p) : p[s].token = p[t].token => s = t
  /\ \A i \in Images : b[i] # Unbound <=> \E s \in Occupied(p) : p[s].texture = i
  /\ Accounts(a, TexturesHeld(p, b))

LEMMA OccupiedSlot ==
  ASSUME NEW p \in [Slots -> Textures], NEW s \in Slots
  PROVE  /\ s \in Occupied(p) <=> p[s].texture \in Images
         /\ p[s].texture \in ImageOrNone /\ p[s].token \in NodeIndex
  BY ImagesAssumption DEF Occupied, Textures, ImageOrNone

LEMMA SlotIsHeld ==
  ASSUME NEW p, NEW b, NEW a, SlotsExact(p, b, a), NEW s \in Occupied(p)
  PROVE  /\ p[s].texture \in Images /\ b[p[s].texture] # Unbound
         /\ HeldIn(p, b, s) \in TexturesHeld(p, b)
         /\ HeldIn(p, b, s) = [offset |-> b[p[s].texture].offset, size |-> b[p[s].texture].size,
                               token |-> p[s].token]
<1>1. s \in Slots /\ p \in [Slots -> Textures]  BY DEF SlotsExact, Occupied
<1>2. p[s].texture \in Images  BY <1>1, OccupiedSlot
<1>3. b[p[s].texture] # Unbound  BY <1>2 DEF SlotsExact
<1>4. HeldIn(p, b, s) = [offset |-> b[p[s].texture].offset, size |-> b[p[s].texture].size,
                         token |-> p[s].token]
  BY DEF HeldIn, Allocation
<1>5. QED  BY <1>2, <1>3, <1>4 DEF TexturesHeld

LEMMA NoSlotsExact ==
  SlotsExact([s \in Slots |-> NoTexture], [i \in Images |-> Unbound], ResetRanges)
<1> PICK p, b : p = [s \in Slots |-> NoTexture] /\ b = [i \in Images |-> Unbound]  OBVIOUS
<1>1. 0 \in NodeIndex  BY Constants DEF NodeIndex, node_capacity
<1>2. p \in [Slots -> Textures]  BY <1>1 DEF NoTexture, Textures, ImageOrNone
<1>3. b \in [Images -> Bindings]  BY DEF Unbound, Bindings
<1>4. Occupied(p) = {}  BY DEF Occupied, NoTexture
<1>5. TexturesHeld(p, b) = {}  BY <1>4 DEF TexturesHeld
<1>6. QED  BY <1>2, <1>3, <1>4, <1>5, ResetAccounts DEF SlotsExact

LEMMA PlacesOne ==
  ASSUME NEW p, NEW b, NEW a, SlotsExact(p, b, a),
         NEW s \in Slots, p[s] = NoTexture, NEW i \in Images, b[i] = Unbound,
         NEW size \in TextureSizes, NEW n, n = Candidate(a, size), n # unused_node,
         NEW p2, p2 = [p EXCEPT ![s] = [texture |-> i, token |-> n]],
         NEW b2, b2 = [b EXCEPT ![i] = [offset |-> a.nodes[n].offset * element_size, size |-> size]]
  PROVE  SlotsExact(p2, b2, Split(a, n, Uint32(Requested(size))))
<1> PICK o : o = a.nodes[n].offset * element_size  OBVIOUS
<1> PICK H : H = TexturesHeld(p, b)  OBVIOUS
<1>1. p \in [Slots -> Textures] /\ b \in [Images -> Bindings] /\ Accounts(a, H)  BY DEF SlotsExact
<1>2. size \in Nat \ {0}  BY TextureAssumption
<1>3. RangesInv(a) /\ a \in Ranges /\ UsedOnes(a) = {h.token : h \in H}  BY <1>1 DEF Accounts, RangesInv
<1>4. n \in FreeOnes(a) /\ n \in NodeIndex /\ n \notin UsedOnes(a)
  <2>1. n \in FreeOnes(a)  BY <1>2, <1>3, CandidateFits
  <2>2. QED  BY <1>3, <2>1, LiveAreNodes
<1>5. o \in Nat
  <2>1. a.nodes[n].offset \in Nat /\ element_size \in Nat
    BY <1>3, <1>4, NodeTypes, RangeAllocatorAssumption DEF Ranges
  <2>2. QED  BY <2>1, Products
<1>6. p2 \in [Slots -> Textures]
  <2>1. [texture |-> i, token |-> n] \in Textures  BY <1>4 DEF Textures, ImageOrNone
  <2>2. QED  BY <1>1, <2>1
<1>7. b2 \in [Images -> Bindings]
  <2>1. [offset |-> o, size |-> size] \in Bindings  BY <1>5 DEF Bindings
  <2>2. QED  BY <1>1, <2>1
<1>8. s \notin Occupied(p) /\ Occupied(p2) = Occupied(p) \cup {s}
  <2>1. s \notin Occupied(p)  BY DEF Occupied, NoTexture
  <2>2. p2[s].texture = i /\ i # NoImage  BY <1>1, ImagesAssumption
  <2>3. \A t \in Slots : t # s => p2[t] = p[t]  BY <1>1
  <2>4. QED  BY <2>1, <2>2, <2>3 DEF Occupied
<1>9. /\ p2[s].texture = i /\ p2[s].token = n
      /\ \A t \in Occupied(p) : p2[t] = p[t] /\ t # s /\ p[t].texture # i /\ p[t].token # n
  <2>1. p2[s].texture = i /\ p2[s].token = n  BY <1>1
  <2>2. ASSUME NEW t \in Occupied(p)  PROVE p2[t] = p[t] /\ t # s /\ p[t].texture # i /\ p[t].token # n
    <3>1. t # s /\ t \in Slots  BY <1>8 DEF Occupied
    <3>2. p2[t] = p[t]  BY <1>1, <3>1
    <3>3. p[t].texture # i  BY SlotIsHeld
    <3>4. HeldIn(p, b, t) \in H /\ HeldIn(p, b, t).token = p[t].token  BY SlotIsHeld
    <3>5. p[t].token \in UsedOnes(a)  BY <1>3, <3>4
    <3>6. QED  BY <1>4, <3>1, <3>2, <3>3, <3>5
  <2>3. QED  BY <2>1, <2>2
<1>10. \A t, u \in Occupied(p2) : p2[t].texture = p2[u].texture => t = u
  BY <1>8, <1>9 DEF SlotsExact
<1>11. \A t, u \in Occupied(p2) : p2[t].token = p2[u].token => t = u
  BY <1>8, <1>9 DEF SlotsExact
<1>12. b2[i] = [offset |-> o, size |-> size] /\ \A j \in Images : j # i => b2[j] = b[j]  BY <1>1
<1>13. ASSUME NEW j \in Images  PROVE b2[j] # Unbound <=> \E t \in Occupied(p2) : p2[t].texture = j
  <2>1. CASE j = i
    <3>1. b2[j] # Unbound  BY <1>2, <1>12, <2>1 DEF Unbound
    <3>2. QED  BY <1>8, <1>9, <2>1, <3>1
  <2>2. CASE j # i
    <3>1. b2[j] # Unbound <=> \E t \in Occupied(p) : p[t].texture = j  BY <1>12, <2>2 DEF SlotsExact
    <3>2. QED  BY <1>8, <1>9, <2>2, <3>1
  <2>3. QED  BY <2>1, <2>2
<1>14. TexturesHeld(p2, b2) = H \cup {Allocation(o, size, n)}
  <2>1. HeldIn(p2, b2, s) = Allocation(o, size, n)  BY <1>9, <1>12 DEF HeldIn
  <2>2. ASSUME NEW t \in Occupied(p)  PROVE HeldIn(p2, b2, t) = HeldIn(p, b, t)
    <3>1. p[t].texture \in Images  BY SlotIsHeld
    <3>2. QED  BY <1>9, <1>12, <3>1 DEF HeldIn
  <2>3. H = {HeldIn(p, b, t) : t \in Occupied(p)}  BY DEF TexturesHeld
  <2>4. TexturesHeld(p2, b2) = {HeldIn(p2, b2, t) : t \in Occupied(p)} \cup {HeldIn(p2, b2, s)}
    BY <1>8 DEF TexturesHeld
  <2>5. {HeldIn(p2, b2, t) : t \in Occupied(p)} = {HeldIn(p, b, t) : t \in Occupied(p)}  BY <2>2
  <2>6. QED  BY <2>1, <2>3, <2>4, <2>5
<1>15. Accounts(Split(a, n, Uint32(Requested(size))), H \cup {Allocation(o, size, n)})
  BY <1>1, <1>2, AllocateAccounts
<1>16. QED  BY <1>6, <1>7, <1>10, <1>11, <1>13, <1>14, <1>15 DEF SlotsExact

LEMMA VacatesOne ==
  ASSUME NEW p, NEW b, NEW a, SlotsExact(p, b, a), NEW s \in Occupied(p),
         NEW p2, p2 = [p EXCEPT ![s] = NoTexture],
         NEW b2, b2 = [b EXCEPT ![p[s].texture] = Unbound]
  PROVE  SlotsExact(p2, b2, Freed(a, p[s].token))
<1> PICK i : i = p[s].texture  OBVIOUS
<1> PICK H : H = TexturesHeld(p, b)  OBVIOUS
<1> PICK h : h = HeldIn(p, b, s)  OBVIOUS
<1>1. p \in [Slots -> Textures] /\ b \in [Images -> Bindings] /\ Accounts(a, H) /\ s \in Slots
  BY DEF SlotsExact, Occupied
<1>2. i \in Images /\ h \in H /\ h.token = p[s].token  BY SlotIsHeld
<1>3. p2 \in [Slots -> Textures]
  <2>1. 0 \in NodeIndex  BY Constants DEF NodeIndex, node_capacity
  <2>2. NoTexture \in Textures  BY <2>1 DEF NoTexture, Textures, ImageOrNone
  <2>3. QED  BY <1>1, <2>2
<1>4. b2 \in [Images -> Bindings]
  <2>1. Unbound \in Bindings  BY DEF Unbound, Bindings
  <2>2. QED  BY <1>1, <2>1
<1>5. p2[s] = NoTexture /\ \A t \in Slots : t # s => p2[t] = p[t]  BY <1>1
<1>6. Occupied(p2) = Occupied(p) \ {s}  BY <1>5 DEF Occupied, NoTexture
<1>7. \A t \in Occupied(p2) : p2[t] = p[t] /\ t \in Occupied(p) /\ t # s  BY <1>5, <1>6 DEF Occupied
<1>8. \A t, u \in Occupied(p2) : p2[t].texture = p2[u].texture => t = u  BY <1>7 DEF SlotsExact
<1>9. \A t, u \in Occupied(p2) : p2[t].token = p2[u].token => t = u  BY <1>7 DEF SlotsExact
<1>10. b2[i] = Unbound /\ \A j \in Images : j # i => b2[j] = b[j]  BY <1>1, <1>2
<1>11. \A t \in Occupied(p2) : p[t].texture # i
  <2>1. \A t \in Occupied(p) : p[t].texture = p[s].texture => t = s  BY DEF SlotsExact
  <2>2. QED  BY <1>7, <2>1
<1>12. ASSUME NEW j \in Images  PROVE b2[j] # Unbound <=> \E t \in Occupied(p2) : p2[t].texture = j
  <2>1. CASE j = i  BY <1>7, <1>10, <1>11, <2>1
  <2>2. CASE j # i
    <3>1. b2[j] # Unbound <=> \E t \in Occupied(p) : p[t].texture = j  BY <1>10, <2>2 DEF SlotsExact
    <3>2. QED  BY <1>6, <1>7, <2>2, <3>1
  <2>3. QED  BY <2>1, <2>2
<1>13. TexturesHeld(p2, b2) = H \ {h}
  <2>1. ASSUME NEW t \in Occupied(p2)  PROVE HeldIn(p2, b2, t) = HeldIn(p, b, t) /\ HeldIn(p, b, t) # h
    <3>1. t \in Occupied(p) /\ p2[t] = p[t] /\ p[t].texture # i /\ t # s  BY <1>7, <1>11
    <3>2. p[t].texture \in Images /\ HeldIn(p, b, t).token = p[t].token  BY <3>1, SlotIsHeld
    <3>3. HeldIn(p2, b2, t) = HeldIn(p, b, t)  BY <1>10, <3>1, <3>2 DEF HeldIn
    <3>4. p[t].token # p[s].token  BY <3>1 DEF SlotsExact
    <3>5. QED  BY <1>2, <3>2, <3>3, <3>4
  <2>2. QED  BY <1>6, <2>1 DEF TexturesHeld
<1>14. Accounts(Freed(a, p[s].token), H \ {h})
  <2>1. Accounts(Freed(a, h.token), H \ {h})  BY <1>1, <1>2, FreeAccounts
  <2>2. QED  BY <1>2, <2>1
<1>15. QED  BY <1>3, <1>4, <1>8, <1>9, <1>12, <1>13, <1>14 DEF SlotsExact

(* What a binding says of the node                                         *)
LEMMA BoundIsNode ==
  ASSUME NEW p, NEW b, NEW a, SlotsExact(p, b, a), NEW s \in Occupied(p)
  PROVE  LET m == a.nodes[p[s].token]
             i == p[s].texture
         IN /\ p[s].token \in LiveNodes(a) /\ m.offset \in Nat /\ m.size \in Nat
            /\ m.offset + m.size <= capacity
            /\ b[i].offset = m.offset * element_size
            /\ b[i].size \in Nat \ {0} /\ b[i].size <= m.size * element_size
<1> PICK n, i, h : n = p[s].token /\ i = p[s].texture /\ h = HeldIn(p, b, s)  OBVIOUS
<1> PICK H : H = TexturesHeld(p, b)  OBVIOUS
<1>1. h \in H /\ h.offset = b[i].offset /\ h.size = b[i].size /\ h.token = n  BY SlotIsHeld
<1>2. Accounts(a, H)  BY DEF SlotsExact
<1>3. /\ a \in Ranges /\ UsedOnes(a) = {g.token : g \in H} /\ H \subseteq HeldRecords
      /\ Tiling(a.nodes, LiveNodes(a))
  BY <1>2 DEF Accounts, RangesInv, Whole
<1>4. h.offset = a.nodes[n].offset * element_size /\ a.nodes[n].size = Requested(h.size)
  BY <1>1, <1>2 DEF Accounts
<1>5. n \in LiveNodes(a) /\ n \in NodeIndex
  <2>1. n \in UsedOnes(a)  BY <1>1, <1>3
  <2>2. QED  BY <1>3, <2>1, LiveAreNodes
<1>6. a.nodes[n].offset \in Nat /\ a.nodes[n].size \in Nat  BY <1>3, <1>5, NodeTypes DEF Ranges
<1>7. a.nodes[n].offset + a.nodes[n].size <= capacity  BY <1>3, <1>5 DEF Tiling, End
<1>8. h.size \in Nat \ {0}  BY <1>1, <1>3 DEF HeldRecords
<1>9. h.size <= a.nodes[n].size * element_size  BY <1>4, <1>8, RequestedCovers
<1>10. QED  BY <1>1, <1>4, <1>5, <1>6, <1>7, <1>8, <1>9

LEMMA NodesApart ==
  ASSUME NEW o \in Nat, NEW s \in Nat, NEW t \in Nat, NEW b \in Nat, b <= s * element_size, o + s <= t
  PROVE  /\ o * element_size \in Nat /\ t * element_size \in Nat
         /\ o * element_size + b <= t * element_size
<1> PICK e \in Nat : e = element_size  BY RangeAllocatorAssumption
<1>1. (o + s) * e <= t * e /\ (o + s) * e \in Nat /\ t * e \in Nat  BY Products
<1>2. (o + s) * e = o * e + s * e /\ o * e \in Nat /\ s * e \in Nat  BY SMT
<1>3. QED  BY <1>1, <1>2

LEMMA BindingsApart ==
  ASSUME NEW p, NEW b, NEW a, SlotsExact(p, b, a), NEW i \in Images, NEW j \in Images,
         b[i] # Unbound, b[j] # Unbound
  PROVE  /\ b[i].offset + b[i].size <= capacity * element_size
         /\ b[i].offset \in 0..(capacity * element_size)
         /\ \/ i = j
            \/ b[i].offset + b[i].size <= b[j].offset
            \/ b[j].offset + b[j].size <= b[i].offset
<1>1. PICK s \in Occupied(p), t \in Occupied(p) : p[s].texture = i /\ p[t].texture = j  BY DEF SlotsExact
<1> PICK m, n : m = p[s].token /\ n = p[t].token  OBVIOUS
<1> PICK o, z, u, v : /\ o = a.nodes[m].offset /\ z = a.nodes[m].size
                      /\ u = a.nodes[n].offset /\ v = a.nodes[n].size
  OBVIOUS
<1>2. /\ m \in LiveNodes(a) /\ o \in Nat /\ z \in Nat /\ o + z <= capacity
      /\ b[i].offset = o * element_size /\ b[i].size \in Nat /\ b[i].size <= z * element_size
  BY <1>1, BoundIsNode
<1>3. /\ n \in LiveNodes(a) /\ u \in Nat /\ v \in Nat /\ u + v <= capacity
      /\ b[j].offset = u * element_size /\ b[j].size \in Nat /\ b[j].size <= v * element_size
  BY <1>1, BoundIsNode
<1>4. capacity \in Nat  BY Constants
<1>5. /\ o * element_size \in Nat /\ capacity * element_size \in Nat
      /\ o * element_size + b[i].size <= capacity * element_size
  <2> PICK x, c : x = b[i].size /\ c = capacity  OBVIOUS
  <2>1. o \in Nat /\ z \in Nat /\ c \in Nat /\ x \in Nat /\ x <= z * element_size /\ o + z <= c
    BY <1>2, <1>4
  <2>2. /\ o * element_size \in Nat /\ c * element_size \in Nat
        /\ o * element_size + x <= c * element_size
    BY ONLY <2>1, NodesApart
  <2>3. QED  BY <2>2
<1>6. CASE m = n
  <2>1. s = t  BY <1>6 DEF SlotsExact
  <2>2. QED  BY <1>1, <1>2, <1>5, <2>1
<1>7. CASE m # n
  <2>1. Tiling(a.nodes, LiveNodes(a))  BY DEF SlotsExact, Accounts, RangesInv, Whole
  <2>2. o + z <= u \/ u + v <= o  BY <1>2, <1>3, <1>7, <2>1 DEF Tiling, End
  <2>3. CASE o + z <= u
    <3>1. o * element_size + b[i].size <= u * element_size  BY <1>2, <1>3, <2>3, NodesApart
    <3>2. QED  BY <1>2, <1>3, <1>5, <3>1
  <2>4. CASE u + v <= o
    <3>1. u * element_size + b[j].size <= o * element_size  BY <1>2, <1>3, <2>4, NodesApart
    <3>2. QED  BY <1>2, <1>3, <1>5, <3>1
  <2>5. QED  BY <2>2, <2>3, <2>4
<1>8. QED  BY <1>6, <1>7

-----------------------------------------------------------------------------
(* What is on the list, and what the command buffers being recorded will   *)
(* do to the layouts                                                       *)

Layouts == {"UNDEFINED", "GENERAL"}
Recordings == [batches : Seq(Seq(Images)), uses : SUBSET Images]

ActiveExact(act, b, lay) ==
  /\ act \in Seq(Recordings)
  /\ \A k \in 1..Len(act) :
       /\ BatchesFit(act[k].batches)
       /\ k > 1 => act[k].batches = <<>>
       /\ \A i \in act[k].uses : b[i] # Unbound
       /\ \A i \in Images : InBatches(act[k].batches, i) => b[i] # Unbound /\ lay[i] = "UNDEFINED"

Awaiting(q, act, b, lay) ==
  /\ \A i \in Images : i \in OnList(q)
       <=> b[i] # Unbound /\ lay[i] = "UNDEFINED" /\ \A k \in 1..Len(act) : ~InBatches(act[k].batches, i)
  /\ act # <<>> => q = <<>>

ListExact(l, act, b, lay) == \E q : Threaded(l, q) /\ Awaiting(q, act, b, lay)

LEMMA NoneActive ==
  ASSUME NEW b, NEW lay
  PROVE  /\ ActiveExact(<<>>, b, lay)
         /\ \A q : Awaiting(q, <<>>, b, lay)
                     <=> \A i \in Images : i \in OnList(q) <=> b[i] # Unbound /\ lay[i] = "UNDEFINED"
  BY DEF ActiveExact, Awaiting

LEMMA OnListOfNone == \A i : i \notin OnList(<<>>)
  BY DEF OnList

LEMMA NothingToAwait ==
  ListExact(EmptyList, <<>>, [i \in Images |-> Unbound], [i \in Images |-> "UNDEFINED"])
<1> PICK b, lay : b = [i \in Images |-> Unbound] /\ lay = [i \in Images |-> "UNDEFINED"]  OBVIOUS
<1>1. \A i \in Images : i \in OnList(<<>>) <=> b[i] # Unbound /\ lay[i] = "UNDEFINED"  BY OnListOfNone
<1>2. Awaiting(<<>>, <<>>, b, lay)  BY <1>1, NoneActive
<1>3. QED  BY <1>2, ListOfNone DEF ListExact

(* A texture created is the last on the list                               *)
LEMMA CreatedAwaits ==
  ASSUME NEW l, NEW b \in [Images -> Bindings], NEW lay \in [Images -> Layouts],
         ListExact(l, <<>>, b, lay),
         NEW i \in Images, b[i] = Unbound, NEW place \in Bindings, place # Unbound
  PROVE  ListExact(append_texture_initialization(l, i), <<>>, [b EXCEPT ![i] = place],
                   [lay EXCEPT ![i] = "UNDEFINED"])
<1> PICK b2, lay2 : b2 = [b EXCEPT ![i] = place] /\ lay2 = [lay EXCEPT ![i] = "UNDEFINED"]  OBVIOUS
<1>1. PICK q : Threaded(l, q) /\ Awaiting(q, <<>>, b, lay)  BY DEF ListExact
<1>2. \A j \in Images : j \in OnList(q) <=> b[j] # Unbound /\ lay[j] = "UNDEFINED"  BY <1>1, NoneActive
<1>3. i \notin OnList(q)  BY <1>2
<1>4. Threaded(append_texture_initialization(l, i), Append(q, i))  BY <1>1, <1>3, AppendThreads
<1>5. OnList(Append(q, i)) = OnList(q) \cup {i}  BY <1>1, OnListAppend DEF Threaded
<1>6. b2[i] = place /\ lay2[i] = "UNDEFINED" /\ \A j \in Images : j # i => b2[j] = b[j] /\ lay2[j] = lay[j]
  OBVIOUS
<1>7. \A j \in Images : j \in OnList(Append(q, i)) <=> b2[j] # Unbound /\ lay2[j] = "UNDEFINED"
  BY <1>2, <1>5, <1>6
<1>8. Awaiting(Append(q, i), <<>>, b2, lay2)  BY <1>7, NoneActive
<1>9. QED  BY <1>4, <1>8 DEF ListExact

LEMMA OwnedIsOnList ==
  ASSUME NEW l, NEW q, Threaded(l, q), NEW i \in Images
  PROVE  l.links[i].owned <=> i \in OnList(q)
<1>1. CASE i \in OnList(q)
  <2>1. PICK k \in 1..Len(q) : i = q[k]  BY <1>1 DEF OnList
  <2>2. l.links[i] = Between(q, k)  BY <2>1 DEF Threaded
  <2>3. QED  BY <1>1, <2>2 DEF Between
<1>2. CASE i \notin OnList(q)
  <2>1. l.links[i] = Detached  BY <1>2 DEF Threaded
  <2>2. QED  BY <1>2, <2>1 DEF Detached
<1>3. QED  BY <1>1, <1>2

(* A texture destroyed is taken off the list, if it is on it               *)
LEMMA DestroyedDoesNotAwait ==
  ASSUME NEW l, NEW b \in [Images -> Bindings], NEW lay, NEW act, ListExact(l, act, b, lay),
         ActiveExact(act, b, lay), NEW i \in Images,
         \A k \in 1..Len(act) : ~InBatches(act[k].batches, i) /\ i \notin act[k].uses
  PROVE  /\ ListExact(DestroyedInitialization(l, i), act, [b EXCEPT ![i] = Unbound], lay)
         /\ ActiveExact(act, [b EXCEPT ![i] = Unbound], lay)
<1> PICK b2 : b2 = [b EXCEPT ![i] = Unbound]  OBVIOUS
<1>1. PICK q : Threaded(l, q) /\ Awaiting(q, act, b, lay)  BY DEF ListExact
<1>2. b2[i] = Unbound /\ \A j \in Images : j # i => b2[j] = b[j]  OBVIOUS
<1>3. ActiveExact(act, b2, lay)
  <2>1. ASSUME NEW k \in 1..Len(act)
        PROVE  /\ \A j \in act[k].uses : b2[j] # Unbound
               /\ \A j \in Images : InBatches(act[k].batches, j) => b2[j] # Unbound /\ lay[j] = "UNDEFINED"
    <3>1. act[k].uses \subseteq Images
      <4>1. act[k] \in Recordings  BY DEF ActiveExact
      <4>2. QED  BY <4>1 DEF Recordings
    <3>2. /\ \A j \in act[k].uses : b[j] # Unbound
          /\ \A j \in Images : InBatches(act[k].batches, j) => b[j] # Unbound /\ lay[j] = "UNDEFINED"
      BY DEF ActiveExact
    <3>3. QED  BY <1>2, <3>1, <3>2
  <2>2. QED  BY <2>1 DEF ActiveExact
<1>4. CASE i \in OnList(q)
  <2>1. PICK p \in 1..Len(q) : i = q[p]  BY <1>4 DEF OnList
  <2>2. DestroyedInitialization(l, i) = remove_texture_initialization(l, q[p])
    BY <1>1, <1>4, <2>1, OwnedIsOnList DEF DestroyedInitialization
  <2>3. Threaded(remove_texture_initialization(l, q[p]), Without(q, p))  BY <1>1, <2>1, RemoveThreads
  <2>4. OnList(Without(q, p)) = OnList(q) \ {i}
    <3>1. q \in Seq(Images) /\ Injective(q)  BY <1>1 DEF Threaded
    <3>2. QED  BY <2>1, <3>1, WithoutOne
  <2>5. act = <<>>  BY <1>1, <1>4, OnListOfNone DEF Awaiting
  <2>6. Awaiting(Without(q, p), act, b2, lay)  BY <1>1, <1>2, <2>4, <2>5 DEF Awaiting
  <2>7. QED  BY <1>3, <2>2, <2>3, <2>6 DEF ListExact
<1>5. CASE i \notin OnList(q)
  <2>1. DestroyedInitialization(l, i) = l  BY <1>1, <1>5, OwnedIsOnList DEF DestroyedInitialization
  <2>2. Awaiting(q, act, b2, lay)  BY <1>1, <1>2, <1>5 DEF Awaiting
  <2>3. QED  BY <1>1, <1>3, <2>1, <2>2 DEF ListExact
<1>6. QED  BY <1>4, <1>5

(* The command buffer begun first takes all that is on the list, the       *)
(* others find it empty                                                    *)
LEMMA BegunTakesAll ==
  ASSUME NEW l, NEW b, NEW lay, NEW act, ListExact(l, act, b, lay), ActiveExact(act, b, lay),
         NEW c, c = [batches |-> RecordedPending(l).batches, uses |-> {}]
  PROVE  /\ ListExact(RecordedPending(l).list, Append(act, c), b, lay)
         /\ ActiveExact(Append(act, c), b, lay)
<1> PICK n \in Nat : n = Len(act)  BY DEF ActiveExact
<1> PICK act2 : act2 = Append(act, c)  OBVIOUS
<1>1. PICK q : Threaded(l, q) /\ Awaiting(q, act, b, lay)  BY DEF ListExact
<1>2. /\ Threaded(RecordedPending(l).list, <<>>)
      /\ c.batches \in Seq(Seq(Images)) /\ BatchesFit(c.batches) /\ c.uses = {}
      /\ \A i \in Images : i \in OnList(q) <=> InBatches(c.batches, i)
  BY <1>1, RecordsAll
<1>3. c \in Recordings /\ act \in Seq(Recordings)  BY <1>2 DEF Recordings, ActiveExact
<1>4. /\ act2 \in Seq(Recordings) /\ Len(act2) = n + 1 /\ act2[n + 1] = c
      /\ \A k \in 1..n : act2[k] = act[k]
  BY <1>3
<1>5. \A k \in 1..(n + 1) : k \in 1..n \/ k = n + 1  OBVIOUS
<1>6. \A k \in 1..n : k \in 1..(n + 1)  OBVIOUS
<1>7. n + 1 \in 1..(n + 1)  OBVIOUS
<1>8. n + 1 > 1 => c.batches = <<>>
  <2> SUFFICES ASSUME n # 0, c.batches # <<>> PROVE FALSE  OBVIOUS
  <2>1. q = <<>>  BY <1>1 DEF Awaiting
  <2>2. Len(c.batches) \in Nat /\ 1 \in 1..Len(c.batches)  BY <1>2
  <2>3. c.batches[1] \in Seq(Images) /\ Len(c.batches[1]) \in 1..image_barrier_batch_size
    BY <1>2, <2>2 DEF BatchesFit
  <2>4. 1 \in 1..Len(c.batches[1]) /\ c.batches[1][1] \in Images  BY <2>3, ImagesAssumption
  <2>5. InBatches(c.batches, c.batches[1][1])  BY <2>2, <2>4 DEF InBatches, OnList
  <2>6. QED  BY <1>2, <2>1, <2>4, <2>5, OnListOfNone
<1>9. ASSUME NEW k \in 1..(n + 1)
      PROVE  /\ BatchesFit(act2[k].batches)
             /\ k > 1 => act2[k].batches = <<>>
             /\ \A i \in act2[k].uses : b[i] # Unbound
             /\ \A i \in Images : InBatches(act2[k].batches, i) => b[i] # Unbound /\ lay[i] = "UNDEFINED"
  <2>1. CASE k \in 1..n  BY <1>4, <2>1 DEF ActiveExact
  <2>2. CASE k = n + 1
    <3>1. \A i \in Images : InBatches(c.batches, i) => b[i] # Unbound /\ lay[i] = "UNDEFINED"
      BY <1>1, <1>2 DEF Awaiting
    <3>2. QED  BY <1>2, <1>4, <1>8, <2>2, <3>1
  <2>3. QED  BY <1>5, <2>1, <2>2
<1>10. ActiveExact(act2, b, lay)  BY <1>4, <1>9 DEF ActiveExact
<1>11. ASSUME NEW i \in Images, b[i] # Unbound, lay[i] = "UNDEFINED",
              \A k \in 1..(n + 1) : ~InBatches(act2[k].batches, i)
       PROVE  FALSE
  <2>1. \A k \in 1..n : ~InBatches(act[k].batches, i)  BY <1>4, <1>6, <1>11
  <2>2. i \in OnList(q)  BY <1>1, <1>11, <2>1 DEF Awaiting
  <2>3. InBatches(c.batches, i)  BY <1>2, <2>2
  <2>4. QED  BY <1>4, <1>7, <1>11, <2>3
<1>12. Awaiting(<<>>, act2, b, lay)  BY <1>4, <1>11, OnListOfNone DEF Awaiting
<1>13. QED  BY <1>2, <1>10, <1>12 DEF ListExact

LEMMA UsedStaysExact ==
  ASSUME NEW l, NEW b, NEW lay, NEW act, ListExact(l, act, b, lay), ActiveExact(act, b, lay),
         NEW k \in DOMAIN act, NEW i \in Images, b[i] # Unbound,
         NEW act2, act2 = [act EXCEPT ![k].uses = @ \cup {i}]
  PROVE  ListExact(l, act2, b, lay) /\ ActiveExact(act2, b, lay)
<1> PICK n \in Nat : n = Len(act)  BY DEF ActiveExact
<1>1. act \in Seq(Recordings) /\ k \in 1..n /\ DOMAIN act = 1..n  BY DEF ActiveExact
<1> PICK c : c = [batches |-> act[k].batches, uses |-> act[k].uses \cup {i}]  OBVIOUS
<1>2. [act[k] EXCEPT !.uses = @ \cup {i}] = c /\ c \in Recordings
  <2>1. act[k] \in Recordings  BY <1>1
  <2>2. PICK x \in Seq(Seq(Images)), y \in SUBSET Images : act[k] = [batches |-> x, uses |-> y]
    BY <2>1 DEF Recordings
  <2>3. c = [batches |-> x, uses |-> y \cup {i}] /\ y \cup {i} \in SUBSET Images  BY <2>2
  <2>4. c \in Recordings  BY <2>3 DEF Recordings
  <2>5. [act[k] EXCEPT !.uses = @ \cup {i}] = c
    <3>1. ASSUME NEW u
          PROVE  [act[k] EXCEPT !.uses = u] = [batches |-> act[k].batches, uses |-> u]
      BY <2>1 DEF Recordings
    <3>2. QED  BY <3>1
  <2>6. QED  BY <2>4, <2>5
<1>3. act2 = [act EXCEPT ![k] = c]  BY <1>2
<1>4. act2 \in Seq(Recordings) /\ Len(act2) = n  BY <1>1, <1>2, <1>3
<1>5. \A m \in 1..n : act2[m].batches = act[m].batches  BY <1>1, <1>3
<1>6. \A m \in 1..n : act2[m].uses = act[m].uses \/ act2[m].uses = act[m].uses \cup {i}  BY <1>1, <1>3
<1>7. ActiveExact(act2, b, lay)
  <2>1. ASSUME NEW m \in 1..n
        PROVE  /\ BatchesFit(act2[m].batches)
               /\ m > 1 => act2[m].batches = <<>>
               /\ \A j \in act2[m].uses : b[j] # Unbound
               /\ \A j \in Images : InBatches(act2[m].batches, j) => b[j] # Unbound /\ lay[j] = "UNDEFINED"
    <3>1. /\ BatchesFit(act[m].batches)
          /\ m > 1 => act[m].batches = <<>>
          /\ \A j \in act[m].uses : b[j] # Unbound
          /\ \A j \in Images : InBatches(act[m].batches, j) => b[j] # Unbound /\ lay[j] = "UNDEFINED"
      BY DEF ActiveExact
    <3>2. QED  BY <1>5, <1>6, <3>1
  <2>2. QED  BY <1>4, <2>1 DEF ActiveExact
<1>8. PICK q : Threaded(l, q) /\ Awaiting(q, act, b, lay)  BY DEF ListExact
<1>9. act # <<>>  BY <1>1
<1>10. Awaiting(q, act2, b, lay)  BY <1>4, <1>5, <1>8, <1>9 DEF Awaiting
<1>11. QED  BY <1>7, <1>8, <1>10 DEF ListExact

-----------------------------------------------------------------------------
(* What the GPU does with a submission                                     *)

LEMMA BarriersAre ==
  ASSUME NEW c \in Recordings, NEW i \in Images
  PROVE  i \in BarriersOf(c) <=> InBatches(c.batches, i)
<1>1. c.batches \in Seq(Seq(Images)) /\ DOMAIN c.batches = 1..Len(c.batches)  BY DEF Recordings
<1>2. \A k \in 1..Len(c.batches) : ToSet(c.batches[k]) = OnList(c.batches[k])
  <2>1. \A k \in 1..Len(c.batches) : DOMAIN c.batches[k] = 1..Len(c.batches[k])  BY <1>1
  <2>2. QED  BY <2>1 DEF ToSet, OnList
<1>3. QED  BY <1>1, <1>2 DEF BarriersOf, InBatches

LEMMA BarriersAreImages ==
  ASSUME NEW c \in Recordings
  PROVE  BarriersOf(c) \subseteq Images
<1>1. c.batches \in Seq(Seq(Images)) /\ DOMAIN c.batches = 1..Len(c.batches)  BY DEF Recordings
<1>2. \A k \in 1..Len(c.batches) : ToSet(c.batches[k]) \subseteq Images
  <2>1. \A k \in 1..Len(c.batches) : c.batches[k] \in Seq(Images)  BY <1>1
  <2>2. QED  BY <2>1 DEF ToSet
<1>3. QED  BY <1>1, <1>2 DEF BarriersOf

(* The layouts once the command buffers of act have run                    *)
AfterAll(act, lay) == [i \in Images |-> IF i \in BarriersOf(act[1]) THEN "GENERAL" ELSE lay[i]]

LEMMA AfterAllType ==
  ASSUME NEW act, NEW lay \in [Images -> Layouts]
  PROVE  AfterAll(act, lay) \in [Images -> Layouts]
  BY DEF AfterAll, Layouts

(* No live texture is left without its transition                          *)
AllGeneral(act, b, lay) == \A i \in Images : b[i] # Unbound => AfterAll(act, lay)[i] = "GENERAL"

LEMMA LiveAreGeneral ==
  ASSUME NEW l, NEW b, NEW lay \in [Images -> Layouts], NEW act, ListExact(l, act, b, lay),
         ActiveExact(act, b, lay), act # <<>>
  PROVE  AllGeneral(act, b, lay)
<1> SUFFICES ASSUME NEW i \in Images, b[i] # Unbound PROVE AfterAll(act, lay)[i] = "GENERAL"
  BY DEF AllGeneral
<1>1. SUFFICES ASSUME lay[i] = "UNDEFINED" PROVE i \in BarriersOf(act[1])  BY DEF AfterAll, Layouts
<1>2. PICK q : Awaiting(q, act, b, lay)  BY DEF ListExact
<1>3. i \notin OnList(q)  BY <1>2, OnListOfNone DEF Awaiting
<1>4. PICK k \in 1..Len(act) : InBatches(act[k].batches, i)  BY <1>1, <1>2, <1>3 DEF Awaiting
<1>5. act \in Seq(Recordings) /\ act[k] \in Recordings  BY DEF ActiveExact
<1>6. k = 1
  <2>1. ~(k > 1)
    <3>1. SUFFICES ASSUME k > 1 PROVE FALSE  OBVIOUS
    <3>2. act[k].batches = <<>>  BY <3>1 DEF ActiveExact
    <3>3. QED  BY <1>4, <3>2 DEF InBatches
  <2>2. QED  BY <2>1
<1>7. QED  BY <1>4, <1>5, <1>6, BarriersAre

(* A command buffer that transitions what is undefined and uses what is    *)
(* general, all of it live, gives a validation layer nothing to object to  *)
Clean(gpu, c, after) ==
  /\ gpu.reports = {} /\ Touched(c) \subseteq Live
  /\ \A j \in BarriersOf(c) : gpu.layout[j] # "GENERAL"
  /\ after = [i \in Images |-> IF i \in BarriersOf(c) THEN "GENERAL" ELSE gpu.layout[i]]
  /\ \A j \in c.uses : after[j] = "GENERAL"

LEMMA RunsClean ==
  ASSUME NEW gpu, NEW c, NEW after, Clean(gpu, c, after)
  PROVE  Run(gpu, c) = [layout |-> after, reports |-> {}]
<1>1. Touched(c) \ Live = {}  BY DEF Clean
<1>2. {j \in BarriersOf(c) : gpu.layout[j] = "GENERAL"} = {}  BY DEF Clean
<1>3. {j \in c.uses : after[j] # "GENERAL"} = {}  BY DEF Clean
<1>4. after = [i \in Images |-> IF i \in BarriersOf(c) THEN "GENERAL" ELSE gpu.layout[i]] /\ gpu.reports = {}
  BY DEF Clean
<1>5. QED  BY <1>1, <1>2, <1>3, <1>4 DEF Run

LEMMA SubmitsClean ==
  ASSUME ListExact(pending_texture_initializations, active, bound, layout),
         ActiveExact(active, bound, layout), layout \in [Images -> Layouts], reports = {},
         active # <<>>, submit
  PROVE  layout' = AfterAll(active, layout) /\ reports' = {}
<1> PICK n \in Nat : n = Len(active)  BY DEF ActiveExact
<1> PICK act, lay : act = active /\ lay = layout  OBVIOUS
<1>1. act \in Seq(Recordings) /\ DOMAIN act = 1..n /\ n # 0  BY DEF ActiveExact
<1> PICK final : final = AfterAll(act, lay)  OBVIOUS
<1> PICK start : start = [layout |-> lay, reports |-> {}]  OBVIOUS
<1> PICK done : done = [layout |-> final, reports |-> {}]  OBVIOUS
<1> DEFINE Loop(o, f) ==
             f = [k \in 0..Len(active) |-> IF k = 0 THEN [layout |-> layout, reports |-> reports]
                                           ELSE Run(f[k - 1], active[o[k]])]
<1>2. PICK o \in Orders : /\ layout' = (CHOOSE f : Loop(o, f))[Len(active)].layout
                          /\ reports' = (CHOOSE f : Loop(o, f))[Len(active)].reports
  BY DEF submit
<1>3. o \in [1..n -> 1..n] /\ o[1] = 1 /\ \A j, k \in 1..n : o[j] = o[k] => j = k
  BY <1>1 DEF Orders, IsInjective
<1>4. \A i \in Images : i \in Live <=> bound[i] # Unbound  BY DEF Live
<1>5. \A i \in Images : bound[i] # Unbound => final[i] = "GENERAL"
  <2>1. AllGeneral(act, bound, lay)  BY LiveAreGeneral
  <2>2. QED  BY <2>1 DEF AllGeneral
<1>6. ASSUME NEW k \in 1..n
      PROVE  /\ Touched(act[k]) \subseteq Live
             /\ \A j \in act[k].uses : j \in Images /\ final[j] = "GENERAL"
             /\ BarriersOf(act[k]) \subseteq Images
             /\ \A j \in BarriersOf(act[k]) : lay[j] # "GENERAL"
             /\ k > 1 => BarriersOf(act[k]) = {}
  <2>1. act[k] \in Recordings /\ act[k].uses \subseteq Images
    <3>1. act[k] \in Recordings  BY <1>1
    <3>2. QED  BY <3>1 DEF Recordings
  <2>2. BarriersOf(act[k]) \subseteq Images  BY <2>1, BarriersAreImages
  <2>3. \A j \in Images : j \in BarriersOf(act[k]) <=> InBatches(act[k].batches, j)  BY <2>1, BarriersAre
  <2>4. /\ k > 1 => act[k].batches = <<>>
        /\ \A j \in act[k].uses : bound[j] # Unbound
        /\ \A j \in Images : InBatches(act[k].batches, j) => bound[j] # Unbound /\ lay[j] = "UNDEFINED"
    BY DEF ActiveExact
  <2>5. Touched(act[k]) \subseteq Live  BY <1>4, <2>1, <2>2, <2>3, <2>4 DEF Touched
  <2>6. k > 1 => BarriersOf(act[k]) = {}
    <3>1. \A j \in Images : ~InBatches(<<>>, j)  BY DEF InBatches
    <3>2. QED  BY <2>2, <2>3, <2>4, <3>1
  <2>7. \A j \in BarriersOf(act[k]) : lay[j] # "GENERAL"  BY <2>2, <2>3, <2>4
  <2>8. QED  BY <1>5, <2>1, <2>2, <2>4, <2>5, <2>6, <2>7
<1>7. Run(start, act[o[1]]) = done
  <2>1. 1 \in 1..n  BY <1>1
  <2>2. final = [i \in Images |-> IF i \in BarriersOf(act[1]) THEN "GENERAL" ELSE start.layout[i]]
    BY DEF AfterAll
  <2>3. /\ start.reports = {} /\ Touched(act[1]) \subseteq Live
        /\ \A j \in BarriersOf(act[1]) : start.layout[j] # "GENERAL"
        /\ \A j \in act[1].uses : final[j] = "GENERAL"
    BY <1>6, <2>1
  <2>4. Run(start, act[1]) = [layout |-> final, reports |-> {}]
    <3>1. Clean(start, act[1], final)  BY ONLY <2>2, <2>3 DEF Clean
    <3>2. QED  BY ONLY <3>1, RunsClean
  <2>5. QED  BY <1>3, <2>4
<1>8. ASSUME NEW k \in 2..n  PROVE Run(done, act[o[k]]) = done
  <2> PICK m \in 1..n : m = o[k]  BY <1>3
  <2>1. m # 1  BY <1>3
  <2>2. m > 1  BY <2>1
  <2>3. /\ BarriersOf(act[m]) = {} /\ Touched(act[m]) \subseteq Live
        /\ \A j \in act[m].uses : final[j] = "GENERAL"
    BY <1>6, <2>2
  <2>4. final = [i \in Images |-> IF i \in BarriersOf(act[m]) THEN "GENERAL" ELSE done.layout[i]]
    BY <2>3 DEF AfterAll
  <2>5. done.reports = {} /\ \A j \in BarriersOf(act[m]) : done.layout[j] # "GENERAL"  BY <2>3
  <2>6. Run(done, act[m]) = [layout |-> final, reports |-> {}]
    <3>1. Clean(done, act[m], final)  BY ONLY <2>3, <2>4, <2>5 DEF Clean
    <3>2. QED  BY ONLY <3>1, RunsClean
  <2>7. QED  BY <2>6
<1> PICK g : g = [k \in 0..n |-> IF k = 0 THEN start ELSE done]  OBVIOUS
<1>9. \A k \in 0..n : g[k] = IF k = 0 THEN start ELSE Run(g[k - 1], act[o[k]])
  <2>1. ASSUME NEW k \in 0..n  PROVE g[k] = IF k = 0 THEN start ELSE Run(g[k - 1], act[o[k]])
    <3>1. CASE k = 0  BY <3>1
    <3>2. CASE k = 1
      <4>1. g[k - 1] = start /\ g[k] = done  BY <3>2
      <4>2. QED  BY <1>7, <3>2, <4>1
    <3>3. CASE k # 0 /\ k # 1
      <4>1. k \in 2..n /\ k - 1 \in 0..n /\ k - 1 # 0  BY <3>3
      <4>2. g[k - 1] = done /\ g[k] = done  BY <4>1
      <4>3. QED  BY <1>8, <3>3, <4>1, <4>2
    <3>4. QED  BY <3>1, <3>2, <3>3
  <2>2. QED  BY <2>1
<1> PICK f : f = CHOOSE h : Loop(o, h)  OBVIOUS
<1>10. \A k \in 0..n : f[k] = IF k = 0 THEN start ELSE Run(f[k - 1], act[o[k]])
  <2>1. Loop(o, g)
    <3>1. ASSUME NEW k \in 0..Len(active)
          PROVE  g[k] = IF k = 0 THEN [layout |-> layout, reports |-> reports]
                        ELSE Run(g[k - 1], active[o[k]])
      BY <1>9
    <3>2. g = [k \in 0..Len(active) |-> g[k]]  OBVIOUS
    <3>3. QED  BY <3>1, <3>2
  <2>2. Loop(o, f)
    <3> HIDE DEF Loop
    <3>1. QED  BY <2>1
  <2>3. QED  BY <2>2
<1>11. f[n] = done
  <2> DEFINE Good == {k \in 0..n : f[k] = g[k]}
  <2>1. 0 \in Good
    <3>1. 0 \in 0..n  OBVIOUS
    <3>2. f[0] = start /\ g[0] = start  BY <1>10, <3>1
    <3>3. QED  BY <3>1, <3>2
  <2>2. ASSUME NEW k \in 1..n, k - 1 \in Good  PROVE k \in Good
    <3>1. k \in 0..n /\ k # 0 /\ f[k - 1] = g[k - 1]  BY <2>2
    <3>2. f[k] = Run(f[k - 1], act[o[k]])  BY <1>10, <3>1
    <3>3. g[k] = Run(g[k - 1], act[o[k]])  BY <1>9, <3>1
    <3>4. QED  BY <3>1, <3>2, <3>3
  <2>3. \A k \in 0..n : k \in Good
    <3> HIDE DEF Good
    <3>1. QED  BY <2>1, <2>2, StepByStep
  <2>4. n \in 0..n /\ n # 0  BY <1>1
  <2>5. QED  BY <2>3, <2>4
<1>12. layout' = f[n].layout /\ reports' = f[n].reports
  <2> HIDE DEF Loop
  <2>1. QED  BY <1>2
<1>13. QED  BY <1>11, <1>12

(* Afterwards no texture of the list's awaits its transition               *)
LEMMA SubmittedAreGeneral ==
  ASSUME NEW l, NEW b, NEW lay \in [Images -> Layouts], NEW act, ListExact(l, act, b, lay),
         ActiveExact(act, b, lay), act # <<>>
  PROVE  ListExact(l, <<>>, b, AfterAll(act, lay))
<1> PICK final : final = AfterAll(act, lay)  OBVIOUS
<1>1. PICK q : Threaded(l, q) /\ Awaiting(q, act, b, lay)  BY DEF ListExact
<1>2. q = <<>>  BY <1>1 DEF Awaiting
<1>3. \A i \in Images : b[i] # Unbound => final[i] = "GENERAL"
  <2>1. AllGeneral(act, b, lay)  BY LiveAreGeneral
  <2>2. QED  BY <2>1 DEF AllGeneral
<1>4. \A i \in Images : i \in OnList(<<>>) <=> b[i] # Unbound /\ final[i] = "UNDEFINED"
  BY <1>3, OnListOfNone
<1>5. Awaiting(<<>>, <<>>, b, final)  BY <1>4, NoneActive
<1>6. QED  BY <1>1, <1>2, <1>5 DEF ListExact

-----------------------------------------------------------------------------
(* The inductive invariant of TextureAllocator                             *)

TextureIInv ==
  /\ SlotsExact(placed, bound, texture_ranges_)
  /\ layout \in [Images -> Layouts]
  /\ ActiveExact(active, bound, layout)
  /\ ListExact(pending_texture_initializations, active, bound, layout)
  /\ reports = {}

LEMMA TextureInitInv == TextureInit => TextureIInv
<1> SUFFICES ASSUME TextureInit PROVE TextureIInv  OBVIOUS
<1>1. SlotsExact(placed, bound, texture_ranges_)  BY NoSlotsExact DEF TextureInit
<1>2. ListExact(pending_texture_initializations, active, bound, layout)  BY NothingToAwait DEF TextureInit
<1>3. ActiveExact(active, bound, layout)  BY NoneActive DEF TextureInit
<1>4. layout \in [Images -> Layouts] /\ reports = {}  BY DEF TextureInit, Layouts
<1>5. QED  BY <1>1, <1>2, <1>3, <1>4 DEF TextureIInv

LEMMA AllocateTextureKeeps ==
  ASSUME TextureIInv, NEW s \in Slots, NEW size \in TextureSizes, AllocateTexture(s, size)
  PROVE  TextureIInv'
<1> PICK n : n = Candidate(texture_ranges_, size)  OBVIOUS
<1> PICK place : place = [offset |-> texture_ranges_.nodes[n].offset * element_size, size |-> size]  OBVIOUS
<1>1. PICK i \in Images \ Live :
        /\ bound' = [bound EXCEPT ![i] = place]
        /\ placed' = [placed EXCEPT ![s] = [texture |-> i, token |-> n]]
        /\ pending_texture_initializations' =
             append_texture_initialization(pending_texture_initializations, i)
        /\ layout' = [layout EXCEPT ![i] = "UNDEFINED"]
  BY DEF AllocateTexture
<1>2. /\ n # unused_node /\ placed[s] = NoTexture /\ active = <<>>
      /\ texture_ranges_' = Split(texture_ranges_, n, Uint32(Requested(size)))
      /\ active' = active /\ reports' = reports
  BY DEF AllocateTexture
<1>3. /\ SlotsExact(placed, bound, texture_ranges_) /\ layout \in [Images -> Layouts] /\ reports = {}
      /\ ListExact(pending_texture_initializations, active, bound, layout)
      /\ bound \in [Images -> Bindings]
  BY DEF TextureIInv, SlotsExact
<1>4. i \in Images /\ bound[i] = Unbound  BY DEF Live
<1>5. SlotsExact(placed', bound', texture_ranges_')
  BY <1>1, <1>2, <1>3, <1>4, PlacesOne
<1>6. place \in Bindings /\ place # Unbound
  <2>1. bound'[i] = place /\ bound' \in [Images -> Bindings]  BY <1>1, <1>3, <1>5 DEF SlotsExact
  <2>2. size # 0  BY TextureAssumption
  <2>3. QED  BY <2>1, <2>2 DEF Unbound
<1>7. ListExact(pending_texture_initializations', active', bound', layout')
  <2>1. ListExact(append_texture_initialization(pending_texture_initializations, i), <<>>,
                  [bound EXCEPT ![i] = place], [layout EXCEPT ![i] = "UNDEFINED"])
    BY <1>2, <1>3, <1>4, <1>6, CreatedAwaits
  <2>2. QED  BY <1>1, <1>2, <2>1
<1>8. layout' \in [Images -> Layouts]  BY <1>1, <1>3 DEF Layouts
<1>9. ActiveExact(active', bound', layout')  BY <1>2, NoneActive
<1>10. QED  BY <1>2, <1>3, <1>5, <1>7, <1>8, <1>9 DEF TextureIInv

LEMMA FreeTextureKeeps ==
  ASSUME TextureIInv, NEW s \in Slots, FreeTexture(s)
  PROVE  TextureIInv'
<1> PICK i : i = placed[s].texture  OBVIOUS
<1>1. /\ i # NoImage /\ i \notin InUse
      /\ texture_ranges_' = Freed(texture_ranges_, placed[s].token)
      /\ pending_texture_initializations' = DestroyedInitialization(pending_texture_initializations, i)
      /\ bound' = [bound EXCEPT ![i] = Unbound]
      /\ placed' = [placed EXCEPT ![s] = NoTexture]
      /\ active' = active /\ layout' = layout /\ reports' = reports
  BY DEF FreeTexture
<1>2. /\ SlotsExact(placed, bound, texture_ranges_) /\ layout \in [Images -> Layouts] /\ reports = {}
      /\ ListExact(pending_texture_initializations, active, bound, layout)
      /\ ActiveExact(active, bound, layout)
      /\ bound \in [Images -> Bindings]
  BY DEF TextureIInv, SlotsExact
<1>3. s \in Occupied(placed)  BY <1>1 DEF Occupied
<1>4. i \in Images  BY <1>2, <1>3, SlotIsHeld
<1>5. SlotsExact(placed', bound', texture_ranges_')  BY <1>1, <1>2, <1>3, VacatesOne
<1>6. ASSUME NEW k \in 1..Len(active)  PROVE ~InBatches(active[k].batches, i) /\ i \notin active[k].uses
  <2>1. active \in Seq(Recordings) /\ active[k] \in Recordings /\ k \in DOMAIN active  BY <1>2 DEF ActiveExact
  <2>2. i \notin Touched(active[k])  BY <1>1, <2>1 DEF InUse
  <2>3. QED  BY <1>4, <2>1, <2>2, BarriersAre DEF Touched
<1>7. /\ ListExact(pending_texture_initializations', active, bound', layout)
      /\ ActiveExact(active, bound', layout)
  BY <1>1, <1>2, <1>4, <1>6, DestroyedDoesNotAwait
<1>8. QED  BY <1>1, <1>2, <1>5, <1>7 DEF TextureIInv

LEMMA BeginKeeps == ASSUME TextureIInv, begin_commands PROVE TextureIInv'
<1> PICK l : l = pending_texture_initializations  OBVIOUS
<1> PICK c : c = [batches |-> RecordedPending(l).batches, uses |-> {}]  OBVIOUS
<1>1. /\ active' = Append(active, c) /\ pending_texture_initializations' = RecordedPending(l).list
      /\ texture_ranges_' = texture_ranges_ /\ placed' = placed /\ bound' = bound
      /\ layout' = layout /\ reports' = reports
  BY DEF begin_commands
<1>2. /\ ListExact(RecordedPending(l).list, Append(active, c), bound, layout)
      /\ ActiveExact(Append(active, c), bound, layout)
  <2>1. ListExact(l, active, bound, layout) /\ ActiveExact(active, bound, layout)  BY DEF TextureIInv
  <2>2. QED  BY <2>1, BegunTakesAll
<1>3. QED  BY <1>1, <1>2 DEF TextureIInv

LEMMA UseKeeps ==
  ASSUME TextureIInv, NEW k \in DOMAIN active, NEW s \in Slots, RecordUse(k, s)
  PROVE  TextureIInv'
<1> PICK i : i = placed[s].texture  OBVIOUS
<1>1. /\ i # NoImage /\ active' = [active EXCEPT ![k].uses = @ \cup {i}]
      /\ texture_ranges_' = texture_ranges_ /\ placed' = placed /\ bound' = bound
      /\ pending_texture_initializations' = pending_texture_initializations
      /\ layout' = layout /\ reports' = reports
  BY DEF RecordUse
<1>2. i \in Images /\ bound[i] # Unbound
  <2>1. s \in Occupied(placed)  BY <1>1 DEF Occupied
  <2>2. QED  BY <2>1, SlotIsHeld DEF TextureIInv
<1>3. /\ ListExact(pending_texture_initializations, active', bound, layout)
      /\ ActiveExact(active', bound, layout)
  <2>1. /\ ListExact(pending_texture_initializations, active, bound, layout)
        /\ ActiveExact(active, bound, layout)
    BY DEF TextureIInv
  <2>2. QED  BY <1>1, <1>2, <2>1, UsedStaysExact
<1>4. QED  BY <1>1, <1>3 DEF TextureIInv

LEMMA SubmitKeeps == ASSUME TextureIInv, submit PROVE TextureIInv'
<1>1. /\ active # <<>> /\ active' = <<>>
      /\ texture_ranges_' = texture_ranges_ /\ placed' = placed /\ bound' = bound
      /\ pending_texture_initializations' = pending_texture_initializations
  BY DEF submit
<1>2. /\ ListExact(pending_texture_initializations, active, bound, layout)
      /\ ActiveExact(active, bound, layout) /\ layout \in [Images -> Layouts] /\ reports = {}
  BY DEF TextureIInv
<1>3. layout' = AfterAll(active, layout) /\ reports' = {}  BY <1>1, <1>2, SubmitsClean
<1>4. ListExact(pending_texture_initializations, <<>>, bound, AfterAll(active, layout))
  BY <1>1, <1>2, SubmittedAreGeneral
<1>5. layout' \in [Images -> Layouts]  BY <1>2, <1>3, AfterAllType
<1>6. ActiveExact(active', bound', layout')  BY <1>1, NoneActive
<1>7. QED  BY <1>1, <1>3, <1>4, <1>5, <1>6 DEF TextureIInv

LEMMA TextureStep == TextureIInv /\ [TextureNext]_texture_vars => TextureIInv'
<1> SUFFICES ASSUME TextureIInv, [TextureNext]_texture_vars PROVE TextureIInv'  OBVIOUS
<1>1. CASE UNCHANGED texture_vars  BY <1>1 DEF texture_vars, TextureIInv
<1>2. ASSUME NEW s \in Slots, NEW b \in TextureSizes, AllocateTexture(s, b)  PROVE TextureIInv'
  BY <1>2, AllocateTextureKeeps
<1>3. ASSUME NEW s \in Slots, NEW b \in TextureSizes, AllocateTextureExhausted(s, b)  PROVE TextureIInv'
  BY <1>1, <1>3 DEF AllocateTextureExhausted
<1>4. ASSUME NEW s \in Slots, FreeTexture(s)  PROVE TextureIInv'  BY <1>4, FreeTextureKeeps
<1>5. ASSUME NEW s \in Slots, FreeNothing(s)  PROVE TextureIInv'  BY <1>1, <1>5 DEF FreeNothing
<1>6. CASE begin_commands  BY <1>6, BeginKeeps
<1>7. ASSUME NEW k \in DOMAIN active, NEW s \in Slots, RecordUse(k, s)  PROVE TextureIInv'  BY <1>7, UseKeeps
<1>8. CASE submit  BY <1>8, SubmitKeeps
<1>9. CASE GpuFinishes  BY <1>9 DEF GpuFinishes, TextureIInv
<1>10. QED  BY <1>1, <1>2, <1>3, <1>4, <1>5, <1>6, <1>7, <1>8, <1>9 DEF TextureNext

LEMMA TextureAlways == TextureSpec => []TextureIInv
  BY TextureInitInv, TextureStep, PTL DEF TextureSpec

-----------------------------------------------------------------------------
(* The properties of the textures                                          *)

LEMMA TextureInvApart == TextureIInv => TexturesDoNotAlias
<1> SUFFICES ASSUME TextureIInv, NEW i \in Live, NEW j \in Live
             PROVE  /\ bound[i].offset + bound[i].size <= capacity * element_size
                    /\ \/ i = j
                       \/ bound[i].offset + bound[i].size <= bound[j].offset
                       \/ bound[j].offset + bound[j].size <= bound[i].offset
  BY DEF TexturesDoNotAlias
<1>1. i \in Images /\ j \in Images /\ bound[i] # Unbound /\ bound[j] # Unbound  BY DEF Live
<1>2. SlotsExact(placed, bound, texture_ranges_)  BY DEF TextureIInv
<1>3. QED  BY <1>1, <1>2, BindingsApart

LEMMA TextureInvBatches == TextureIInv => NothingToReport
<1> SUFFICES ASSUME TextureIInv PROVE NothingToReport  OBVIOUS
<1>1. reports = {} /\ active \in Seq(Recordings) /\ ActiveExact(active, bound, layout)
  BY DEF TextureIInv, ActiveExact
<1>2. ASSUME NEW k \in DOMAIN active
      PROVE  /\ \A b \in DOMAIN active[k].batches :
                  Len(active[k].batches[b]) \in 1..image_barrier_batch_size
             /\ k > 1 => active[k].batches = <<>>
  <2>1. k \in 1..Len(active) /\ active[k] \in Recordings  BY <1>1
  <2>2. DOMAIN active[k].batches = 1..Len(active[k].batches)  BY <2>1 DEF Recordings
  <2>3. BatchesFit(active[k].batches) /\ (k > 1 => active[k].batches = <<>>)  BY <1>1, <2>1 DEF ActiveExact
  <2>4. QED  BY <2>2, <2>3 DEF BatchesFit
<1>3. QED  BY <1>1, <1>2 DEF NothingToReport, BatchesFitTheArray

LEMMA TextureInvTyped == TextureIInv => TextureTypeOK
<1> SUFFICES ASSUME TextureIInv PROVE TextureTypeOK  OBVIOUS
<1>1. SlotsExact(placed, bound, texture_ranges_)  BY DEF TextureIInv
<1>2. RangesTypeOK(texture_ranges_)  BY <1>1, RangesAreTyped DEF SlotsExact, Accounts
<1>3. placed \in [Slots -> [texture : Images \cup {NoImage}, token : NodeIndex]]
  BY <1>1 DEF SlotsExact, Textures, ImageOrNone
<1>4. bound \in [Images -> [offset : 0..(capacity * element_size), size : TextureSizes \cup {0}]]
  <2>1. bound \in [Images -> Bindings]  BY <1>1 DEF SlotsExact
  <2>2. ASSUME NEW i \in Images  PROVE bound[i].offset \in 0..(capacity * element_size)
    <3>1. CASE bound[i] = Unbound
      <4>1. capacity * element_size \in Nat
        <5>1. capacity \in Nat /\ element_size \in Nat  BY Constants, RangeAllocatorAssumption
        <5>2. QED  BY <5>1, Products
      <4>2. QED  BY <3>1, <4>1 DEF Unbound
    <3>2. CASE bound[i] # Unbound  BY <1>1, <3>2, BindingsApart
    <3>3. QED  BY <3>1, <3>2
  <2>3. QED  BY <2>1, <2>2 DEF Bindings
<1>5. pending_texture_initializations \in Lists  BY DEF TextureIInv, ListExact, Threaded
<1>6. layout \in [Images -> {"UNDEFINED", "GENERAL"}]  BY DEF TextureIInv, Layouts
<1>7. QED  BY <1>2, <1>3, <1>4, <1>5, <1>6 DEF TextureTypeOK

LEMMA TextureInvPending == TextureIInv => PendingListIsExact
<1> SUFFICES ASSUME TextureIInv PROVE PendingListIsExact  OBVIOUS
<1> PICK l : l = pending_texture_initializations  OBVIOUS
<1>1. PICK q : Threaded(l, q) /\ Awaiting(q, active, bound, layout)  BY DEF TextureIInv, ListExact
<1>2. Walk(l, l.first, "next") = q /\ Walk(l, l.last, "previous") = Reverse(q)  BY <1>1, WalksOf
<1>3. q \in Seq(Images) /\ DOMAIN q = 1..Len(q) /\ ToSet(q) = OnList(q) /\ OnList(q) \subseteq Images
  <2>1. q \in Seq(Images) /\ DOMAIN q = 1..Len(q)  BY <1>1 DEF Threaded
  <2>2. QED  BY <2>1 DEF ToSet, OnList
<1>4. IsInjective(q)  BY <1>1, <1>3 DEF IsInjective, Threaded, Injective
<1>5. OnList(q) = {i \in Images : l.links[i].owned}
  <2>1. \A i \in Images : l.links[i].owned <=> i \in OnList(q)  BY <1>1, OwnedIsOnList
  <2>2. QED  BY <1>3, <2>1
<1>6. OnList(q) = {i \in Live : layout[i] = "UNDEFINED"
                                /\ \A k \in DOMAIN active : i \notin BarriersOf(active[k])}
  <2>1. active \in Seq(Recordings) /\ DOMAIN active = 1..Len(active)  BY DEF TextureIInv, ActiveExact
  <2>2. \A i \in Images : \A k \in 1..Len(active) :
          i \in BarriersOf(active[k]) <=> InBatches(active[k].batches, i)
    BY <2>1, BarriersAre
  <2>3. \A i \in Images : i \in OnList(q)
          <=> i \in Live /\ layout[i] = "UNDEFINED" /\ \A k \in DOMAIN active : i \notin BarriersOf(active[k])
    BY <1>1, <2>1, <2>2 DEF Awaiting, Live
  <2>4. Live \subseteq Images  BY DEF Live
  <2>5. QED  BY <1>3, <2>3, <2>4
<1>7. QED  BY <1>2, <1>3, <1>4, <1>5, <1>6, TextureInvTyped DEF PendingListIsExact

(* Whatever is created, freed and recorded, in a heap of any size: no two  *)
(* live textures share a byte of it and none leaves it                     *)
(* (TextureAllocator::allocate and free).                                  *)
THEOREM TexturesApart == TextureSpec => []TexturesDoNotAlias
  BY TextureAlways, TextureInvApart, PTL

(* For any number of textures and any size of the barrier array, the list  *)
(* of textures without a first transition is doubly linked and holds those *)
(* that await one and no others (append_texture_initialization,            *)
(* remove_texture_initialization, begin_commands and ~Texture).            *)
THEOREM PendingListAlwaysExact == TextureSpec => []PendingListIsExact
  BY TextureAlways, TextureInvPending, PTL

(* No submission discards a texture's contents, uses one before its        *)
(* transition or names one destroyed, and no batch of barriers is empty or *)
(* larger than the array of begin_commands.                                *)
THEOREM TransitionsAreLegal == TextureSpec => []NothingToReport
  BY TextureAlways, TextureInvBatches, PTL
=============================================================================
