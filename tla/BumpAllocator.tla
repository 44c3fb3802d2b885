---------------------------- MODULE BumpAllocator ----------------------------
(***************************************************************************)
(* BumpAllocator (src/utility/src/bump_allocator.cpp): ranges cut off the  *)
(* front of one block of storage by advancing an offset.  Worker threads   *)
(* call allocate_atomic concurrently; allocate, reset and moves have       *)
(* exclusive access.                                                       *)
(*                                                                         *)
(* The offset is read with relaxed order, so a load returns any value the  *)
(* offset has held that is not older than what the thread already saw; the *)
(* exchange compares with the newest.  A spurious failure of the weak      *)
(* exchange leaves everything as it was: it is a stuttering step.          *)
(***************************************************************************)
EXTENDS Integers, FiniteSets

CONSTANTS
  Workers,    \* threads that call allocate_atomic
  BumpAllocators, \* BumpAllocator objects that the storage may be moved between
  Size,       \* bytes of storage
  ByteSizes,   \* byte sizes asked for
  WordLimit   \* 2^64: offsets and sizes are unsigned words

alignment == 16

(***************************************************************************)
(* Storage does not reach into the last 15 bytes of the address space, so  *)
(* rounding a request that fits does not wrap around.                      *)
(***************************************************************************)
ASSUME BumpAssumption ==
  /\ Size \in Nat \ {0}
  /\ WordLimit \in Nat
  /\ Size + alignment <= WordLimit
  /\ ByteSizes \subseteq 1..(WordLimit - 1)

VARIABLES
  storage_, \* per allocator: the bytes it hands out, 0 without storage
  offset_,  \* per allocator
  history,  \* the values of the offset a relaxed load may still return
  pc,       \* per worker: "idle", or "loop" inside allocate_atomic
  request,  \* per worker: byte_size
  seen,     \* per worker: allocation_offset, afterwards the newest value seen
  granted   \* ranges returned since the last reset

bump_vars == <<storage_, offset_, history, pc, request, seen, granted>>

Holds(x) == storage_[x] # 0
Exclusive == \A t \in Workers : pc[t] = "idle"

MutantRoundsUpFurther(bytes) ==
  LET padded == bytes + alignment IN padded - (padded % alignment)
AlignedSize(bytes) ==
  LET sum == bytes + alignment - 1
      padded == IF sum < WordLimit THEN sum ELSE sum - WordLimit
  IN padded - (padded % alignment)

MutantStrictFit(x, offset, bytes) == bytes < storage_[x] - offset
Fits(x, offset, bytes) == bytes <= storage_[x] - offset

NextOffset(x, offset, bytes) ==
  LET remaining == storage_[x] - offset
  IN offset + (IF AlignedSize(bytes) < remaining THEN AlignedSize(bytes) ELSE remaining)

BumpRange(offset, bytes) == [offset |-> offset, size |-> bytes]

BumpInit ==
  /\ \E x \in BumpAllocators : storage_ = [y \in BumpAllocators |-> IF y = x THEN Size ELSE 0]
  /\ offset_ = [x \in BumpAllocators |-> 0]
  /\ history = {0}
  /\ pc = [t \in Workers |-> "idle"]
  /\ request = [t \in Workers |-> 0]
  /\ seen = [t \in Workers |-> 0]
  /\ granted = {}

-----------------------------------------------------------------------------
(* allocate_atomic *)

(***************************************************************************)
(* The call begins with a relaxed load.  (On an allocator without storage  *)
(* it returns an empty range at once and changes nothing.)                 *)
(***************************************************************************)
Load(t, x, bytes) ==
  /\ pc[t] = "idle"
  /\ Holds(x)
  /\ \E value \in history : value >= seen[t] /\ seen' = [seen EXCEPT ![t] = value]
  /\ pc' = [pc EXCEPT ![t] = "loop"]
  /\ request' = [request EXCEPT ![t] = bytes]
  /\ UNCHANGED <<storage_, offset_, history, granted>>

ReturnEmpty(t, x) ==
  /\ pc[t] = "loop"
  /\ Holds(x)
  /\ ~Fits(x, seen[t], request[t])
  /\ pc' = [pc EXCEPT ![t] = "idle"]
  /\ UNCHANGED <<storage_, offset_, history, request, seen, granted>>

MutantAlwaysMatches(t, x) == TRUE
Matches(t, x) == offset_[x] = seen[t]

ExchangeSucceeds(t, x) ==
  /\ pc[t] = "loop"
  /\ Holds(x)
  /\ Fits(x, seen[t], request[t])
  /\ Matches(t, x)
  /\ LET next == NextOffset(x, seen[t], request[t])
     IN /\ offset_' = [offset_ EXCEPT ![x] = next]
        /\ history' = history \union {next}
        /\ seen' = [seen EXCEPT ![t] = next]
  /\ granted' = granted \union {BumpRange(seen[t], request[t])}
  /\ pc' = [pc EXCEPT ![t] = "idle"]
  /\ UNCHANGED <<storage_, request>>

(***************************************************************************)
(* A failed exchange is a relaxed load: it returns a newer value, though   *)
(* not always the newest.                                                  *)
(***************************************************************************)
MutantNeverReloads(t, value) == value = seen[t]
Newer(t, value) == value > seen[t]

ExchangeFails(t, x) ==
  /\ pc[t] = "loop"
  /\ Holds(x)
  /\ Fits(x, seen[t], request[t])
  /\ ~Matches(t, x)
  /\ \E value \in history : Newer(t, value) /\ seen' = [seen EXCEPT ![t] = value]
  /\ UNCHANGED <<storage_, offset_, history, pc, request, granted>>

-----------------------------------------------------------------------------
(* Operations with exclusive access: what they did is visible to everyone. *)

BumpAllocate(x, bytes) ==
  /\ Exclusive
  /\ Holds(x)
  /\ Fits(x, offset_[x], bytes)
  /\ offset_' = [offset_ EXCEPT ![x] = NextOffset(x, offset_[x], bytes)]
  /\ history' = {NextOffset(x, offset_[x], bytes)}
  /\ granted' = granted \union {BumpRange(offset_[x], bytes)}
  /\ UNCHANGED <<storage_, pc, request, seen>>

BumpReset(x) ==
  /\ Exclusive
  /\ Holds(x)
  /\ offset_' = [offset_ EXCEPT ![x] = 0]
  /\ history' = {0}
  /\ seen' = [t \in Workers |-> 0]
  /\ granted' = {}
  /\ UNCHANGED <<storage_, pc, request>>

(***************************************************************************)
(* Move construction and assignment (self-assignment does nothing).  An    *)
(* allocator that is assigned over forgets its storage, whose ranges stay  *)
(* with their users.                                                       *)
(***************************************************************************)
Move(from, to) ==
  /\ Exclusive
  /\ from # to
  /\ storage_' = [storage_ EXCEPT ![to] = storage_[from], ![from] = 0]
  /\ offset_' = [offset_ EXCEPT ![to] = offset_[from], ![from] = 0]
  /\ history' = IF Holds(from) THEN {offset_[from]} ELSE history
  /\ UNCHANGED <<pc, request, seen, granted>>

-----------------------------------------------------------------------------
AtomicStep(t) == \E x \in BumpAllocators : ReturnEmpty(t, x) \/ ExchangeSucceeds(t, x) \/ ExchangeFails(t, x)

BumpNext ==
  \/ \E t \in Workers, x \in BumpAllocators, bytes \in ByteSizes : Load(t, x, bytes)
  \/ \E t \in Workers : AtomicStep(t)
  \/ \E x \in BumpAllocators, bytes \in ByteSizes : BumpAllocate(x, bytes)
  \/ \E x \in BumpAllocators : BumpReset(x)
  \/ \E from, to \in BumpAllocators : Move(from, to)

BumpSpec == BumpInit /\ [][BumpNext]_bump_vars

(***************************************************************************)
(* A worker inside the loop keeps running, and its exchange does not fail  *)
(* spuriously for ever.                                                    *)
(***************************************************************************)
BumpFairSpec == BumpSpec /\ \A t \in Workers : WF_bump_vars(AtomicStep(t))

-----------------------------------------------------------------------------
(* Properties. *)

BumpTypeOK ==
  /\ storage_ \in [BumpAllocators -> {0, Size}]
  /\ offset_ \in [BumpAllocators -> 0..Size]
  /\ history \subseteq 0..Size
  /\ pc \in [Workers -> {"idle", "loop"}]
  /\ request \in [Workers -> ByteSizes \union {0}]
  /\ seen \in [Workers -> 0..Size]
  /\ granted \subseteq [offset : 0..Size, size : ByteSizes]

(***************************************************************************)
(* bump_allocator.hpp: "Successful concurrent calls to allocate_atomic()   *)
(* return disjoint ranges" - and so do all calls since the last reset,     *)
(* sequential ones and those made through a moved allocator included.      *)
(***************************************************************************)
RangesDisjoint ==
  \A g, h \in granted :
    g # h => g.offset + g.size <= h.offset \/ h.offset + h.size <= g.offset

(***************************************************************************)
(* Every range starts at a 16 byte boundary and lies inside the storage.   *)
(***************************************************************************)
RangesUsable ==
  \A g \in granted : g.offset % alignment = 0 /\ g.offset + g.size <= Size

(***************************************************************************)
(* What a caller of allocate and allocate_atomic relies on.                *)
(***************************************************************************)
RangesSound == RangesDisjoint /\ RangesUsable

(***************************************************************************)
(* No space is lost between ranges but the padding up to the alignment,    *)
(* whichever thread reserved it: an update of the offset is never repeated *)
(* or made without its range being returned.                               *)
(***************************************************************************)
NoSpaceLost ==
  \A x \in BumpAllocators : \A byte \in 0..(offset_[x] - 1) :
    \E g \in granted :
      /\ g.offset <= byte
      /\ byte < g.offset + g.size + alignment - 1
      /\ byte - (byte % alignment) < g.offset + g.size

(***************************************************************************)
(* "an empty allocation reports exhausted storage": although the loop      *)
(* decides on a value that may be stale, the request does not fit what     *)
(* remains at the moment of the return either.                             *)
(***************************************************************************)
EmptyMeansExhausted ==
  [][\A t \in Workers, x \in BumpAllocators :
       /\ pc[t] = "loop" /\ pc'[t] = "idle" /\ granted' = granted
       /\ Holds(x)
       => request[t] > storage_[x] - offset_[x]]_bump_vars

(***************************************************************************)
(* Every call of allocate_atomic returns, however often other threads make *)
(* its exchange fail.                                                      *)
(***************************************************************************)
CallsReturn == \A t \in Workers : pc[t] = "loop" ~> pc[t] = "idle"
=============================================================================
