----------------------------- MODULE DeleteQueue -----------------------------
(***************************************************************************)
(* DeleteQueue (src/utility/src/delete_queue.cpp): a ring of callbacks,    *)
(* each deferred until a timeline has passed its retire value.  The owner  *)
(* ticks the queue between frames and drains it after wait_idle, which     *)
(* runs every callback whatever its value; callbacks may defer others      *)
(* while the queue is collecting.                                          *)
(*                                                                         *)
(* Callbacks are numbered in the order in which they are deferred.         *)
(***************************************************************************)
EXTENDS Integers

CONSTANTS
  Capacity,       \* capacity_
  MaxSubmissions, \* bound of the model: values of the timeline
  MaxCallbacks    \* bound of the model: callbacks ever deferred

ASSUME CapacityAssumption ==
  /\ Capacity \in Nat \ {0}
  /\ MaxSubmissions \in Nat
  /\ MaxCallbacks \in Nat

VARIABLES
  retire_value, callback,     \* the cells of entries_; callback 0 is an empty one
  head_, tail_, count_,
  ticking_,
  completed_value,            \* what collect compares with
  running,                    \* a callback is being called
  deferred, ran,              \* numbers of callbacks so far
  timeline_submitted, timeline \* values of the application's timeline: submitted, completed

queue == <<retire_value, callback, head_, tail_, count_>>
callback_vars == <<queue, ticking_, completed_value, running, deferred, ran, timeline_submitted, timeline>>

(***************************************************************************)
(* ~uint64{0}: a retire value like any other, and the one drain compares   *)
(* with.  No submission signals it.                                        *)
(***************************************************************************)
Everything == MaxSubmissions + 1

Cells == 0..(Capacity - 1)

NextCell(cell) == IF cell + 1 = Capacity THEN 0 ELSE cell + 1
LastCell == IF tail_ = 0 THEN Capacity - 1 ELSE tail_ - 1

CallbacksInit ==
  /\ retire_value = [c \in Cells |-> 0] /\ callback = [c \in Cells |-> 0]
  /\ head_ = 0 /\ tail_ = 0 /\ count_ = 0
  /\ ticking_ = FALSE /\ completed_value = 0 /\ running = FALSE
  /\ deferred = 0 /\ ran = 0
  /\ timeline_submitted = 0 /\ timeline = 0

-----------------------------------------------------------------------------
MutantOverwrites == count_ <= Capacity
HasRoom == count_ < Capacity

(***************************************************************************)
(* Retire values are enqueued in nondecreasing order, and nothing else is  *)
(* asked of them: a value may be submitted later, or never.  The cell of   *)
(* the callback that is running is still counted.                          *)
(***************************************************************************)
Defer(value) ==
  /\ ticking_ => running
  /\ deferred < MaxCallbacks
  /\ HasRoom
  /\ count_ # 0 => retire_value[LastCell] <= value
  /\ retire_value' = [retire_value EXCEPT ![tail_] = value]
  /\ callback' = [callback EXCEPT ![tail_] = deferred + 1]
  /\ tail_' = NextCell(tail_)
  /\ count_' = count_ + 1
  /\ deferred' = deferred + 1
  /\ UNCHANGED <<head_, ticking_, completed_value, running, ran, timeline_submitted, timeline>>

BeginCollect(value) ==
  /\ ~ticking_
  /\ ticking_' = TRUE
  /\ completed_value' = value
  /\ UNCHANGED <<queue, running, deferred, ran, timeline_submitted, timeline>>

Tick ==
  /\ count_ # 0
  /\ BeginCollect(timeline)

(***************************************************************************)
(* drain does not look at the timeline.  The owner has called wait_idle.   *)
(***************************************************************************)
Drain ==
  /\ timeline = timeline_submitted
  /\ BeginCollect(Everything)

MutantDueLate(value) == value < completed_value
MutantAlwaysDue(value) == TRUE
Due(value) == value <= completed_value

Run ==
  /\ ticking_ /\ ~running
  /\ count_ # 0 /\ Due(retire_value[head_])
  /\ running' = TRUE
  /\ UNCHANGED <<queue, ticking_, completed_value, deferred, ran, timeline_submitted, timeline>>

CallbackReturns ==
  /\ running
  /\ running' = FALSE
  /\ callback' = [callback EXCEPT ![head_] = 0]
  /\ head_' = NextCell(head_)
  /\ count_' = count_ - 1
  /\ ran' = ran + 1
  /\ UNCHANGED <<retire_value, tail_, ticking_, completed_value, deferred, timeline_submitted, timeline>>

CollectReturns ==
  /\ ticking_ /\ ~running
  /\ count_ # 0 => ~Due(retire_value[head_])
  /\ ticking_' = FALSE
  /\ UNCHANGED <<queue, completed_value, running, deferred, ran, timeline_submitted, timeline>>

-----------------------------------------------------------------------------
(* The application submits between calls of the queue, not from a          *)
(* callback; the GPU completes submissions at any moment.                  *)

ApplicationSubmits ==
  /\ ~ticking_
  /\ timeline_submitted < MaxSubmissions
  /\ timeline_submitted' = timeline_submitted + 1
  /\ UNCHANGED <<queue, ticking_, completed_value, running, deferred, ran, timeline>>

GpuCompletes ==
  /\ timeline < timeline_submitted
  /\ timeline' = timeline + 1
  /\ UNCHANGED <<queue, ticking_, completed_value, running, deferred, ran, timeline_submitted>>

CallbacksNext ==
  \/ \E value \in 0..Everything : Defer(value)
  \/ Tick \/ Drain \/ Run \/ CallbackReturns \/ CollectReturns
  \/ ApplicationSubmits \/ GpuCompletes

CallbacksSpec == CallbacksInit /\ [][CallbacksNext]_callback_vars

-----------------------------------------------------------------------------
(* Properties. *)

CallbacksTypeOK ==
  /\ retire_value \in [Cells -> 0..Everything]
  /\ callback \in [Cells -> Nat]
  /\ head_ \in Cells /\ tail_ \in Cells /\ count_ \in 0..Capacity
  /\ ticking_ \in BOOLEAN /\ running \in BOOLEAN
  /\ completed_value \in 0..Everything
  /\ deferred \in Nat /\ ran \in Nat
  /\ timeline_submitted \in 0..MaxSubmissions /\ timeline \in 0..timeline_submitted

(***************************************************************************)
(* The cell i places behind the head.                                      *)
(***************************************************************************)
Place(i) == IF head_ + i < Capacity THEN head_ + i ELSE head_ + i - Capacity

(***************************************************************************)
(* Callbacks run once each and in the order they were deferred: the ring   *)
(* holds exactly those that have not returned, in order - the one that is  *)
(* running too, whatever it defers, and however the ring has wrapped.      *)
(***************************************************************************)
RunsInOrder ==
  /\ deferred = ran + count_
  /\ \A i \in 0..(count_ - 1) : callback[Place(i)] = ran + i + 1

Draining == ticking_ /\ completed_value = Everything

(***************************************************************************)
(* tick runs no callback before the timeline has passed its retire value,  *)
(* one that was deferred while the queue collects neither.  drain, which   *)
(* does not look at the timeline, runs one early only when its value was   *)
(* never submitted: no callback runs while the work it was deferred behind *)
(* is on the GPU.                                                          *)
(***************************************************************************)
RunsWhenDue ==
  running =>
    \/ retire_value[head_] <= timeline
    \/ Draining /\ retire_value[head_] > timeline_submitted

(***************************************************************************)
(* When tick or drain returns, every callback that was due by the value it *)
(* compared with has run, also those deferred meanwhile.                   *)
(***************************************************************************)
NoneDueIsLeft ==
  [][ticking_ /\ ~ticking_' =>
       \A i \in 0..(count_ - 1) : retire_value[Place(i)] > completed_value]_callback_vars
=============================================================================
