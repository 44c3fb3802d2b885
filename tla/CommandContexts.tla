--------------------------- MODULE CommandContexts ---------------------------
(***************************************************************************)
(* The command context pool of Device (src/src/NoGraphicsAPI.cpp): a       *)
(* circular, doubly linked list of CommandBuffer contexts, handed out by   *)
(* begin_commands, consumed by submit, and reused once a private timeline  *)
(* semaphore (command_retirement) shows that their submission retired.     *)
(*                                                                         *)
(* Two actors: the application thread, which may be blocked inside a call, *)
(* and the GPU queue, which executes submissions in order.  Submission k   *)
(* is two batches: the work, which signals the application's timeline, and *)
(* an empty batch that signals command_retirement = k.  The effect that    *)
(* the retirement timeline has on retired swapchains is in Presentation.   *)
(***************************************************************************)
EXTENDS Integers, FiniteSets

CONSTANTS
  InitialContexts,  \* initial_command_context_count
  MaxDifference,    \* Device::max_timeline_value_difference
  MaxContexts,      \* bound of the model: contexts ever created
  MaxSubmissions    \* bound of the model: submissions ever made

ASSUME ConstantsAssumption ==
  /\ InitialContexts \in Nat \ {0}
  /\ MaxDifference \in Nat \ {0}
  /\ MaxContexts \in Nat /\ MaxContexts >= InitialContexts
  /\ MaxSubmissions \in Nat

VARIABLES
  next_command_context,         \* Device::next_command_context, 0 when null
  next, previous,               \* CommandBuffer::next and ::previous
  retire_value,                 \* CommandBuffer::retire_value
  command_context_count,
  command_submit_capacity,      \* capacity of Device::command_submit_infos
  active_command_buffers,
  command_retirement_value,     \* the last retirement value submitted
  completed_command_retirement, \* the last retirement value observed
  call,                         \* the API call the application is inside of
  batch,                        \* the command buffers that call is submitting
  buffer,                       \* Vulkan: life cycle of each command buffer
  lastUse,                      \* Vulkan: last submission that contains it
  gpuWork,                      \* GPU: submissions whose work completed
  gpuRetired                    \* GPU: value of the command_retirement semaphore

poolVars == <<next_command_context, next, previous, command_context_count,
              command_submit_capacity>>
gpuVars  == <<gpuWork, gpuRetired>>
vars == <<poolVars, retire_value, active_command_buffers,
          command_retirement_value, completed_command_retirement,
          call, batch, buffer, lastUse, gpuVars>>

Contexts == 1..command_context_count
AllContexts == 1..MaxContexts
BufferStates == {"none", "initial", "recording", "executable", "submitted"}
Operations == {"none", "submit", "throttled", "queue", "wait_timeline", "wait_idle",
               "destroy", "destroyed"}
Idle == [op |-> "none", value |-> 0]
Blocked(op, value) == call' = [op |-> op, value |-> value]
Returned == call' = Idle

(***************************************************************************)
(* CommandBuffer::state is not null exactly while the buffer is recording. *)
(***************************************************************************)
Recording(c) == buffer[c] = "recording"
InFlight(c) == lastUse[c] > gpuWork

Init ==
  /\ next_command_context = 1
  /\ next = [c \in 1..InitialContexts |-> IF c = InitialContexts THEN 1 ELSE c + 1]
  /\ previous = [c \in 1..InitialContexts |-> IF c = 1 THEN InitialContexts ELSE c - 1]
  /\ retire_value = [c \in 1..InitialContexts |-> 0]
  /\ command_context_count = InitialContexts
  /\ command_submit_capacity = InitialContexts
  /\ active_command_buffers = 0
  /\ command_retirement_value = 0
  /\ completed_command_retirement = 0
  /\ call = Idle
  /\ batch = {}
  /\ buffer = [c \in AllContexts |-> IF c <= InitialContexts THEN "initial" ELSE "none"]
  /\ lastUse = [c \in AllContexts |-> 0]
  /\ gpuWork = 0
  /\ gpuRetired = 0

-----------------------------------------------------------------------------
(* Observing the retirement timeline. *)

(***************************************************************************)
(* reset_retired_command_contexts with `done' observed: the pools of the   *)
(* contexts whose submission retired are reset.  The code walks the list   *)
(* once around; Circular says that the walk meets every context.           *)
(***************************************************************************)
MutantResetsUnsubmitted(done) == {c \in Contexts : retire_value[c] <= done}
Retired(done) == {c \in Contexts : retire_value[c] # 0 /\ retire_value[c] <= done}
ResetValues(done) == [c \in Contexts |-> IF c \in Retired(done) THEN 0 ELSE retire_value[c]]
ResetBuffers(done) == [c \in AllContexts |-> IF c \in Retired(done) THEN "initial" ELSE buffer[c]]

(***************************************************************************)
(* poll_command_retirement: the value of completed_command_retirement it   *)
(* leaves, and the contexts as it leaves them (it returns before the reset *)
(* when it saw nothing new).                                               *)
(***************************************************************************)
Polled == IF completed_command_retirement = command_retirement_value
          THEN completed_command_retirement ELSE gpuRetired
PolledValues == IF Polled = completed_command_retirement
                THEN retire_value ELSE ResetValues(Polled)
PolledBuffers == IF Polled = completed_command_retirement
                 THEN buffer ELSE ResetBuffers(Polled)

(***************************************************************************)
(* wait_command_retirement(value), once it returns: completed becomes the  *)
(* value waited for, which may be behind the semaphore's counter.          *)
(***************************************************************************)
AfterWait(value) == IF value <= completed_command_retirement
                    THEN completed_command_retirement ELSE value

-----------------------------------------------------------------------------
(* begin_commands: acquire_command_context, then vkBeginCommandBuffer. *)

(***************************************************************************)
(* acquire_command_context polls only when nothing is recording and the    *)
(* head of the list is not known to have retired.                          *)
(***************************************************************************)
MutantPollsWhileRecording == /\ active_command_buffers # 0
                            /\ retire_value[next_command_context] > completed_command_retirement
PollsFirst == /\ active_command_buffers = 0
              /\ retire_value[next_command_context] > completed_command_retirement
Observed == IF PollsFirst THEN Polled ELSE completed_command_retirement
ObservedValues == IF PollsFirst THEN PolledValues ELSE retire_value
ObservedBuffers == IF PollsFirst THEN PolledBuffers ELSE buffer
MutantIgnoresRecording == ObservedValues[next_command_context] > Observed
MutantIgnoresRetirement == Recording(next_command_context)
HeadIsBusy == \/ Recording(next_command_context)
              \/ ObservedValues[next_command_context] > Observed

(***************************************************************************)
(* The head is free: reset its pool unless it was never used since the     *)
(* last reset, hand it out and move the head past it.                      *)
(***************************************************************************)
BeginReusing ==
  /\ call.op = "none"
  /\ ~HeadIsBusy
  /\ completed_command_retirement' = Observed
  /\ retire_value' = [ObservedValues EXCEPT ![next_command_context] = 0]
  /\ buffer' = [ObservedBuffers EXCEPT ![next_command_context] = "recording"]
  /\ next_command_context' = next[next_command_context]
  /\ active_command_buffers' = active_command_buffers + 1
  /\ UNCHANGED <<next, previous, command_context_count, command_submit_capacity,
                 command_retirement_value, call, batch, lastUse, gpuVars>>

(***************************************************************************)
(* The head is busy: grow_command_context_pool inserts a new context       *)
(* before the head, and that one is handed out; the head stays.            *)
(***************************************************************************)
NewContext == command_context_count + 1
GrownNext ==
  [c \in 1..NewContext |->
     IF c = NewContext THEN next_command_context
     ELSE IF c = previous[next_command_context] THEN NewContext ELSE next[c]]
GrownPrevious ==
  [c \in 1..NewContext |->
     IF c = NewContext THEN previous[next_command_context]
     ELSE IF c = next_command_context THEN NewContext ELSE previous[c]]
GrownCapacity ==
  IF command_context_count = command_submit_capacity
  THEN IF command_submit_capacity = 0 THEN InitialContexts ELSE 2 * command_submit_capacity
  ELSE command_submit_capacity

BeginGrowing ==
  /\ call.op = "none"
  /\ HeadIsBusy
  /\ NewContext <= MaxContexts
  /\ completed_command_retirement' = Observed
  /\ retire_value' = [c \in 1..NewContext |-> IF c = NewContext THEN 0 ELSE ObservedValues[c]]
  /\ buffer' = [ObservedBuffers EXCEPT ![NewContext] = "recording"]
  /\ next' = GrownNext
  /\ previous' = GrownPrevious
  /\ next_command_context' = GrownNext[NewContext]
  /\ command_context_count' = NewContext
  /\ command_submit_capacity' = GrownCapacity
  /\ active_command_buffers' = active_command_buffers + 1
  /\ UNCHANGED <<command_retirement_value, call, batch, lastUse, gpuVars>>

-----------------------------------------------------------------------------
(* submit: every begun command buffer, once. *)

(***************************************************************************)
(* The loop of submit_commands that ends each buffer and clears its state. *)
(***************************************************************************)
EndBatch ==
  /\ call.op = "none"
  /\ active_command_buffers # 0
  /\ command_retirement_value < MaxSubmissions
  /\ batch' = {c \in Contexts : Recording(c)}
  /\ buffer' = [c \in AllContexts |-> IF c \in batch' THEN "executable" ELSE buffer[c]]
  /\ active_command_buffers' = active_command_buffers - Cardinality(batch')
  /\ Blocked("submit", command_retirement_value + 1)
  /\ UNCHANGED <<poolVars, retire_value, command_retirement_value,
                 completed_command_retirement, lastUse, gpuVars>>

(***************************************************************************)
(* next_command_retirement: submission call.value may be pending together  *)
(* with everything after what was observed to retire, after a poll if need *)
(* be ...                                                                  *)
(***************************************************************************)
MutantOneTooFar(done) == call.value - done > MaxDifference + 1
TooFarAhead(done) == call.value - done > MaxDifference

RetirementAvailable ==
  /\ call.op = "submit"
  /\ \/ /\ ~TooFarAhead(completed_command_retirement)
        /\ UNCHANGED <<completed_command_retirement, retire_value, buffer>>
     \/ /\ TooFarAhead(completed_command_retirement)
        /\ ~TooFarAhead(Polled)
        /\ completed_command_retirement' = Polled
        /\ retire_value' = PolledValues
        /\ buffer' = PolledBuffers
  /\ Blocked("queue", call.value)
  /\ UNCHANGED <<poolVars, active_command_buffers, command_retirement_value,
                 batch, lastUse, gpuVars>>

(***************************************************************************)
(* ... or the poll came too early and the call blocks until the GPU has    *)
(* retired enough.                                                         *)
(***************************************************************************)
Throttle ==
  /\ call.op = "submit"
  /\ TooFarAhead(completed_command_retirement)
  /\ TooFarAhead(Polled)
  /\ completed_command_retirement' = Polled
  /\ retire_value' = PolledValues
  /\ buffer' = PolledBuffers
  /\ Blocked("throttled", call.value)
  /\ UNCHANGED <<poolVars, active_command_buffers, command_retirement_value,
                 batch, lastUse, gpuVars>>

MutantWaitsForItself == call.value
ThrottleValue == call.value - MaxDifference

ThrottleReturns ==
  /\ call.op = "throttled"
  /\ gpuRetired >= ThrottleValue
  /\ LET done == AfterWait(ThrottleValue)
     IN /\ completed_command_retirement' = done
        /\ retire_value' = ResetValues(done)
        /\ buffer' = ResetBuffers(done)
  /\ Blocked("queue", call.value)
  /\ UNCHANGED <<poolVars, active_command_buffers, command_retirement_value,
                 batch, lastUse, gpuVars>>

(***************************************************************************)
(* vkQueueSubmit2 and the assignments after it.  The value, which          *)
(* next_command_retirement already assigned, counts as submitted from here *)
(* on; nothing reads it in between.                                        *)
(***************************************************************************)
QueueBatch ==
  /\ call.op = "queue"
  /\ command_retirement_value' = call.value
  /\ retire_value' = [c \in Contexts |-> IF c \in batch THEN call.value ELSE retire_value[c]]
  /\ buffer' = [c \in AllContexts |-> IF c \in batch THEN "submitted" ELSE buffer[c]]
  /\ lastUse' = [c \in AllContexts |-> IF c \in batch THEN call.value ELSE lastUse[c]]
  /\ batch' = {}
  /\ Returned
  /\ UNCHANGED <<poolVars, active_command_buffers, completed_command_retirement, gpuVars>>

-----------------------------------------------------------------------------
(* Waiting and destruction. *)

WaitTimeline(value) ==
  /\ call.op = "none"
  /\ Blocked("wait_timeline", value)
  /\ UNCHANGED <<poolVars, retire_value, active_command_buffers, command_retirement_value,
                 completed_command_retirement, batch, buffer, lastUse, gpuVars>>

(***************************************************************************)
(* wait_timeline returns when the work of the submission it waits for has  *)
(* completed, and then polls: the retirement signal may still be pending.  *)
(***************************************************************************)
WaitTimelineReturns ==
  /\ call.op = "wait_timeline"
  /\ gpuWork >= call.value
  /\ completed_command_retirement' = Polled
  /\ retire_value' = PolledValues
  /\ buffer' = PolledBuffers
  /\ Returned
  /\ UNCHANGED <<poolVars, active_command_buffers, command_retirement_value,
                 batch, lastUse, gpuVars>>

(***************************************************************************)
(* wait_idle and ~Device both drain: they wait for every submission.       *)
(***************************************************************************)
Drain(op) ==
  /\ call.op = "none"
  /\ active_command_buffers = 0
  /\ Blocked(op, command_retirement_value)
  /\ UNCHANGED <<poolVars, retire_value, active_command_buffers, command_retirement_value,
                 completed_command_retirement, batch, buffer, lastUse, gpuVars>>

WaitIdleReturns ==
  /\ call.op = "wait_idle"
  /\ gpuRetired >= call.value
  /\ LET done == AfterWait(call.value)
     IN /\ completed_command_retirement' = done
        /\ retire_value' = ResetValues(done)
        /\ buffer' = ResetBuffers(done)
  /\ Returned
  /\ UNCHANGED <<poolVars, active_command_buffers, command_retirement_value,
                 batch, lastUse, gpuVars>>

(***************************************************************************)
(* ~Device: drain_contexts, then destroy_command_contexts destroys every   *)
(* pool and the retirement semaphore.                                      *)
(***************************************************************************)
DestroyDevice ==
  /\ call.op = "destroy"
  /\ gpuRetired >= call.value
  /\ next_command_context' = 0
  /\ next' = [c \in 1..0 |-> 0]
  /\ previous' = [c \in 1..0 |-> 0]
  /\ retire_value' = [c \in 1..0 |-> 0]
  /\ command_context_count' = 0
  /\ command_submit_capacity' = 0
  /\ command_retirement_value' = 0
  /\ completed_command_retirement' = 0
  /\ buffer' = [c \in AllContexts |-> "none"]
  /\ lastUse' = [c \in AllContexts |-> 0]
  /\ gpuWork' = 0
  /\ gpuRetired' = 0
  /\ Blocked("destroyed", 0)
  /\ UNCHANGED <<active_command_buffers, batch>>

-----------------------------------------------------------------------------
(* The GPU queue: submissions complete and then retire, in order. *)

GpuCompletesWork ==
  /\ gpuWork < command_retirement_value
  /\ gpuWork' = gpuWork + 1
  /\ UNCHANGED <<poolVars, retire_value, active_command_buffers, command_retirement_value,
                 completed_command_retirement, call, batch, buffer, lastUse, gpuRetired>>

GpuSignalsRetirement ==
  /\ gpuRetired < gpuWork
  /\ gpuRetired' = gpuRetired + 1
  /\ UNCHANGED <<poolVars, retire_value, active_command_buffers, command_retirement_value,
                 completed_command_retirement, call, batch, buffer, lastUse, gpuWork>>

-----------------------------------------------------------------------------
Next ==
  \/ BeginReusing
  \/ BeginGrowing
  \/ EndBatch
  \/ RetirementAvailable
  \/ Throttle
  \/ ThrottleReturns
  \/ QueueBatch
  \/ \E value \in 1..command_retirement_value : WaitTimeline(value)
  \/ WaitTimelineReturns
  \/ Drain("wait_idle")
  \/ WaitIdleReturns
  \/ Drain("destroy")
  \/ DestroyDevice
  \/ GpuCompletesWork
  \/ GpuSignalsRetirement

(***************************************************************************)
(* A queue makes progress on what was submitted to it, and a call that can *)
(* return does.  Nothing obliges the application to make another call.     *)
(***************************************************************************)
Fairness ==
  /\ WF_vars(GpuCompletesWork)
  /\ WF_vars(GpuSignalsRetirement)
  /\ WF_vars(RetirementAvailable \/ Throttle \/ ThrottleReturns \/ QueueBatch
             \/ WaitTimelineReturns \/ WaitIdleReturns \/ DestroyDevice)

Spec == Init /\ [][Next]_vars
FairSpec == Spec /\ Fairness

-----------------------------------------------------------------------------
(* Properties. *)

TypeOK ==
  /\ command_context_count \in 0..MaxContexts
  /\ next_command_context \in 0..command_context_count
  /\ next \in [Contexts -> Contexts]
  /\ previous \in [Contexts -> Contexts]
  /\ retire_value \in [Contexts -> Nat]
  /\ command_submit_capacity \in Nat
  /\ active_command_buffers \in Int
  /\ command_retirement_value \in Nat
  /\ completed_command_retirement \in Nat
  /\ call \in [op : Operations, value : Nat]
  /\ batch \subseteq Contexts
  /\ buffer \in [AllContexts -> BufferStates]
  /\ lastUse \in [AllContexts -> Nat]
  /\ gpuWork \in Nat
  /\ gpuRetired \in Nat

(***************************************************************************)
(* No pool is reset, reused or destroyed while the GPU still executes the  *)
(* submission that contains its command buffer (vkResetCommandPool and     *)
(* vkDestroyCommandPool require it), however stale the observed retirement *)
(* value is.                                                               *)
(***************************************************************************)
PoolTouchedOnlyAfterExecution ==
  [][\A c \in AllContexts :
       buffer[c] = "submitted" /\ buffer'[c] # "submitted" => ~InFlight(c)]_vars

(***************************************************************************)
(* vkQueueSubmit2 receives command buffers that were recorded and ended:   *)
(* nothing done between the loop that ends them and the submission, the    *)
(* wait of next_command_retirement included, resets one of them.           *)
(***************************************************************************)
SubmitsOnlyExecutable ==
  [][\A c \in AllContexts :
       buffer'[c] = "submitted" /\ buffer[c] # "submitted" => buffer[c] = "executable"]_vars

(***************************************************************************)
(* The values the assertions of poll_command_retirement and                *)
(* wait_command_retirement compare: what the host observed never passes    *)
(* what the GPU signalled, nor that what was submitted.                    *)
(***************************************************************************)
ObservedBehindGpu ==
  /\ completed_command_retirement <= gpuRetired
  /\ gpuRetired <= gpuWork
  /\ gpuWork <= command_retirement_value

(***************************************************************************)
(* maxTimelineSemaphoreValueDifference: the pending signals of             *)
(* command_retirement never run further ahead of its counter than the      *)
(* device supports.  This is what next_command_retirement waits for.       *)
(***************************************************************************)
TimelineDifferenceBounded ==
  command_retirement_value - gpuRetired <= MaxDifference

(***************************************************************************)
(* The context the list yields k steps after its head.                     *)
(***************************************************************************)
Nth == LET walk[k \in 0..command_context_count] ==
             IF k = 0 THEN next_command_context ELSE next[walk[k - 1]]
       IN walk

(***************************************************************************)
(* The list stays one doubly linked circle through every context, so the   *)
(* loop of reset_retired_command_contexts ends and meets all of them, and  *)
(* destroy_command_contexts leaks none.                                    *)
(***************************************************************************)
Circular ==
  next_command_context # 0 =>
    /\ {Nth[k] : k \in 1..command_context_count} = Contexts
    /\ Nth[command_context_count] = next_command_context
    /\ \A c \in Contexts : previous[next[c]] = c

(***************************************************************************)
(* From the head the list holds the free contexts, then the submitted ones *)
(* in the order of their submissions, then those of the batch being        *)
(* recorded.  It is why acquire_command_context may look at the head only. *)
(***************************************************************************)
Rank(c) == CASE buffer[c] = "initial" -> 0
             [] buffer[c] = "submitted" -> 1
             [] OTHER -> 2
Sorted ==
  \A j, k \in 0..(command_context_count - 1) :
    j < k => \/ Rank(Nth[j]) < Rank(Nth[k])
             \/ /\ Rank(Nth[j]) = Rank(Nth[k])
                /\ retire_value[Nth[j]] <= retire_value[Nth[k]]

(***************************************************************************)
(* The pool grows only when reuse is impossible: every context is          *)
(* recording or was not seen to retire, and for the first command buffer   *)
(* of a batch none has retired on the GPU.                                 *)
(***************************************************************************)
GrowsOnlyWhenBusy ==
  [][command_context_count' > command_context_count =>
       \A c \in Contexts :
         /\ Recording(c) \/ retire_value[c] > completed_command_retirement'
         /\ active_command_buffers = 0 => retire_value[c] > gpuRetired]_vars

(***************************************************************************)
(* Through reuse, growth and resets in any order the list stays such a     *)
(* sorted circle (acquire_command_context, grow_command_context_pool). A   *)
(* context whose retirement was observed has been reset in the same call,  *)
(* a context that is to be retired names its own last submission,          *)
(* active_command_buffers counts the recordings submit must consume, and   *)
(* command_submit_infos, indexed by submit up to the size of its batch,    *)
(* has room for every context.                                             *)
(***************************************************************************)
BookkeepingExact ==
  /\ TypeOK
  /\ Circular /\ Sorted
  /\ \A c \in Contexts :
       /\ buffer[c] = "submitted" <=> retire_value[c] # 0
       /\ buffer[c] = "submitted" =>
            /\ retire_value[c] = lastUse[c]
            /\ retire_value[c] > completed_command_retirement
  /\ active_command_buffers = Cardinality({c \in Contexts : Recording(c)})
  /\ command_context_count <= command_submit_capacity

(***************************************************************************)
(* Every blocking call returns: no wait is for a value that will never be  *)
(* signalled, the one of next_command_retirement before its own submission *)
(* included.                                                               *)
(***************************************************************************)
CallsReturn == call.op \notin {"none", "destroyed"} ~> call.op \in {"none", "destroyed"}
=============================================================================
