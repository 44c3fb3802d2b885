------------------------ MODULE CommandContexts_proofs ------------------------
(***************************************************************************)
(* Proofs about CommandContexts, for every number of contexts, submissions *)
(* and every timeline difference the device may support.                   *)
(***************************************************************************)
EXTENDS CommandContexts, FiniteSetTheorems, WellFoundedInduction, TLAPS

-----------------------------------------------------------------------------
(* The inductive invariant. *)

(***************************************************************************)
(* The host's contexts, with retirement values rv and buffers bs, agree    *)
(* with what was submitted, and differ from the current ones only by       *)
(* resets of pools that are not in flight.                                 *)
(***************************************************************************)
Agrees(rv, bs) ==
  /\ rv \in [Contexts -> Nat]
  /\ bs \in [AllContexts -> BufferStates]
  /\ \A c \in Contexts :
       /\ bs[c] = "submitted" <=> rv[c] # 0
       /\ bs[c] = "submitted" => rv[c] = lastUse[c]
       /\ rv[c] <= command_retirement_value
  /\ \A c \in AllContexts \ Contexts : bs[c] = "none"
  /\ \A c \in AllContexts :
       /\ bs[c] = "executable" <=> buffer[c] = "executable"
       /\ bs[c] = "submitted" => buffer[c] = "submitted"
       /\ buffer[c] = "submitted" /\ bs[c] # "submitted" => ~InFlight(c)

CallInv ==
  /\ call.op # "destroyed" => next_command_context \in Contexts
  /\ call.op \in {"submit", "throttled", "queue"} =>
       /\ call.value = command_retirement_value + 1
       /\ \A c \in batch : buffer[c] = "executable"
  /\ call.op = "queue" => call.value - completed_command_retirement <= MaxDifference
  /\ call.op \notin {"submit", "throttled", "queue"} => batch = {}
  /\ call.op \in {"wait_idle", "destroy"} => call.value = command_retirement_value

IInv ==
  /\ TypeOK
  /\ ObservedBehindGpu
  /\ TimelineDifferenceBounded
  /\ Agrees(retire_value, buffer)
  /\ CallInv

-----------------------------------------------------------------------------
(* Observing retirement keeps the contexts in agreement. *)

(***************************************************************************)
(* Resetting what a signalled retirement value covers touches no pool that *)
(* is in flight.                                                           *)
(***************************************************************************)
LEMMA ResetAgrees ==
  ASSUME IInv, NEW done \in Nat, done <= gpuRetired
  PROVE  Agrees(ResetValues(done), ResetBuffers(done))
<1> DEFINE rv == ResetValues(done)
           bs == ResetBuffers(done)
<1>1. /\ retire_value \in [Contexts -> Nat]
      /\ buffer \in [AllContexts -> BufferStates]
      /\ lastUse \in [AllContexts -> Nat]
      /\ Contexts \subseteq AllContexts
      /\ gpuRetired \in Nat /\ gpuWork \in Nat /\ gpuRetired <= gpuWork
      /\ command_retirement_value \in Nat
  BY ConstantsAssumption DEF IInv, TypeOK, ObservedBehindGpu, Contexts, AllContexts
<1>2. \A c \in Contexts :
        /\ buffer[c] = "submitted" <=> retire_value[c] # 0
        /\ buffer[c] = "submitted" => retire_value[c] = lastUse[c]
        /\ retire_value[c] <= command_retirement_value
  BY DEF IInv, Agrees
<1>3. \A c \in AllContexts \ Contexts : buffer[c] = "none"
  BY DEF IInv, Agrees
<1>4. rv \in [Contexts -> Nat]
  BY <1>1 DEF ResetValues
<1>5. bs \in [AllContexts -> BufferStates]
  BY <1>1 DEF ResetBuffers, BufferStates
<1>6. \A c \in Contexts :
        /\ bs[c] = "submitted" <=> rv[c] # 0
        /\ bs[c] = "submitted" => rv[c] = lastUse[c]
        /\ rv[c] <= command_retirement_value
  BY <1>1, <1>2 DEF ResetBuffers, ResetValues, Retired
<1>7. \A c \in AllContexts \ Contexts : bs[c] = "none"
  BY <1>3 DEF ResetBuffers, Retired
<1>8. \A c \in AllContexts :
        /\ bs[c] = "executable" <=> buffer[c] = "executable"
        /\ bs[c] = "submitted" => buffer[c] = "submitted"
        /\ buffer[c] = "submitted" /\ bs[c] # "submitted" => ~InFlight(c)
  <2> SUFFICES ASSUME NEW c \in AllContexts
               PROVE  /\ bs[c] = "executable" <=> buffer[c] = "executable"
                      /\ bs[c] = "submitted" => buffer[c] = "submitted"
                      /\ buffer[c] = "submitted" /\ bs[c] # "submitted" => ~InFlight(c)
    OBVIOUS
  <2>1. CASE c \in Retired(done)
    <3>1. /\ c \in Contexts /\ retire_value[c] # 0 /\ retire_value[c] <= done
          /\ bs[c] = "initial"
      BY <2>1 DEF Retired, ResetBuffers
    <3>2. buffer[c] = "submitted" /\ retire_value[c] = lastUse[c]
      BY <1>2, <3>1
    <3>3. ~InFlight(c)
      BY <1>1, <3>1, <3>2 DEF InFlight
    <3>4. QED
      BY <3>1, <3>2, <3>3
  <2>2. CASE c \notin Retired(done)
    BY <2>2 DEF ResetBuffers
  <2>3. QED
    BY <2>1, <2>2
<1>9. QED
  BY <1>4, <1>5, <1>6, <1>7, <1>8 DEF Agrees

(***************************************************************************)
(* poll_command_retirement observes a value between the one observed       *)
(* before and the semaphore's, and leaves the contexts in agreement.       *)
(***************************************************************************)
LEMMA PollAgrees ==
  ASSUME IInv
  PROVE  /\ Polled \in Nat
         /\ completed_command_retirement <= Polled
         /\ Polled <= gpuRetired
         /\ Agrees(PolledValues, PolledBuffers)
<1>1. /\ Polled \in Nat
      /\ completed_command_retirement <= Polled
      /\ Polled <= gpuRetired
  BY DEF IInv, TypeOK, ObservedBehindGpu, Polled
<1>2. CASE Polled = completed_command_retirement
  BY <1>1, <1>2 DEF IInv, PolledValues, PolledBuffers
<1>3. CASE Polled # completed_command_retirement
  BY <1>1, <1>3, ResetAgrees DEF PolledValues, PolledBuffers
<1>4. QED
  BY <1>1, <1>2, <1>3

(***************************************************************************)
(* The same of the optional poll of acquire_command_context.               *)
(***************************************************************************)
LEMMA ObservationAgrees ==
  ASSUME IInv
  PROVE  /\ Observed \in Nat
         /\ completed_command_retirement <= Observed
         /\ Observed <= gpuRetired
         /\ Agrees(ObservedValues, ObservedBuffers)
<1>1. CASE PollsFirst
  BY <1>1, PollAgrees DEF Observed, ObservedValues, ObservedBuffers
<1>2. CASE ~PollsFirst
  BY <1>2 DEF IInv, TypeOK, ObservedBehindGpu, Observed, ObservedValues, ObservedBuffers
<1>3. QED
  BY <1>1, <1>2

(***************************************************************************)
(* The value a wait leaves in completed_command_retirement was signalled.  *)
(***************************************************************************)
LEMMA WaitAgrees ==
  ASSUME IInv, NEW value \in Int, value <= gpuRetired
  PROVE  /\ AfterWait(value) \in Nat
         /\ value <= AfterWait(value)
         /\ completed_command_retirement <= AfterWait(value)
         /\ AfterWait(value) <= gpuRetired
         /\ Agrees(ResetValues(AfterWait(value)), ResetBuffers(AfterWait(value)))
<1>1. /\ AfterWait(value) \in Nat
      /\ value <= AfterWait(value)
      /\ completed_command_retirement <= AfterWait(value)
      /\ AfterWait(value) <= gpuRetired
  BY DEF IInv, TypeOK, ObservedBehindGpu, AfterWait
<1>2. QED
  BY <1>1, ResetAgrees
-----------------------------------------------------------------------------
(* The invariant is inductive. *)

(***************************************************************************)
(* A device fresh from create_command_contexts satisfies the invariant.    *)
(***************************************************************************)
LEMMA InitEstablishes == Init => IInv
<1> SUFFICES ASSUME Init PROVE IInv
  OBVIOUS
<1> USE ConstantsAssumption DEF Init
<1>1. Contexts \subseteq AllContexts
  BY DEF Contexts, AllContexts
<1>2. TypeOK
  BY DEF Operations, TypeOK, Contexts, AllContexts, BufferStates, Idle
<1>3. ObservedBehindGpu /\ TimelineDifferenceBounded
  BY DEF ObservedBehindGpu, TimelineDifferenceBounded
<1>4. Agrees(retire_value, buffer)
  BY <1>1 DEF Agrees, Contexts, AllContexts, BufferStates, InFlight
<1>5. CallInv
  BY DEF CallInv, Idle, Contexts
<1>6. QED
  BY <1>2, <1>3, <1>4, <1>5 DEF IInv

(***************************************************************************)
(* begin_commands, reusing the head of the list.                           *)
(***************************************************************************)
LEMMA BeginReusingStep == IInv /\ BeginReusing => IInv'
<1> SUFFICES ASSUME IInv, BeginReusing PROVE IInv'
  OBVIOUS
<1> DEFINE h == next_command_context
<1>1. /\ h \in Contexts /\ Contexts \subseteq AllContexts
      /\ next[h] \in Contexts
  BY ConstantsAssumption DEF IInv, TypeOK, CallInv, BeginReusing, Contexts, AllContexts
<1>2. /\ Observed \in Nat /\ completed_command_retirement <= Observed /\ Observed <= gpuRetired
      /\ Agrees(ObservedValues, ObservedBuffers)
  BY ObservationAgrees
<1>3. /\ Contexts' = Contexts /\ AllContexts' = AllContexts
      /\ UNCHANGED <<next, previous, command_context_count, command_submit_capacity,
                     command_retirement_value, call, batch, lastUse, gpuWork, gpuRetired>>
  BY DEF BeginReusing, gpuVars, Contexts, AllContexts
<1>4. /\ retire_value' = [ObservedValues EXCEPT ![h] = 0]
      /\ buffer' = [ObservedBuffers EXCEPT ![h] = "recording"]
      /\ completed_command_retirement' = Observed
      /\ next_command_context' = next[h]
      /\ active_command_buffers' = active_command_buffers + 1
      /\ call.op = "none"
  BY DEF BeginReusing
<1>5. /\ retire_value' \in [Contexts -> Nat]
      /\ buffer' \in [AllContexts -> BufferStates]
  BY <1>2, <1>4 DEF Agrees, BufferStates
<1>6. TypeOK'
  <2>1. next_command_context' \in 0..command_context_count'
    BY <1>1, <1>3, <1>4 DEF IInv, TypeOK, Contexts
  <2>2. QED
    BY <1>2, <1>3, <1>4, <1>5, <2>1 DEF IInv, TypeOK
<1>7. ObservedBehindGpu' /\ TimelineDifferenceBounded'
  BY <1>2, <1>3, <1>4 DEF IInv, ObservedBehindGpu, TimelineDifferenceBounded
<1>8. Agrees(retire_value, buffer)'
  <2>1. \A c \in Contexts :
          /\ buffer'[c] = "submitted" <=> retire_value'[c] # 0
          /\ buffer'[c] = "submitted" => retire_value'[c] = lastUse[c]
          /\ retire_value'[c] <= command_retirement_value
    BY <1>1, <1>2, <1>4 DEF Agrees, IInv, TypeOK
  <2>2. \A c \in AllContexts \ Contexts : buffer'[c] = "none"
    BY <1>1, <1>2, <1>4 DEF Agrees
  <2>3. QED
    BY <1>3, <1>5, <2>1, <2>2 DEF Agrees, InFlight
<1>9. CallInv'
  BY <1>1, <1>3, <1>4 DEF IInv, CallInv
<1>10. QED
  BY <1>6, <1>7, <1>8, <1>9 DEF IInv

(***************************************************************************)
(* begin_commands, growing the pool: the new context is linked in before   *)
(* the head.                                                               *)
(***************************************************************************)
LEMMA BeginGrowingStep == IInv /\ BeginGrowing => IInv'
<1> SUFFICES ASSUME IInv, BeginGrowing PROVE IInv'
  OBVIOUS
<1> DEFINE h == next_command_context
           n == NewContext
<1>1. /\ h \in Contexts /\ Contexts \subseteq AllContexts
      /\ n \in AllContexts \ Contexts /\ n \in Nat
      /\ Contexts' = 1..n /\ Contexts' = Contexts \union {n}
      /\ AllContexts' = AllContexts
  <2>1. /\ command_context_count \in Nat /\ MaxContexts \in Nat
        /\ command_context_count <= MaxContexts
        /\ n = command_context_count + 1 /\ n <= MaxContexts
        /\ command_context_count' = n
    BY ConstantsAssumption DEF IInv, TypeOK, BeginGrowing, NewContext
  <2>2. h \in Contexts
    BY DEF IInv, CallInv, BeginGrowing
  <2>3. QED
    BY <2>1, <2>2 DEF Contexts, AllContexts
<1>2. /\ Observed \in Nat /\ completed_command_retirement <= Observed /\ Observed <= gpuRetired
      /\ Agrees(ObservedValues, ObservedBuffers)
  BY ObservationAgrees
<1>3. /\ UNCHANGED <<command_retirement_value, call, batch, lastUse, gpuWork, gpuRetired>>
      /\ call.op = "none"
      /\ retire_value' = [c \in 1..n |-> IF c = n THEN 0 ELSE ObservedValues[c]]
      /\ buffer' = [ObservedBuffers EXCEPT ![n] = "recording"]
      /\ completed_command_retirement' = Observed
      /\ next_command_context' = GrownNext[n]
      /\ next' = GrownNext /\ previous' = GrownPrevious
      /\ command_context_count' = n /\ n <= MaxContexts
      /\ command_submit_capacity' = GrownCapacity
      /\ active_command_buffers' = active_command_buffers + 1
  BY DEF BeginGrowing, gpuVars
<1>4. GrownNext[n] = h
  BY <1>1 DEF GrownNext
<1>5. /\ GrownNext \in [1..n -> 1..n]
      /\ GrownPrevious \in [1..n -> 1..n]
  <2>1. \A c \in Contexts : next[c] \in Contexts /\ previous[c] \in Contexts
    BY DEF IInv, TypeOK
  <2>2. QED
    BY <1>1, <2>1 DEF GrownNext, GrownPrevious
<1>6. GrownCapacity \in Nat
  BY ConstantsAssumption DEF IInv, TypeOK, GrownCapacity
<1>7. /\ retire_value' \in [1..n -> Nat]
      /\ buffer' \in [AllContexts -> BufferStates]
  BY <1>1, <1>2, <1>3 DEF Agrees, BufferStates
<1>8. TypeOK'
  <2>1. next_command_context' \in 0..command_context_count'
    BY <1>1, <1>3, <1>4 DEF IInv, TypeOK, Contexts
  <2>2. /\ next' \in [Contexts' -> Contexts']
        /\ previous' \in [Contexts' -> Contexts']
        /\ retire_value' \in [Contexts' -> Nat]
    BY <1>1, <1>3, <1>5, <1>7
  <2>3. command_context_count' \in 0..MaxContexts /\ batch' \subseteq Contexts'
    BY <1>1, <1>3, ConstantsAssumption DEF IInv, TypeOK
  <2>4. /\ command_submit_capacity' \in Nat
        /\ active_command_buffers' \in Int
        /\ command_retirement_value' \in Nat
        /\ completed_command_retirement' \in Nat
        /\ call' \in [op : Operations, value : Nat]
        /\ buffer' \in [AllContexts' -> BufferStates]
        /\ lastUse' \in [AllContexts' -> Nat]
        /\ gpuWork' \in Nat /\ gpuRetired' \in Nat
    <3>1. /\ active_command_buffers \in Int
          /\ command_retirement_value \in Nat
          /\ call \in [op : Operations, value : Nat]
          /\ lastUse \in [AllContexts -> Nat]
          /\ gpuWork \in Nat /\ gpuRetired \in Nat
      BY DEF IInv, TypeOK
    <3>2. QED
      BY <1>1, <1>2, <1>3, <1>6, <1>7, <3>1
  <2>5. QED
    BY <2>1, <2>2, <2>3, <2>4 DEF TypeOK
<1>9. ObservedBehindGpu' /\ TimelineDifferenceBounded'
  BY <1>2, <1>3 DEF IInv, ObservedBehindGpu, TimelineDifferenceBounded
<1>10. Agrees(retire_value, buffer)'
  <2>1. \A c \in Contexts' :
          /\ buffer'[c] = "submitted" <=> retire_value'[c] # 0
          /\ buffer'[c] = "submitted" => retire_value'[c] = lastUse[c]
          /\ retire_value'[c] <= command_retirement_value
    <3> SUFFICES ASSUME NEW c \in Contexts'
                 PROVE  /\ buffer'[c] = "submitted" <=> retire_value'[c] # 0
                        /\ buffer'[c] = "submitted" => retire_value'[c] = lastUse[c]
                        /\ retire_value'[c] <= command_retirement_value
      OBVIOUS
    <3>1. CASE c = n
      BY <1>1, <1>2, <1>3, <3>1 DEF Agrees, IInv, TypeOK
    <3>2. CASE c # n
      BY <1>1, <1>2, <1>3, <3>2 DEF Agrees
    <3>3. QED
      BY <3>1, <3>2
  <2>2. \A c \in AllContexts \ Contexts' : buffer'[c] = "none"
    BY <1>1, <1>2, <1>3 DEF Agrees
  <2>3. QED
    BY <1>1, <1>3, <1>7, <2>1, <2>2 DEF Agrees, InFlight
<1>11. CallInv'
  BY <1>1, <1>3, <1>4 DEF IInv, CallInv
<1>12. QED
  BY <1>8, <1>9, <1>10, <1>11 DEF IInv

(***************************************************************************)
(* The loop of submit that ends the batch.                                 *)
(***************************************************************************)
LEMMA EndBatchStep == IInv /\ EndBatch => IInv'
<1> SUFFICES ASSUME IInv, EndBatch PROVE IInv'
  OBVIOUS
<1>1. /\ UNCHANGED <<next_command_context, next, previous, command_context_count,
                     command_submit_capacity, retire_value, command_retirement_value,
                     completed_command_retirement, lastUse, gpuWork, gpuRetired>>
      /\ batch' = {c \in Contexts : Recording(c)}
      /\ buffer' = [c \in AllContexts |-> IF c \in batch' THEN "executable" ELSE buffer[c]]
      /\ active_command_buffers' = active_command_buffers - Cardinality(batch')
      /\ call' = [op |-> "submit", value |-> command_retirement_value + 1]
      /\ Contexts' = Contexts /\ AllContexts' = AllContexts
      /\ call.op = "none"
  BY DEF EndBatch, Blocked, poolVars, gpuVars, Contexts, AllContexts
<1>2. Contexts \subseteq AllContexts
  BY ConstantsAssumption DEF IInv, TypeOK, Contexts, AllContexts
<1>3. Cardinality(batch') \in Nat
  <2>1. IsFiniteSet(Contexts)
    BY FS_Interval DEF IInv, TypeOK, Contexts
  <2>2. IsFiniteSet(batch')
    BY <1>1, <2>1, FS_Subset
  <2>3. QED
    BY <2>2, FS_CardinalityType
<1>4. TypeOK'
  BY <1>1, <1>3 DEF Operations, IInv, TypeOK, BufferStates
<1>5. ObservedBehindGpu' /\ TimelineDifferenceBounded'
  BY <1>1 DEF IInv, ObservedBehindGpu, TimelineDifferenceBounded
<1>6. Agrees(retire_value, buffer)'
  BY <1>1, <1>2, <1>4 DEF IInv, Agrees, TypeOK, InFlight, Recording
<1>7. CallInv'
  <2>1. \A c \in batch' : buffer'[c] = "executable"
    BY <1>1, <1>2
  <2>2. next_command_context \in Contexts
    BY <1>1 DEF IInv, CallInv
  <2>3. QED
    BY <1>1, <2>1, <2>2 DEF CallInv
<1>8. QED
  BY <1>4, <1>5, <1>6, <1>7 DEF IInv

(***************************************************************************)
(* A step that only observes retirement, leaving the contexts with values  *)
(* rv and buffers bs.                                                      *)
(***************************************************************************)
LEMMA ObserveStep ==
  ASSUME IInv, NEW rv, NEW bs, NEW done \in Nat, done <= gpuRetired, Agrees(rv, bs),
         completed_command_retirement' = done, retire_value' = rv, buffer' = bs,
         UNCHANGED <<poolVars, active_command_buffers, command_retirement_value,
                     batch, lastUse, gpuVars>>
  PROVE  /\ ObservedBehindGpu' /\ TimelineDifferenceBounded'
         /\ Agrees(retire_value, buffer)'
         /\ call' \in [op : Operations, value : Nat] => TypeOK'
<1>1. /\ UNCHANGED <<next_command_context, next, previous, command_context_count,
                     command_submit_capacity, active_command_buffers,
                     command_retirement_value, batch, lastUse, gpuWork, gpuRetired>>
      /\ Contexts' = Contexts /\ AllContexts' = AllContexts
  BY DEF poolVars, gpuVars, Contexts, AllContexts
<1>2. ObservedBehindGpu' /\ TimelineDifferenceBounded'
  BY <1>1 DEF IInv, ObservedBehindGpu, TimelineDifferenceBounded
<1>3. Agrees(retire_value, buffer)'
  BY <1>1 DEF Agrees, InFlight
<1>4. retire_value' \in [Contexts -> Nat] /\ buffer' \in [AllContexts -> BufferStates]
  BY DEF Agrees
<1>5. ASSUME call' \in [op : Operations, value : Nat]
      PROVE  TypeOK'
  BY <1>1, <1>4, <1>5 DEF IInv, TypeOK
<1>6. QED
  BY <1>2, <1>3, <1>5

(***************************************************************************)
(* The same inside submit: the batch stays executable, and the call may go *)
(* on to the queue if what it observed is near enough.                     *)
(***************************************************************************)
LEMMA ObserveInSubmit ==
  ASSUME IInv, call.op \in {"submit", "throttled"},
         NEW rv, NEW bs, NEW done \in Nat, done <= gpuRetired, Agrees(rv, bs),
         completed_command_retirement' = done, retire_value' = rv, buffer' = bs,
         NEW op \in {"throttled", "queue"}, Blocked(op, call.value),
         op = "queue" => ~TooFarAhead(done),
         UNCHANGED <<poolVars, active_command_buffers, command_retirement_value,
                     batch, lastUse, gpuVars>>
  PROVE  IInv'
<1>1. /\ call' = [op |-> op, value |-> call.value]
      /\ call.value \in Nat
      /\ UNCHANGED <<next_command_context, command_context_count, command_retirement_value, batch>>
      /\ Contexts' = Contexts
  BY DEF Blocked, poolVars, IInv, TypeOK, Contexts
<1>2. call' \in [op : Operations, value : Nat]
  BY <1>1 DEF Operations
<1>3. /\ ObservedBehindGpu' /\ TimelineDifferenceBounded' /\ Agrees(retire_value, buffer)'
      /\ TypeOK'
  BY <1>2, ObserveStep
<1>4. CallInv'
  <2>1. batch \subseteq AllContexts
    BY ConstantsAssumption DEF IInv, TypeOK, Contexts, AllContexts
  <2>2. \A c \in batch' : buffer'[c] = "executable"
    BY <1>1, <2>1 DEF IInv, CallInv, Agrees
  <2>3. op = "queue" => call.value - completed_command_retirement' <= MaxDifference
    BY <1>1, ConstantsAssumption DEF TooFarAhead
  <2>4. /\ call.value = command_retirement_value + 1
        /\ next_command_context \in Contexts
    BY DEF IInv, CallInv
  <2>5. QED
    BY <1>1, <2>2, <2>3, <2>4 DEF CallInv
<1>5. QED
  BY <1>3, <1>4 DEF IInv

LEMMA RetirementAvailableStep == IInv /\ RetirementAvailable => IInv'
<1> SUFFICES ASSUME IInv, RetirementAvailable PROVE IInv'
  OBVIOUS
<1>1. call.op = "submit" /\ Blocked("queue", call.value)
  BY DEF RetirementAvailable
<1>2. CASE /\ ~TooFarAhead(completed_command_retirement)
           /\ UNCHANGED <<completed_command_retirement, retire_value, buffer>>
  <2>1. /\ completed_command_retirement \in Nat
        /\ completed_command_retirement <= gpuRetired
        /\ Agrees(retire_value, buffer)
    BY DEF IInv, TypeOK, ObservedBehindGpu
  <2>2. QED
    BY <1>1, <1>2, <2>1, ObserveInSubmit DEF RetirementAvailable
<1>3. CASE /\ ~TooFarAhead(Polled)
           /\ completed_command_retirement' = Polled
           /\ retire_value' = PolledValues
           /\ buffer' = PolledBuffers
  BY <1>1, <1>3, PollAgrees, ObserveInSubmit DEF RetirementAvailable
<1>4. QED
  BY <1>2, <1>3 DEF RetirementAvailable

LEMMA ThrottleStep == IInv /\ Throttle => IInv'
  BY PollAgrees, ObserveInSubmit DEF Throttle

LEMMA ThrottleReturnsStep == IInv /\ ThrottleReturns => IInv'
<1> SUFFICES ASSUME IInv, ThrottleReturns PROVE IInv'
  OBVIOUS
<1> DEFINE done == AfterWait(ThrottleValue)
<1>1. ThrottleValue \in Int /\ ThrottleValue <= gpuRetired
  BY ConstantsAssumption DEF IInv, TypeOK, ThrottleReturns, ThrottleValue
<1>2. /\ done \in Nat /\ ThrottleValue <= done /\ done <= gpuRetired
      /\ Agrees(ResetValues(done), ResetBuffers(done))
  BY <1>1, WaitAgrees
<1>3. ~TooFarAhead(done)
  BY <1>2, ConstantsAssumption DEF TooFarAhead, ThrottleValue, IInv, TypeOK
<1>4. QED
  BY <1>2, <1>3, ObserveInSubmit DEF ThrottleReturns

(***************************************************************************)
(* The submission itself.                                                  *)
(***************************************************************************)
LEMMA QueueBatchStep == IInv /\ QueueBatch => IInv'
<1> SUFFICES ASSUME IInv, QueueBatch PROVE IInv'
  OBVIOUS
<1>1. /\ UNCHANGED <<next_command_context, next, previous, command_context_count,
                     command_submit_capacity, active_command_buffers,
                     completed_command_retirement, gpuWork, gpuRetired>>
      /\ command_retirement_value' = call.value
      /\ retire_value' = [c \in Contexts |-> IF c \in batch THEN call.value ELSE retire_value[c]]
      /\ buffer' = [c \in AllContexts |-> IF c \in batch THEN "submitted" ELSE buffer[c]]
      /\ lastUse' = [c \in AllContexts |-> IF c \in batch THEN call.value ELSE lastUse[c]]
      /\ batch' = {}
      /\ call' = Idle
      /\ Contexts' = Contexts /\ AllContexts' = AllContexts
  BY DEF QueueBatch, Returned, poolVars, gpuVars, Contexts, AllContexts
<1>2. Contexts \subseteq AllContexts
  BY ConstantsAssumption DEF IInv, TypeOK, Contexts, AllContexts
<1>3. /\ call.value = command_retirement_value + 1
      /\ call.value - completed_command_retirement <= MaxDifference
      /\ next_command_context \in Contexts
      /\ call.op = "queue"
  BY DEF IInv, CallInv, QueueBatch
<1>4. /\ call.value \in Nat /\ command_retirement_value \in Nat
      /\ gpuWork \in Nat /\ gpuRetired \in Nat /\ completed_command_retirement \in Nat
      /\ completed_command_retirement <= gpuRetired
      /\ gpuRetired <= gpuWork /\ gpuWork <= command_retirement_value
      /\ batch \subseteq Contexts
      /\ lastUse \in [AllContexts -> Nat]
      /\ retire_value \in [Contexts -> Nat]
      /\ buffer \in [AllContexts -> BufferStates]
  BY DEF IInv, TypeOK, ObservedBehindGpu
<1>5. /\ \A c \in Contexts :
           /\ buffer[c] = "submitted" <=> retire_value[c] # 0
           /\ buffer[c] = "submitted" => retire_value[c] = lastUse[c]
           /\ retire_value[c] <= command_retirement_value
      /\ \A c \in AllContexts \ Contexts : buffer[c] = "none"
  BY DEF IInv, Agrees
<1>6. /\ retire_value' \in [Contexts -> Nat]
      /\ buffer' \in [AllContexts -> BufferStates]
      /\ lastUse' \in [AllContexts -> Nat]
  BY <1>1, <1>4 DEF BufferStates
<1>7. TypeOK'
  BY <1>1, <1>4, <1>6 DEF IInv, TypeOK, Idle, Operations
<1>8. ObservedBehindGpu'
  BY <1>1, <1>3, <1>4 DEF ObservedBehindGpu
<1>9. TimelineDifferenceBounded'
  <2>1. call.value - gpuRetired <= call.value - completed_command_retirement
    BY <1>4
  <2>2. call.value - gpuRetired <= MaxDifference
    BY <1>3, <1>4, <2>1, ConstantsAssumption
  <2>3. QED
    BY <1>1, <2>2 DEF TimelineDifferenceBounded
<1>10. Agrees(retire_value, buffer)'
  <2>1. \A c \in Contexts :
          /\ buffer'[c] = "submitted" <=> retire_value'[c] # 0
          /\ buffer'[c] = "submitted" => retire_value'[c] = lastUse'[c]
          /\ retire_value'[c] <= command_retirement_value'
    BY <1>1, <1>2, <1>3, <1>4, <1>5
  <2>2. \A c \in AllContexts \ Contexts : buffer'[c] = "none"
    BY <1>1, <1>4, <1>5
  <2>3. QED
    BY <1>1, <1>6, <2>1, <2>2 DEF Agrees
<1>11. CallInv'
  BY <1>1, <1>3 DEF CallInv, Idle
<1>12. QED
  BY <1>7, <1>8, <1>9, <1>10, <1>11 DEF IInv

LEMMA WaitTimelineReturnsStep == IInv /\ WaitTimelineReturns => IInv'
<1> SUFFICES ASSUME IInv, WaitTimelineReturns PROVE IInv'
  OBVIOUS
<1>1. /\ Polled \in Nat /\ Polled <= gpuRetired /\ Agrees(PolledValues, PolledBuffers)
  BY PollAgrees
<1>2. call.op = "wait_timeline" /\ call' = [op |-> "none", value |-> 0]
  BY DEF WaitTimelineReturns, Returned, Idle
<1>3. /\ ObservedBehindGpu' /\ TimelineDifferenceBounded' /\ Agrees(retire_value, buffer)'
      /\ TypeOK'
  BY <1>1, <1>2, ObserveStep DEF Operations, WaitTimelineReturns
<1>4. CallInv'
  BY <1>2 DEF WaitTimelineReturns, IInv, CallInv, poolVars, Contexts
<1>5. QED
  BY <1>3, <1>4 DEF IInv

LEMMA WaitIdleReturnsStep == IInv /\ WaitIdleReturns => IInv'
<1> SUFFICES ASSUME IInv, WaitIdleReturns PROVE IInv'
  OBVIOUS
<1> DEFINE done == AfterWait(call.value)
<1>1. call.value \in Int /\ call.value <= gpuRetired
  BY DEF IInv, TypeOK, WaitIdleReturns
<1>2. done \in Nat /\ done <= gpuRetired /\ Agrees(ResetValues(done), ResetBuffers(done))
  BY <1>1, WaitAgrees
<1>3. call.op = "wait_idle" /\ call' = [op |-> "none", value |-> 0]
  BY DEF WaitIdleReturns, Returned, Idle
<1>4. /\ ObservedBehindGpu' /\ TimelineDifferenceBounded' /\ Agrees(retire_value, buffer)'
      /\ TypeOK'
  BY <1>2, <1>3, ObserveStep DEF Operations, WaitIdleReturns
<1>5. CallInv'
  BY <1>3 DEF WaitIdleReturns, IInv, CallInv, poolVars, Contexts
<1>6. QED
  BY <1>4, <1>5 DEF IInv

(***************************************************************************)
(* ~Device leaves nothing behind.                                          *)
(***************************************************************************)
LEMMA DestroyDeviceStep == IInv /\ DestroyDevice => IInv'
<1> SUFFICES ASSUME IInv, DestroyDevice PROVE IInv'
  OBVIOUS
<1>1. Contexts' = {} /\ AllContexts' = AllContexts
  BY DEF DestroyDevice, Contexts, AllContexts
<1>2. TypeOK'
  <2>1. batch' \subseteq Contexts'
    BY DEF DestroyDevice, IInv, CallInv
  <2>2. QED
    BY <1>1, <2>1, ConstantsAssumption DEF Operations, DestroyDevice, Blocked, IInv, TypeOK, BufferStates
<1>3. ObservedBehindGpu' /\ TimelineDifferenceBounded'
  BY ConstantsAssumption DEF DestroyDevice, ObservedBehindGpu, TimelineDifferenceBounded
<1>4. Agrees(retire_value, buffer)'
  BY <1>1 DEF DestroyDevice, Agrees, InFlight, BufferStates
<1>5. CallInv'
  <2>1. call' = [op |-> "destroyed", value |-> 0] /\ batch' = {}
    BY DEF DestroyDevice, Blocked, IInv, CallInv
  <2>2. QED
    BY <2>1 DEF CallInv
<1>6. QED
  BY <1>2, <1>3, <1>4, <1>5 DEF IInv
(***************************************************************************)
(* Entering a wait, and the GPU's own steps, change only what they name.   *)
(***************************************************************************)
LEMMA BlockStep ==
  ASSUME IInv, NEW op \in {"wait_timeline", "wait_idle", "destroy"}, NEW value \in Nat,
         op # "wait_timeline" => value = command_retirement_value,
         call.op = "none", Blocked(op, value),
         UNCHANGED <<poolVars, retire_value, active_command_buffers, command_retirement_value,
                     completed_command_retirement, batch, buffer, lastUse, gpuVars>>
  PROVE  IInv'
<1>1. /\ UNCHANGED <<next_command_context, next, previous, command_context_count,
                     command_submit_capacity, retire_value, active_command_buffers,
                     command_retirement_value, completed_command_retirement,
                     batch, buffer, lastUse, gpuWork, gpuRetired>>
      /\ call' = [op |-> op, value |-> value]
      /\ Contexts' = Contexts /\ AllContexts' = AllContexts
  BY DEF Blocked, poolVars, gpuVars, Contexts, AllContexts
<1>2. TypeOK'
  BY <1>1 DEF Operations, IInv, TypeOK
<1>3. ObservedBehindGpu' /\ TimelineDifferenceBounded'
  BY <1>1 DEF IInv, ObservedBehindGpu, TimelineDifferenceBounded
<1>4. Agrees(retire_value, buffer)'
  BY <1>1 DEF IInv, Agrees, InFlight
<1>5. CallInv'
  <2>1. next_command_context \in Contexts /\ batch = {}
    BY DEF IInv, CallInv
  <2>2. QED
    BY <1>1, <2>1 DEF CallInv
<1>6. QED
  BY <1>2, <1>3, <1>4, <1>5 DEF IInv

LEMMA GpuStep == IInv /\ (GpuCompletesWork \/ GpuSignalsRetirement) => IInv'
<1> SUFFICES ASSUME IInv, GpuCompletesWork \/ GpuSignalsRetirement PROVE IInv'
  OBVIOUS
<1>1. /\ UNCHANGED <<next_command_context, next, previous, command_context_count,
                     command_submit_capacity, retire_value, active_command_buffers,
                     command_retirement_value, completed_command_retirement,
                     call, batch, buffer, lastUse>>
      /\ Contexts' = Contexts /\ AllContexts' = AllContexts
  BY DEF GpuCompletesWork, GpuSignalsRetirement, poolVars, Contexts, AllContexts
<1>2. /\ gpuWork \in Nat /\ gpuRetired \in Nat
      /\ gpuWork' \in Nat /\ gpuRetired' \in Nat
      /\ gpuWork <= gpuWork' /\ gpuRetired <= gpuRetired'
      /\ gpuRetired' <= gpuWork' /\ gpuWork' <= command_retirement_value
  BY DEF GpuCompletesWork, GpuSignalsRetirement, IInv, TypeOK, ObservedBehindGpu
<1>3. TypeOK'
  BY <1>1, <1>2 DEF IInv, TypeOK
<1>4. ObservedBehindGpu' /\ TimelineDifferenceBounded'
  <2>1. /\ completed_command_retirement \in Nat /\ command_retirement_value \in Nat
        /\ completed_command_retirement <= gpuRetired
        /\ command_retirement_value - gpuRetired <= MaxDifference
        /\ MaxDifference \in Nat
    BY ConstantsAssumption DEF IInv, TypeOK, ObservedBehindGpu, TimelineDifferenceBounded
  <2>2. /\ completed_command_retirement' = completed_command_retirement
        /\ command_retirement_value' = command_retirement_value
    BY <1>1
  <2>3. ObservedBehindGpu'
    BY <1>2, <2>1, <2>2 DEF ObservedBehindGpu
  <2>4. TimelineDifferenceBounded'
    <3>1. \A crv, old, new, max \in Nat : old <= new /\ crv - old <= max => crv - new <= max
      OBVIOUS
    <3>2. gpuRetired \in Nat /\ gpuRetired' \in Nat /\ gpuRetired <= gpuRetired'
      BY <1>2
    <3>3. command_retirement_value - gpuRetired' <= MaxDifference
      BY <2>1, <3>1, <3>2
    <3>4. QED
      BY <2>2, <3>3 DEF TimelineDifferenceBounded
  <2>5. QED
    BY <2>3, <2>4
<1>5. Agrees(retire_value, buffer)'
  <2>1. \A c \in AllContexts : buffer[c] = "submitted" /\ buffer[c] # "submitted" => ~InFlight(c)'
    OBVIOUS
  <2>2. QED
    BY <1>1, <2>1 DEF IInv, Agrees
<1>6. CallInv'
  BY <1>1 DEF IInv, CallInv
<1>7. QED
  BY <1>3, <1>4, <1>5, <1>6 DEF IInv

(***************************************************************************)
(* Every step of the specification preserves the invariant.                *)
(***************************************************************************)
LEMMA NextPreserves == IInv /\ [Next]_vars => IInv'
<1> SUFFICES ASSUME IInv, [Next]_vars PROVE IInv'
  OBVIOUS
<1>1. CASE BeginReusing
  BY <1>1, BeginReusingStep
<1>2. CASE BeginGrowing
  BY <1>2, BeginGrowingStep
<1>3. CASE EndBatch
  BY <1>3, EndBatchStep
<1>4. CASE RetirementAvailable
  BY <1>4, RetirementAvailableStep
<1>5. CASE Throttle \/ ThrottleReturns
  BY <1>5, ThrottleStep, ThrottleReturnsStep
<1>6. CASE QueueBatch
  BY <1>6, QueueBatchStep
<1>7. CASE \E value \in 1..command_retirement_value : WaitTimeline(value)
  <2>1. PICK value \in 1..command_retirement_value : WaitTimeline(value)
    BY <1>7
  <2>2. value \in Nat
    BY DEF IInv, TypeOK
  <2>3. QED
    BY <2>1, <2>2, BlockStep DEF WaitTimeline
<1>8. CASE WaitTimelineReturns
  BY <1>8, WaitTimelineReturnsStep
<1>9. CASE Drain("wait_idle") \/ Drain("destroy")
  <2>1. command_retirement_value \in Nat
    BY DEF IInv, TypeOK
  <2>2. QED
    BY <1>9, <2>1, BlockStep DEF Drain
<1>10. CASE WaitIdleReturns
  BY <1>10, WaitIdleReturnsStep
<1>11. CASE DestroyDevice
  BY <1>11, DestroyDeviceStep
<1>12. CASE GpuCompletesWork \/ GpuSignalsRetirement
  BY <1>12, GpuStep
<1>13. CASE UNCHANGED vars
  BY <1>13 DEF vars, poolVars, gpuVars, IInv, TypeOK, ObservedBehindGpu,
               TimelineDifferenceBounded, Agrees, CallInv, InFlight, Contexts, AllContexts
<1>14. QED
  BY <1>1, <1>2, <1>3, <1>4, <1>5, <1>6, <1>7, <1>8, <1>9, <1>10, <1>11, <1>12, <1>13
     DEF Next

-----------------------------------------------------------------------------
(* Theorems. *)

(***************************************************************************)
(* The invariant holds in every reachable state.                           *)
(***************************************************************************)
THEOREM Invariance == Spec => []IInv
<1>1. Init => IInv
  BY InitEstablishes
<1>2. IInv /\ [Next]_vars => IInv'
  BY NextPreserves
<1>3. QED
  BY <1>1, <1>2, PTL DEF Spec

(***************************************************************************)
(* Every variable of Device and of the GPU keeps its type: the list's      *)
(* links never leave the pool.                                             *)
(***************************************************************************)
THEOREM TypeCorrect == Spec => []TypeOK
<1>1. IInv => TypeOK
  BY DEF IInv
<1>2. QED
  BY <1>1, Invariance, PTL

(***************************************************************************)
(* The assertions of poll_command_retirement hold: what the host observed  *)
(* of the retirement semaphore never passes what the GPU signalled.        *)
(***************************************************************************)
THEOREM ObservationSafe == Spec => []ObservedBehindGpu
<1>1. IInv => ObservedBehindGpu
  BY DEF IInv
<1>2. QED
  BY <1>1, Invariance, PTL

(***************************************************************************)
(* next_command_retirement keeps the pending signals of the retirement     *)
(* semaphore within the device's limit.                                    *)
(***************************************************************************)
THEOREM TimelineDifferenceSafe == Spec => []TimelineDifferenceBounded
<1>1. IInv => TimelineDifferenceBounded
  BY DEF IInv
<1>2. QED
  BY <1>1, Invariance, PTL

(***************************************************************************)
(* The step form of PoolTouchedOnlyAfterExecution and                      *)
(* SubmitsOnlyExecutable.                                                  *)
(***************************************************************************)
LEMMA StepIsSafe ==
  ASSUME IInv, [Next]_vars
  PROVE  \A c \in AllContexts :
           /\ buffer[c] = "submitted" /\ buffer'[c] # "submitted" => ~InFlight(c)
           /\ buffer'[c] = "submitted" /\ buffer[c] # "submitted" => buffer[c] = "executable"
<1> DEFINE Safe == \A c \in AllContexts :
             /\ buffer[c] = "submitted" /\ buffer'[c] # "submitted" => ~InFlight(c)
             /\ buffer'[c] = "submitted" /\ buffer[c] # "submitted" => buffer[c] = "executable"
<1>1. buffer \in [AllContexts -> BufferStates]
  BY DEF IInv, TypeOK
<1>2. CASE BeginReusing
  <2>1. /\ buffer' = [ObservedBuffers EXCEPT ![next_command_context] = "recording"]
        /\ ObservedValues[next_command_context] <= Observed
        /\ ~Recording(next_command_context)
        /\ next_command_context \in Contexts
        /\ Contexts \subseteq AllContexts
    <3>1. /\ next_command_context \in Contexts
          /\ Contexts \subseteq AllContexts
      BY <1>2, ConstantsAssumption DEF IInv, TypeOK, CallInv, BeginReusing, Contexts, AllContexts
    <3>2. ObservedValues[next_command_context] \in Nat /\ Observed \in Nat
      BY <3>1, ObservationAgrees DEF Agrees
    <3>3. QED
      BY <1>2, <3>1, <3>2 DEF BeginReusing, HeadIsBusy
  <2>2. /\ Observed \in Nat /\ Observed <= gpuRetired
        /\ Agrees(ObservedValues, ObservedBuffers)
        /\ gpuRetired \in Nat /\ gpuWork \in Nat /\ gpuRetired <= gpuWork
    BY ObservationAgrees DEF IInv, TypeOK, ObservedBehindGpu
  <2>3. SUFFICES ASSUME NEW c \in AllContexts
                 PROVE  /\ buffer[c] = "submitted" /\ buffer'[c] # "submitted" => ~InFlight(c)
                        /\ buffer'[c] = "submitted" => buffer[c] = "submitted"
    OBVIOUS
  <2>4. CASE c # next_command_context
    BY <2>1, <2>2, <2>4 DEF Agrees
  <2>5. CASE c = next_command_context /\ ObservedBuffers[c] = "submitted"
    <3>1. ObservedValues[c] = lastUse[c] /\ ObservedValues[c] \in Nat
      BY <2>1, <2>2, <2>5 DEF Agrees
    <3>2. ~InFlight(c)
      BY <2>1, <2>2, <2>5, <3>1 DEF InFlight
    <3>3. QED
      BY <2>1, <2>2, <2>5, <3>2 DEF Agrees
  <2>6. CASE c = next_command_context /\ ObservedBuffers[c] # "submitted"
    BY <2>1, <2>2, <2>6 DEF Agrees
  <2>7. QED
    BY <2>4, <2>5, <2>6
<1>3. CASE BeginGrowing
  <2>1. /\ buffer' = [ObservedBuffers EXCEPT ![NewContext] = "recording"]
        /\ NewContext \in AllContexts \ Contexts
    BY <1>3, ConstantsAssumption DEF IInv, TypeOK, BeginGrowing, NewContext, Contexts, AllContexts
  <2>2. /\ Agrees(ObservedValues, ObservedBuffers)
        /\ buffer[NewContext] = "none"
    BY <2>1, ObservationAgrees DEF IInv, Agrees
  <2>3. QED
    BY <2>1, <2>2 DEF Agrees
<1>4. CASE EndBatch
  BY <1>4 DEF EndBatch, Recording
<1>5. CASE RetirementAvailable
  BY <1>5, PollAgrees DEF RetirementAvailable, Agrees
<1>6. CASE QueueBatch
  <2>1. \A c \in batch : buffer[c] = "executable"
    BY <1>6 DEF QueueBatch, IInv, CallInv
  <2>2. QED
    BY <1>6, <2>1 DEF QueueBatch
<1>7. CASE ThrottleReturns
  <2>1. ThrottleValue \in Int /\ ThrottleValue <= gpuRetired
    BY <1>7, ConstantsAssumption DEF ThrottleReturns, ThrottleValue, IInv, TypeOK
  <2>2. QED
    BY <1>7, <2>1, WaitAgrees DEF ThrottleReturns, Agrees
<1>8. CASE Throttle \/ WaitTimelineReturns
  <2>1. buffer' = PolledBuffers
    BY <1>8 DEF Throttle, WaitTimelineReturns
  <2>2. QED
    BY <2>1, PollAgrees DEF Agrees
<1>9. CASE WaitIdleReturns
  <2>1. call.value \in Int /\ call.value <= gpuRetired
    BY <1>9 DEF WaitIdleReturns, IInv, TypeOK
  <2>2. QED
    BY <1>9, <2>1, WaitAgrees DEF WaitIdleReturns, Agrees
<1>10. CASE DestroyDevice
  <2>1. /\ buffer' = [c \in AllContexts |-> "none"]
        /\ command_retirement_value <= gpuRetired
    BY <1>10 DEF DestroyDevice, IInv, CallInv
  <2>2. \A c \in AllContexts : buffer[c] = "submitted" =>
          /\ lastUse[c] <= command_retirement_value
          /\ lastUse[c] \in Nat
    BY DEF IInv, Agrees, TypeOK
  <2>3. \A c \in AllContexts : buffer[c] = "submitted" => ~InFlight(c)
    BY <2>1, <2>2 DEF IInv, TypeOK, ObservedBehindGpu, InFlight
  <2>4. QED
    BY <2>1, <2>3
<1>11. CASE UNCHANGED buffer
  BY <1>11
<1>12. QED
  BY <1>2, <1>3, <1>4, <1>5, <1>6, <1>7, <1>8, <1>9, <1>10, <1>11
     DEF Next, vars, WaitTimeline, Drain, GpuCompletesWork, GpuSignalsRetirement

(***************************************************************************)
(* No command pool is reset, reused or destroyed while the GPU executes    *)
(* its buffer.                                                             *)
(***************************************************************************)
THEOREM PoolReuseSafe == Spec => PoolTouchedOnlyAfterExecution
<1>1. IInv /\ [Next]_vars =>
        [\A c \in AllContexts :
           buffer[c] = "submitted" /\ buffer'[c] # "submitted" => ~InFlight(c)]_vars
  BY StepIsSafe
<1>2. QED
  BY <1>1, Invariance, PTL DEF Spec, PoolTouchedOnlyAfterExecution

(***************************************************************************)
(* Every buffer the queue receives was recorded and ended, and not reset   *)
(* since.                                                                  *)
(***************************************************************************)
THEOREM SubmissionSafe == Spec => SubmitsOnlyExecutable
<1>1. IInv /\ [Next]_vars =>
        [\A c \in AllContexts :
           buffer'[c] = "submitted" /\ buffer[c] # "submitted" => buffer[c] = "executable"]_vars
  BY StepIsSafe
<1>2. QED
  BY <1>1, Invariance, PTL DEF Spec, SubmitsOnlyExecutable

-----------------------------------------------------------------------------
(* The circular list of contexts, and what the bookkeeping adds to IInv.   *)

(***************************************************************************)
(* w is a walk over the links nx from `head' that meets each of n contexts *)
(* once and returns; the links pv lead back.                               *)
(***************************************************************************)
Circle(w, head, nx, pv, n) ==
  /\ w \in [0..n -> 1..n]
  /\ w[0] = head /\ w[n] = head
  /\ \A k \in 0..(n - 1) : nx[w[k]] = w[k + 1] /\ pv[w[k + 1]] = w[k]
  /\ \A j, k \in 0..(n - 1) : w[j] = w[k] => j = k
  /\ \A c \in 1..n : \E k \in 0..(n - 1) : w[k] = c

(***************************************************************************)
(* Sorted, of a walk w, retirement values rv and buffers bs.               *)
(***************************************************************************)
RankOf(b) == CASE b = "initial" -> 0 [] b = "submitted" -> 1 [] OTHER -> 2
InOrder(w, rv, bs, n) ==
  \A j, k \in 0..(n - 1) :
    j < k => \/ RankOf(bs[w[j]]) < RankOf(bs[w[k]])
             \/ RankOf(bs[w[j]]) = RankOf(bs[w[k]]) /\ rv[w[j]] <= rv[w[k]]

Submitting == call.op \in {"submit", "throttled", "queue"}
Recordings == {c \in Contexts : Recording(c)}

Listed ==
  call.op # "destroyed" =>
    \E w : /\ Circle(w, next_command_context, next, previous, command_context_count)
           /\ InOrder(w, retire_value, buffer, command_context_count)

(***************************************************************************)
(* While a batch is being submitted it is what is executable, and nothing  *)
(* is recording; otherwise nothing is executable.                          *)
(***************************************************************************)
BatchInv ==
  /\ \A c \in Contexts : buffer[c] # "none"
  /\ \A c \in Contexts : buffer[c] = "executable" <=> Submitting /\ c \in batch
  /\ Submitting => Recordings = {}
  /\ call.op \in {"wait_idle", "destroy", "destroyed"} => Recordings = {}
  /\ active_command_buffers = Cardinality(Recordings)

Booked ==
  /\ Listed /\ BatchInv
  /\ \A c \in Contexts : buffer[c] = "submitted" => retire_value[c] > completed_command_retirement
  /\ command_context_count <= command_submit_capacity
  /\ call.op = "destroyed" => next_command_context = 0 /\ command_context_count = 0

(***************************************************************************)
(* Retirement values rv and buffers bs, once `done' was observed, differ   *)
(* from the current ones by resets alone, which leave the list in order.   *)
(***************************************************************************)
Kept(rv, bs, done) ==
  /\ \A w \in [0..command_context_count -> Contexts] :
       InOrder(w, retire_value, buffer, command_context_count) => InOrder(w, rv, bs, command_context_count)
  /\ \A c \in Contexts : bs[c] = "submitted" => rv[c] > done
  /\ \A c \in Contexts : bs[c] = "recording" <=> buffer[c] = "recording"
  /\ \A c \in Contexts : bs[c] # "none"

(***************************************************************************)
(* A set of natural numbers has a least one.                               *)
(***************************************************************************)
LEMMA LeastElement ==
  ASSUME NEW S \in SUBSET Nat, S # {}
  PROVE  \E x \in S : \A y \in S : x <= y
<1>1. PICK x \in S : \A y \in S : ~(<<y, x>> \in OpToRel(<, Nat))
  <2> DEFINE R == OpToRel(<, Nat)
  <2>1. IsWellFoundedOn(R, Nat)
    BY NatLessThanWellFounded
  <2> HIDE DEF R
  <2>2. \E x \in S : \A y \in S : ~(<<y, x>> \in R)
    BY <2>1, WFMin
  <2>3. QED
    BY <2>2 DEF R
<1>2. \A y \in S : ~(<<y, x>> \in {ss \in Nat \X Nat : ss[1] < ss[2]})
  BY <1>1 DEF OpToRel
<1>3. ASSUME NEW y \in S
      PROVE  x <= y
  <2>1. x \in Nat /\ y \in Nat
    OBVIOUS
  <2>2. SUFFICES ASSUME y < x PROVE FALSE
    BY <2>1
  <2> DEFINE p == <<y, x>>
  <2>3. p \in Nat \X Nat /\ p[1] = y /\ p[2] = x
    BY <2>1
  <2>4. p \in {ss \in Nat \X Nat : ss[1] < ss[2]}
    BY <2>2, <2>3
  <2>5. QED
    BY <1>2, <2>4
<1>4. QED
  BY <1>3

-----------------------------------------------------------------------------
(* Observing retirement keeps the bookkeeping. *)

(***************************************************************************)
(* The buffers of contexts, as the invariant has them.                     *)
(***************************************************************************)
LEMMA ContextTypes ==
  ASSUME IInv, Booked
  PROVE  /\ Contexts \subseteq AllContexts
         /\ command_context_count \in Nat
         /\ \A c \in Contexts :
              /\ buffer[c] \in {"initial", "recording", "executable", "submitted"}
              /\ retire_value[c] \in Nat
              /\ buffer[c] = "submitted" <=> retire_value[c] # 0
              /\ retire_value[c] <= command_retirement_value
         /\ completed_command_retirement \in Nat /\ command_retirement_value \in Nat
         /\ gpuRetired \in Nat /\ gpuRetired <= command_retirement_value
<1>1. Contexts \subseteq AllContexts /\ command_context_count \in Nat
  BY ConstantsAssumption DEF IInv, TypeOK, Contexts, AllContexts
<1>2. ASSUME NEW c \in Contexts
      PROVE  buffer[c] \in {"initial", "recording", "executable", "submitted"}
  <2>1. buffer[c] \in BufferStates /\ buffer[c] # "none"
    BY <1>1 DEF IInv, TypeOK, Booked, BatchInv
  <2>2. QED
    BY <2>1 DEF BufferStates
<1>3. ASSUME NEW c \in Contexts
      PROVE  /\ retire_value[c] \in Nat
             /\ buffer[c] = "submitted" <=> retire_value[c] # 0
             /\ retire_value[c] <= command_retirement_value
  BY DEF IInv, Agrees
<1>4. /\ completed_command_retirement \in Nat /\ command_retirement_value \in Nat
      /\ gpuRetired \in Nat /\ gpuRetired <= command_retirement_value
  BY DEF IInv, TypeOK, ObservedBehindGpu
<1>5. QED
  BY <1>1, <1>2, <1>3, <1>4

(***************************************************************************)
(* What `done' covers is a prefix of what was submitted, so resetting it   *)
(* leaves the list in order.                                               *)
(***************************************************************************)
LEMMA ResetKeeps ==
  ASSUME IInv, Booked, NEW done \in Nat
  PROVE  Kept(ResetValues(done), ResetBuffers(done), done)
<1> DEFINE rv == ResetValues(done)
           bs == ResetBuffers(done)
<1>1. \A c \in Contexts :
        /\ c \in AllContexts
        /\ buffer[c] \in {"initial", "recording", "executable", "submitted"}
        /\ retire_value[c] \in Nat
        /\ buffer[c] = "submitted" <=> retire_value[c] # 0
  BY ContextTypes
<1>2. ASSUME NEW c \in Contexts
      PROVE  \/ /\ buffer[c] = "submitted" /\ retire_value[c] <= done
                /\ bs[c] = "initial" /\ rv[c] = 0
             \/ /\ buffer[c] # "submitted" \/ ~(retire_value[c] <= done)
                /\ bs[c] = buffer[c] /\ rv[c] = retire_value[c]
  BY <1>1 DEF ResetValues, ResetBuffers, Retired
<1> HIDE DEF rv, bs
<1>3. ASSUME NEW w \in [0..command_context_count -> Contexts],
             InOrder(w, retire_value, buffer, command_context_count)
      PROVE  InOrder(w, rv, bs, command_context_count)
  <2> SUFFICES ASSUME NEW j \in 0..(command_context_count - 1),
                      NEW k \in 0..(command_context_count - 1), j < k
               PROVE  \/ RankOf(bs[w[j]]) < RankOf(bs[w[k]])
                      \/ RankOf(bs[w[j]]) = RankOf(bs[w[k]]) /\ rv[w[j]] <= rv[w[k]]
    BY DEF InOrder
  <2>1. w[j] \in Contexts /\ w[k] \in Contexts
    BY ContextTypes
  <2>2. PICK a \in Contexts, b \in Contexts : a = w[j] /\ b = w[k]
    BY <2>1
  <2>3. \/ RankOf(buffer[a]) < RankOf(buffer[b])
        \/ RankOf(buffer[a]) = RankOf(buffer[b]) /\ retire_value[a] <= retire_value[b]
    BY <1>3, <2>2 DEF InOrder
  <2>4. \/ RankOf(bs[a]) < RankOf(bs[b])
        \/ RankOf(bs[a]) = RankOf(bs[b]) /\ rv[a] <= rv[b]
    <3>1. CASE bs[b] = buffer[b] /\ rv[b] = retire_value[b]
      <4>1. CASE bs[a] = buffer[a] /\ rv[a] = retire_value[a]
        BY <2>3, <3>1, <4>1
      <4>2. CASE buffer[a] = "submitted" /\ bs[a] = "initial" /\ rv[a] = 0
        BY <1>1, <2>3, <3>1, <4>2 DEF RankOf
      <4>3. QED
        BY <1>2, <4>1, <4>2
    <3>2. CASE buffer[b] = "submitted" /\ retire_value[b] <= done /\ bs[b] = "initial" /\ rv[b] = 0
      <4>1. buffer[a] = "initial" \/ (buffer[a] = "submitted" /\ retire_value[a] <= retire_value[b])
        BY <1>1, <2>3, <3>2 DEF RankOf
      <4>2. retire_value[a] \in Nat /\ retire_value[b] \in Nat
        BY <1>1
      <4>3. CASE buffer[a] = "initial"
        <5>1. retire_value[a] = 0
          BY <1>1, <4>3
        <5>2. bs[a] = "initial" /\ rv[a] = 0
          BY <1>2, <4>3, <5>1
        <5>3. QED
          BY <5>2, <3>2
      <4>4. CASE buffer[a] = "submitted" /\ retire_value[a] <= retire_value[b]
        <5>1. retire_value[a] <= done
          BY <4>2, <4>4, <3>2
        <5>2. bs[a] = "initial" /\ rv[a] = 0
          BY <1>2, <4>4, <5>1
        <5>3. QED
          BY <5>2, <3>2
      <4>5. QED
        BY <4>1, <4>3, <4>4
    <3>3. QED
      BY <1>2, <3>1, <3>2
  <2>5. QED
    BY <2>2, <2>4
<1>4. ASSUME NEW c \in Contexts
      PROVE  /\ bs[c] = "submitted" => rv[c] > done
             /\ bs[c] = "recording" <=> buffer[c] = "recording"
             /\ bs[c] # "none"
  BY <1>1, <1>2
<1>5. QED
  BY <1>3, <1>4 DEF Kept, rv, bs

LEMMA NothingResetKeeps ==
  ASSUME IInv, Booked
  PROVE  Kept(retire_value, buffer, completed_command_retirement)
  BY DEF Kept, Booked, BatchInv

LEMMA PollKeeps ==
  ASSUME IInv, Booked
  PROVE  Kept(PolledValues, PolledBuffers, Polled)
<1>1. CASE Polled = completed_command_retirement
  BY <1>1, NothingResetKeeps DEF PolledValues, PolledBuffers
<1>2. CASE Polled # completed_command_retirement
  BY <1>2, PollAgrees, ResetKeeps DEF PolledValues, PolledBuffers
<1>3. QED
  BY <1>1, <1>2

LEMMA ObservationKeeps ==
  ASSUME IInv, Booked
  PROVE  Kept(ObservedValues, ObservedBuffers, Observed)
<1>1. CASE PollsFirst
  BY <1>1, PollKeeps DEF Observed, ObservedValues, ObservedBuffers
<1>2. CASE ~PollsFirst
  BY <1>2, NothingResetKeeps DEF Observed, ObservedValues, ObservedBuffers
<1>3. QED
  BY <1>1, <1>2

-----------------------------------------------------------------------------
(* The bookkeeping is inductive. *)

LEMMA InitBooks == Init => Booked
<1> SUFFICES ASSUME Init PROVE Booked
  OBVIOUS
<1> DEFINE n == InitialContexts
           w == [k \in 0..n |-> IF k = n THEN 1 ELSE k + 1]
<1>1. /\ n \in Nat \ {0} /\ MaxContexts \in Nat /\ n <= MaxContexts /\ Contexts = 1..n
      /\ \A c \in 1..n : buffer[c] = "initial" /\ retire_value[c] = 0
  BY ConstantsAssumption DEF Init, Contexts, AllContexts
<1>2. Circle(w, next_command_context, next, previous, command_context_count)
  <2>1. w \in [0..n -> 1..n] /\ w[0] = 1 /\ w[n] = 1
    BY <1>1
  <2>2. ASSUME NEW k \in 0..(n - 1)
        PROVE  next[w[k]] = w[k + 1] /\ previous[w[k + 1]] = w[k]
    <3>1. w[k] = k + 1 /\ k + 1 \in 1..n /\ k + 1 \in 0..n
      BY <1>1
    <3>2. CASE k = n - 1
      BY <1>1, <3>1, <3>2 DEF Init
    <3>3. CASE k # n - 1
      BY <1>1, <3>1, <3>3 DEF Init
    <3>4. QED
      BY <3>2, <3>3
  <2>3. \A j, k \in 0..(n - 1) : w[j] = w[k] => j = k
    BY <1>1
  <2>4. ASSUME NEW c \in 1..n
        PROVE  \E k \in 0..(n - 1) : w[k] = c
    <3>1. c - 1 \in 0..(n - 1) /\ w[c - 1] = c
      BY <1>1
    <3>2. QED
      BY <3>1
  <2> HIDE DEF w
  <2>5. QED
    BY <2>1, <2>2, <2>3, <2>4 DEF Circle, Init
<1>3. InOrder(w, retire_value, buffer, command_context_count)
  <2>1. w \in [0..n -> 1..n]
    BY <1>1
  <2> HIDE DEF w
  <2>2. ASSUME NEW j \in 0..(n - 1)
        PROVE  buffer[w[j]] = "initial" /\ retire_value[w[j]] = 0
    <3>1. j \in 0..n
      BY <1>1
    <3>2. w[j] \in 1..n
      BY <2>1, <3>1
    <3>3. QED
      BY <1>1, <3>2
  <2>3. command_context_count = n
    BY DEF Init
  <2>4. QED
    BY <2>2, <2>3 DEF InOrder
<1>4. Listed
  BY <1>2, <1>3 DEF Listed
<1>5. BatchInv
  <2>1. Recordings = {}
    BY <1>1 DEF Recordings, Recording
  <2>2. active_command_buffers = Cardinality(Recordings)
    BY <2>1, FS_EmptySet DEF Init
  <2>3. ~Submitting /\ call.op = "none"
    BY DEF Init, Idle, Submitting
  <2>4. QED
    BY <1>1, <2>1, <2>2, <2>3 DEF BatchInv
<1>6. QED
  BY <1>1, <1>4, <1>5 DEF Booked, Init, Idle

(***************************************************************************)
(* The recordings of a finite pool are finite.                             *)
(***************************************************************************)
LEMMA FiniteRecordings == ASSUME IInv PROVE IsFiniteSet(Recordings)
<1>1. IsFiniteSet(Contexts)
  BY FS_Interval DEF IInv, TypeOK, Contexts
<1>2. QED
  BY <1>1, FS_Subset DEF Recordings

(***************************************************************************)
(* begin_commands, reusing the head: the walk starts one further, and the  *)
(* recording context is its last.                                          *)
(***************************************************************************)
LEMMA BeginReusingBooks == IInv /\ Booked /\ BeginReusing => Booked'
<1> SUFFICES ASSUME IInv, Booked, BeginReusing PROVE Booked'
  OBVIOUS
<1> DEFINE n == command_context_count
           h == next_command_context
<1>1. /\ UNCHANGED <<next, previous, command_context_count, command_submit_capacity, call, batch>>
      /\ call.op = "none" /\ completed_command_retirement' = Observed
      /\ retire_value' = [ObservedValues EXCEPT ![h] = 0]
      /\ buffer' = [ObservedBuffers EXCEPT ![h] = "recording"]
      /\ next_command_context' = next[h]
      /\ active_command_buffers' = active_command_buffers + 1
      /\ ~HeadIsBusy
      /\ Contexts' = Contexts
  BY DEF BeginReusing, Contexts
<1>2. /\ ObservedValues \in [Contexts -> Nat] /\ ObservedBuffers \in [AllContexts -> BufferStates]
      /\ Kept(ObservedValues, ObservedBuffers, Observed)
      /\ \A c \in Contexts :
           /\ ObservedBuffers[c] = "submitted" <=> ObservedValues[c] # 0
           /\ ObservedBuffers[c] = "executable" <=> buffer[c] = "executable"
  <2>1. Contexts \subseteq AllContexts
    BY ContextTypes
  <2>2. QED
    BY <2>1, ObservationAgrees, ObservationKeeps DEF Agrees
<1>3. h \in Contexts /\ n \in Nat \ {0} /\ Contexts = 1..n /\ Contexts \subseteq AllContexts
  <2>1. h \in Contexts
    BY <1>1 DEF IInv, CallInv
  <2>2. n \in Nat
    BY ContextTypes
  <2>3. QED
    BY <2>1, <2>2, ContextTypes DEF Contexts
<1>4. \A c \in Contexts :
        /\ c # h => buffer'[c] = ObservedBuffers[c] /\ retire_value'[c] = ObservedValues[c]
        /\ c = h => buffer'[c] = "recording" /\ retire_value'[c] = 0
  BY <1>1, <1>2, <1>3
<1>5. Listed'
  <2>1. PICK w : Circle(w, h, next, previous, n) /\ InOrder(w, retire_value, buffer, n)
    BY <1>1 DEF Booked, Listed
  <2>2. /\ w \in [0..n -> 1..n] /\ w[0] = h /\ w[n] = h
        /\ \A k \in 0..(n - 1) : next[w[k]] = w[k + 1] /\ previous[w[k + 1]] = w[k]
        /\ \A j, k \in 0..(n - 1) : w[j] = w[k] => j = k
        /\ \A c \in 1..n : \E k \in 0..(n - 1) : w[k] = c
    BY <2>1 DEF Circle
  <2>3. InOrder(w, ObservedValues, ObservedBuffers, n)
    BY <1>2, <1>3, <2>1, <2>2 DEF Kept
  <2> DEFINE v == [k \in 0..n |-> IF k = n THEN w[1] ELSE w[k + 1]]
  <2>a. /\ 0 \in 0..(n - 1) /\ n - 1 \in 0..(n - 1) /\ n \in 0..n /\ 1 \in 0..n
        /\ \A k \in 0..(n - 1) : k \in 0..n /\ k # n /\ k + 1 \in 0..n
        /\ \A k \in 0..n : k # n => k + 1 \in 0..n
        /\ 0 + 1 = 1 /\ n - 1 + 1 = n
    BY <1>3
  <2>4. /\ v \in [0..n -> 1..n]
        /\ v[n] = w[1]
        /\ \A k \in 0..(n - 1) : v[k] = w[k + 1]
    BY <2>2, <2>a
  <2> HIDE DEF v
  <2>5. next[h] = w[1]
    <3>1. next[w[0]] = w[0 + 1]
      BY <2>2, <2>a
    <3>2. QED
      BY <2>2, <2>a, <3>1
  <2>6. Circle(v, next[h], next, previous, n)
    <3>1. v[0] = next[h] /\ v[n] = next[h]
      BY <1>3, <2>4, <2>5, SMTT(30)
    <3>2. ASSUME NEW k \in 0..(n - 1)
          PROVE  next[v[k]] = v[k + 1] /\ previous[v[k + 1]] = v[k]
      <4>1. CASE k = n - 1
        <5>1. k + 1 = n /\ v[k] = w[k + 1]
          BY <1>3, <2>4, <4>1
        <5>2. v[k] = w[0] /\ v[k + 1] = w[1]
          BY <2>2, <2>4, <5>1
        <5>3. next[w[0]] = w[0 + 1] /\ previous[w[0 + 1]] = w[0]
          BY <2>2, <2>a
        <5>4. QED
          BY <2>a, <5>2, <5>3
      <4>2. CASE k # n - 1
        <5>1. k + 1 \in 0..(n - 1)
          BY <1>3, <4>2
        <5>a. v[k] = w[k + 1] /\ v[k + 1] = w[k + 1 + 1]
          BY <2>4, <5>1
        <5>2. QED
          BY <2>2, <5>1, <5>a
      <4>3. QED
        BY <4>1, <4>2
    <3>3. ASSUME NEW j \in 0..(n - 1), NEW k \in 0..(n - 1), v[j] = v[k]
          PROVE  j = k
      <4>1. w[j + 1] = w[k + 1] /\ j + 1 \in 1..n /\ k + 1 \in 1..n
        BY <1>3, <2>4, <3>3
      <4>2. CASE j # n - 1 /\ k # n - 1
        <5>1. j + 1 \in 0..(n - 1) /\ k + 1 \in 0..(n - 1)
          BY <1>3, <4>2
        <5>2. j + 1 = k + 1
          BY <2>2, <4>1, <5>1
        <5>3. QED
          BY <5>2
      <4>3. CASE j = n - 1 /\ k # n - 1
        <5>1. 0 \in 0..(n - 1) /\ k + 1 \in 0..(n - 1) /\ w[0] = w[k + 1]
          BY <1>3, <2>2, <4>1, <4>3
        <5>2. k + 1 = 0
          BY <2>2, <5>1
        <5>3. QED
          BY <5>2
      <4>4. CASE k = n - 1 /\ j # n - 1
        <5>1. 0 \in 0..(n - 1) /\ j + 1 \in 0..(n - 1) /\ w[0] = w[j + 1]
          BY <1>3, <2>2, <4>1, <4>4
        <5>2. j + 1 = 0
          BY <2>2, <5>1
        <5>3. QED
          BY <5>2
      <4>5. QED
        BY <4>2, <4>3, <4>4
    <3>4. ASSUME NEW c \in 1..n
          PROVE  \E k \in 0..(n - 1) : v[k] = c
      <4>1. PICK k \in 0..(n - 1) : w[k] = c
        BY <2>2
      <4>2. CASE k = 0
        <5>1. n - 1 \in 0..(n - 1) /\ v[n - 1] = w[n]
          BY <1>3, <2>4
        <5>2. QED
          BY <2>2, <4>1, <4>2, <5>1
      <4>3. CASE k # 0
        <5>1. k - 1 \in 0..(n - 1) /\ v[k - 1] = w[k]
          BY <1>3, <2>4, <4>3
        <5>2. QED
          BY <4>1, <5>1
      <4>4. QED
        BY <4>2, <4>3
    <3>5. QED
      BY <2>4, <3>1, <3>2, <3>3, <3>4 DEF Circle
  <2>7. InOrder(v, retire_value', buffer', n)
    <3> SUFFICES ASSUME NEW j \in 0..(n - 1), NEW k \in 0..(n - 1), j < k
                 PROVE  \/ RankOf(buffer'[v[j]]) < RankOf(buffer'[v[k]])
                        \/ RankOf(buffer'[v[j]]) = RankOf(buffer'[v[k]]) /\ retire_value'[v[j]] <= retire_value'[v[k]]
      BY DEF InOrder
    <3>1. j + 1 \in 0..(n - 1) /\ v[j] = w[j + 1] /\ v[k] = w[k + 1] /\ w[j + 1] \in Contexts
          /\ w[j + 1] # h
      <4>1. j + 1 \in 0..(n - 1) /\ 0 \in 0..(n - 1) /\ j + 1 # 0
        BY <1>3
      <4>2. w[j + 1] # w[0]
        BY <2>2, <4>1
      <4>3. w[j + 1] \in 1..n
        BY <2>2, <2>a
      <4>4. QED
        BY <1>3, <2>2, <2>4, <4>1, <4>2, <4>3
    <3>2. PICK a \in Contexts : a = v[j] /\ a = w[j + 1] /\ a # h
      BY <3>1
    <3>3. buffer'[a] = ObservedBuffers[a] /\ retire_value'[a] = ObservedValues[a]
      BY <1>4, <3>2
    <3>4. CASE k = n - 1
      <4>1. v[k] = h /\ buffer'[h] = "recording" /\ retire_value'[h] = 0
        BY <1>3, <1>4, <2>2, <3>1, <3>4
      <4>2. \/ RankOf(ObservedBuffers[a]) < 2
            \/ RankOf(ObservedBuffers[a]) = 2 /\ ObservedBuffers[a] # "submitted"
        BY DEF RankOf
      <4>3. ObservedBuffers[a] # "submitted" => ObservedValues[a] = 0
        BY <1>2
      <4>4. RankOf(buffer'[h]) = 2
        BY <4>1 DEF RankOf
      <4>5. QED
        BY <3>2, <3>3, <4>1, <4>2, <4>3, <4>4
    <3>5. CASE k # n - 1
      <4>1. k + 1 \in 0..(n - 1) /\ 0 \in 0..(n - 1) /\ k + 1 # 0 /\ j + 1 < k + 1
        BY <1>3, <3>5
      <4>a. w[k + 1] # w[0]
        BY <2>2, <4>1
      <4>b. w[k + 1] \in 1..n
        BY <2>2, <2>a
      <4>2. w[k + 1] # w[0] /\ w[k + 1] \in 1..n
        BY <4>a, <4>b
      <4>3. PICK b \in Contexts : b = v[k] /\ b = w[k + 1] /\ b # h
        BY <1>3, <2>2, <3>1, <4>2
      <4>4. buffer'[b] = ObservedBuffers[b] /\ retire_value'[b] = ObservedValues[b]
        BY <1>4, <4>3
      <4>5. \/ RankOf(ObservedBuffers[a]) < RankOf(ObservedBuffers[b])
            \/ RankOf(ObservedBuffers[a]) = RankOf(ObservedBuffers[b]) /\ ObservedValues[a] <= ObservedValues[b]
        BY <2>3, <3>1, <3>2, <4>1, <4>3 DEF InOrder
      <4>6. QED
        BY <3>2, <3>3, <4>3, <4>4, <4>5
    <3>6. QED
      BY <3>4, <3>5
  <2>8. QED
    BY <1>1, <2>6, <2>7 DEF Listed
<1>6. BatchInv'
  <2>1. ~Recording(h) /\ Recordings' = Recordings \union {h} /\ h \notin Recordings
    <3>1. ~Recording(h)
      BY <1>1 DEF HeadIsBusy
    <3>2. \A c \in Contexts : buffer'[c] = "recording" <=> c = h \/ buffer[c] = "recording"
      BY <1>2, <1>4 DEF Kept
    <3>3. QED
      BY <1>1, <1>3, <3>1, <3>2 DEF Recordings, Recording
  <2>2. Cardinality(Recordings') = Cardinality(Recordings) + 1
    BY <2>1, FiniteRecordings, FS_AddElement
  <2>3. ~Submitting /\ ~Submitting'
    BY <1>1 DEF Submitting
  <2>4. \A c \in Contexts : buffer'[c] # "none" /\ buffer'[c] # "executable"
    BY <1>2, <1>4, <2>3 DEF Kept, Booked, BatchInv
  <2>5. active_command_buffers' = Cardinality(Recordings')
    BY <1>1, <2>2 DEF Booked, BatchInv
  <2>6. call'.op = "none"
    BY <1>1
  <2>7. QED
    BY <1>1, <2>3, <2>4, <2>5, <2>6 DEF BatchInv
<1>7. \A c \in Contexts : buffer'[c] = "submitted" => retire_value'[c] > Observed
  BY <1>2, <1>4 DEF Kept
<1>8. QED
  BY <1>1, <1>5, <1>6, <1>7 DEF Booked

(***************************************************************************)
(* begin_commands, growing the pool: the new context ends the walk.        *)
(***************************************************************************)
LEMMA GrownCircle ==
  ASSUME NEW w, NEW h, NEW nx, NEW pv, NEW n \in Nat \ {0}, Circle(w, h, nx, pv, n)
  PROVE  \A nx2, pv2, v :
           /\ nx2 = [c \in 1..(n + 1) |-> IF c = n + 1 THEN h ELSE IF c = pv[h] THEN n + 1 ELSE nx[c]]
           /\ pv2 = [c \in 1..(n + 1) |-> IF c = n + 1 THEN pv[h] ELSE IF c = h THEN n + 1 ELSE pv[c]]
           /\ v = [k \in 0..(n + 1) |-> IF k = n THEN n + 1 ELSE IF k = n + 1 THEN h ELSE w[k]]
           => Circle(v, h, nx2, pv2, n + 1)
<1> SUFFICES ASSUME
      NEW nx2, nx2 = [c \in 1..(n + 1) |-> IF c = n + 1 THEN h ELSE IF c = pv[h] THEN n + 1 ELSE nx[c]],
      NEW pv2, pv2 = [c \in 1..(n + 1) |-> IF c = n + 1 THEN pv[h] ELSE IF c = h THEN n + 1 ELSE pv[c]],
      NEW v, v = [k \in 0..(n + 1) |-> IF k = n THEN n + 1 ELSE IF k = n + 1 THEN h ELSE w[k]]
    PROVE Circle(v, h, nx2, pv2, n + 1)
  OBVIOUS
<1>1. /\ w \in [0..n -> 1..n] /\ w[0] = h /\ w[n] = h
      /\ \A k \in 0..(n - 1) : nx[w[k]] = w[k + 1] /\ pv[w[k + 1]] = w[k]
      /\ \A j, k \in 0..(n - 1) : w[j] = w[k] => j = k
      /\ \A c \in 1..n : \E k \in 0..(n - 1) : w[k] = c
  BY DEF Circle
<1>2. /\ 0 \in 0..(n - 1) /\ n - 1 \in 0..(n - 1) /\ n - 1 + 1 = n /\ n \in 0..n /\ 0 # n
      /\ \A k \in 0..(n - 1) : k \in 0..n /\ k # n /\ k # n + 1 /\ k + 1 \in 0..n
      /\ \A k \in 0..n : k \in 0..(n + 1) /\ k # n + 1
      /\ n + 1 \in 0..(n + 1) /\ n + 1 # n /\ 0 # n + 1
      /\ n + 1 \in 1..(n + 1) /\ n + 1 \notin 1..n
      /\ \A c \in 1..n : c \in 1..(n + 1) /\ c # n + 1
      /\ \A c \in 1..(n + 1) : c = n + 1 \/ c \in 1..n
      /\ \A k \in 0..(n + 1) : k = n \/ k = n + 1 \/ k \in 0..(n - 1)
      /\ n + 1 - 1 = n
  OBVIOUS
<1>3. h \in 1..n /\ pv[h] = w[n - 1] /\ pv[h] \in 1..n
  <2>1. pv[w[n - 1 + 1]] = w[n - 1]
    BY <1>1, <1>2
  <2>a. n - 1 \in 0..n /\ 0 \in 0..n
    OBVIOUS
  <2>b. (\A k \in 0..n : w[k] \in 1..n) /\ w[0] = h
    BY <1>1
  <2>2. w[n - 1] \in 1..n /\ h \in 1..n
    BY ONLY <2>a, <2>b
  <2>3. QED
    BY <1>1, <1>2, <2>1, <2>2
<1>4. /\ nx2[n + 1] = h /\ pv2[n + 1] = w[n - 1]
      /\ \A c \in 1..n : nx2[c] = IF c = w[n - 1] THEN n + 1 ELSE nx[c]
      /\ \A c \in 1..n : pv2[c] = IF c = h THEN n + 1 ELSE pv[c]
  BY <1>2, <1>3
<1>5. /\ v[n] = n + 1 /\ v[n + 1] = h
      /\ \A k \in 0..(n - 1) : v[k] = w[k] /\ w[k] \in 1..n
  BY <1>1, <1>2
<1>6. v \in [0..(n + 1) -> 1..(n + 1)]
  <2>1. ASSUME NEW k \in 0..(n + 1)
        PROVE  v[k] \in 1..(n + 1)
    BY <1>2, <1>3, <1>5
  <2>2. v = [k \in 0..(n + 1) |-> v[k]]
    OBVIOUS
  <2>3. QED
    BY <2>1, <2>2
<1>7. v[0] = h /\ v[n + 1] = h
  BY <1>1, <1>2, <1>5
<1>8. ASSUME NEW k \in 0..n
      PROVE  nx2[v[k]] = v[k + 1] /\ pv2[v[k + 1]] = v[k]
  <2>1. CASE k = n
    BY <1>3, <1>4, <1>5, <2>1
  <2>2. CASE k = n - 1
    BY <1>2, <1>4, <1>5, <2>2
  <2>3. CASE k # n /\ k # n - 1
    <3>1. k \in 0..(n - 1) /\ k + 1 \in 0..(n - 1) /\ k + 1 # 0
      BY <2>3
    <3>2. v[k] = w[k] /\ v[k + 1] = w[k + 1] /\ w[k] \in 1..n /\ w[k + 1] \in 1..n
      BY <1>5, <3>1
    <3>3. w[k] # w[n - 1] /\ w[k + 1] # w[0]
      BY <1>1, <1>2, <2>3, <3>1
    <3>4. nx[w[k]] = w[k + 1] /\ pv[w[k + 1]] = w[k]
      BY <1>1, <3>1
    <3>5. nx2[w[k]] = nx[w[k]]
      BY <1>4, <3>2, <3>3
    <3>6. pv2[w[k + 1]] = pv[w[k + 1]]
      <4>1. w[k + 1] \in 1..n /\ w[k + 1] # h
        BY <1>1, <3>2, <3>3
      <4>2. \A c \in 1..n : pv2[c] = IF c = h THEN n + 1 ELSE pv[c]
        BY <1>4
      <4>3. QED
        BY ONLY <4>1, <4>2
    <3>7. QED
      BY <3>2, <3>4, <3>5, <3>6
  <2>4. QED
    BY <2>1, <2>2, <2>3
<1>9. ASSUME NEW j \in 0..n, NEW k \in 0..n, v[j] = v[k]
      PROVE  j = k
  <2>1. (j = n \/ j \in 0..(n - 1)) /\ (k = n \/ k \in 0..(n - 1))
    OBVIOUS
  <2>2. CASE j = n \/ k = n
    BY <1>2, <1>5, <1>9, <2>1, <2>2
  <2>3. CASE j \in 0..(n - 1) /\ k \in 0..(n - 1)
    BY <1>1, <1>5, <1>9, <2>3
  <2>4. QED
    BY <2>1, <2>2, <2>3
<1>10. ASSUME NEW c \in 1..(n + 1)
       PROVE  \E k \in 0..n : v[k] = c
  <2>1. CASE c = n + 1
    BY <1>2, <1>5, <2>1
  <2>2. CASE c \in 1..n
    <3>1. PICK k \in 0..(n - 1) : w[k] = c
      BY <1>1, <2>2
    <3>2. QED
      BY <1>2, <1>5, <3>1
  <2>3. QED
    BY <1>2, <2>1, <2>2
<1>11. PICK m : m = n + 1
  OBVIOUS
<1>12. 0..(m - 1) = 0..n
  BY <1>11
<1>13. Circle(v, h, nx2, pv2, m)
  <2>1. v \in [0..m -> 1..m] /\ v[0] = h /\ v[m] = h
    BY <1>6, <1>7, <1>11
  <2>2. \A k \in 0..(m - 1) : nx2[v[k]] = v[k + 1] /\ pv2[v[k + 1]] = v[k]
    BY <1>8, <1>12
  <2>3. \A j, k \in 0..(m - 1) : v[j] = v[k] => j = k
    BY <1>9, <1>12
  <2>4. \A c \in 1..m : \E k \in 0..(m - 1) : v[k] = c
    BY <1>10, <1>11, <1>12
  <2>5. QED
    BY <2>1, <2>2, <2>3, <2>4 DEF Circle
<1>14. QED
  BY <1>11, <1>13

LEMMA BeginGrowingBooks == IInv /\ Booked /\ BeginGrowing => Booked'
<1> SUFFICES ASSUME IInv, Booked, BeginGrowing PROVE Booked'
  OBVIOUS
<1> DEFINE n == command_context_count
           h == next_command_context
<1>1. /\ UNCHANGED <<call, batch>>
      /\ call.op = "none" /\ completed_command_retirement' = Observed
      /\ retire_value' = [c \in 1..NewContext |-> IF c = NewContext THEN 0 ELSE ObservedValues[c]]
      /\ buffer' = [ObservedBuffers EXCEPT ![NewContext] = "recording"]
      /\ next' = GrownNext /\ previous' = GrownPrevious
      /\ next_command_context' = GrownNext[NewContext]
      /\ command_context_count' = NewContext /\ NewContext = n + 1 /\ NewContext <= MaxContexts
      /\ command_submit_capacity' = GrownCapacity
      /\ active_command_buffers' = active_command_buffers + 1
  BY DEF BeginGrowing, NewContext
<1>2. /\ ObservedValues \in [Contexts -> Nat] /\ ObservedBuffers \in [AllContexts -> BufferStates]
      /\ Kept(ObservedValues, ObservedBuffers, Observed)
      /\ \A c \in Contexts :
           /\ ObservedBuffers[c] = "submitted" <=> ObservedValues[c] # 0
           /\ ObservedBuffers[c] = "executable" <=> buffer[c] = "executable"
  <2>1. Contexts \subseteq AllContexts
    BY ContextTypes
  <2>2. QED
    BY <2>1, ObservationAgrees, ObservationKeeps DEF Agrees
<1>3. /\ h \in Contexts /\ n \in Nat \ {0} /\ Contexts = 1..n /\ Contexts' = 1..(n + 1)
      /\ n + 1 \in AllContexts /\ n + 1 \notin Contexts /\ Contexts' = Contexts \union {n + 1}
  <2>1. h \in Contexts
    BY <1>1 DEF IInv, CallInv
  <2>2. n \in Nat /\ MaxContexts \in Nat
    BY ContextTypes, ConstantsAssumption
  <2>3. QED
    BY <1>1, <2>1, <2>2 DEF Contexts, AllContexts
<1>4. /\ buffer'[n + 1] = "recording" /\ retire_value'[n + 1] = 0
      /\ \A c \in Contexts : buffer'[c] = ObservedBuffers[c] /\ retire_value'[c] = ObservedValues[c]
  <2>1. \A c \in 1..n : c \in 1..(n + 1) /\ c # n + 1
    BY <1>3
  <2>2. n + 1 \in 1..(n + 1)
    BY <1>3
  <2>3. QED
    BY <1>1, <1>2, <1>3, <2>1, <2>2
<1>5. Listed'
  <2>1. PICK w : Circle(w, h, next, previous, n) /\ InOrder(w, retire_value, buffer, n)
    BY <1>1 DEF Booked, Listed
  <2>2. w \in [0..n -> 1..n]
    BY <2>1 DEF Circle
  <2>3. InOrder(w, ObservedValues, ObservedBuffers, n)
    BY <1>2, <1>3, <2>1, <2>2 DEF Kept
  <2> DEFINE v == [k \in 0..(n + 1) |-> IF k = n THEN n + 1 ELSE IF k = n + 1 THEN h ELSE w[k]]
  <2>4. Circle(v, h, GrownNext, GrownPrevious, n + 1)
    <3>1. /\ GrownNext = [c \in 1..(n + 1) |->
                            IF c = n + 1 THEN h ELSE IF c = previous[h] THEN n + 1 ELSE next[c]]
          /\ GrownPrevious = [c \in 1..(n + 1) |->
                                IF c = n + 1 THEN previous[h] ELSE IF c = h THEN n + 1 ELSE previous[c]]
      BY DEF GrownNext, GrownPrevious, NewContext
    <3> HIDE DEF v
    <3>2. v = [k \in 0..(n + 1) |-> IF k = n THEN n + 1 ELSE IF k = n + 1 THEN h ELSE w[k]]
      BY DEF v
    <3>3. QED
      BY <1>3, <2>1, <3>1, <3>2, GrownCircle
  <2>5. /\ v[n] = n + 1
        /\ \A k \in 0..(n - 1) : v[k] = w[k] /\ w[k] \in Contexts
    <3>1. \A k \in 0..(n - 1) : k \in 0..(n + 1) /\ k \in 0..n /\ k # n /\ k # n + 1
      BY <1>3
    <3>2. n \in 0..(n + 1)
      BY <1>3
    <3>3. QED
      BY <1>3, <2>2, <3>1, <3>2
  <2> HIDE DEF v
  <2>6. InOrder(v, retire_value', buffer', n + 1)
    <3>0. SUFFICES \A j, k \in 0..n :
                     j < k => \/ RankOf(buffer'[v[j]]) < RankOf(buffer'[v[k]])
                              \/ /\ RankOf(buffer'[v[j]]) = RankOf(buffer'[v[k]])
                                 /\ retire_value'[v[j]] <= retire_value'[v[k]]
      <4>1. PICK m : m = n + 1
        OBVIOUS
      <4>2. 0..(m - 1) = 0..n
        BY <1>3, <4>1
      <4>3. SUFFICES InOrder(v, retire_value', buffer', m)
        BY <4>1
      <4>4. QED
        BY <4>2 DEF InOrder
    <3> SUFFICES ASSUME NEW j \in 0..n, NEW k \in 0..n, j < k
                 PROVE  \/ RankOf(buffer'[v[j]]) < RankOf(buffer'[v[k]])
                        \/ RankOf(buffer'[v[j]]) = RankOf(buffer'[v[k]]) /\ retire_value'[v[j]] <= retire_value'[v[k]]
      OBVIOUS
    <3>1. j \in 0..(n - 1)
      BY <1>3
    <3>2. PICK a \in Contexts : a = v[j] /\ a = w[j]
      BY <2>5, <3>1
    <3>3. buffer'[a] = ObservedBuffers[a] /\ retire_value'[a] = ObservedValues[a]
      BY <1>4
    <3>4. CASE k = n
      <4>1. \/ RankOf(ObservedBuffers[a]) < 2
            \/ RankOf(ObservedBuffers[a]) = 2 /\ ObservedBuffers[a] # "submitted"
        BY DEF RankOf
      <4>2. ObservedBuffers[a] # "submitted" => ObservedValues[a] = 0
        BY <1>2
      <4>3. RankOf(buffer'[n + 1]) = 2 /\ retire_value'[n + 1] = 0 /\ v[k] = n + 1
        BY <1>4, <2>5, <3>4 DEF RankOf
      <4>4. QED
        BY <3>2, <3>3, <4>1, <4>2, <4>3
    <3>5. CASE k # n
      <4>1. k \in 0..(n - 1)
        BY <1>3, <3>5
      <4>2. PICK b \in Contexts : b = v[k] /\ b = w[k]
        BY <2>5, <4>1
      <4>3. buffer'[b] = ObservedBuffers[b] /\ retire_value'[b] = ObservedValues[b]
        BY <1>4
      <4>4. \/ RankOf(ObservedBuffers[a]) < RankOf(ObservedBuffers[b])
            \/ RankOf(ObservedBuffers[a]) = RankOf(ObservedBuffers[b]) /\ ObservedValues[a] <= ObservedValues[b]
        BY <2>3, <3>1, <3>2, <4>1, <4>2 DEF InOrder
      <4>5. QED
        BY <3>2, <3>3, <4>2, <4>3, <4>4
    <3>6. QED
      BY <3>4, <3>5
  <2>7. GrownNext[NewContext] = h
    <3>1. NewContext \in 1..NewContext
      BY <1>1, <1>3
    <3>2. QED
      BY <3>1 DEF GrownNext
  <2>8. QED
    BY <1>1, <2>4, <2>6, <2>7 DEF Listed
<1>6. BatchInv'
  <2>1. Recordings' = Recordings \union {n + 1} /\ n + 1 \notin Recordings
    <3>1. \A c \in Contexts : buffer'[c] = "recording" <=> buffer[c] = "recording"
      BY <1>2, <1>4 DEF Kept
    <3>2. QED
      BY <1>3, <1>4, <3>1 DEF Recordings, Recording
  <2>2. Cardinality(Recordings') = Cardinality(Recordings) + 1
    BY <2>1, FiniteRecordings, FS_AddElement
  <2>3. ~Submitting /\ ~Submitting'
    BY <1>1 DEF Submitting
  <2>4. \A c \in Contexts' : buffer'[c] # "none" /\ buffer'[c] # "executable"
    BY <1>2, <1>3, <1>4, <2>3 DEF Kept, Booked, BatchInv
  <2>5. active_command_buffers' = Cardinality(Recordings')
    BY <1>1, <2>2 DEF Booked, BatchInv
  <2>6. call'.op = "none"
    BY <1>1
  <2>7. QED
    BY <1>1, <2>3, <2>4, <2>5, <2>6 DEF BatchInv
<1>7. \A c \in Contexts' : buffer'[c] = "submitted" => retire_value'[c] > Observed
  BY <1>2, <1>3, <1>4 DEF Kept
<1>8. command_context_count' <= command_submit_capacity'
  <2>1. n \in Nat \ {0} /\ command_submit_capacity \in Nat /\ n <= command_submit_capacity
    BY <1>3 DEF IInv, TypeOK, Booked
  <2>2. CASE n = command_submit_capacity
    BY <1>1, <2>1, <2>2 DEF GrownCapacity
  <2>3. CASE n # command_submit_capacity
    BY <1>1, <2>1, <2>3 DEF GrownCapacity
  <2>4. QED
    BY <2>2, <2>3
<1>9. QED
  BY <1>1, <1>5, <1>6, <1>7, <1>8 DEF Booked

(***************************************************************************)
(* The loop of submit leaves the batch as what is executable, and nothing  *)
(* recording.                                                              *)
(***************************************************************************)
LEMMA EndBatchBooks == IInv /\ Booked /\ EndBatch => Booked'
<1> SUFFICES ASSUME IInv, Booked, EndBatch PROVE Booked'
  OBVIOUS
<1>1. /\ UNCHANGED <<next_command_context, next, previous, command_context_count,
                     command_submit_capacity, retire_value, completed_command_retirement>>
      /\ batch' = Recordings
      /\ buffer' = [c \in AllContexts |-> IF c \in batch' THEN "executable" ELSE buffer[c]]
      /\ active_command_buffers' = active_command_buffers - Cardinality(batch')
      /\ call'.op = "submit" /\ call.op = "none"
      /\ Contexts' = Contexts
  BY DEF EndBatch, Blocked, poolVars, Contexts, Recordings
<1>2. \A c \in Contexts :
        /\ c \in AllContexts
        /\ buffer[c] \in {"initial", "recording", "executable", "submitted"}
        /\ buffer'[c] = IF buffer[c] = "recording" THEN "executable" ELSE buffer[c]
  <2>1. \A c \in Contexts : c \in batch' <=> buffer[c] = "recording"
    BY <1>1 DEF Recordings, Recording
  <2>2. QED
    BY <1>1, <2>1, ContextTypes
<1>3. \A c \in Contexts : RankOf(buffer'[c]) = RankOf(buffer[c])
  BY <1>2 DEF RankOf
<1>4. Listed'
  <2>1. PICK w : /\ Circle(w, next_command_context, next, previous, command_context_count)
                 /\ InOrder(w, retire_value, buffer, command_context_count)
    BY <1>1 DEF Booked, Listed
  <2>2. \A k \in 0..(command_context_count - 1) : w[k] \in Contexts
    <3>1. \A k \in 0..(command_context_count - 1) : k \in 0..command_context_count
      BY ContextTypes
    <3>2. QED
      BY <2>1, <3>1 DEF Circle, Contexts
  <2>3. InOrder(w, retire_value, buffer', command_context_count)
    BY <1>3, <2>1, <2>2 DEF InOrder
  <2>4. QED
    BY <1>1, <2>1, <2>3 DEF Listed
<1>5. BatchInv'
  <2>1. Recordings' = {}
    BY <1>1, <1>2 DEF Recordings, Recording
  <2>2. \A c \in Contexts : buffer[c] # "executable"
    BY <1>1 DEF Booked, BatchInv, Submitting
  <2>3. Submitting'
    BY <1>1 DEF Submitting
  <2>4. \A c \in Contexts : buffer'[c] = "executable" <=> c \in batch'
    BY <1>1, <1>2, <2>2 DEF Recordings, Recording
  <2>5. active_command_buffers' = Cardinality(Recordings')
    <3>1. active_command_buffers = Cardinality(Recordings) /\ Cardinality(Recordings) \in Nat
      BY FiniteRecordings, FS_CardinalityType DEF Booked, BatchInv
    <3>2. active_command_buffers' = 0
      BY <1>1, <3>1
    <3>3. QED
      BY <2>1, <3>2, FS_EmptySet
  <2>6. \A c \in Contexts : buffer'[c] # "none"
    BY <1>2
  <2>7. QED
    BY <1>1, <2>1, <2>3, <2>4, <2>5, <2>6 DEF BatchInv
<1>6. \A c \in Contexts : buffer'[c] = "submitted" => retire_value[c] > completed_command_retirement
  BY <1>2 DEF Booked
<1>7. QED
  BY <1>1, <1>4, <1>5, <1>6 DEF Booked

(***************************************************************************)
(* A step that only observes retirement, or observes nothing at all.       *)
(***************************************************************************)
LEMMA ObserveBooks ==
  ASSUME IInv, Booked, NEW rv, NEW bs, NEW done, Agrees(rv, bs), Kept(rv, bs, done),
         completed_command_retirement' = done, retire_value' = rv, buffer' = bs,
         UNCHANGED <<poolVars, active_command_buffers, batch>>,
         Submitting' <=> Submitting, call.op # "destroyed", call'.op # "destroyed",
         call'.op \in {"wait_idle", "destroy"} => Recordings = {}
  PROVE  Booked'
<1>1. /\ UNCHANGED <<next_command_context, next, previous, command_context_count,
                     command_submit_capacity, active_command_buffers, batch>>
      /\ Contexts' = Contexts
  BY DEF poolVars, Contexts
<1>2. \A c \in Contexts :
        /\ bs[c] = "executable" <=> buffer[c] = "executable"
        /\ bs[c] = "recording" <=> buffer[c] = "recording"
        /\ bs[c] # "none"
        /\ bs[c] = "submitted" => rv[c] > done
  BY ContextTypes DEF Agrees, Kept
<1>3. Listed'
  <2>1. PICK w : /\ Circle(w, next_command_context, next, previous, command_context_count)
                 /\ InOrder(w, retire_value, buffer, command_context_count)
    BY DEF Booked, Listed
  <2>2. w \in [0..command_context_count -> Contexts]
    BY <2>1 DEF Circle, Contexts
  <2>3. InOrder(w, rv, bs, command_context_count)
    BY <2>1, <2>2 DEF Kept
  <2>4. QED
    BY <1>1, <2>1, <2>3 DEF Listed
<1>4. BatchInv'
  <2>1. Recordings' = Recordings
    BY <1>1, <1>2 DEF Recordings, Recording
  <2>2. QED
    BY <1>1, <1>2, <2>1 DEF Booked, BatchInv
<1>5. QED
  BY <1>1, <1>2, <1>3, <1>4 DEF Booked

LEMMA RetirementAvailableBooks == IInv /\ Booked /\ RetirementAvailable => Booked'
<1> SUFFICES ASSUME IInv, Booked, RetirementAvailable PROVE Booked'
  OBVIOUS
<1>1. /\ UNCHANGED <<poolVars, active_command_buffers, batch>>
      /\ call.op = "submit" /\ call'.op = "queue"
      /\ Submitting /\ Submitting'
  BY DEF RetirementAvailable, Blocked, Submitting
<1>2. CASE UNCHANGED <<completed_command_retirement, retire_value, buffer>>
  <2>1. Agrees(retire_value, buffer) /\ Kept(retire_value, buffer, completed_command_retirement)
    BY NothingResetKeeps DEF IInv
  <2>2. QED
    BY <1>1, <1>2, <2>1, ObserveBooks
<1>3. CASE /\ completed_command_retirement' = Polled
           /\ retire_value' = PolledValues
           /\ buffer' = PolledBuffers
  BY <1>1, <1>3, PollAgrees, PollKeeps, ObserveBooks
<1>4. QED
  BY <1>2, <1>3 DEF RetirementAvailable

LEMMA ThrottleBooks == IInv /\ Booked /\ Throttle => Booked'
<1> SUFFICES ASSUME IInv, Booked, Throttle PROVE Booked'
  OBVIOUS
<1>1. /\ UNCHANGED <<poolVars, active_command_buffers, batch>>
      /\ call.op = "submit" /\ call'.op = "throttled"
      /\ Submitting /\ Submitting'
  BY DEF Throttle, Blocked, Submitting
<1>2. QED
  BY <1>1, PollAgrees, PollKeeps, ObserveBooks DEF Throttle

LEMMA ThrottleReturnsBooks == IInv /\ Booked /\ ThrottleReturns => Booked'
<1> SUFFICES ASSUME IInv, Booked, ThrottleReturns PROVE Booked'
  OBVIOUS
<1> DEFINE done == AfterWait(ThrottleValue)
<1>1. /\ UNCHANGED <<poolVars, active_command_buffers, batch>>
      /\ call.op = "throttled" /\ call'.op = "queue"
      /\ Submitting /\ Submitting'
      /\ completed_command_retirement' = done
      /\ retire_value' = ResetValues(done) /\ buffer' = ResetBuffers(done)
  BY DEF ThrottleReturns, Blocked, Submitting
<1>2. ThrottleValue \in Int /\ ThrottleValue <= gpuRetired
  BY ConstantsAssumption DEF ThrottleReturns, ThrottleValue, IInv, TypeOK
<1>3. done \in Nat /\ Agrees(ResetValues(done), ResetBuffers(done))
  BY <1>2, WaitAgrees
<1> HIDE DEF done
<1>4. Kept(ResetValues(done), ResetBuffers(done), done)
  BY <1>3, ResetKeeps
<1>5. QED
  BY <1>1, <1>3, <1>4, ObserveBooks

LEMMA WaitTimelineReturnsBooks == IInv /\ Booked /\ WaitTimelineReturns => Booked'
<1> SUFFICES ASSUME IInv, Booked, WaitTimelineReturns PROVE Booked'
  OBVIOUS
<1>1. /\ UNCHANGED <<poolVars, active_command_buffers, batch>>
      /\ call.op = "wait_timeline" /\ call'.op = "none"
      /\ ~Submitting /\ ~Submitting'
  BY DEF WaitTimelineReturns, Returned, Idle, Submitting
<1>2. QED
  BY <1>1, PollAgrees, PollKeeps, ObserveBooks DEF WaitTimelineReturns

LEMMA WaitIdleReturnsBooks == IInv /\ Booked /\ WaitIdleReturns => Booked'
<1> SUFFICES ASSUME IInv, Booked, WaitIdleReturns PROVE Booked'
  OBVIOUS
<1> DEFINE done == AfterWait(call.value)
<1>1. /\ UNCHANGED <<poolVars, active_command_buffers, batch>>
      /\ call.op = "wait_idle" /\ call'.op = "none"
      /\ ~Submitting /\ ~Submitting'
      /\ completed_command_retirement' = done
      /\ retire_value' = ResetValues(done) /\ buffer' = ResetBuffers(done)
  BY DEF WaitIdleReturns, Returned, Idle, Submitting
<1>2. call.value \in Int /\ call.value <= gpuRetired
  BY DEF WaitIdleReturns, IInv, TypeOK
<1>3. done \in Nat /\ Agrees(ResetValues(done), ResetBuffers(done))
  BY <1>2, WaitAgrees
<1> HIDE DEF done
<1>4. Kept(ResetValues(done), ResetBuffers(done), done)
  BY <1>3, ResetKeeps
<1>5. QED
  BY <1>1, <1>3, <1>4, ObserveBooks

(***************************************************************************)
(* vkQueueSubmit2: the batch takes the highest value so far, behind        *)
(* everything that was submitted before.                                   *)
(***************************************************************************)
LEMMA QueueBatchBooks == IInv /\ Booked /\ QueueBatch => Booked'
<1> SUFFICES ASSUME IInv, Booked, QueueBatch PROVE Booked'
  OBVIOUS
<1>1. /\ UNCHANGED <<next_command_context, next, previous, command_context_count,
                     command_submit_capacity, active_command_buffers, completed_command_retirement>>
      /\ retire_value' = [c \in Contexts |-> IF c \in batch THEN call.value ELSE retire_value[c]]
      /\ buffer' = [c \in AllContexts |-> IF c \in batch THEN "submitted" ELSE buffer[c]]
      /\ batch' = {} /\ call'.op = "none" /\ call.op = "queue"
      /\ Contexts' = Contexts
      /\ Submitting /\ ~Submitting'
  BY DEF QueueBatch, Returned, Idle, poolVars, Contexts, Submitting
<1>2. call.value = command_retirement_value + 1
  BY <1>1 DEF IInv, CallInv
<1>3. ASSUME NEW c \in Contexts
      PROVE  \/ /\ c \in batch /\ buffer[c] = "executable"
                /\ buffer'[c] = "submitted" /\ retire_value'[c] = call.value
             \/ /\ c \notin batch /\ buffer[c] \in {"initial", "submitted"}
                /\ buffer'[c] = buffer[c] /\ retire_value'[c] = retire_value[c]
  <2>1. c \in AllContexts /\ buffer[c] \in {"initial", "recording", "executable", "submitted"}
    BY ContextTypes
  <2>2. buffer[c] # "recording" /\ (buffer[c] = "executable" <=> c \in batch)
    BY <1>1 DEF Booked, BatchInv, Recordings, Recording
  <2>3. QED
    BY <1>1, <2>1, <2>2
<1>4. \A c \in Contexts :
        retire_value[c] \in Nat /\ retire_value[c] <= command_retirement_value
  BY ContextTypes
<1>5. command_retirement_value \in Nat /\ completed_command_retirement \in Nat
      /\ completed_command_retirement <= command_retirement_value
  BY DEF IInv, TypeOK, ObservedBehindGpu
<1>6. Listed'
  <2>1. PICK w : /\ Circle(w, next_command_context, next, previous, command_context_count)
                 /\ InOrder(w, retire_value, buffer, command_context_count)
    BY <1>1 DEF Booked, Listed
  <2>2. \A k \in 0..(command_context_count - 1) : w[k] \in Contexts
    <3>1. \A k \in 0..(command_context_count - 1) : k \in 0..command_context_count
      BY ContextTypes
    <3>2. QED
      BY <2>1, <3>1 DEF Circle, Contexts
  <2>3. ASSUME NEW j \in 0..(command_context_count - 1), NEW k \in 0..(command_context_count - 1), j < k
        PROVE  \/ RankOf(buffer'[w[j]]) < RankOf(buffer'[w[k]])
               \/ RankOf(buffer'[w[j]]) = RankOf(buffer'[w[k]]) /\ retire_value'[w[j]] <= retire_value'[w[k]]
    <3>1. PICK a \in Contexts, b \in Contexts : a = w[j] /\ b = w[k]
      BY <2>2
    <3>2. \/ RankOf(buffer[a]) < RankOf(buffer[b])
          \/ RankOf(buffer[a]) = RankOf(buffer[b]) /\ retire_value[a] <= retire_value[b]
      BY <2>1, <2>3, <3>1 DEF InOrder
    <3>3. CASE b \in batch
      <4>1. buffer'[b] = "submitted" /\ retire_value'[b] = command_retirement_value + 1
        BY <1>2, <1>3, <3>3
      <4>2. CASE a \in batch
        <5>1. buffer'[a] = "submitted" /\ retire_value'[a] = command_retirement_value + 1
          BY <1>2, <1>3, <4>2
        <5>2. QED
          BY <1>5, <3>1, <4>1, <5>1
      <4>3. CASE a \notin batch
        <5>1. /\ buffer'[a] \in {"initial", "submitted"}
              /\ retire_value'[a] \in Nat /\ retire_value'[a] <= command_retirement_value
          BY <1>3, <1>4, <4>3
        <5>2. retire_value'[a] <= retire_value'[b]
          BY <1>5, <4>1, <5>1
        <5>3. QED
          BY <3>1, <4>1, <5>1, <5>2 DEF RankOf
      <4>4. QED
        BY <4>2, <4>3
    <3>4. CASE b \notin batch
      <4>1. a \notin batch
        BY <1>3, <3>2, <3>4 DEF RankOf
      <4>2. /\ buffer'[a] = buffer[a] /\ retire_value'[a] = retire_value[a]
            /\ buffer'[b] = buffer[b] /\ retire_value'[b] = retire_value[b]
        BY <1>3, <3>4, <4>1
      <4>3. QED
        BY <3>1, <3>2, <4>2
    <3>5. QED
      BY <3>3, <3>4
  <2>4. InOrder(w, retire_value', buffer', command_context_count)
    BY <2>3 DEF InOrder
  <2>5. QED
    BY <1>1, <2>1, <2>4 DEF Listed
<1>7. BatchInv'
  <2>1. Recordings' = {} /\ Recordings = {}
    BY <1>1, <1>3 DEF Recordings, Recording
  <2>2. \A c \in Contexts : buffer'[c] # "none" /\ buffer'[c] # "executable"
    BY <1>3
  <2>3. active_command_buffers' = Cardinality(Recordings')
    BY <1>1, <2>1 DEF Booked, BatchInv
  <2>4. QED
    BY <1>1, <2>1, <2>2, <2>3 DEF BatchInv
<1>8. ASSUME NEW c \in Contexts, buffer'[c] = "submitted"
      PROVE  retire_value'[c] > completed_command_retirement
  <2>1. CASE c \in batch
    BY <1>2, <1>3, <1>5, <2>1
  <2>2. CASE c \notin batch
    BY <1>3, <1>8, <2>2 DEF Booked
  <2>3. QED
    BY <2>1, <2>2
<1>9. QED
  BY <1>1, <1>6, <1>7, <1>8 DEF Booked

LEMMA DestroyDeviceBooks == IInv /\ Booked /\ DestroyDevice => Booked'
<1> SUFFICES ASSUME IInv, Booked, DestroyDevice PROVE Booked'
  OBVIOUS
<1>1. /\ call'.op = "destroyed" /\ Contexts' = {} /\ Recordings' = {}
      /\ next_command_context' = 0 /\ command_context_count' = 0 /\ command_submit_capacity' = 0
      /\ active_command_buffers' = active_command_buffers
      /\ call.op = "destroy"
  BY DEF DestroyDevice, Blocked, Contexts, Recordings
<1>2. active_command_buffers = Cardinality({})
  BY <1>1 DEF Booked, BatchInv
<1>3. QED
  BY <1>1, <1>2 DEF Booked, Listed, BatchInv, Submitting

(***************************************************************************)
(* A step that touches neither contexts nor batch.                         *)
(***************************************************************************)
LEMMA ElsewhereBooks ==
  ASSUME Booked, UNCHANGED <<poolVars, retire_value, active_command_buffers,
                             completed_command_retirement, batch, buffer>>,
         \/ call' = call
         \/ /\ call.op = "none" /\ call'.op \in {"wait_timeline", "wait_idle", "destroy"}
            /\ call'.op \in {"wait_idle", "destroy"} => Recordings = {}
  PROVE  Booked'
<1>1. /\ UNCHANGED <<next_command_context, next, previous, command_context_count,
                     command_submit_capacity, retire_value, active_command_buffers,
                     completed_command_retirement, batch, buffer>>
      /\ Contexts' = Contexts /\ Recordings' = Recordings
  BY DEF poolVars, Contexts, Recordings, Recording
<1>2. Listed'
  BY <1>1 DEF Booked, Listed
<1>3. BatchInv'
  BY <1>1 DEF Booked, BatchInv, Submitting
<1>4. QED
  BY <1>1, <1>2, <1>3 DEF Booked

(***************************************************************************)
(* Every step keeps the bookkeeping.                                       *)
(***************************************************************************)
LEMMA NextBooks == IInv /\ Booked /\ [Next]_vars => Booked'
<1> SUFFICES ASSUME IInv, Booked, [Next]_vars PROVE Booked'
  OBVIOUS
<1>1. CASE BeginReusing
  BY <1>1, BeginReusingBooks
<1>2. CASE BeginGrowing
  BY <1>2, BeginGrowingBooks
<1>3. CASE EndBatch
  BY <1>3, EndBatchBooks
<1>4. CASE RetirementAvailable
  BY <1>4, RetirementAvailableBooks
<1>5. CASE Throttle \/ ThrottleReturns
  BY <1>5, ThrottleBooks, ThrottleReturnsBooks
<1>6. CASE QueueBatch
  BY <1>6, QueueBatchBooks
<1>7. ASSUME NEW value \in 1..command_retirement_value, WaitTimeline(value)
      PROVE  Booked'
  <2>1. call.op = "none" /\ call'.op = "wait_timeline"
    BY <1>7 DEF WaitTimeline, Blocked
  <2>2. QED
    BY <1>7, <2>1, ElsewhereBooks DEF WaitTimeline
<1>8. CASE WaitTimelineReturns
  BY <1>8, WaitTimelineReturnsBooks
<1>9. ASSUME NEW op \in {"wait_idle", "destroy"}, Drain(op)
      PROVE  Booked'
  <2>1. call.op = "none" /\ call'.op = op /\ active_command_buffers = 0
    BY <1>9 DEF Drain, Blocked
  <2>2. Recordings = {}
    BY <2>1, FiniteRecordings, FS_EmptySet DEF Booked, BatchInv
  <2>3. QED
    BY <1>9, <2>1, <2>2, ElsewhereBooks DEF Drain
<1>10. CASE WaitIdleReturns
  BY <1>10, WaitIdleReturnsBooks
<1>11. CASE DestroyDevice
  BY <1>11, DestroyDeviceBooks
<1>12. CASE GpuCompletesWork \/ GpuSignalsRetirement \/ UNCHANGED vars
  BY <1>12, ElsewhereBooks DEF GpuCompletesWork, GpuSignalsRetirement, vars
<1>13. QED
  BY <1>1, <1>2, <1>3, <1>4, <1>5, <1>6, <1>7, <1>8, <1>9, <1>10, <1>11, <1>12 DEF Next

(***************************************************************************)
(* The bookkeeping holds in every reachable state.                         *)
(***************************************************************************)
THEOREM BookkeepingInvariance == Spec => [](IInv /\ Booked)
<1>1. Init => Booked
  BY InitBooks
<1>2. IInv /\ Booked /\ [Next]_vars => Booked'
  BY NextBooks
<1>3. QED
  BY <1>1, <1>2, Invariance, PTL DEF Spec

(***************************************************************************)
(* The walk the code takes is the one the invariant speaks of: were k the  *)
(* first step at which they part, they would have been together the step   *)
(* before.                                                                 *)
(***************************************************************************)
LEMMA NthIsTheWalk ==
  ASSUME NEW w, command_context_count \in Nat,
         Circle(w, next_command_context, next, previous, command_context_count)
  PROVE  \A k \in 0..command_context_count : Nth[k] = w[k]
<1> DEFINE n == command_context_count
           Equation(f) == f = [k \in 0..n |-> IF k = 0 THEN next_command_context ELSE next[f[k - 1]]]
<1>1. /\ w \in [0..n -> 1..n] /\ w[0] = next_command_context
      /\ \A k \in 0..(n - 1) : next[w[k]] = w[k + 1]
  BY DEF Circle
<1>2. Equation(w)
  <2>1. ASSUME NEW k \in 0..n, k # 0
        PROVE  w[k] = next[w[k - 1]]
    <3>1. k - 1 \in 0..(n - 1) /\ k - 1 + 1 = k
      BY <2>1
    <3>2. next[w[k - 1]] = w[k - 1 + 1]
      BY <1>1, <3>1
    <3>3. QED
      BY <3>1, <3>2
  <2>2. w = [k \in 0..n |-> w[k]]
    BY <1>1
  <2>3. \A k \in 0..n : w[k] = IF k = 0 THEN next_command_context ELSE next[w[k - 1]]
    BY <1>1, <2>1
  <2>4. QED
    BY <2>2, <2>3
<1>3. Equation(Nth)
  <2>1. Nth = CHOOSE f : Equation(f)
    BY DEF Nth
  <2> HIDE DEF Equation
  <2>2. QED
    BY <1>2, <2>1
<1>4. ASSUME NEW bad \in 0..n, Nth[bad] # w[bad]
      PROVE  FALSE
  <2> DEFINE Bad == {k \in 0..n : Nth[k] # w[k]}
  <2>1. PICK k \in Bad : \A j \in Bad : k <= j
    <3>1. Bad \subseteq Nat /\ Bad # {}
      BY <1>4
    <3>2. QED
      BY <3>1, LeastElement
  <2>2. k # 0
    BY <1>1, <1>3, <2>1
  <2>3. k - 1 \in 0..n /\ k - 1 \notin Bad
    BY <2>1, <2>2
  <2>4. Nth[k - 1] = w[k - 1]
    BY <2>3
  <2>5. Nth[k] = next[Nth[k - 1]] /\ w[k] = next[w[k - 1]]
    BY <1>2, <1>3, <2>1, <2>2
  <2>6. QED
    BY <2>1, <2>4, <2>5
<1>5. QED
  BY <1>4

(***************************************************************************)
(* The invariant implies the property.                                     *)
(***************************************************************************)
LEMMA BookedIsExact == IInv /\ Booked => BookkeepingExact
<1> SUFFICES ASSUME IInv, Booked PROVE BookkeepingExact
  OBVIOUS
<1> DEFINE n == command_context_count
<1>1. n \in Nat /\ Contexts = 1..n
  BY ContextTypes DEF Contexts
<1>2. ASSUME call.op # "destroyed"
      PROVE  Circular /\ Sorted
  <2>1. PICK w : Circle(w, next_command_context, next, previous, n) /\ InOrder(w, retire_value, buffer, n)
    BY <1>2 DEF Booked, Listed
  <2>2. \A k \in 0..n : Nth[k] = w[k]
    BY <1>1, <2>1, NthIsTheWalk
  <2>3. /\ w \in [0..n -> 1..n] /\ w[0] = next_command_context /\ w[n] = next_command_context
        /\ \A k \in 0..(n - 1) : next[w[k]] = w[k + 1] /\ previous[w[k + 1]] = w[k]
        /\ \A c \in 1..n : \E k \in 0..(n - 1) : w[k] = c
    BY <2>1 DEF Circle
  <2>4. n \in 1..n /\ n \in 0..n /\ 0 \in 0..n
    <3>1. next_command_context \in 1..n
      BY <1>1, <1>2 DEF IInv, CallInv
    <3>2. QED
      BY <1>1, <3>1
  <2>5. Circular
    <3>1. ASSUME NEW c \in Contexts
          PROVE  /\ c \in {Nth[k] : k \in 1..n}
                 /\ previous[next[c]] = c
      <4>1. PICK k \in 0..(n - 1) : w[k] = c
        BY <1>1, <2>3
      <4>2. previous[next[c]] = c
        BY <2>3, <4>1
      <4>3. \E m \in 1..n : Nth[m] = c
        <5>1. CASE k = 0
          BY <2>2, <2>3, <2>4, <4>1, <5>1
        <5>2. CASE k # 0
          <6>1. k \in 1..n /\ k \in 0..n
            BY <1>1, <5>2
          <6>2. QED
            BY <2>2, <4>1, <6>1
        <5>3. QED
          BY <5>1, <5>2
      <4>4. QED
        BY <4>2, <4>3
    <3>2. ASSUME NEW k \in 1..n
          PROVE  Nth[k] \in Contexts
      <4>1. k \in 0..n
        BY <1>1
      <4>2. QED
        BY <1>1, <2>2, <2>3, <4>1
    <3>3. Nth[n] = next_command_context
      BY <2>2, <2>3, <2>4
    <3>4. QED
      BY <3>1, <3>2, <3>3 DEF Circular
  <2>6. Sorted
    <3> SUFFICES ASSUME NEW j \in 0..(n - 1), NEW k \in 0..(n - 1), j < k
                 PROVE  \/ Rank(Nth[j]) < Rank(Nth[k])
                        \/ Rank(Nth[j]) = Rank(Nth[k]) /\ retire_value[Nth[j]] <= retire_value[Nth[k]]
      BY DEF Sorted
    <3>1. j \in 0..n /\ k \in 0..n
      BY <1>1
    <3>2. Nth[j] = w[j] /\ Nth[k] = w[k]
      BY <2>2, <3>1
    <3>3. \/ RankOf(buffer[w[j]]) < RankOf(buffer[w[k]])
          \/ RankOf(buffer[w[j]]) = RankOf(buffer[w[k]]) /\ retire_value[w[j]] <= retire_value[w[k]]
      BY <2>1 DEF InOrder
    <3>4. \A c : Rank(c) = RankOf(buffer[c])
      BY DEF Rank, RankOf
    <3>5. QED
      BY <3>2, <3>3, <3>4
  <2>7. QED
    BY <2>5, <2>6
<1>3. ASSUME call.op = "destroyed"
      PROVE  Circular /\ Sorted
  <2>1. next_command_context = 0 /\ n = 0
    BY <1>3 DEF Booked
  <2>2. Circular /\ Sorted
    BY <2>1 DEF Circular, Sorted
  <2>3. QED
    BY <2>2
<1>4. Circular /\ Sorted
  BY <1>2, <1>3
<1>5. TypeOK
  BY DEF IInv
<1>6. ASSUME NEW c \in Contexts
      PROVE  /\ buffer[c] = "submitted" <=> retire_value[c] # 0
             /\ buffer[c] = "submitted" =>
                  retire_value[c] = lastUse[c] /\ retire_value[c] > completed_command_retirement
  BY DEF IInv, Agrees, Booked
<1>7. /\ active_command_buffers = Cardinality({c \in Contexts : Recording(c)})
      /\ command_context_count <= command_submit_capacity
  BY DEF Booked, BatchInv, Recordings
<1>8. QED
  BY <1>4, <1>5, <1>6, <1>7 DEF BookkeepingExact

(***************************************************************************)
(* Through reuse, growth and resets the list stays a sorted circle, and    *)
(* what the pool counts of its contexts is true.                           *)
(***************************************************************************)
THEOREM BookkeepingIsExact == Spec => []BookkeepingExact
<1>1. IInv /\ Booked => BookkeepingExact
  BY BookedIsExact
<1>2. QED
  BY <1>1, BookkeepingInvariance, PTL

(***************************************************************************)
(* Only begin_commands grows the pool, and it does so when the head is     *)
(* busy: then so is everything behind it.                                  *)
(***************************************************************************)
LEMMA GrowthMeansBusy ==
  ASSUME IInv, Booked, BeginGrowing
  PROVE  \A c \in Contexts :
           /\ Recording(c) \/ retire_value[c] > completed_command_retirement'
           /\ active_command_buffers = 0 => retire_value[c] > gpuRetired
<1> DEFINE n == command_context_count
           h == next_command_context
<1>1. call.op = "none" /\ HeadIsBusy /\ completed_command_retirement' = Observed
  BY DEF BeginGrowing
<1>2. h \in Contexts /\ n \in Nat \ {0} /\ Contexts = 1..n
  <2>1. h \in Contexts /\ n \in Nat
    BY <1>1, ContextTypes DEF IInv, CallInv
  <2>2. QED
    BY <2>1 DEF Contexts
<1>3. \A c \in Contexts :
        /\ buffer[c] \in {"initial", "recording", "submitted"}
        /\ retire_value[c] \in Nat
        /\ buffer[c] = "submitted" <=> retire_value[c] # 0
        /\ retire_value[c] <= command_retirement_value
  BY <1>1, ContextTypes DEF Booked, BatchInv, Submitting
<1>4. /\ Observed \in Nat /\ completed_command_retirement <= Observed
      /\ completed_command_retirement \in Nat /\ gpuRetired \in Nat
      /\ command_retirement_value \in Nat
  BY ObservationAgrees, ContextTypes
<1>5. \A c \in Contexts :
        \/ RankOf(buffer[h]) < RankOf(buffer[c])
        \/ RankOf(buffer[h]) = RankOf(buffer[c]) /\ retire_value[h] <= retire_value[c]
  <2>1. PICK w : Circle(w, h, next, previous, n) /\ InOrder(w, retire_value, buffer, n)
    BY <1>1 DEF Booked, Listed
  <2>2. w[0] = h /\ \A c \in 1..n : \E k \in 0..(n - 1) : w[k] = c
    BY <2>1 DEF Circle
  <2>3. ASSUME NEW c \in Contexts
        PROVE  \/ RankOf(buffer[h]) < RankOf(buffer[c])
               \/ RankOf(buffer[h]) = RankOf(buffer[c]) /\ retire_value[h] <= retire_value[c]
    <3>1. PICK k \in 0..(n - 1) : w[k] = c
      BY <1>2, <2>2
    <3>2. CASE k = 0
      BY <1>2, <1>3, <2>2, <3>1, <3>2
    <3>3. CASE k # 0
      <4>1. 0 \in 0..(n - 1) /\ 0 < k
        BY <1>2, <3>3
      <4>2. QED
        BY <2>1, <2>2, <3>1, <4>1 DEF InOrder
    <3>4. QED
      BY <3>2, <3>3
  <2>4. QED
    BY <2>3
<1>6. CASE Recording(h)
  <2>1. \A c \in Contexts : Recording(c)
    BY <1>2, <1>3, <1>5, <1>6 DEF Recording, RankOf
  <2>2. Recordings # {}
    BY <1>2, <1>6 DEF Recordings
  <2>3. active_command_buffers # 0
    BY <2>2, FiniteRecordings, FS_EmptySet DEF Booked, BatchInv
  <2>4. QED
    BY <2>1, <2>3
<1>7. CASE ~Recording(h)
  <2>1. ObservedValues[h] > Observed
    BY <1>1, <1>7 DEF HeadIsBusy
  <2>2. /\ ObservedValues[h] = retire_value[h] \/ ObservedValues[h] = 0
    BY <1>2 DEF ObservedValues, PolledValues, ResetValues
  <2>3. retire_value[h] > Observed /\ buffer[h] = "submitted"
    BY <1>2, <1>3, <1>4, <2>1, <2>2
  <2>4. \A c \in Contexts : Recording(c) \/ (buffer[c] = "submitted" /\ retire_value[h] <= retire_value[c])
    BY <1>3, <1>5, <2>3 DEF Recording, RankOf
  <2>5. ASSUME NEW c \in Contexts, ~Recording(c)
        PROVE  retire_value[c] > Observed
    BY <1>2, <1>3, <1>4, <2>3, <2>4, <2>5
  <2>6. ASSUME active_command_buffers = 0
        PROVE  Observed = gpuRetired /\ \A c \in Contexts : ~Recording(c)
    <3>1. Recordings = {}
      BY <2>6, FiniteRecordings, FS_EmptySet DEF Booked, BatchInv
    <3>2. retire_value[h] > completed_command_retirement
      BY <1>2, <1>3, <1>4, <2>3
    <3>3. Observed = Polled
      BY <2>6, <3>2 DEF PollsFirst, Observed
    <3>4. completed_command_retirement # command_retirement_value
      BY <1>2, <1>3, <1>4, <3>2
    <3>5. QED
      BY <3>1, <3>3, <3>4 DEF Polled, Recordings
  <2>7. QED
    BY <1>1, <2>5, <2>6
<1>8. QED
  BY <1>6, <1>7

(***************************************************************************)
(* acquire_command_context grows the pool only when no context can be      *)
(* reused.                                                                 *)
(***************************************************************************)
THEOREM GrowthIsJustified == Spec => GrowsOnlyWhenBusy
<1>1. ASSUME IInv, Booked, [Next]_vars, command_context_count' > command_context_count
      PROVE  BeginGrowing
  <2>1. command_context_count \in Nat
    BY <1>1, ContextTypes
  <2>2. command_context_count' # command_context_count /\ command_context_count' # 0
    BY <1>1, <2>1
  <2>3. QED
    BY <1>1, <2>2 DEF Next, BeginReusing, EndBatch, RetirementAvailable, Throttle, ThrottleReturns,
       QueueBatch, WaitTimeline, WaitTimelineReturns, Drain, WaitIdleReturns, DestroyDevice,
       GpuCompletesWork, GpuSignalsRetirement, vars, poolVars
<1>2. IInv /\ Booked /\ [Next]_vars =>
        [command_context_count' > command_context_count =>
           \A c \in Contexts :
             /\ Recording(c) \/ retire_value[c] > completed_command_retirement'
             /\ active_command_buffers = 0 => retire_value[c] > gpuRetired]_vars
  BY <1>1, GrowthMeansBusy
<1>3. QED
  BY <1>2, BookkeepingInvariance, PTL DEF Spec, GrowsOnlyWhenBusy
=============================================================================
