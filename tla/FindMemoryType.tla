-------------------------- MODULE FindMemoryType ---------------------------
(***************************************************************************)
(* The loop of Device::find_memory_type over the memory types of a device, *)
(* one iteration a step, and the calls that start it.                      *)
(***************************************************************************)
EXTENDS MemoryTypes

CONSTANTS
  Devices, \* the physical devices it is run on
  Queries  \* and the arguments callers of any kind of memory pass

ASSUME QueriesAssumption == (\A d \in Devices : DeviceOK(d)) /\ (\A q \in Queries : QueryOK(q))

VARIABLES device, query, i, best

find_vars == <<device, query, i, best>>

Find(q) == query' = q /\ i' = 0 /\ best' = none /\ UNCHANGED device

Iterate == /\ i < memory_type_count
           /\ best' = Scanned(device, query, i, best)
           /\ i' = i + 1
           /\ UNCHANGED <<device, query>>

Found == i = memory_type_count

-----------------------------------------------------------------------------
FindTypeOK == /\ DeviceOK(device) /\ QueryOK(query)
              /\ i \in 0 .. memory_type_count
              /\ best \in Types \cup {none}

(* After every iteration the loop, which keeps only the best type so far,  *)
(* holds exactly the one a comparison of all the types seen would choose,  *)
(* and none only when none of them qualifies (find_memory_type).           *)
HoldsTheBest == {best} \ {none} = Best(device, query, Qualifying(device, query, i))
=============================================================================
