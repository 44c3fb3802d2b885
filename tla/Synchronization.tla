---------------------------- MODULE Synchronization ----------------------------
(***************************************************************************)
(* barrier(), with the stages and accesses it lowers to (to_vk), and what  *)
(* Vulkan makes of it: which later uses of a resource are ordered after an *)
(* earlier use, and see what it wrote. Sets of flags are sets of their     *)
(* names.                                                                  *)
(***************************************************************************)
EXTENDS Integers, Sequences

(***************************************************************************)
(* The order of the stages in the three pipelines. A stage is logically    *)
(* earlier than those behind it in the sequence of its pipeline; vertex    *)
(* and mesh shaders are alternatives.                                      *)
(***************************************************************************)
Fragments == <<"EARLY_FRAGMENT_TESTS", "FRAGMENT_SHADER", "LATE_FRAGMENT_TESTS",
               "COLOR_ATTACHMENT_OUTPUT">>
Pipelines == {<<"DRAW_INDIRECT", "INDEX_INPUT", "VERTEX_SHADER">> \o Fragments,
              <<"DRAW_INDIRECT", "MESH_SHADER">> \o Fragments,
              <<"DRAW_INDIRECT", "COMPUTE_SHADER">>,
              <<"COPY">>}

GpuStages == UNION {{p[i] : i \in DOMAIN p} : p \in Pipelines}

Specified(stages) == IF "ALL_COMMANDS" \in stages
                       THEN GpuStages \cup (stages \ {"ALL_COMMANDS"})
                       ELSE stages

Before(s, t) == \E p \in Pipelines : \E i, j \in DOMAIN p : i < j /\ p[i] = s /\ p[j] = t

Earlier == [s \in GpuStages |-> {t \in GpuStages : Before(t, s)}]
Later == [s \in GpuStages |-> {t \in GpuStages : Before(s, t)}]

WithEarlier(stages) ==
  Specified(stages) \cup UNION {Earlier[s] : s \in Specified(stages) \cap GpuStages}

WithLater(stages) ==
  Specified(stages) \cup UNION {Later[s] : s \in Specified(stages) \cap GpuStages}

(***************************************************************************)
(* to_vk of one Stage and of one Access; a set has the flags of each.      *)
(***************************************************************************)
MutantDepthStencilTests == {"EARLY_FRAGMENT_TESTS"}
DepthStencilTests == {"EARLY_FRAGMENT_TESTS", "LATE_FRAGMENT_TESTS"}

StageFlags == [
  indirect |-> {"DRAW_INDIRECT"}, index_input |-> {"INDEX_INPUT"},
  vertex |-> {"VERTEX_SHADER"}, mesh |-> {"MESH_SHADER"},
  depth_stencil_tests |-> DepthStencilTests, fragment |-> {"FRAGMENT_SHADER"},
  color_output |-> {"COLOR_ATTACHMENT_OUTPUT"}, compute |-> {"COMPUTE_SHADER"},
  transfer |-> {"COPY"}, host |-> {"HOST"}, all_commands |-> {"ALL_COMMANDS"}]

AccessFlags == [
  transfer_read |-> {"TRANSFER_READ"}, transfer_write |-> {"TRANSFER_WRITE"},
  shader_read |-> {"SHADER_STORAGE_READ", "SHADER_SAMPLED_READ"},
  shader_write |-> {"SHADER_STORAGE_WRITE"},
  color_read |-> {"COLOR_ATTACHMENT_READ"}, color_write |-> {"COLOR_ATTACHMENT_WRITE"},
  depth_stencil_read |-> {"DEPTH_STENCIL_ATTACHMENT_READ"},
  depth_stencil_write |-> {"DEPTH_STENCIL_ATTACHMENT_WRITE"},
  indirect_read |-> {"INDIRECT_COMMAND_READ"}, index_read |-> {"INDEX_READ"},
  host_read |-> {"HOST_READ"},
  descriptor_read |-> {"SAMPLER_HEAP_READ", "RESOURCE_HEAP_READ"}]

Stages(stages) == UNION {StageFlags[s] : s \in stages}
Accesses(accesses) == UNION {AccessFlags[a] : a \in accesses}

Writes == {"TRANSFER_WRITE", "SHADER_STORAGE_WRITE", "COLOR_ATTACHMENT_WRITE",
           "DEPTH_STENCIL_ATTACHMENT_WRITE"}

-----------------------------------------------------------------------------
(***************************************************************************)
(* A use is [resource, stage, access]. What is kept of a use that was      *)
(* recorded: its submission, the stages whose later work is ordered after  *)
(* it, whether what it wrote is available, and to which stages and         *)
(* accesses it is visible.                                                 *)
(***************************************************************************)
IsWrite(use) == use.access \in Writes

Recorded(use, value) ==
  [resource |-> use.resource, stage |-> use.stage, access |-> use.access, value |-> value,
   ordered |-> {}, available |-> FALSE, visible |-> {}]

\* A write takes the place of all earlier uses, a read that of the same read.
AfterUses(uses, new, value) ==
  {u \in uses : \A n \in new :
     n.resource = u.resource => ~IsWrite(n) /\ <<n.stage, n.access>> # <<u.stage, u.access>>}
    \cup {Recorded(n, value) : n \in new}

(***************************************************************************)
(* new may follow use: nothing is written, or new comes after it and, if   *)
(* use is a write, sees it.                                                *)
(***************************************************************************)
Synchronized(use, new) ==
  \/ use.resource # new.resource
  \/ IsWrite(use) /\ <<new.stage, new.access>> \in use.visible
  \/ ~IsWrite(use) /\ (IsWrite(new) => new.stage \in use.ordered)

(***************************************************************************)
(* A memory barrier orders all work of its first scope, and what is        *)
(* ordered before that, before the work of its second scope. The scopes of *)
(* execution reach to logically earlier and later stages; those of memory  *)
(* do not. A write that once became available stays so.                    *)
(***************************************************************************)
Barrier(uses, before, before_access, after, after_access) ==
  LET source == Stages(before)
      destination == Stages(after)
      InScope(u) == ({u.stage} \cup u.ordered) \cap WithEarlier(source) # {}
      Available(u) == \/ u.available
                      \/ u.stage \in Specified(source) /\ u.access \in Accesses(before_access)
      Seen(u) == IF Available(u) THEN Specified(destination) \X Accesses(after_access) ELSE {}
      After(u) == [u EXCEPT !.ordered = @ \cup WithLater(destination),
                            !.available = Available(u),
                            !.visible = @ \cup Seen(u)]
  IN {IF InScope(u) THEN After(u) ELSE u : u \in uses}
=============================================================================
