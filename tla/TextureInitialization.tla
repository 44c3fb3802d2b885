------------------------ MODULE TextureInitialization ------------------------
(***************************************************************************)
(* TextureInitializationList (src/src/NoGraphicsAPI.cpp): the doubly       *)
(* linked list, threaded through the textures themselves, of those whose   *)
(* first layout transition no command buffer has recorded, and the loop of *)
(* begin_commands that empties it. A list is a record of its two ends and  *)
(* of the links of every texture.                                          *)
(***************************************************************************)
EXTENDS Integers, Sequences, FiniteSets, SequencesExt

CONSTANTS
  Images,                  \* VkImage handles, which the driver uses again
  image_barrier_batch_size \* 64 in the code

NoImage == "VK_NULL_HANDLE"

ASSUME ImagesAssumption ==
  /\ IsFiniteSet(Images) /\ NoImage \notin Images
  /\ image_barrier_batch_size \in Nat \ {0}

Detached == [previous |-> NoImage, next |-> NoImage, owned |-> FALSE]
EmptyList == [first |-> NoImage, last |-> NoImage, links |-> [i \in Images |-> Detached]]
Lists == [first : Images \cup {NoImage}, last : Images \cup {NoImage},
          links : [Images -> [previous : Images \cup {NoImage}, next : Images \cup {NoImage},
                              owned : BOOLEAN]]]

WithLink(links, i, link, target) ==
  IF i = NoImage THEN links ELSE [links EXCEPT ![i][link] = target]

append_texture_initialization(l, i) ==
  [first |-> IF l.last = NoImage THEN i ELSE l.first,
   last |-> i,
   links |-> [WithLink(l.links, l.last, "next", i) EXCEPT
                ![i] = [previous |-> l.last, next |-> NoImage, owned |-> TRUE]]]

MutantKeepsLast(l, i) ==
  LET node == l.links[i]
      around == WithLink(WithLink(l.links, node.previous, "next", node.next),
                         node.next, "previous", node.previous)
  IN [first |-> IF node.previous = NoImage THEN node.next ELSE l.first,
      last |-> l.last,
      links |-> [around EXCEPT ![i] = Detached]]
remove_texture_initialization(l, i) ==
  LET node == l.links[i]
      around == WithLink(WithLink(l.links, node.previous, "next", node.next),
                         node.next, "previous", node.previous)
  IN [first |-> IF node.previous = NoImage THEN node.next ELSE l.first,
      last |-> IF node.next = NoImage THEN node.previous ELSE l.last,
      links |-> [around EXCEPT ![i] = Detached]]

(***************************************************************************)
(* The loop of begin_commands: barriers gather in an array of              *)
(* image_barrier_batch_size and are recorded when it is full and, if any   *)
(* are left, at the end.                                                   *)
(***************************************************************************)
Flushed(batches, barriers) == IF barriers = <<>> THEN batches ELSE Append(batches, barriers)
Recording(loop) ==
  LET barriers == Append(loop.barriers, loop.list.first)
      full == Len(barriers) = image_barrier_batch_size
  IN [list |-> remove_texture_initialization(loop.list, loop.list.first),
      barriers |-> IF full THEN <<>> ELSE barriers,
      batches |-> IF full THEN Append(loop.batches, barriers) ELSE loop.batches]
Iteration(loop) == IF loop.list.first = NoImage THEN loop ELSE Recording(loop)
RecordedPending(l) ==
  LET loop[k \in 0..Cardinality(Images)] ==
        IF k = 0 THEN [list |-> l, barriers |-> <<>>, batches |-> <<>>] ELSE Iteration(loop[k - 1])
      end == loop[Cardinality(Images)]
  IN [list |-> end.list, batches |-> Flushed(end.batches, end.barriers)]

(* The textures of the list, from one end along the links of one kind      *)
Following(l, end, link, seen) == IF seen = <<>> THEN end ELSE l.links[Last(seen)][link]
Longer(l, end, link, seen) ==
  LET i == Following(l, end, link, seen) IN IF i = NoImage THEN seen ELSE Append(seen, i)
Walk(l, end, link) ==
  LET walk[k \in 0..Cardinality(Images)] == IF k = 0 THEN <<>> ELSE Longer(l, end, link, walk[k - 1])
  IN walk[Cardinality(Images)]
=============================================================================
