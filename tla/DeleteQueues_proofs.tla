-------------------------- MODULE DeleteQueues_proofs -------------------------
(***************************************************************************)
(* Proofs about the two queues of deferred deletion.                       *)
(*                                                                         *)
(* SwapchainDeleteQueue implements DeferredDestruction, for any number of  *)
(* swapchains, images and submissions. The ring stands for the sequence of *)
(* its entries from first on (Window): a push, with its growth or without, *)
(* appends to it, and collecting takes from its front. That the next entry *)
(* tells whether a swapchain has another view waiting needs an invariant   *)
(* about handles that come back: the views of one swapchain wait side by   *)
(* side, and a handle that waits exists and is not held (Queued).          *)
(*                                                                         *)
(* DeleteQueue, at the end, for any capacity.                              *)
(***************************************************************************)
EXTENDS SwapchainDeleteQueue, DeleteQueue, SequenceTheorems, WellFoundedInduction, TLAPS

-----------------------------------------------------------------------------
LEMMA LeastElement ==
  ASSUME NEW S \in SUBSET Nat, S # {}
  PROVE  Min(S) \in S /\ \A y \in S : Min(S) <= y
<1>1. PICK x \in S : \A y \in S : ~(<<y, x>> \in OpToRel(<, Nat))
  <2> DEFINE R == OpToRel(<, Nat)
  <2>1. IsWellFoundedOn(R, Nat)  BY NatLessThanWellFounded
  <2> HIDE DEF R
  <2>2. \E x \in S : \A y \in S : ~(<<y, x>> \in R)  BY <2>1, WFMin
  <2>3. QED  BY <2>2 DEF R
<1>2. \A y \in S : ~(<<y, x>> \in {ss \in Nat \X Nat : ss[1] < ss[2]})
  BY <1>1 DEF OpToRel
<1>3. ASSUME NEW y \in S  PROVE x <= y
  <2>1. x \in Nat /\ y \in Nat  OBVIOUS
  <2>2. SUFFICES ASSUME y < x PROVE FALSE  BY <2>1
  <2> DEFINE p == <<y, x>>
  <2>3. p \in Nat \X Nat /\ p[1] = y /\ p[2] = x  BY <2>1
  <2>4. p \in {ss \in Nat \X Nat : ss[1] < ss[2]}  BY <2>2, <2>3
  <2>5. QED  BY <1>2, <2>4
<1>4. QED  BY <1>3 DEF Min

LEMMA GreatestElement ==
  ASSUME NEW bound \in Nat, NEW S \in SUBSET (0..bound), S # {}
  PROVE  Max(S) \in S /\ \A y \in S : y <= Max(S)
<1> DEFINE T == {bound - y : y \in S}
<1>1. T \in SUBSET Nat /\ T # {}
  <2>1. \A y \in S : bound - y \in Nat
    OBVIOUS
  <2>2. PICK y \in S : TRUE
    OBVIOUS
  <2>3. bound - y \in T
    OBVIOUS
  <2>4. QED
    BY <2>1, <2>3
<1>2. Min(T) \in T /\ \A y \in T : Min(T) <= y
  BY <1>1, LeastElement
<1>3. PICK x \in S : Min(T) = bound - x
  BY <1>2
<1>4. ASSUME NEW y \in S  PROVE y <= x
  <2>1. bound - y \in T
    OBVIOUS
  <2>2. bound - x <= bound - y
    BY <1>2, <1>3, <2>1
  <2>3. x \in 0..bound /\ y \in 0..bound
    OBVIOUS
  <2>4. QED
    BY <2>2, <2>3
<1>5. \E z \in S : \A y \in S : z >= y
  <2>1. \A y \in S : x >= y
    BY <1>4
  <2>2. QED
    BY <2>1
<1>6. Max(S) \in S /\ \A y \in S : Max(S) >= y
  BY <1>5 DEF Max
<1>7. QED
  BY <1>6

-----------------------------------------------------------------------------
(* Cells of a ring *)

Shape(r) ==
  /\ r = [entries |-> r.entries, capacity |-> r.capacity, first |-> r.first, count |-> r.count]
  /\ r.capacity \in Nat /\ r.count \in 0..r.capacity
  /\ r.first \in 0..r.capacity /\ (r.capacity # 0 => r.first < r.capacity)
  /\ r.entries = [c \in 0..(r.capacity - 1) |-> r.entries[c]]

LEMMA Wrapped ==
  ASSUME NEW c \in Nat \ {0}, NEW x \in 0..(2 * c - 1)
  PROVE  x % c = (IF x < c THEN x ELSE x - c) /\ x % c \in 0..(c - 1)
  BY SMT

(* The i-th cell from first.                                               *)
LEMMA PlaceInRing ==
  ASSUME NEW r, Shape(r), NEW i \in 0..r.capacity, r.capacity # 0
  PROVE  /\ (r.first + i) % r.capacity
              = (IF r.first + i < r.capacity THEN r.first + i ELSE r.first + i - r.capacity)
         /\ (r.first + i) % r.capacity \in 0..(r.capacity - 1)
<1> PICK c \in Nat, f \in Nat : c = r.capacity /\ f = r.first  BY DEF Shape
<1>1. c \in Nat \ {0} /\ f < c /\ i \in 0..c  BY DEF Shape
<1> PICK x \in Nat : x = f + i  BY <1>1
<1>2. x \in 0..(2 * c - 1)  BY <1>1
<1>3. x % c = (IF x < c THEN x ELSE x - c) /\ x % c \in 0..(c - 1)  BY <1>1, <1>2, Wrapped
<1>4. QED  BY <1>3

LEMMA PlacesDiffer ==
  ASSUME NEW r, Shape(r), NEW i \in 0..r.capacity, NEW j \in 0..(r.capacity - 1), i < j, r.capacity # 0
  PROVE  (r.first + i) % r.capacity # (r.first + j) % r.capacity
<1> PICK c \in Nat, f \in Nat : c = r.capacity /\ f = r.first  BY DEF Shape
<1>1. /\ (f + i) % c = (IF f + i < c THEN f + i ELSE f + i - c)
      /\ (f + j) % c = (IF f + j < c THEN f + j ELSE f + j - c)
  BY PlaceInRing
<1>2. f < c  BY DEF Shape
<1>3. QED  BY <1>1, <1>2

(* Growth moves what had wrapped around behind the rest: no entry changes  *)
(* its place in the queue.                                                 *)
LEMMA GrownKeeps ==
  ASSUME NEW r, Shape(r), r.count = r.capacity
  PROVE  /\ Shape(Grown(r)) /\ Grown(r).count = r.count /\ r.count < Grown(r).capacity
         /\ \A i \in 0..(r.count - 1) : Cell(Grown(r), i) = Cell(r, i)
<1> PICK c \in Nat, f \in Nat : c = r.capacity /\ f = r.first  BY DEF Shape
<1> DEFINE size == IF c = 0 THEN 1 ELSE 2 * c
           G == [i \in 0..(size - 1) |-> IF i < f THEN Cleared
                                         ELSE IF i < c THEN r.entries[i]
                                         ELSE IF i - c < f THEN r.entries[i - c]
                                         ELSE Garbage]
<1>1. f \in 0..c /\ (c # 0 => f < c)  BY DEF Shape
<1>2. size \in Nat /\ c < size /\ f < size  BY <1>1
<1>3. Grown(r) = [entries |-> G, capacity |-> size, first |-> f, count |-> c]
  <2>1. Grown(r) = [r EXCEPT !.capacity = size, !.entries = G]  BY DEF Grown
  <2> HIDE DEF size, G
  <2>2. QED  BY <2>1 DEF Shape
<1> HIDE DEF size
<1>4. G = [i \in 0..(size - 1) |-> G[i]]  OBVIOUS
<1> HIDE DEF G
<1>5. Shape(Grown(r))  BY <1>1, <1>2, <1>3, <1>4 DEF Shape
<1>6. ASSUME NEW i \in 0..(c - 1)  PROVE Cell(Grown(r), i) = Cell(r, i)
  <2>1. c # 0 /\ i \in 0..c /\ size = 2 * c  BY DEF size
  <2>2. (f + i) % c = IF f + i < c THEN f + i ELSE f + i - c  BY <2>1, PlaceInRing
  <2>3. f + i \in 0..(size - 1)  BY <1>1, <2>1
  <2>4. (f + i) % size = f + i  BY <1>2, <2>3
  <2>5. Cell(Grown(r), i) = G[f + i]  BY <1>3, <2>4 DEF Cell
  <2>6. G[f + i] = IF f + i < c THEN r.entries[f + i] ELSE r.entries[f + i - c]
    BY <1>1, <2>3 DEF G
  <2>7. QED  BY <2>2, <2>5, <2>6 DEF Cell
<1>7. QED  BY <1>2, <1>3, <1>5, <1>6

LEMMA PushedAppends ==
  ASSUME NEW r, Shape(r), NEW e
  PROVE  /\ Shape(Pushed(r, e)) /\ Pushed(r, e).count = r.count + 1
         /\ \A i \in 0..(r.count - 1) : Cell(Pushed(r, e), i) = Cell(r, i)
         /\ Cell(Pushed(r, e), r.count) = e
<1> DEFINE room == IF r.count = r.capacity THEN Grown(r) ELSE r
<1>1. /\ Shape(room) /\ room.count = r.count /\ r.count < room.capacity
      /\ \A i \in 0..(r.count - 1) : Cell(room, i) = Cell(r, i)
  <2>1. CASE r.count = r.capacity  BY <2>1, GrownKeeps
  <2>2. CASE r.count # r.capacity  BY <2>2 DEF Shape
  <2>3. QED  BY <2>1, <2>2
<1> DEFINE back == (room.first + room.count) % room.capacity
<1>2. Pushed(r, e) = [room EXCEPT !.entries[back] = e, !.count = room.count + 1]
  BY DEF Pushed
<1> HIDE DEF room
<1> PICK c \in Nat, f \in Nat, n \in Nat : c = room.capacity /\ f = room.first /\ n = room.count
  BY <1>1 DEF Shape
<1>3. n < c /\ n = r.count /\ f < c /\ c # 0 /\ n \in 0..c  BY <1>1 DEF Shape
<1>4. back \in 0..(c - 1)  BY <1>1, <1>3, PlaceInRing
<1> HIDE DEF back
<1> DEFINE E == [room.entries EXCEPT ![back] = e]
<1>5. Pushed(r, e) = [entries |-> E, capacity |-> c, first |-> f, count |-> n + 1]
  BY <1>1, <1>2 DEF Shape
<1>6. E = [i \in 0..(c - 1) |-> IF i = back THEN e ELSE room.entries[i]]
  BY <1>1 DEF Shape
<1> HIDE DEF E
<1>7. E = [i \in 0..(c - 1) |-> E[i]]  BY <1>6
<1>8. Shape(Pushed(r, e))  BY <1>3, <1>5, <1>7 DEF Shape
<1>9. ASSUME NEW i \in 0..(n - 1)  PROVE Cell(Pushed(r, e), i) = Cell(room, i)
  <2>1. (f + i) % c # back /\ (f + i) % c \in 0..(c - 1)
    <3>1. i \in 0..c /\ n \in 0..(c - 1) /\ i < n  BY <1>3
    <3>2. QED  BY <1>1, <1>3, <3>1, PlaceInRing, PlacesDiffer DEF back
  <2>2. E[(f + i) % c] = room.entries[(f + i) % c]  BY <1>6, <2>1
  <2>3. QED  BY <1>5, <2>2 DEF Cell
<1>10. Cell(Pushed(r, e), n) = e
  <2>1. Cell(Pushed(r, e), n) = E[back]  BY <1>5 DEF Cell, back
  <2>2. QED  BY <1>4, <1>6, <2>1
<1>11. QED  BY <1>1, <1>3, <1>5, <1>8, <1>9, <1>10

-----------------------------------------------------------------------------
(***************************************************************************)
(* The views of a swapchain, pushed one after the other: there is a ring   *)
(* after every push, as a least number of pushes without one would be 0 or *)
(* follow one that has it.                                                 *)
(***************************************************************************)
Pushes(r, value, s, f, last) ==
  f = [index \in 0..last |-> IF index = 0 THEN r ELSE Pushed(f[index - 1], Entry(value, s, index))]

LEMMA PushesExist ==
  ASSUME NEW r, NEW value, NEW s, NEW last \in Nat
  PROVE  \E f : Pushes(r, value, s, f, last)
<1> DEFINE Without == {n \in Nat : ~ \E f : Pushes(r, value, s, f, n)}
<1>1. SUFFICES ASSUME Without # {} PROVE FALSE
  OBVIOUS
<1> DEFINE m == Min(Without)
<1>2. m \in Without /\ \A n \in Without : m <= n
  <2>1. Without \in SUBSET Nat
    OBVIOUS
  <2> HIDE DEF Without
  <2>2. QED
    BY <1>1, <2>1, LeastElement
<1> HIDE DEF m
<1>3. CASE m = 0
  <2> DEFINE f == [n \in 0..0 |-> r]
  <2>1. f = [n \in 0..0 |-> IF n = 0 THEN r ELSE Pushed(f[n - 1], Entry(value, s, n))]
    <3>1. \A n \in 0..0 : n = 0
      OBVIOUS
    <3>2. QED
      BY <3>1
  <2>2. Pushes(r, value, s, f, 0)
    BY <2>1 DEF Pushes
  <2>3. QED
    BY <2>2, <1>2, <1>3
<1>4. CASE m # 0
  <2>1. m \in Nat /\ m - 1 \in Nat /\ m - 1 \notin Without
    <3>1. m \in Nat /\ m - 1 \in Nat /\ ~(m <= m - 1)
      BY <1>2, <1>4
    <3>2. QED
      BY <1>2, <3>1
  <2>2. PICK f : Pushes(r, value, s, f, m - 1)
    BY <2>1
  <2> DEFINE g == [n \in 0..m |-> IF n = m THEN Pushed(f[m - 1], Entry(value, s, m)) ELSE f[n]]
  <2>3. ASSUME NEW n \in 0..m
        PROVE  g[n] = IF n = 0 THEN r ELSE Pushed(g[n - 1], Entry(value, s, n))
    <3>1. CASE n = 0
      <4>1. g[n] = f[0] /\ 0 \in 0..(m - 1)
        BY <2>1, <3>1, <1>4
      <4>2. f[0] = r
        BY <2>2, <4>1 DEF Pushes
      <4>3. QED
        BY <3>1, <4>1, <4>2
    <3>2. CASE n = m
      <4>1. g[n] = Pushed(f[m - 1], Entry(value, s, m)) /\ g[m - 1] = f[m - 1]
        BY <2>1, <3>2
      <4>2. QED
        BY <3>2, <4>1, <1>4
    <3>3. CASE n # 0 /\ n # m
      <4>1. n \in 0..(m - 1) /\ g[n] = f[n] /\ g[n - 1] = f[n - 1]
        BY <2>1, <3>3
      <4>2. f[n] = Pushed(f[n - 1], Entry(value, s, n))
        BY <2>2, <3>3, <4>1 DEF Pushes
      <4>3. QED
        BY <3>3, <4>1, <4>2
    <3>4. QED
      BY <3>1, <3>2, <3>3
  <2>4. g = [n \in 0..m |-> IF n = 0 THEN r ELSE Pushed(g[n - 1], Entry(value, s, n))]
    <3>1. g = [n \in 0..m |-> g[n]]
      OBVIOUS
    <3> HIDE DEF g
    <3>2. QED
      BY <2>3, <3>1
  <2>5. Pushes(r, value, s, g, m)
    BY <2>4 DEF Pushes
  <2>6. QED
    BY <2>5, <1>2
<1>5. QED
  BY <1>3, <1>4

LEMMA PushedViewsAppends ==
  ASSUME NEW r, Shape(r), NEW value, NEW s, NEW n \in Nat
  PROVE  /\ Shape(PushedViews(r, value, s, n)) /\ PushedViews(r, value, s, n).count = r.count + n
         /\ \A i \in 0..(r.count + n - 1) :
              Cell(PushedViews(r, value, s, n), i)
                = IF i < r.count THEN Cell(r, i) ELSE Entry(value, s, i - r.count + 1)
<1> DEFINE f == CHOOSE f : Pushes(r, value, s, f, n)
<1>1. Pushes(r, value, s, f, n)  BY PushesExist
<1>2. PushedViews(r, value, s, n) = f[n]  BY DEF PushedViews, Pushes
<1> HIDE DEF f
<1>3. f[0] = r /\ \A k \in 1..n : f[k] = Pushed(f[k - 1], Entry(value, s, k))
  BY <1>1 DEF Pushes
<1> PICK c \in Nat : c = r.count  BY DEF Shape
<1> DEFINE Good(k) ==
             /\ Shape(f[k]) /\ f[k].count = c + k
             /\ \A i \in 0..(c + k - 1) :
                  Cell(f[k], i) = IF i < c THEN Cell(r, i) ELSE Entry(value, s, i - c + 1)
           Bad == {k \in 0..n : ~Good(k)}
<1>4. Good(0)
  <2>1. \A i \in 0..(c - 1) : i < c  OBVIOUS
  <2>2. QED  BY <1>3, <2>1
<1>5. ASSUME NEW k \in 1..n, Good(k - 1)  PROVE Good(k)
  <2> DEFINE x == f[k - 1]
  <2>1. /\ Shape(x) /\ x.count = c + k - 1
        /\ \A i \in 0..(c + k - 2) : Cell(x, i) = IF i < c THEN Cell(r, i) ELSE Entry(value, s, i - c + 1)
    BY <1>5
  <2>2. f[k] = Pushed(x, Entry(value, s, k))  BY <1>3
  <2> HIDE DEF Good, Bad, x
  <2>3. /\ Shape(f[k]) /\ f[k].count = x.count + 1
        /\ \A i \in 0..(x.count - 1) : Cell(f[k], i) = Cell(x, i)
        /\ Cell(f[k], x.count) = Entry(value, s, k)
    BY <2>1, <2>2, PushedAppends
  <2>4. f[k].count = c + k  BY <2>1, <2>3
  <2>5. ASSUME NEW i \in 0..(c + k - 1)
        PROVE  Cell(f[k], i) = IF i < c THEN Cell(r, i) ELSE Entry(value, s, i - c + 1)
    <3>1. CASE i = c + k - 1
      <4>1. i = x.count /\ ~(i < c) /\ i - c + 1 = k  BY <2>1, <3>1
      <4>2. QED  BY <2>3, <4>1
    <3>2. CASE i # c + k - 1
      <4>1. i \in 0..(c + k - 2) /\ i \in 0..(x.count - 1)  BY <2>1, <3>2
      <4>2. QED  BY <2>1, <2>3, <4>1
    <3>3. QED  BY <3>1, <3>2
  <2>6. QED  BY <2>3, <2>4, <2>5 DEF Good
<1>6. Bad = {}
  <2>1. SUFFICES ASSUME Bad # {} PROVE FALSE  OBVIOUS
  <2> DEFINE m == Min(Bad)
  <2>2. m \in Bad /\ \A k \in Bad : m <= k
    <3>1. Bad \in SUBSET Nat  OBVIOUS
    <3> HIDE DEF Bad
    <3>2. QED  BY <2>1, <3>1, LeastElement
  <2> HIDE DEF m, Good
  <2>3. m \in 1..n /\ m - 1 \in 0..n  BY <2>2, <1>4
  <2>4. m - 1 \notin Bad  BY <2>2, <2>3
  <2>5. Good(m - 1)  BY <2>3, <2>4
  <2>6. Good(m)  BY <1>5, <2>3, <2>5
  <2>7. QED  BY <2>2, <2>6
<1>7. n \in 0..n  OBVIOUS
<1>8. Good(n)
  <2> HIDE DEF Good
  <2>1. QED  BY <1>6, <1>7
<1>9. QED  BY <1>2, <1>8

-----------------------------------------------------------------------------
(* Collecting *)

LEMMA CollectedLeaves ==
  ASSUME NEW r, Shape(r), NEW n \in 0..r.count
  PROVE  /\ Shape(Collected(r, n)) /\ Collected(r, n).count = r.count - n
         /\ \A i \in 0..(r.count - n - 1) : Cell(Collected(r, n), i) = Cell(r, n + i)
<1> PICK c \in Nat, f \in Nat, w \in Nat : c = r.capacity /\ f = r.first /\ w = r.count  BY DEF Shape
<1> DEFINE E == [p \in DOMAIN r.entries |->
                   IF \E i \in 0..(n - 1) : p = (f + i) % c THEN Cleared ELSE r.entries[p]]
           first == IF n = w THEN 0 ELSE (f + n) % c
<1>1. /\ w \in 0..c /\ n \in 0..w /\ f \in 0..c /\ (c # 0 => f < c)
      /\ DOMAIN r.entries = 0..(c - 1)
  BY DEF Shape
<1>2. Collected(r, n) = [entries |-> E, capacity |-> c, first |-> first, count |-> w - n]
  <2>1. Collected(r, n) = [r EXCEPT !.entries = E, !.first = first, !.count = w - n]
    BY DEF Collected
  <2> HIDE DEF E, first
  <2>2. QED  BY <2>1 DEF Shape
<1>3. E = [p \in 0..(c - 1) |-> E[p]]  BY <1>1
<1>4. n # w => /\ first = (IF f + n < c THEN f + n ELSE f + n - c)
               /\ first \in 0..(c - 1) /\ c # 0
  <2>1. SUFFICES ASSUME n # w PROVE /\ first = (IF f + n < c THEN f + n ELSE f + n - c)
                                    /\ first \in 0..(c - 1) /\ c # 0
    OBVIOUS
  <2>2. c # 0 /\ n \in 0..c  BY <1>1, <2>1
  <2>3. QED  BY <2>1, <2>2, PlaceInRing
<1>5. first \in 0..c /\ (c # 0 => first < c)
  <2> HIDE DEF first
  <2>1. n = w => first = 0  BY DEF first
  <2>2. QED  BY <1>1, <1>4, <2>1
<1> HIDE DEF first
<1>6. Shape(Collected(r, n))
  <2> HIDE DEF E
  <2>1. QED  BY <1>1, <1>2, <1>3, <1>5 DEF Shape
<1>7. ASSUME NEW i \in 0..(w - n - 1)  PROVE Cell(Collected(r, n), i) = Cell(r, n + i)
  <2>1. n # w /\ i \in 0..c /\ n + i \in 0..(c - 1) /\ n + i \in 0..c  BY <1>1
  <2> PICK k \in Nat : k = n + i  BY <2>1
  <2>2. (f + k) % c = (IF f + k < c THEN f + k ELSE f + k - c) /\ (f + k) % c \in 0..(c - 1)
    BY <1>4, <2>1, PlaceInRing
  <2>3. (first + i) % c = (f + k) % c
    <3>1. (first + i) % c = IF first + i < c THEN first + i ELSE first + i - c
      <4>1. /\ Collected(r, n).capacity = c /\ Collected(r, n).first = first  BY <1>2
      <4>2. QED  BY <1>4, <1>6, <2>1, <4>1, PlaceInRing
    <3>2. first = (IF f + n < c THEN f + n ELSE f + n - c)  BY <1>4, <2>1
    <3>3. (f + k) % c = IF f + k < c THEN f + k ELSE f + k - c  BY <2>2
    <3>4. (IF first + i < c THEN first + i ELSE first + i - c) = IF f + k < c THEN f + k ELSE f + k - c
      <4>1. k = n + i /\ i \in Nat /\ n \in Nat /\ f < c /\ k < c  BY <1>1, <2>1
      <4>2. CASE f + n < c
        <5>1. first = f + n  BY <3>2, <4>2
        <5>2. QED  BY <4>1, <5>1
      <4>3. CASE ~(f + n < c)
        <5>1. first = f + n - c  BY <3>2, <4>3
        <5>2. first + i = f + k - c /\ f + k >= c /\ f + k - c < c  BY <4>1, <4>3, <5>1
        <5>3. QED  BY <4>1, <5>2
      <4>4. QED  BY <4>2, <4>3
    <3>5. QED  BY <3>1, <3>3, <3>4
  <2>4. ASSUME NEW j \in 0..(n - 1), (f + k) % c = (f + j) % c  PROVE FALSE
    <3>1. j \in 0..c /\ k \in 0..(c - 1) /\ j < k  BY <1>1, <2>1
    <3>2. QED  BY <1>4, <2>1, <2>4, <3>1, PlacesDiffer
  <2>5. E[(f + k) % c] = r.entries[(f + k) % c]  BY <1>1, <2>2, <2>4
  <2>6. Cell(Collected(r, n), i) = E[(first + i) % c]
    <3> HIDE DEF E
    <3>1. QED  BY <1>2 DEF Cell
  <2>7. QED  BY <2>3, <2>5, <2>6 DEF Cell
<1>8. QED  BY <1>2, <1>6, <1>7

-----------------------------------------------------------------------------
(* The ring as a queue *)

Waiting == [retire_value : 0..MaxValue, swapchain : Swapchains, view : 1..MaxViews]

LEMMA WindowIsSequence ==
  ASSUME NEW r, Shape(r), \A i \in 0..(r.count - 1) : Cell(r, i) \in Waiting
  PROVE  /\ Window(r) \in Seq(Waiting) /\ Len(Window(r)) = r.count
         /\ \A i \in 1..r.count : Window(r)[i] = Cell(r, i - 1)
<1> PICK n \in Nat : n = r.count  BY DEF Shape
<1>1. \A i \in 1..n : i - 1 \in 0..(n - 1)  OBVIOUS
<1>2. Window(r) = [i \in 1..n |-> Cell(r, i - 1)]  BY DEF Window
<1>3. Window(r) \in [1..n -> Waiting]  BY <1>1, <1>2
<1>4. QED  BY <1>2, <1>3

LEMMA WindowCells ==
  ASSUME NEW r, Shape(r), Window(r) \in Seq(Waiting)
  PROVE  /\ Len(Window(r)) = r.count
         /\ \A i \in 0..(r.count - 1) : Cell(r, i) = Window(r)[i + 1]
<1> PICK n \in Nat : n = r.count  BY DEF Shape
<1>1. Window(r) = [i \in 1..n |-> Cell(r, i - 1)]  BY DEF Window
<1>2. ASSUME NEW i \in 0..(n - 1)  PROVE Cell(r, i) = Window(r)[i + 1]
  <2>1. i + 1 \in 1..n /\ (i + 1) - 1 = i  OBVIOUS
  <2>2. QED  BY <1>1, <2>1
<1>3. Len(Window(r)) = n  BY <1>1
<1>4. QED  BY <1>2, <1>3

(* Views of one swapchain wait side by side.                               *)
Together(w) ==
  \A i, k \in 1..Len(w) : w[i].swapchain = w[k].swapchain
                         => \A j \in i..k : w[j].swapchain = w[i].swapchain

(* They do so in the order of their values, as push asserts.               *)
Monotonic(w) == \A i, j \in 1..Len(w) : i <= j => w[i].retire_value <= w[j].retire_value

(* The entries of a swapchain with n views.                                *)
EntriesFor(value, s, n) == [index \in 1..n |-> Entry(value, s, index)]

LEMMA PushedIsAppended ==
  ASSUME ConstantsAssumption, NEW r, Shape(r), Window(r) \in Seq(Waiting),
         NEW value \in 0..MaxValue, NEW s \in Swapchains, NEW n \in 0..MaxViews
  PROVE  /\ Shape(PushedViews(r, value, s, n))
         /\ Window(PushedViews(r, value, s, n)) \in Seq(Waiting)
         /\ Window(PushedViews(r, value, s, n)) = Window(r) \o EntriesFor(value, s, n)
<1> DEFINE p == PushedViews(r, value, s, n)
           w == Window(r)
           e == EntriesFor(value, s, n)
<1> PICK c \in Nat : c = r.count  BY DEF Shape
<1>0. n \in Nat  BY DEF ConstantsAssumption
<1>1. /\ Shape(p) /\ p.count = c + n
      /\ \A i \in 0..(c + n - 1) : Cell(p, i) = IF i < c THEN Cell(r, i) ELSE Entry(value, s, i - c + 1)
  BY <1>0, PushedViewsAppends
<1> HIDE DEF p
<1>2. Len(w) = c /\ \A i \in 0..(c - 1) : Cell(r, i) = w[i + 1]  BY WindowCells
<1>3. e \in Seq(Waiting) /\ Len(e) = n /\ \A i \in 1..n : e[i] = Entry(value, s, i)
  <2>1. \A i \in 1..n : Entry(value, s, i) \in Waiting
    BY <1>0 DEF Entry, Waiting, ConstantsAssumption
  <2>2. QED  BY <1>0, <2>1 DEF EntriesFor
<1> HIDE DEF w, e
<1>4. w \in Seq(Waiting)  BY DEF w
<1>5. ASSUME NEW i \in 0..(c + n - 1)  PROVE Cell(p, i) \in Waiting /\ Cell(p, i) = (w \o e)[i + 1]
  <2>1. CASE i < c
    <3>1. i \in 0..(c - 1) /\ i + 1 \in 1..c /\ i + 1 \in 1..(c + n)  BY <1>0, <2>1
    <3>2. Cell(p, i) = w[i + 1]  BY <1>1, <1>2, <2>1, <3>1
    <3>3. (w \o e)[i + 1] = w[i + 1] /\ w[i + 1] \in Waiting
      BY <1>0, <1>2, <1>3, <1>4, <3>1
    <3>4. QED  BY <3>2, <3>3
  <2>2. CASE ~(i < c)
    <3>1. i - c + 1 \in 1..n /\ i + 1 \in 1..(c + n) /\ ~(i + 1 <= c) /\ (i + 1) - c = i - c + 1
      BY <1>0, <2>2
    <3> PICK k \in 1..n : k = i - c + 1  BY <3>1
    <3>2. Cell(p, i) = e[k] /\ e[k] \in Waiting
      <4>1. Cell(p, i) = Entry(value, s, i - c + 1)  BY <1>1, <2>2
      <4>2. e[k] = Entry(value, s, k)  BY <1>3
      <4>3. e[k] \in Waiting
        <5>1. e \in Seq(Waiting) /\ k \in 1..Len(e)  BY <1>3
        <5>2. QED  BY ONLY <5>1
      <4>4. QED  BY <4>1, <4>2, <4>3
    <3>3. (w \o e)[i + 1] = e[k]
      <4>1. (w \o e)[i + 1] = e[(i + 1) - Len(w)]
        <5>1. i + 1 \in 1..(Len(w) + Len(e)) /\ ~(i + 1 <= Len(w))  BY <1>2, <1>3, <3>1
        <5>2. QED  BY <1>3, <1>4, <5>1, ConcatProperties
      <4>2. QED  BY <1>2, <3>1, <4>1
    <3>4. QED  BY <3>2, <3>3
  <2>3. QED  BY <2>1, <2>2
<1>6. /\ Window(p) \in Seq(Waiting) /\ Len(Window(p)) = c + n
      /\ \A i \in 1..(c + n) : Window(p)[i] = Cell(p, i - 1)
  BY <1>1, <1>5, WindowIsSequence
<1>7. w \o e \in Seq(Waiting) /\ Len(w \o e) = c + n
  <2>1. w \in Seq(Waiting) /\ e \in Seq(Waiting)  BY <1>3, <1>4
  <2>2. w \o e \in Seq(Waiting) /\ Len(w \o e) = Len(w) + Len(e)  BY ONLY <2>1, ConcatProperties
  <2>3. QED  BY <1>2, <1>3, <2>2
<1>8. ASSUME NEW i \in 1..(c + n)  PROVE Window(p)[i] = (w \o e)[i]
  <2>1. i - 1 \in 0..(c + n - 1) /\ (i - 1) + 1 = i  OBVIOUS
  <2>2. QED  BY <1>5, <1>6, <2>1
<1>9. Window(p) = w \o e  BY <1>6, <1>7, <1>8, SeqEqual
<1>10. QED  BY <1>1, <1>6, <1>9 DEF p, w, e

LEMMA CollectedIsRemaining ==
  ASSUME NEW r, Shape(r), Window(r) \in Seq(Waiting), NEW n \in 0..r.count
  PROVE  /\ Shape(Collected(r, n)) /\ Window(Collected(r, n)) \in Seq(Waiting)
         /\ Window(Collected(r, n)) = SubSeq(Window(r), n + 1, Len(Window(r)))
         /\ Len(Window(Collected(r, n))) = Len(Window(r)) - n
         /\ \A i \in 1..(Len(Window(r)) - n) : Window(Collected(r, n))[i] = Window(r)[n + i]
<1> DEFINE p == Collected(r, n)
           w == Window(r)
           rest == SubSeq(w, n + 1, Len(w))
<1> PICK c \in Nat : c = r.count  BY DEF Shape
<1>1. /\ Shape(p) /\ p.count = c - n
      /\ \A i \in 0..(c - n - 1) : Cell(p, i) = Cell(r, n + i)
  BY CollectedLeaves
<1> HIDE DEF p
<1>2. Len(w) = c /\ \A i \in 0..(c - 1) : Cell(r, i) = w[i + 1]  BY WindowCells
<1> HIDE DEF w
<1>3. w \in Seq(Waiting) /\ n \in 0..c  BY DEF w
<1>4. ASSUME NEW i \in 0..(c - n - 1)  PROVE Cell(p, i) \in Waiting /\ Cell(p, i) = w[n + i + 1]
  <2>1. n + i \in 0..(c - 1) /\ n + i + 1 \in 1..c  BY <1>3
  <2>2. Cell(p, i) = w[n + i + 1]  BY <1>1, <1>2, <2>1
  <2>3. w[n + i + 1] \in Waiting  BY <1>2, <1>3, <2>1
  <2>4. QED  BY <2>2, <2>3
<1>5. c - n \in Nat  BY <1>3
<1>6. /\ Window(p) \in Seq(Waiting) /\ Len(Window(p)) = c - n
      /\ \A i \in 1..(c - n) : Window(p)[i] = Cell(p, i - 1)
  BY <1>1, <1>4, WindowIsSequence
<1>7. ASSUME NEW i \in 1..(c - n)  PROVE Window(p)[i] = w[n + i]
  <2>1. i - 1 \in 0..(c - n - 1) /\ n + (i - 1) + 1 = n + i  BY <1>3
  <2>2. QED  BY <1>4, <1>6, <2>1
<1>8. /\ rest \in Seq(Waiting) /\ Len(rest) = c - n
      /\ \A i \in 1..(c - n) : rest[i] = w[n + i]
  <2>1. \A i \in (n + 1)..c : w[i] \in Waiting  BY <1>2, <1>3
  <2>2. /\ rest \in Seq(Waiting)
        /\ Len(rest) = IF n + 1 <= c THEN c - (n + 1) + 1 ELSE 0
        /\ \A i \in 1..(c - (n + 1) + 1) : rest[i] = w[(n + 1) + i - 1]
    BY <1>2, <1>3, <2>1, SubSeqProperties
  <2> HIDE DEF rest
  <2>3. Len(rest) = c - n  BY <1>3, <2>2
  <2>4. ASSUME NEW i \in 1..(c - n)  PROVE rest[i] = w[n + i]
    <3>1. (n + 1) + i - 1 = n + i /\ i \in 1..(c - (n + 1) + 1)  BY <1>3
    <3>2. QED  BY <2>2, <3>1
  <2>5. QED  BY <2>2, <2>3, <2>4
<1>9. Window(p) = rest
  <2> HIDE DEF rest
  <2>1. QED  BY <1>5, <1>6, <1>7, <1>8, SeqEqual
<1>10. QED  BY <1>1, <1>2, <1>6, <1>7, <1>9 DEF p, w

-----------------------------------------------------------------------------
(* What is collected, and what that destroys *)

LEMMA DueInTurn ==
  ASSUME NEW r, Shape(r), Window(r) \in Seq(Waiting), NEW value
  PROVE  /\ DueCount(r, value) = Abstract!DueCount(Window(r), value)
         /\ DueCount(r, value) \in 0..r.count
<1> DEFINE w == Window(r)
           S == {n \in 0..r.count : \A i \in 0..(n - 1) : Cell(r, i).retire_value <= value}
           T == {n \in 0..Len(w) : \A i \in 1..n : w[i].retire_value <= value}
<1> PICK c \in Nat : c = r.count  BY DEF Shape
<1>1. Len(w) = c /\ \A i \in 0..(c - 1) : Cell(r, i) = w[i + 1]  BY WindowCells
<1> HIDE DEF w
<1>2. ASSUME NEW n \in 0..c
      PROVE  (\A i \in 0..(n - 1) : Cell(r, i).retire_value <= value)
               <=> (\A i \in 1..n : w[i].retire_value <= value)
  <2>1. ASSUME \A i \in 0..(n - 1) : Cell(r, i).retire_value <= value, NEW i \in 1..n
        PROVE  w[i].retire_value <= value
    <3>1. i - 1 \in 0..(n - 1) /\ i - 1 \in 0..(c - 1) /\ (i - 1) + 1 = i  OBVIOUS
    <3>2. Cell(r, i - 1) = w[i]  BY <1>1, <3>1
    <3>3. QED  BY <2>1, <3>1, <3>2
  <2>2. ASSUME \A i \in 1..n : w[i].retire_value <= value, NEW i \in 0..(n - 1)
        PROVE  Cell(r, i).retire_value <= value
    <3>1. i + 1 \in 1..n /\ i \in 0..(c - 1)  OBVIOUS
    <3>2. QED  BY <1>1, <2>2, <3>1
  <2>3. QED  BY <2>1, <2>2
<1>3. S = T  BY <1>1, <1>2
<1>4. DueCount(r, value) = Max(S) /\ Abstract!DueCount(w, value) = Max(T)
  BY DEF DueCount, Abstract!DueCount, Max, Abstract!Max
<1>5. S \in SUBSET (0..c) /\ 0 \in S  OBVIOUS
<1> HIDE DEF S, T
<1>6. Max(S) \in S  BY <1>5, GreatestElement
<1>7. QED  BY <1>3, <1>4, <1>5, <1>6 DEF w

(* As views of one swapchain wait side by side, the next entry tells       *)
(* whether another one waits.                                              *)
LEMMA NextTellsAll ==
  ASSUME NEW r, Shape(r), Window(r) \in Seq(Waiting), Together(Window(r)), NEW i \in 1..r.count
  PROVE  FinalImage(r, i - 1) <=> Abstract!LastOfSwapchain(Window(r), i)
<1> DEFINE w == Window(r)
<1> PICK c \in Nat : c = r.count  BY DEF Shape
<1>1. Len(w) = c /\ \A j \in 0..(c - 1) : Cell(r, j) = w[j + 1]  BY WindowCells
<1>2. Together(w)  OBVIOUS
<1> HIDE DEF w
<1>3. i - 1 \in 0..(c - 1) /\ (i - 1) + 1 = i  OBVIOUS
<1>4. CASE i = c
  <2>1. FinalImage(r, i - 1)  BY <1>4 DEF FinalImage
  <2>2. (i + 1)..Len(w) = {}  BY <1>1, <1>4
  <2>3. QED  BY <2>1, <2>2 DEF Abstract!LastOfSwapchain, w
<1>5. CASE i # c
  <2>1. i \in 0..(c - 1) /\ i + 1 \in (i + 1)..c /\ i + 1 \in 1..c  BY <1>5
  <2>2. FinalImage(r, i - 1) <=> w[i + 1].swapchain # w[i].swapchain
    <3>1. Cell(r, i - 1) = w[i] /\ Cell(r, (i - 1) + 1) = w[i + 1]  BY <1>1, <1>3, <2>1
    <3>2. i - 1 # r.count - 1  BY <1>5
    <3>3. QED  BY <3>1, <3>2 DEF FinalImage
  <2>3. ASSUME NEW k \in (i + 1)..c, w[k].swapchain = w[i].swapchain
        PROVE  w[i + 1].swapchain = w[i].swapchain
    <3>1. k \in 1..Len(w) /\ i \in 1..Len(w) /\ i + 1 \in i..k  BY <1>1, <2>1
    <3>2. QED  BY <1>2, <2>3, <3>1 DEF Together
  <2>4. QED  BY <1>1, <2>1, <2>2, <2>3 DEF Abstract!LastOfSwapchain, w
<1>6. QED  BY <1>4, <1>5

LEMMA DestroysTheSame ==
  ASSUME NEW r, Shape(r), Window(r) \in Seq(Waiting), Together(Window(r)), NEW n \in 0..r.count
  PROVE  /\ DestroyCalls(r, n) = Abstract!Destructions(Window(r), n)
         /\ Destroyed(DestroyCalls(r, n)) = Abstract!DestroyedBy(Abstract!Destructions(Window(r), n))
<1> DEFINE w == Window(r)
<1> PICK c \in Nat : c = r.count  BY DEF Shape
<1>1. Len(w) = c /\ \A j \in 0..(c - 1) : Cell(r, j) = w[j + 1]  BY WindowCells
<1>2. ASSUME NEW k \in 1..n
      PROVE  /\ Cell(r, k - 1) = w[k]
             /\ FinalImage(r, k - 1) = Abstract!LastOfSwapchain(w, k)
  <2>1. k - 1 \in 0..(c - 1) /\ (k - 1) + 1 = k /\ k \in 1..c  OBVIOUS
  <2>2. Cell(r, k - 1) = w[k]  BY <1>1, <2>1
  <2>3. FinalImage(r, k - 1) <=> Abstract!LastOfSwapchain(w, k)  BY <2>1, NextTellsAll
  <2>4. FinalImage(r, k - 1) \in BOOLEAN /\ Abstract!LastOfSwapchain(w, k) \in BOOLEAN
    BY DEF FinalImage, Abstract!LastOfSwapchain
  <2>5. QED  BY <2>2, <2>3, <2>4
<1> HIDE DEF w
<1>3. DestroyCalls(r, n) = [k \in 1..n |-> [swapchain |-> w[k].swapchain, view |-> w[k].view,
                                            final_image |-> Abstract!LastOfSwapchain(w, k)]]
  BY <1>2 DEF DestroyCalls
<1>4. DestroyCalls(r, n) = Abstract!Destructions(w, n)  BY <1>3 DEF Abstract!Destructions
<1>5. QED  BY <1>4 DEF w, Destroyed, Abstract!DestroyedBy

LEMMA CollectImplements ==
  ASSUME NEW r, Shape(r), Window(r) \in Seq(Waiting), Together(Window(r)), NEW value, 
         ring' = Collected(r, DueCount(r, value)), calls' = DestroyCalls(r, DueCount(r, value)),
         live' = live \ Destroyed(DestroyCalls(r, DueCount(r, value)))
  PROVE  Abstract!CollectFrom(Window(r), value)
<1> PICK n : n = DueCount(r, value)  OBVIOUS
<1>1. n \in 0..r.count /\ n = Abstract!DueCount(Window(r), value)  BY DueInTurn
<1>2. Window(Collected(r, n)) = Abstract!Remaining(Window(r), n)
  BY <1>1, CollectedIsRemaining DEF Abstract!Remaining
<1>3. Window(ring)' = Abstract!Remaining(Window(r), n)
  BY <1>2 DEF Window, Cell
<1>4. QED  BY <1>1, <1>3, DestroysTheSame DEF Abstract!CollectFrom

-----------------------------------------------------------------------------
(***************************************************************************)
(* What waits: a swapchain whose views wait exists and is not held, so its *)
(* handle cannot come back before its last view has left.                  *)
(***************************************************************************)
Queued(w, existing, heldBy, value) ==
  /\ w \in Seq(Waiting) /\ Together(w) /\ Monotonic(w)
  /\ \A i \in 1..Len(w) : /\ w[i].retire_value <= value
                          /\ <<w[i].swapchain, 0>> \in existing
                          /\ heldBy[w[i].swapchain] = 0

HeldExist(existing, heldBy) == \A s \in Swapchains : heldBy[s] # 0 => <<s, 0>> \in existing

IInv ==
  /\ TypeOK /\ Shape(ring)
  /\ Queued(Window(ring), live, held, submitted) /\ HeldExist(live, held)

LEMMA AppendedQueued ==
  ASSUME ConstantsAssumption, NEW w, NEW existing, NEW heldBy, NEW value \in 0..MaxValue,
         Queued(w, existing, heldBy, value), HeldExist(existing, heldBy),
         heldBy \in [Swapchains -> 0..MaxViews], NEW s \in Swapchains, heldBy[s] # 0
  PROVE  /\ Queued(w \o EntriesFor(value, s, heldBy[s]), existing, [heldBy EXCEPT ![s] = 0], value)
         /\ HeldExist(existing, [heldBy EXCEPT ![s] = 0])
<1> PICK n \in 1..MaxViews : n = heldBy[s]  BY DEF ConstantsAssumption
<1> DEFINE e == EntriesFor(value, s, n)
           u == w \o e
           h == [heldBy EXCEPT ![s] = 0]
<1> PICK c \in Nat : c = Len(w)  BY DEF Queued
<1>0. n \in Nat /\ n > 0  BY DEF ConstantsAssumption
<1>1. w \in Seq(Waiting) /\ Len(w) = c  BY DEF Queued
<1>2. \A t \in Swapchains : h[t] = IF t = s THEN 0 ELSE heldBy[t]  OBVIOUS
<1>3. e \in Seq(Waiting) /\ Len(e) = n /\ \A i \in 1..n : e[i] = Entry(value, s, i)
  <2>1. \A i \in 1..n : Entry(value, s, i) \in Waiting
    BY <1>0 DEF Entry, Waiting, ConstantsAssumption
  <2>2. QED  BY <1>0, <2>1 DEF EntriesFor
<1>4. \A i \in 1..n : e[i].swapchain = s /\ e[i].retire_value = value
  BY <1>3 DEF Entry
<1> HIDE DEF e, h
<1>5. /\ u \in Seq(Waiting) /\ Len(u) = c + n
      /\ \A i \in 1..(c + n) : u[i] = IF i <= c THEN w[i] ELSE e[i - c]
  <2>1. /\ u \in Seq(Waiting) /\ Len(u) = Len(w) + Len(e)
        /\ \A i \in 1..(Len(w) + Len(e)) : u[i] = IF i <= Len(w) THEN w[i] ELSE e[i - Len(w)]
    BY <1>1, <1>3, ConcatProperties
  <2> HIDE DEF u
  <2>2. QED  BY <1>1, <1>3, <2>1
<1> HIDE DEF u
<1>6. \A i \in 1..c : /\ w[i].retire_value <= value /\ <<w[i].swapchain, 0>> \in existing
                      /\ heldBy[w[i].swapchain] = 0 /\ w[i].swapchain # s /\ w[i].swapchain \in Swapchains
  <2> TAKE i \in 1..c
  <2>1. w[i].retire_value <= value /\ <<w[i].swapchain, 0>> \in existing /\ heldBy[w[i].swapchain] = 0
    BY <1>1 DEF Queued
  <2>2. w[i] \in Waiting  BY <1>1
  <2>3. QED  BY <2>1, <2>2 DEF Waiting
<1>7. ASSUME NEW i \in 1..(c + n), i > c
      PROVE  i - c \in 1..n /\ u[i].swapchain = s /\ u[i].retire_value = value
  <2>1. i - c \in 1..n /\ ~(i <= c)  BY <1>0, <1>7
  <2>2. QED  BY <1>4, <1>5, <2>1
<1>8. ASSUME NEW i \in 1..(c + n), i <= c  PROVE i \in 1..c /\ u[i] = w[i]
  BY <1>5, <1>8
<1>9. Together(u)
  <2> SUFFICES ASSUME NEW i \in 1..(c + n), NEW k \in 1..(c + n), u[i].swapchain = u[k].swapchain,
                      NEW j \in i..k
               PROVE  u[j].swapchain = u[i].swapchain
    BY <1>5 DEF Together
  <2>1. j \in 1..(c + n)  BY <1>0
  <2>2. CASE i > c
    <3>1. j > c  BY <2>2
    <3>2. QED  BY <1>7, <2>1, <2>2, <3>1
  <2>3. CASE i <= c
    <3>1. i \in 1..c /\ u[i] = w[i]  BY <1>8, <2>3
    <3>2. k <= c
      <4>1. SUFFICES ASSUME k > c PROVE FALSE  BY <1>0
      <4>2. u[k].swapchain = s  BY <1>7, <4>1
      <4>3. QED  BY <1>6, <3>1, <4>2
    <3>3. k \in 1..c /\ u[k] = w[k]  BY <1>8, <3>2
    <3>4. j <= c  BY <3>2
    <3>5. u[j] = w[j]  BY <1>8, <2>1, <3>4
    <3>6. w[j].swapchain = w[i].swapchain  BY <1>1, <3>1, <3>3 DEF Queued, Together
    <3>7. QED  BY <3>1, <3>5, <3>6
  <2>4. QED  BY <2>2, <2>3, <1>0
<1>10. Monotonic(u)
  <2> SUFFICES ASSUME NEW i \in 1..(c + n), NEW j \in 1..(c + n), i <= j
               PROVE  u[i].retire_value <= u[j].retire_value
    BY <1>5 DEF Monotonic
  <2>1. CASE j > c
    <3>1. u[j].retire_value = value  BY <1>7, <2>1
    <3>2. u[i].retire_value <= value
      <4>1. CASE i > c  BY <1>7, <4>1
      <4>2. CASE i <= c  BY <1>6, <1>8, <4>2
      <4>3. QED  BY <4>1, <4>2, <1>0
    <3>3. QED  BY <3>1, <3>2
  <2>2. CASE j <= c
    <3>1. i <= c  BY <2>2
    <3>2. i \in 1..c /\ j \in 1..c /\ u[i] = w[i] /\ u[j] = w[j]  BY <1>8, <2>2, <3>1
    <3>3. QED  BY <1>1, <3>2 DEF Queued, Monotonic
  <2>3. QED  BY <2>1, <2>2, <1>0
<1>11. ASSUME NEW i \in 1..(c + n)
       PROVE  /\ u[i].retire_value <= value /\ <<u[i].swapchain, 0>> \in existing
              /\ h[u[i].swapchain] = 0
  <2>1. CASE i > c  BY <1>2, <1>7, <2>1 DEF HeldExist
  <2>2. CASE i <= c  BY <1>2, <1>6, <1>8, <2>2
  <2>3. QED  BY <2>1, <2>2, <1>0
<1>12. Queued(u, existing, h, value)  BY <1>5, <1>9, <1>10, <1>11 DEF Queued
<1>13. HeldExist(existing, h)  BY <1>2 DEF HeldExist
<1>14. u = w \o EntriesFor(value, s, heldBy[s])  BY DEF u, e
<1>15. h = [heldBy EXCEPT ![s] = 0]  BY DEF h
<1>16. QED  BY <1>12, <1>13, <1>14, <1>15

LEMMA CollectKeeps ==
  ASSUME NEW r, Shape(r), NEW heldBy, NEW existing, NEW bound,
         Queued(Window(r), existing, heldBy, bound), HeldExist(existing, heldBy),
         NEW n \in 0..r.count
  PROVE  /\ Shape(Collected(r, n))
         /\ Queued(Window(Collected(r, n)), existing \ Destroyed(DestroyCalls(r, n)), heldBy, bound)
         /\ HeldExist(existing \ Destroyed(DestroyCalls(r, n)), heldBy)
<1> DEFINE w == Window(r)
           u == Window(Collected(r, n))
           D == Destroyed(DestroyCalls(r, n))
<1>0. w \in Seq(Waiting) /\ Together(w) /\ Monotonic(w)  BY DEF Queued
<1> PICK c \in Nat : c = Len(w)  BY <1>0
<1>1. r.count = c /\ n \in 0..c  BY <1>0, WindowCells
<1>2. /\ Shape(Collected(r, n)) /\ u \in Seq(Waiting) /\ Len(u) = c - n
      /\ \A i \in 1..(c - n) : u[i] = w[n + i]
  BY <1>0, CollectedIsRemaining
<1>3. D = Abstract!DestroyedBy(Abstract!Destructions(w, n))  BY <1>0, DestroysTheSame
<1>4. ASSUME NEW t, <<t, 0>> \in D
      PROVE  \E k \in 1..n : w[k].swapchain = t /\ Abstract!LastOfSwapchain(w, k)
  <2> DEFINE calling == Abstract!Destructions(w, n)
  <2>1. /\ DOMAIN calling = 1..n
        /\ \A k \in 1..n : /\ calling[k].swapchain = w[k].swapchain /\ calling[k].view = w[k].view
                           /\ calling[k].final_image = Abstract!LastOfSwapchain(w, k)
    BY DEF Abstract!Destructions
  <2>2. \/ \E k \in 1..n : <<t, 0>> = <<calling[k].swapchain, calling[k].view>>
        \/ \E k \in 1..n : <<t, 0>> = <<calling[k].swapchain, 0>> /\ calling[k].final_image
    <3> HIDE DEF calling
    <3>1. QED  BY <1>3, <1>4, <2>1 DEF Abstract!DestroyedBy, calling
  <2> HIDE DEF calling
  <2>3. ASSUME NEW k \in 1..n, <<t, 0>> = <<calling[k].swapchain, calling[k].view>>  PROVE FALSE
    <3>1. k \in 1..c  BY <1>1
    <3>2. w[k] \in Waiting  BY <1>0, <3>1
    <3>3. w[k].view # 0  BY <3>2 DEF Waiting
    <3>4. QED  BY <2>1, <2>3, <3>3
  <2>4. QED  BY <2>1, <2>2, <2>3
<1> HIDE DEF D, w, u
<1>5. \A i \in 1..(c - n) : n + i \in 1..c /\ u[i] = w[n + i]  BY <1>1, <1>2
<1>6. Together(u)
  <2> SUFFICES ASSUME NEW i \in 1..(c - n), NEW k \in 1..(c - n), u[i].swapchain = u[k].swapchain,
                      NEW j \in i..k
               PROVE  u[j].swapchain = u[i].swapchain
    BY <1>2 DEF Together
  <2>1. j \in 1..(c - n) /\ n + j \in (n + i)..(n + k)  BY <1>1
  <2>2. QED  BY <1>0, <1>5, <2>1 DEF Together
<1>7. Monotonic(u)
  <2> SUFFICES ASSUME NEW i \in 1..(c - n), NEW j \in 1..(c - n), i <= j
               PROVE  u[i].retire_value <= u[j].retire_value
    BY <1>2 DEF Monotonic
  <2>1. n + i <= n + j  BY <1>1
  <2>2. QED  BY <1>0, <1>5, <2>1 DEF Monotonic
<1>8. ASSUME NEW i \in 1..(c - n)
      PROVE  /\ u[i].retire_value <= bound /\ <<u[i].swapchain, 0>> \in existing \ D
             /\ heldBy[u[i].swapchain] = 0
  <2>1. n + i \in 1..c /\ u[i] = w[n + i]  BY <1>5
  <2>2. /\ u[i].retire_value <= bound /\ <<u[i].swapchain, 0>> \in existing
        /\ heldBy[u[i].swapchain] = 0
    BY <2>1 DEF Queued, w
  <2>3. <<u[i].swapchain, 0>> \notin D
    <3>1. SUFFICES ASSUME <<u[i].swapchain, 0>> \in D PROVE FALSE  OBVIOUS
    <3>2. PICK k \in 1..n : w[k].swapchain = u[i].swapchain /\ Abstract!LastOfSwapchain(w, k)
      BY <1>4, <3>1
    <3>3. n + i \in (k + 1)..Len(w)  BY <1>1, <2>1
    <3>4. QED  BY <2>1, <3>2, <3>3 DEF Abstract!LastOfSwapchain
  <2>4. QED  BY <2>2, <2>3
<1>9. ASSUME NEW s \in Swapchains, heldBy[s] # 0  PROVE <<s, 0>> \in existing \ D
  <2>1. <<s, 0>> \in existing  BY <1>9 DEF HeldExist
  <2>2. SUFFICES ASSUME <<s, 0>> \in D PROVE FALSE  BY <2>1
  <2>3. PICK k \in 1..n : w[k].swapchain = s  BY <1>4, <2>2
  <2>4. k \in 1..Len(w)  BY <1>1
  <2>5. heldBy[w[k].swapchain] = 0  BY <2>4 DEF Queued, w
  <2>6. QED  BY <1>9, <2>3, <2>5
<1>10. Queued(u, existing \ D, heldBy, bound)  BY <1>2, <1>6, <1>7, <1>8 DEF Queued
<1>11. HeldExist(existing \ D, heldBy)  BY <1>9 DEF HeldExist
<1>12. QED  BY <1>2, <1>10, <1>11 DEF u, D

-----------------------------------------------------------------------------
LEMMA TypeParts ==
  TypeOK <=> /\ ring.capacity \in Nat /\ ring.count \in 0..ring.capacity
             /\ ring.first \in 0..ring.capacity
             /\ DOMAIN ring.entries = 0..(ring.capacity - 1)
             /\ completed \in 0..MaxValue /\ submitted \in completed..MaxValue
             /\ live \subseteq Swapchains \X (0..MaxViews)
             /\ held \in [Swapchains -> 0..MaxViews]
             /\ \A i \in 1..ring.count : Window(ring)[i] \in Waiting
  BY DEF TypeOK, Waiting

LEMMA InitIInv == Init => IInv /\ Abstract!Init
<1> SUFFICES ASSUME Init PROVE IInv /\ Abstract!Init  OBVIOUS
<1>1. /\ ring = [entries |-> [c \in {} |-> Cleared], capacity |-> 0, first |-> 0, count |-> 0]
      /\ submitted = 0 /\ completed = 0 /\ live = {} /\ held = [s \in Swapchains |-> 0]
      /\ calls = <<>>
  BY DEF Init
<1>2. 1..0 = {} /\ 0..(0 - 1) = {}  OBVIOUS
<1>3. Shape(ring)  BY <1>1, <1>2 DEF Shape
<1>4. Window(ring) = <<>>  BY <1>1, <1>2 DEF Window
<1>5. TypeOK  BY <1>1, <1>2, ConstantsAssumption DEF TypeOK
<1>6. Queued(<<>>, live, held, submitted)
  <2>1. <<>> \in Seq(Waiting) /\ Len(<<>>) = 0  OBVIOUS
  <2>2. QED  BY <1>2, <2>1 DEF Queued, Together, Monotonic
<1>7. HeldExist(live, held)  BY <1>1 DEF HeldExist
<1>8. Abstract!Init  BY <1>1, <1>4 DEF Abstract!Init
<1>9. QED  BY <1>3, <1>4, <1>5, <1>6, <1>7, <1>8 DEF IInv

LEMMA CollectStep ==
  ASSUME TypeOK, NEW r, Shape(r), NEW value, NEW bound,
         Collect(r, value), Queued(Window(r), live, held', bound), HeldExist(live, held'),
         held' \in [Swapchains -> 0..MaxViews], submitted' = submitted, completed' \in 0..submitted
  PROVE  /\ TypeOK' /\ Shape(ring') /\ Queued(Window(ring'), live', held', bound) /\ HeldExist(live', held')
         /\ Abstract!CollectFrom(Window(r), value)
<1> PICK n : n = DueCount(r, value)  OBVIOUS
<1>1. ring' = Collected(r, n) /\ calls' = DestroyCalls(r, n) /\ live' = live \ Destroyed(DestroyCalls(r, n))
  BY DEF Collect
<1>2. Window(r) \in Seq(Waiting) /\ Together(Window(r))  BY DEF Queued
<1>3. n \in 0..r.count  BY <1>2, DueInTurn
<1>4. Shape(ring') /\ Queued(Window(ring'), live', held', bound) /\ HeldExist(live', held')
  BY <1>1, <1>3, CollectKeeps
<1>5. Abstract!CollectFrom(Window(r), value)
  BY <1>1, <1>2, CollectImplements
<1>6. TypeOK'
  <2>1. /\ ring'.capacity \in Nat /\ ring'.count \in 0..ring'.capacity /\ ring'.first \in 0..ring'.capacity
        /\ DOMAIN ring'.entries = 0..(ring'.capacity - 1)
    BY <1>4 DEF Shape
  <2>2. \A i \in 1..ring'.count : Window(ring')[i] \in Waiting
    <3>1. Window(ring') \in Seq(Waiting)  BY <1>4 DEF Queued
    <3>2. Len(Window(ring')) = ring'.count  BY <1>4, <3>1, WindowCells
    <3>3. QED  BY <3>1, <3>2
  <2>3. completed' \in 0..MaxValue /\ submitted' \in completed'..MaxValue
    <3>1. submitted \in 0..MaxValue /\ MaxValue \in Nat  BY ConstantsAssumption DEF TypeOK
    <3>2. QED  BY <3>1
  <2>4. live' \subseteq Swapchains \X (0..MaxViews)  BY <1>1 DEF TypeOK
  <2>5. QED  BY <2>1, <2>2, <2>3, <2>4 DEF TypeOK, Waiting
<1>7. QED  BY <1>4, <1>5, <1>6

LEMMA NextIInv ==
  ASSUME IInv, [Next]_vars
  PROVE  IInv' /\ [Abstract!Next]_(Abstract!vars)
<1>0. /\ TypeOK /\ Shape(ring) /\ Queued(Window(ring), live, held, submitted) /\ HeldExist(live, held)
      /\ completed \in 0..MaxValue /\ submitted \in completed..MaxValue /\ submitted \in 0..MaxValue
      /\ held \in [Swapchains -> 0..MaxViews]
      /\ MaxValue \in Nat /\ MaxViews \in Nat
  BY ConstantsAssumption DEF IInv, TypeOK
<1>1. CASE Submit
  <2>1. /\ submitted < MaxValue /\ submitted' = submitted + 1 /\ calls' = <<>>
        /\ UNCHANGED <<ring, completed, live, held>>
    BY <1>1 DEF Submit
  <2>2. Window(ring)' = Window(ring)  BY <2>1 DEF Window, Cell
  <2>3. Queued(Window(ring), live, held, submitted + 1)
    <3>1. /\ Window(ring) \in Seq(Waiting) /\ Together(Window(ring)) /\ Monotonic(Window(ring))
          /\ \A i \in 1..Len(Window(ring)) : /\ Window(ring)[i].retire_value <= submitted
                                             /\ <<Window(ring)[i].swapchain, 0>> \in live
                                             /\ held[Window(ring)[i].swapchain] = 0
      BY <1>0 DEF Queued
    <3>2. \A i \in 1..Len(Window(ring)) : Window(ring)[i].retire_value <= submitted + 1
      <4> TAKE i \in 1..Len(Window(ring))
      <4>1. Window(ring)[i] \in Waiting  BY <3>1
      <4>2. Window(ring)[i].retire_value \in Int  BY <4>1 DEF Waiting
      <4>3. Window(ring)[i].retire_value <= submitted  BY <3>1
      <4> HIDE DEF Waiting
      <4>4. QED  BY <1>0, <4>2, <4>3
    <3>3. QED  BY <3>1, <3>2 DEF Queued
  <2>4. TypeOK'
    <3>1. completed' \in 0..MaxValue /\ submitted' \in completed'..MaxValue  BY <1>0, <2>1
    <3>2. QED  BY <1>0, <2>1, <2>2, <3>1 DEF TypeOK
  <2>5. Abstract!Submit  BY <2>1, <2>2 DEF Abstract!Submit
  <2>6. IInv'  BY <1>0, <2>1, <2>2, <2>3, <2>4 DEF IInv
  <2>7. QED  BY <2>5, <2>6 DEF Abstract!Next
<1>2. ASSUME NEW s \in Swapchains, NEW n \in 1..MaxViews, CreateSwapchain(s, n)
      PROVE  IInv' /\ Abstract!Next
  <2>1. /\ held[s] = 0 /\ <<s, 0>> \notin live
        /\ live' = live \union {<<s, index>> : index \in 0..n}
        /\ held' = [held EXCEPT ![s] = n] /\ calls' = <<>>
        /\ UNCHANGED <<ring, submitted, completed>>
    BY <1>2 DEF CreateSwapchain
  <2>2. Window(ring)' = Window(ring)  BY <2>1 DEF Window, Cell
  <2>3. Queued(Window(ring), live', held', submitted)
    <3>1. /\ Window(ring) \in Seq(Waiting) /\ Together(Window(ring)) /\ Monotonic(Window(ring))
          /\ \A i \in 1..Len(Window(ring)) : /\ Window(ring)[i].retire_value <= submitted
                                             /\ <<Window(ring)[i].swapchain, 0>> \in live
                                             /\ held[Window(ring)[i].swapchain] = 0
      BY <1>0 DEF Queued
    <3>2. \A i \in 1..Len(Window(ring)) : /\ <<Window(ring)[i].swapchain, 0>> \in live'
                                         /\ held'[Window(ring)[i].swapchain] = 0
      <4> TAKE i \in 1..Len(Window(ring))
      <4>1. Window(ring)[i] \in Waiting  BY <3>1
      <4>2. Window(ring)[i].swapchain \in Swapchains  BY <4>1 DEF Waiting
      <4>3. Window(ring)[i].swapchain # s  BY <2>1, <3>1
      <4>4. QED  BY <1>0, <2>1, <3>1, <4>2, <4>3
    <3>3. QED  BY <3>1, <3>2 DEF Queued
  <2>4. live' \subseteq Swapchains \X (0..MaxViews)
    <3>1. \A index \in 0..n : <<s, index>> \in Swapchains \X (0..MaxViews)  BY <1>0
    <3>2. QED  BY <1>0, <2>1, <3>1 DEF TypeOK
  <2>5. held' \in [Swapchains -> 0..MaxViews]  BY <1>0, <2>1
  <2>6. TypeOK'  BY <1>0, <2>1, <2>2, <2>4, <2>5 DEF TypeOK
  <2>7. HeldExist(live', held')
    <3>1. <<s, 0>> \in live'  BY <2>1, <1>0
    <3>2. QED  BY <1>0, <2>1, <3>1 DEF HeldExist
  <2>8. IInv'  BY <1>0, <2>1, <2>2, <2>3, <2>6, <2>7 DEF IInv
  <2>9. {<<s, index>> : index \in 0..n} = {<<s, index>> : index \in 1..n} \cup {<<s, 0>>}
    <3>1. \A index \in 0..n : index \in 1..n \/ index = 0  OBVIOUS
    <3>2. \A index \in 1..n : index \in 0..n  OBVIOUS
    <3>3. 0 \in 0..n  OBVIOUS
    <3>4. QED  BY <3>1, <3>2, <3>3
  <2>10. Abstract!Create(s, n)
    <3>1. live' = live \union Abstract!Views(s, n) \union {<<s, 0>>}
      BY <2>1, <2>9 DEF Abstract!Views
    <3>2. QED  BY <2>1, <2>2, <3>1 DEF Abstract!Create
  <2>11. QED  BY <2>8, <2>10 DEF Abstract!Next
<1>3. ASSUME NEW s \in Swapchains, QueueRetiredSwapchain(s)
      PROVE  IInv' /\ Abstract!Next
  <2> DEFINE r == PushedViews(ring, submitted, s, held[s])
             e == EntriesFor(submitted, s, held[s])
  <2>1. /\ held[s] # 0 /\ Collect(r, completed) /\ held' = [held EXCEPT ![s] = 0]
        /\ UNCHANGED <<submitted, completed>>
    BY <1>3 DEF QueueRetiredSwapchain
  <2>2. Window(ring) \in Seq(Waiting) /\ held[s] \in 0..MaxViews  BY <1>0 DEF Queued
  <2>3. Shape(r) /\ Window(r) = Window(ring) \o e
    BY <1>0, <2>2, PushedIsAppended, ConstantsAssumption
  <2>4. Queued(Window(ring) \o e, live, held', submitted) /\ HeldExist(live, held')
    BY <1>0, <2>1, AppendedQueued, ConstantsAssumption
  <2>5. e = Abstract!EntriesOf(submitted, s, held[s])
    BY DEF Abstract!EntriesOf, Abstract!Entry, Entry, EntriesFor
  <2> HIDE DEF r, e
  <2>6. held' \in [Swapchains -> 0..MaxViews] /\ completed' \in 0..submitted  BY <1>0, <2>1
  <2>7. /\ TypeOK' /\ Shape(ring') /\ Queued(Window(ring'), live', held', submitted) /\ HeldExist(live', held')
        /\ Abstract!CollectFrom(Window(r), completed)
    BY <1>0, <2>1, <2>3, <2>4, <2>6, CollectStep
  <2>8. IInv'  BY <2>1, <2>7 DEF IInv
  <2>9. Abstract!Retire(s)  BY <2>1, <2>3, <2>5, <2>7 DEF Abstract!Retire
  <2>10. QED  BY <2>8, <2>9 DEF Abstract!Next
<1>4. ASSUME NEW value \in 1..MaxValue, ObserveRetirement(value)
      PROVE  IInv' /\ Abstract!Next
  <2>1. /\ value \in (completed + 1)..submitted /\ completed' = value /\ Collect(ring, value)
        /\ UNCHANGED <<submitted, held>>
    BY <1>4 DEF ObserveRetirement
  <2>2. completed' \in 0..submitted  BY <1>0, <2>1
  <2>3. Queued(Window(ring), live, held', submitted) /\ HeldExist(live, held')
        /\ held' \in [Swapchains -> 0..MaxViews]
    BY <1>0, <2>1
  <2>4. /\ TypeOK' /\ Shape(ring') /\ Queued(Window(ring'), live', held', submitted) /\ HeldExist(live', held')
        /\ Abstract!CollectFrom(Window(ring), value)
    BY <1>0, <2>1, <2>2, <2>3, CollectStep
  <2>5. IInv'  BY <2>1, <2>4 DEF IInv
  <2>6. Abstract!Observe(value)  BY <2>1, <2>4 DEF Abstract!Observe
  <2>7. QED  BY <2>5, <2>6 DEF Abstract!Next
<1>5. CASE UNCHANGED vars
  <2>1. UNCHANGED <<ring, submitted, completed, live, held, calls>>  BY <1>5 DEF vars
  <2>2. Window(ring)' = Window(ring)  BY <2>1 DEF Window, Cell
  <2>3. TypeOK'  BY <1>0, <2>1, <2>2 DEF TypeOK
  <2>4. QED  BY <1>0, <2>1, <2>2, <2>3 DEF IInv, Abstract!vars
<1>6. QED  BY <1>1, <1>2, <1>3, <1>4, <1>5 DEF Next

(***************************************************************************)
(* The ring is a queue.                                                    *)
(***************************************************************************)
THEOREM RingIsQueue == Spec => ImplementsDeferredDestruction
<1>1. Init => IInv /\ Abstract!Init  BY InitIInv
<1>2. IInv /\ [Next]_vars => IInv' /\ [Abstract!Next]_(Abstract!vars)  BY NextIInv
<1>3. QED  BY <1>1, <1>2, PTL DEF Spec, ImplementsDeferredDestruction, Abstract!Spec

(***************************************************************************)
(* Entries are pushed in the order of their retire values, as an assertion *)
(* of push demands (NoGraphicsAPI.cpp:498), and none is ahead of the last  *)
(* submission.                                                             *)
(***************************************************************************)
THEOREM ValuesInOrder ==
  Spec => [](/\ Monotonic(Window(ring))
             /\ \A i \in 1..Len(Window(ring)) : Window(ring)[i].retire_value <= submitted)
<1>1. Init => IInv  BY InitIInv
<1>2. IInv /\ [Next]_vars => IInv'  BY NextIInv
<1>3. IInv => /\ Monotonic(Window(ring))
              /\ \A i \in 1..Len(Window(ring)) : Window(ring)[i].retire_value <= submitted
  BY DEF IInv, Queued
<1>4. QED  BY <1>1, <1>2, <1>3, PTL DEF Spec

(* Window, capacity, values and handles stay in their ranges.              *)
THEOREM TypeCorrect == Spec => []TypeOK
<1>1. Init => IInv  BY InitIInv
<1>2. IInv /\ [Next]_vars => IInv'  BY NextIInv
<1>3. IInv => TypeOK  BY DEF IInv
<1>4. QED  BY <1>1, <1>2, <1>3, PTL DEF Spec

-----------------------------------------------------------------------------
(* DeleteQueue *)

(***************************************************************************)
(* tail_ follows the window of pending callbacks; the retire values in the *)
(* window are in order; and collect compares with a value the timeline has *)
(* reached, or with everything there is while nothing is on the GPU.       *)
(***************************************************************************)
TailFollows == tail_ = Place(count_)

Ordered ==
  \A i, j \in 0..(count_ - 1) : i <= j => retire_value[Place(i)] <= retire_value[Place(j)]

ComparesSafely ==
  ticking_ =>
    \/ completed_value <= timeline
    \/ completed_value = Everything /\ timeline = timeline_submitted

RunningIsHead ==
  running => ticking_ /\ count_ # 0 /\ Due(retire_value[head_])

CallbacksIInv ==
  /\ CallbacksTypeOK
  /\ TailFollows
  /\ RunsInOrder
  /\ Ordered
  /\ ComparesSafely
  /\ RunningIsHead

(***************************************************************************)
(* Places of the ring: they are cells, different ones for the callbacks    *)
(* of a window, and the window shifts by one when the head advances.       *)
(***************************************************************************)
LEMMA PlaceIsCell ==
  ASSUME CallbacksTypeOK, NEW i \in 0..Capacity
  PROVE  Place(i) \in Cells
BY CapacityAssumption DEF CallbacksTypeOK, Place, Cells

LEMMA PlacesOfCallbacksDiffer ==
  ASSUME CallbacksTypeOK, NEW i \in 0..Capacity, NEW j \in 0..Capacity,
         i < j, j - i < Capacity
  PROVE  Place(i) # Place(j)
BY CapacityAssumption DEF CallbacksTypeOK, Place, Cells

LEMMA PlaceAfter ==
  ASSUME CallbacksTypeOK, NEW i \in 0..(Capacity - 1)
  PROVE  /\ NextCell(Place(i)) = Place(i + 1)
         /\ NextCell(head_) \in Cells
         /\ (IF NextCell(head_) + i < Capacity THEN NextCell(head_) + i
             ELSE NextCell(head_) + i - Capacity) = Place(i + 1)
BY CapacityAssumption DEF CallbacksTypeOK, Place, Cells, NextCell

LEMMA LastIsBehindTail ==
  ASSUME CallbacksTypeOK, TailFollows, count_ # 0
  PROVE  LastCell = Place(count_ - 1)
BY CapacityAssumption DEF CallbacksTypeOK, TailFollows, Place, Cells,
     LastCell

LEMMA HeadIsFirst ==
  ASSUME CallbacksTypeOK
  PROVE  head_ = Place(0)
BY CapacityAssumption DEF CallbacksTypeOK, Place, Cells

LEMMA InitEstablishes == CallbacksInit => CallbacksIInv
<1> SUFFICES ASSUME CallbacksInit PROVE CallbacksIInv
  OBVIOUS
<1>1. /\ 0 \in Cells /\ 0 \in 0..MaxSubmissions /\ 0 \in 0..Capacity
      /\ 0 \in 0..Everything
  BY CapacityAssumption DEF Cells, Everything
<1>2. CallbacksTypeOK
  <2>1. retire_value \in [Cells -> 0..Everything] /\ callback \in [Cells -> Nat]
    BY <1>1 DEF CallbacksInit
  <2>2. 0 \in 0..0 /\ 0 \in Nat
    OBVIOUS
  <2>3. QED
    BY <1>1, <2>1, <2>2 DEF CallbacksInit, CallbacksTypeOK
<1>3. TailFollows /\ RunsInOrder /\ Ordered
  BY <1>1, CapacityAssumption DEF CallbacksInit, TailFollows, RunsInOrder, Ordered,
       Place
<1>4. QED
  BY <1>2, <1>3 DEF CallbacksInit, CallbacksIInv, ComparesSafely, RunningIsHead

LEMMA DeferPreserves ==
  ASSUME CallbacksIInv, NEW value \in 0..Everything, Defer(value)
  PROVE  CallbacksIInv'
<1>1. /\ retire_value \in [Cells -> 0..Everything] /\ callback \in [Cells -> Nat]
      /\ head_ \in Cells /\ tail_ \in Cells /\ count_ \in 0..Capacity
      /\ deferred \in Nat /\ ran \in Nat /\ Capacity \in Nat \ {0}
      /\ CallbacksTypeOK
  BY CapacityAssumption DEF CallbacksIInv, CallbacksTypeOK
<1>2. /\ count_ < Capacity
      /\ count_ # 0 => retire_value[LastCell] <= value
      /\ retire_value' = [retire_value EXCEPT ![tail_] = value]
      /\ callback' = [callback EXCEPT ![tail_] = deferred + 1]
      /\ tail_' = NextCell(tail_) /\ count_' = count_ + 1 /\ deferred' = deferred + 1
      /\ UNCHANGED <<head_, ticking_, completed_value, running, ran, timeline_submitted, timeline>>
  BY DEF Defer, HasRoom
<1>3. /\ tail_ = Place(count_)
      /\ NextCell(tail_) = Place(count_ + 1)
      /\ NextCell(tail_) \in Cells
  BY <1>1, <1>2, PlaceAfter, PlaceIsCell DEF CallbacksIInv, TailFollows
<1>4. CallbacksTypeOK'
  BY <1>1, <1>2, <1>3 DEF CallbacksTypeOK
<1>5. \A i \in 0..(count_ - 1) : /\ Place(i)' = Place(i)
                                 /\ Place(i) \in Cells
                                 /\ retire_value'[Place(i)] = retire_value[Place(i)]
                                 /\ callback'[Place(i)] = callback[Place(i)]
  <2> TAKE i \in 0..(count_ - 1)
  <2>1. Place(i) \in Cells /\ Place(i) # tail_
    BY <1>1, <1>2, <1>3, PlaceIsCell, PlacesOfCallbacksDiffer
  <2>2. QED
    BY <2>1, <1>1, <1>2 DEF Place
<1> PICK n \in 0..Capacity : n = count_
  BY <1>1
<1>6. /\ Place(n)' = tail_ /\ retire_value'[tail_] = value /\ callback'[tail_] = deferred + 1
  <2>1. Place(n) = tail_ /\ Place(n)' = Place(n)
    BY <1>2, <1>3 DEF Place
  <2>2. QED
    BY <1>1, <1>2, <2>1
<1>7. TailFollows'
  BY <1>2, <1>3 DEF TailFollows, Place
<1>8. RunsInOrder'
  <2>1. deferred = ran + count_ /\ \A i \in 0..(count_ - 1) : callback[Place(i)] = ran + i + 1
    BY DEF CallbacksIInv, RunsInOrder
  <2>2. ASSUME NEW i \in 0..(count_' - 1)
        PROVE  callback'[Place(i)'] = ran' + i + 1
    <3>1. CASE i \in 0..(count_ - 1)
      BY <3>1, <2>1, <1>2, <1>5
    <3>2. CASE i = n
      BY <3>2, <2>1, <1>1, <1>2, <1>6
    <3>3. QED
      BY <3>1, <3>2, <1>1, <1>2
  <2>3. deferred' = ran' + count_'
    BY <2>1, <1>1, <1>2
  <2>4. QED
    BY <2>2, <2>3 DEF RunsInOrder
<1>9. Ordered'
  <2>1. ASSUME NEW i \in 0..(count_ - 1)
        PROVE  retire_value[Place(i)] <= value
    <3>1. LastCell = Place(count_ - 1)
      BY <1>1, <2>1, LastIsBehindTail DEF CallbacksIInv
    <3>2. /\ retire_value[Place(i)] <= retire_value[LastCell]
          /\ retire_value[LastCell] <= value
      BY <1>1, <1>2, <2>1, <3>1 DEF CallbacksIInv, Ordered
    <3>3. retire_value[Place(i)] \in Int /\ retire_value[LastCell] \in Int /\ value \in Int
      BY <1>1, <1>5, <2>1, <3>1, PlaceIsCell, CapacityAssumption DEF Everything
    <3>4. QED
      BY <3>2, <3>3
  <2>2. value \in Int
    BY CapacityAssumption DEF Everything
  <2>3. ASSUME NEW i \in 0..(count_' - 1), NEW j \in 0..(count_' - 1), i <= j
        PROVE  retire_value'[Place(i)'] <= retire_value'[Place(j)']
    <3>1. CASE j \in 0..(count_ - 1)
      <4>1. i \in 0..(count_ - 1)
        BY <3>1, <2>3, <1>1, <1>2
      <4>2. QED
        BY <3>1, <4>1, <2>3, <1>5 DEF CallbacksIInv, Ordered
    <3>2. CASE j = n /\ i \in 0..(count_ - 1)
      BY <3>2, <2>1, <1>5, <1>6
    <3>3. CASE j = n /\ i = n
      <4>1. retire_value'[Place(n)'] = value /\ value \in Int
        BY <1>6, <2>2
      <4>2. QED
        BY <3>3, <4>1
    <3>4. QED
      BY <3>1, <3>2, <3>3, <1>1, <1>2, <2>3
  <2>4. QED
    BY <2>3 DEF Ordered
<1>10. RunningIsHead'
  <2>1. running => head_ = Place(0) /\ 0 \in 0..(count_ - 1)
    BY <1>1, HeadIsFirst DEF CallbacksIInv, RunningIsHead
  <2>2. running => retire_value'[head_] = retire_value[head_]
    BY <2>1, <1>5
  <2>3. QED
    BY <1>1, <1>2, <2>2 DEF CallbacksIInv, RunningIsHead, Due
<1>11. ComparesSafely'
  BY <1>2 DEF CallbacksIInv, ComparesSafely
<1>12. QED
  BY <1>4, <1>7, <1>8, <1>9, <1>10, <1>11 DEF CallbacksIInv

LEMMA ReturnPreserves ==
  ASSUME CallbacksIInv, CallbackReturns
  PROVE  CallbacksIInv'
<1>1. /\ retire_value \in [Cells -> 0..Everything] /\ callback \in [Cells -> Nat]
      /\ head_ \in Cells /\ tail_ \in Cells /\ count_ \in 1..Capacity
      /\ deferred \in Nat /\ ran \in Nat /\ Capacity \in Nat \ {0}
      /\ CallbacksTypeOK
  BY CapacityAssumption DEF CallbacksIInv, CallbacksTypeOK, CallbackReturns,
       RunningIsHead
<1>2. /\ running' = FALSE
      /\ callback' = [callback EXCEPT ![head_] = 0]
      /\ head_' = NextCell(head_) /\ count_' = count_ - 1 /\ ran' = ran + 1
      /\ UNCHANGED <<retire_value, tail_, ticking_, completed_value, deferred, timeline_submitted, timeline>>
  BY DEF CallbackReturns
<1>3. CallbacksTypeOK'
  <2>1. NextCell(head_) \in Cells
    BY <1>1 DEF NextCell, Cells
  <2>2. callback' \in [Cells -> Nat] /\ count_' \in 0..Capacity /\ ran' \in Nat
    BY <1>1, <1>2
  <2>3. QED
    BY <1>1, <1>2, <2>1, <2>2 DEF CallbacksTypeOK
<1>4. \A i \in 0..(Capacity - 1) : Place(i)' = Place(i + 1)
  BY <1>1, <1>2, PlaceAfter DEF Place
<1>5. TailFollows'
  BY <1>1, <1>2, <1>4 DEF CallbacksIInv, TailFollows
<1>6. RunsInOrder'
  <2>1. deferred = ran + count_ /\ \A i \in 0..(count_ - 1) : callback[Place(i)] = ran + i + 1
    BY DEF CallbacksIInv, RunsInOrder
  <2>2. ASSUME NEW i \in 0..(count_' - 1)
        PROVE  callback'[Place(i)'] = ran' + i + 1
    <3>1. Place(i)' = Place(i + 1) /\ i + 1 \in 0..(count_ - 1)
      BY <1>1, <1>2, <1>4
    <3>2. Place(i + 1) # head_ /\ Place(i + 1) \in Cells
      BY <1>1, <3>1, HeadIsFirst, PlacesOfCallbacksDiffer, PlaceIsCell
    <3>3. QED
      BY <1>1, <1>2, <2>1, <3>1, <3>2
  <2>3. deferred' = ran' + count_'
    BY <1>1, <1>2, <2>1
  <2>4. QED
    BY <2>2, <2>3 DEF RunsInOrder
<1>7. Ordered'
  <2>1. \A i \in 0..(count_' - 1) : Place(i)' = Place(i + 1) /\ i + 1 \in 0..(count_ - 1)
    BY <1>1, <1>2, <1>4
  <2>2. ASSUME NEW i \in 0..(count_' - 1), NEW j \in 0..(count_' - 1), i <= j
        PROVE  retire_value'[Place(i)'] <= retire_value'[Place(j)']
    <3>1. i + 1 <= j + 1
      BY <2>2
    <3>2. QED
      BY <1>2, <2>1, <2>2, <3>1 DEF CallbacksIInv, Ordered
  <2>3. QED
    BY <2>2 DEF Ordered
<1>8. QED
  BY <1>2, <1>3, <1>5, <1>6, <1>7 DEF CallbacksIInv, ComparesSafely, RunningIsHead

LEMMA NextPreserves == CallbacksIInv /\ [CallbacksNext]_callback_vars => CallbacksIInv'
<1> SUFFICES ASSUME CallbacksIInv, [CallbacksNext]_callback_vars PROVE CallbacksIInv'
  OBVIOUS
<1>1. CallbacksTypeOK /\ timeline_submitted \in 0..MaxSubmissions /\ timeline \in 0..timeline_submitted
      /\ retire_value \in [Cells -> 0..Everything] /\ head_ \in Cells
      /\ MaxSubmissions \in Nat
  BY CapacityAssumption DEF CallbacksIInv, CallbacksTypeOK
<1>2. ASSUME UNCHANGED <<queue, deferred, ran>>, CallbacksTypeOK',
             ComparesSafely', RunningIsHead'
      PROVE  CallbacksIInv'
  <2>1. TailFollows' /\ RunsInOrder'
    BY <1>2 DEF CallbacksIInv, queue, TailFollows, RunsInOrder, Place
  <2>2. Ordered'
    BY <1>2 DEF CallbacksIInv, queue, Ordered, Place
  <2>3. QED
    BY <1>2, <2>1, <2>2 DEF CallbacksIInv
<1>3. ASSUME NEW value \in 0..Everything, Defer(value)
      PROVE  CallbacksIInv'
  BY <1>3, DeferPreserves
<1>4. CASE CallbackReturns
  BY <1>4, ReturnPreserves
<1>5. CASE Tick
  <2>1. CallbacksTypeOK'
    <3>1. timeline \in 0..Everything
      BY <1>1 DEF Everything
    <3>2. QED
      BY <1>1, <1>5, <3>1 DEF Tick, BeginCollect, CallbacksTypeOK, queue
  <2>2. ComparesSafely' /\ RunningIsHead'
    BY <1>1, <1>5
      DEF Tick, BeginCollect, queue, CallbacksIInv, ComparesSafely, RunningIsHead
  <2>3. QED
    BY <1>1, <1>2, <1>5, <2>1, <2>2 DEF Tick, BeginCollect
<1>6. CASE Drain
  <2>1. CallbacksTypeOK'
    <3>1. Everything \in 0..Everything
      BY <1>1 DEF Everything
    <3>2. QED
      BY <1>1, <1>6, <3>1 DEF Drain, BeginCollect, CallbacksTypeOK, queue
  <2>2. ComparesSafely' /\ RunningIsHead'
    BY <1>1, <1>6
      DEF Drain, BeginCollect, queue, CallbacksIInv, ComparesSafely, RunningIsHead
  <2>3. QED
    BY <1>1, <1>2, <1>6, <2>1, <2>2 DEF Drain, BeginCollect
<1>7. CASE Run
  <2>1. CallbacksTypeOK'
    BY <1>1, <1>7 DEF Run, CallbacksTypeOK, queue
  <2>2. ComparesSafely' /\ RunningIsHead'
    BY <1>7 DEF Run, queue, CallbacksIInv, ComparesSafely, RunningIsHead, Due
  <2>3. QED
    BY <1>1, <1>2, <1>7, <2>1, <2>2 DEF Run
<1>8. CASE CollectReturns
  <2>1. CallbacksTypeOK'
    BY <1>1, <1>8 DEF CollectReturns, CallbacksTypeOK, queue
  <2>2. ComparesSafely' /\ RunningIsHead'
    BY <1>8 DEF CollectReturns, queue, CallbacksIInv, ComparesSafely, RunningIsHead,
         Due
  <2>3. QED
    BY <1>1, <1>2, <1>8, <2>1, <2>2 DEF CollectReturns
<1>9. CASE ApplicationSubmits
  <2>1. CallbacksTypeOK'
    BY <1>1, <1>9 DEF ApplicationSubmits, CallbacksTypeOK, queue
  <2>2. ComparesSafely' /\ RunningIsHead'
    BY <1>9
      DEF ApplicationSubmits, queue, CallbacksIInv, ComparesSafely, RunningIsHead, Due
  <2>3. QED
    BY <1>1, <1>2, <1>9, <2>1, <2>2 DEF ApplicationSubmits
<1>10. CASE GpuCompletes
  <2>1. CallbacksTypeOK'
    BY <1>1, <1>10 DEF GpuCompletes, CallbacksTypeOK, queue
  <2>2. ComparesSafely'
    <3>1. /\ timeline' = timeline + 1 /\ timeline < timeline_submitted
          /\ UNCHANGED <<ticking_, completed_value, timeline_submitted>>
      BY <1>10 DEF GpuCompletes
    <3>2. completed_value \in Int /\ timeline \in Int /\ timeline_submitted \in Int
      BY <1>1 DEF CallbacksTypeOK
    <3>3. QED
      BY <3>1, <3>2 DEF CallbacksIInv, ComparesSafely
  <2>3. RunningIsHead'
    BY <1>10 DEF GpuCompletes, queue, CallbacksIInv, RunningIsHead, Due
  <2>4. QED
    BY <1>1, <1>2, <1>10, <2>1, <2>2, <2>3 DEF GpuCompletes
<1>11. CASE UNCHANGED callback_vars
  <2>1. /\ CallbacksTypeOK' /\ ComparesSafely' /\ RunningIsHead'
        /\ UNCHANGED <<queue, deferred, ran, timeline_submitted>>
    BY <1>11 DEF callback_vars, queue, CallbacksIInv, CallbacksTypeOK, ComparesSafely,
         RunningIsHead, Due
  <2>2. QED
    BY <1>1, <1>2, <2>1
<1>12. QED
  BY <1>3, <1>4, <1>5, <1>6, <1>7, <1>8, <1>9, <1>10, <1>11 DEF CallbacksNext

(***************************************************************************)
(* Head, tail and count stay inside the ring.                              *)
(***************************************************************************)
THEOREM CallbacksTypeCorrect == CallbacksSpec => []CallbacksTypeOK
<1>1. CallbacksIInv => CallbacksTypeOK
  BY DEF CallbacksIInv
<1>2. CallbacksInit => CallbacksIInv
  BY InitEstablishes
<1>3. CallbacksIInv /\ [CallbacksNext]_callback_vars => CallbacksIInv'
  BY NextPreserves
<1>4. QED
  BY <1>1, <1>2, <1>3, PTL DEF CallbacksSpec

(***************************************************************************)
(* The ring holds the callbacks that have not returned, in order.          *)
(***************************************************************************)
THEOREM CallbacksRunInOrder == CallbacksSpec => []RunsInOrder
<1>1. CallbacksIInv => RunsInOrder
  BY DEF CallbacksIInv
<1>2. CallbacksInit => CallbacksIInv
  BY InitEstablishes
<1>3. CallbacksIInv /\ [CallbacksNext]_callback_vars => CallbacksIInv'
  BY NextPreserves
<1>4. QED
  BY <1>1, <1>2, <1>3, PTL DEF CallbacksSpec

(***************************************************************************)
(* tick runs no callback before the timeline has passed its retire value,  *)
(* and drain runs one early only when its value was never submitted.       *)
(***************************************************************************)
THEOREM CallbacksRunWhenDue == CallbacksSpec => []RunsWhenDue
<1>1. CallbacksIInv => RunsWhenDue
  <2> SUFFICES ASSUME CallbacksIInv, running
               PROVE  \/ retire_value[head_] <= timeline
                      \/ Draining /\ retire_value[head_] > timeline_submitted
    BY DEF RunsWhenDue
  <2>1. /\ ticking_ /\ count_ # 0 /\ retire_value[head_] <= completed_value
        /\ \/ completed_value <= timeline
           \/ completed_value = Everything /\ timeline = timeline_submitted
    BY DEF CallbacksIInv, RunningIsHead, ComparesSafely, Due
  <2>2. /\ retire_value[head_] \in Int /\ completed_value \in Int
        /\ timeline \in Int /\ timeline_submitted \in Int
    BY CapacityAssumption DEF CallbacksIInv, CallbacksTypeOK, Everything
  <2>3. QED
    BY <2>1, <2>2 DEF Draining
<1>2. CallbacksInit => CallbacksIInv
  BY InitEstablishes
<1>3. CallbacksIInv /\ [CallbacksNext]_callback_vars => CallbacksIInv'
  BY NextPreserves
<1>4. QED
  BY <1>1, <1>2, <1>3, PTL DEF CallbacksSpec

(***************************************************************************)
(* No due callback is left when tick or drain returns.                     *)
(***************************************************************************)
THEOREM CollectLeavesNothingDue == CallbacksSpec => NoneDueIsLeft
<1>1. ASSUME CallbacksIInv, [CallbacksNext]_callback_vars, ticking_, ~ticking_'
      PROVE  \A i \in 0..(count_ - 1) : retire_value[Place(i)] > completed_value
  <2>1. CollectReturns
    BY <1>1 DEF CallbacksNext, callback_vars, Defer, Tick, Drain,
         BeginCollect, Run, CallbackReturns, ApplicationSubmits, GpuCompletes
  <2> TAKE i \in 0..(count_ - 1)
  <2>2. /\ count_ # 0 /\ 0 \in 0..(count_ - 1) /\ 0 <= i /\ head_ = Place(0)
    BY <1>1, HeadIsFirst DEF CallbacksIInv, CallbacksTypeOK
  <2>3. ~(retire_value[head_] <= completed_value)
    BY <2>1, <2>2 DEF CollectReturns, Due
  <2>4. retire_value[head_] <= retire_value[Place(i)]
    BY <1>1, <2>2 DEF CallbacksIInv, Ordered
  <2>5. retire_value[head_] \in Int /\ completed_value \in Int /\ retire_value[Place(i)] \in Int
    <3>1. CallbacksTypeOK /\ i \in 0..Capacity
      BY <1>1, CapacityAssumption DEF CallbacksIInv, CallbacksTypeOK
    <3>2. Place(i) \in Cells
      BY <3>1, PlaceIsCell
    <3>3. QED
      BY <3>1, <3>2 DEF CallbacksTypeOK
  <2>6. QED
    BY <2>3, <2>4, <2>5
<1>2. CallbacksIInv /\ [CallbacksNext]_callback_vars =>
        [ticking_ /\ ~ticking_' =>
           \A i \in 0..(count_ - 1) : retire_value[Place(i)] > completed_value]_callback_vars
  BY <1>1
<1>3. CallbacksInit => CallbacksIInv
  BY InitEstablishes
<1>4. CallbacksIInv /\ [CallbacksNext]_callback_vars => CallbacksIInv'
  BY NextPreserves
<1>5. QED
  BY <1>2, <1>3, <1>4, PTL DEF CallbacksSpec, NoneDueIsLeft
=============================================================================
