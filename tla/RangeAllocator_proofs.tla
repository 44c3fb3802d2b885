------------------------ MODULE RangeAllocator_proofs ------------------------
(***************************************************************************)
(* Lemmas about the operators of RangeAllocator, for every width of the    *)
(* index type, mantissa, capacity and limit of allocations: size classes   *)
(* and their order, the lists of free nodes and the bitmaps over them, the *)
(* search that finds a node in them, and what allocate, free and reset do  *)
(* to the nodes that tile the heap.                                        *)
(*                                                                         *)
(* RangesInv is what they keep. A list is described by ages: each free     *)
(* node is stamped when it is inserted, and the list of its bin goes from  *)
(* the youngest to the oldest, so the walk along it ends.                  *)
(***************************************************************************)
EXTENDS RangeAllocator, WellFoundedInduction, FiniteSetTheorems, TLAPS

(* The community modules' Min and Max choose; on naturals there is what to *)
(* choose.                                                                 *)
LEMMA LeastElement ==
  ASSUME NEW S \in SUBSET Nat, S # {}
  PROVE  Min(S) \in S /\ \A y \in S : Min(S) <= y
<1>1. PICK x \in S : \A y \in S : ~(<<y, x>> \in OpToRel(<, Nat))
  <2> DEFINE R == OpToRel(<, Nat)
  <2>1. IsWellFoundedOn(R, Nat)  BY NatLessThanWellFounded
  <2> HIDE DEF R
  <2>2. \E x \in S : \A y \in S : ~(<<y, x>> \in R)  BY <2>1, WFMin
  <2>3. QED  BY <2>2 DEF R
<1>2. \A y \in S : ~(<<y, x>> \in {ss \in Nat \X Nat : ss[1] < ss[2]})
  BY <1>1 DEF OpToRel
<1>3. ASSUME NEW y \in S  PROVE x <= y
  <2>1. x \in Nat /\ y \in Nat  OBVIOUS
  <2>2. SUFFICES ASSUME y < x PROVE FALSE  BY <2>1
  <2> DEFINE p == <<y, x>>
  <2>3. p \in Nat \X Nat /\ p[1] = y /\ p[2] = x  BY <2>1
  <2>4. p \in {ss \in Nat \X Nat : ss[1] < ss[2]}  BY <2>2, <2>3
  <2>5. QED  BY <1>2, <2>4
<1>4. QED  BY <1>3 DEF Min

LEMMA GreatestElement ==
  ASSUME NEW bound \in Nat, NEW S \in SUBSET (0..bound), S # {}
  PROVE  Max(S) \in S /\ \A y \in S : y <= Max(S)
<1> DEFINE T == {bound - y : y \in S}
<1>1. T \in SUBSET Nat /\ T # {}
  <2>1. \A y \in S : bound - y \in Nat
    OBVIOUS
  <2>2. PICK y \in S : TRUE
    OBVIOUS
  <2>3. bound - y \in T
    OBVIOUS
  <2>4. QED
    BY <2>1, <2>3
<1>2. Min(T) \in T /\ \A y \in T : Min(T) <= y
  BY <1>1, LeastElement
<1>3. PICK x \in S : Min(T) = bound - x
  BY <1>2
<1>4. ASSUME NEW y \in S  PROVE y <= x
  <2>1. bound - y \in T
    OBVIOUS
  <2>2. bound - x <= bound - y
    BY <1>2, <1>3, <2>1
  <2>3. x \in 0..bound /\ y \in 0..bound
    OBVIOUS
  <2>4. QED
    BY <2>2, <2>3
<1>5. \E z \in S : \A y \in S : z >= y
  <2>1. \A y \in S : x >= y
    BY <1>4
  <2>2. QED
    BY <2>1
<1>6. Max(S) \in S /\ \A y \in S : Max(S) >= y
  BY <1>5 DEF Max
<1>7. QED
  BY <1>6

-----------------------------------------------------------------------------
(* Powers of two: Bit is a recursive function, and has a value wherever    *)
(* the code shifts by less than IndexBits.                                 *)

Doubles(f, last) == f = [n \in 0..last |-> IF n = 0 THEN 1 ELSE 2 * f[n - 1]]

LEMMA DoublesExist ==
  ASSUME NEW last \in Nat
  PROVE  \E f : Doubles(f, last)
<1> DEFINE Without == {n \in Nat : ~ \E f : Doubles(f, n)}
<1>1. SUFFICES ASSUME Without # {} PROVE FALSE
  OBVIOUS
<1> DEFINE m == Min(Without)
<1>2. m \in Without /\ \A n \in Without : m <= n
  <2>1. Without \in SUBSET Nat
    OBVIOUS
  <2> HIDE DEF Without
  <2>2. QED
    BY <1>1, <2>1, LeastElement
<1> HIDE DEF m
<1>3. CASE m = 0
  <2> DEFINE f == [n \in 0..0 |-> 1]
  <2>1. f = [n \in 0..0 |-> IF n = 0 THEN 1 ELSE 2 * f[n - 1]]
    <3>1. \A n \in 0..0 : n = 0
      OBVIOUS
    <3>2. QED
      BY <3>1
  <2>2. Doubles(f, 0)
    BY <2>1 DEF Doubles
  <2>3. QED
    BY <2>2, <1>2, <1>3
<1>4. CASE m # 0
  <2>1. m \in Nat /\ m - 1 \in Nat /\ m - 1 \notin Without
    <3>1. m \in Nat /\ m - 1 \in Nat /\ ~(m <= m - 1)
      BY <1>2, <1>4
    <3>2. QED
      BY <1>2, <3>1
  <2>2. PICK f : Doubles(f, m - 1)
    BY <2>1
  <2> DEFINE g == [n \in 0..m |-> IF n = m THEN 2 * f[m - 1] ELSE f[n]]
  <2>3. ASSUME NEW n \in 0..m
        PROVE  g[n] = IF n = 0 THEN 1 ELSE 2 * g[n - 1]
    <3>1. CASE n = 0
      <4>1. g[n] = f[0] /\ 0 \in 0..(m - 1)
        BY <2>1, <3>1, <1>4
      <4>2. f[0] = 1
        BY <2>2, <4>1 DEF Doubles
      <4>3. QED
        BY <3>1, <4>1, <4>2
    <3>2. CASE n = m
      <4>1. g[n] = 2 * f[m - 1] /\ g[m - 1] = f[m - 1]
        BY <2>1, <3>2
      <4>2. QED
        BY <3>2, <4>1, <1>4
    <3>3. CASE n # 0 /\ n # m
      <4>1. n \in 0..(m - 1) /\ g[n] = f[n] /\ g[n - 1] = f[n - 1]
        BY <2>1, <3>3
      <4>2. f[n] = 2 * f[n - 1]
        BY <2>2, <3>3, <4>1 DEF Doubles
      <4>3. QED
        BY <3>3, <4>1, <4>2
    <3>4. QED
      BY <3>1, <3>2, <3>3
  <2>4. g = [n \in 0..m |-> IF n = 0 THEN 1 ELSE 2 * g[n - 1]]
    <3>1. g = [n \in 0..m |-> g[n]]
      OBVIOUS
    <3> HIDE DEF g
    <3>2. QED
      BY <2>3, <3>1
  <2>5. Doubles(g, m)
    BY <2>4 DEF Doubles
  <2>6. QED
    BY <2>5, <1>2
<1>5. QED
  BY <1>3, <1>4

LEMMA BitStep == Bit[0] = 1 /\ \A n \in 1..IndexBits : Bit[n] = 2 * Bit[n - 1]
<1>1. IndexBits \in Nat /\ IndexBits # 0  BY RangeAllocatorAssumption
<1>2. Bit = CHOOSE f : f = [n \in 0..IndexBits |-> IF n = 0 THEN 1 ELSE 2 * f[n - 1]]
  BY DEF Bit
<1>3. Doubles(Bit, IndexBits)
  <2>1. Bit = CHOOSE f : Doubles(f, IndexBits)  BY <1>2 DEF Doubles
  <2>2. QED  BY <1>1, <2>1, DoublesExist
<1>4. Bit = [n \in 0..IndexBits |-> IF n = 0 THEN 1 ELSE 2 * Bit[n - 1]]  BY <1>3 DEF Doubles
<1>5. ASSUME NEW n \in 0..IndexBits PROVE Bit[n] = IF n = 0 THEN 1 ELSE 2 * Bit[n - 1]
  BY <1>4
<1>6. 0 \in 0..IndexBits /\ \A n \in 1..IndexBits : n \in 0..IndexBits /\ n # 0  BY <1>1
<1>7. QED  BY <1>5, <1>6

LEMMA BitType == \A n \in 0..IndexBits : Bit[n] \in Nat \ {0}
<1> DEFINE Bad == {n \in 0..IndexBits : Bit[n] \notin Nat \ {0}}
           m == Min(Bad)
<1>1. SUFFICES ASSUME Bad # {} PROVE FALSE  OBVIOUS
<1>2. m \in Bad /\ \A n \in Bad : m <= n
  <2>1. Bad \in SUBSET Nat  OBVIOUS
  <2> HIDE DEF Bad
  <2>2. QED  BY <1>1, <2>1, LeastElement
<1> HIDE DEF m
<1>3. IndexBits \in Nat  BY RangeAllocatorAssumption
<1>4. m # 0  BY <1>2, BitStep
<1>5. m \in 1..IndexBits /\ m - 1 \in 0..IndexBits /\ ~(m <= m - 1)  BY <1>2, <1>3, <1>4
<1>6. Bit[m] = 2 * Bit[m - 1]  BY <1>5, BitStep
<1>7. Bit[m - 1] \in Nat \ {0}  BY <1>2, <1>5
<1>8. PICK x \in Nat \ {0} : x = Bit[m - 1]  BY <1>7
<1>9. 2 * x \in Nat \ {0}  OBVIOUS
<1>10. QED  BY <1>2, <1>6, <1>8, <1>9

LEMMA BitGrows ==
  ASSUME NEW i \in 0..IndexBits, NEW j \in i..IndexBits
  PROVE  Bit[i] <= Bit[j]
<1> DEFINE Bad == {n \in i..IndexBits : ~(Bit[i] <= Bit[n])}
           m == Min(Bad)
<1>1. SUFFICES ASSUME Bad # {} PROVE FALSE  OBVIOUS
<1>2. m \in Bad /\ \A n \in Bad : m <= n
  <2>1. Bad \in SUBSET Nat  OBVIOUS
  <2> HIDE DEF Bad
  <2>2. QED  BY <1>1, <2>1, LeastElement
<1> HIDE DEF m
<1>3. IndexBits \in Nat  BY RangeAllocatorAssumption
<1>4. m # i  BY <1>2, <1>3, BitType
<1>5. m \in 1..IndexBits /\ m - 1 \in i..IndexBits /\ m - 1 \in 0..IndexBits /\ ~(m <= m - 1)
  BY <1>2, <1>3, <1>4
<1>6. Bit[m] = 2 * Bit[m - 1]  BY <1>5, BitStep
<1>7. Bit[i] <= Bit[m - 1]  BY <1>2, <1>5
<1>8. Bit[m - 1] \in Nat \ {0} /\ Bit[i] \in Nat \ {0}  BY <1>5, <1>3, BitType
<1>9. PICK x \in Nat, y \in Nat : x = Bit[m - 1] /\ y = Bit[i]  BY <1>8
<1>10. y <= 2 * x  BY <1>7, <1>9
<1>11. QED  BY <1>2, <1>6, <1>9, <1>10

LEMMA Times ==
  ASSUME NEW a \in Nat, NEW b \in Nat, NEW c \in Nat
  PROVE  2 * (a * b) = a * (2 * b) /\ a * b \in Nat
  BY SMT

LEMMA BitSum ==
  ASSUME NEW i \in 0..IndexBits, NEW j \in 0..(IndexBits - i)
  PROVE  Bit[i + j] = Bit[i] * Bit[j]
<1> DEFINE Bad == {n \in 0..(IndexBits - i) : Bit[i + n] # Bit[i] * Bit[n]}
           m == Min(Bad)
<1>1. SUFFICES ASSUME Bad # {} PROVE FALSE  OBVIOUS
<1>2. m \in Bad /\ \A n \in Bad : m <= n
  <2>1. Bad \in SUBSET Nat  OBVIOUS
  <2> HIDE DEF Bad
  <2>2. QED  BY <1>1, <2>1, LeastElement
<1> HIDE DEF m
<1>3. IndexBits \in Nat  BY RangeAllocatorAssumption
<1>4. m # 0
  <2>1. Bit[i] \in Nat  BY <1>3, BitType
  <2>2. i + 0 = i /\ Bit[i] * 1 = Bit[i]  BY <2>1, <1>3
  <2>3. QED  BY <1>2, <2>2, BitStep
<1>5. /\ m \in 1..IndexBits /\ m - 1 \in 0..(IndexBits - i) /\ m - 1 \in 0..IndexBits /\ ~(m <= m - 1)
      /\ i + m \in 1..IndexBits /\ (i + m) - 1 = i + (m - 1)
  BY <1>2, <1>3, <1>4
<1>6. Bit[m] = 2 * Bit[m - 1] /\ Bit[i + m] = 2 * Bit[i + (m - 1)]  BY <1>5, BitStep
<1>7. Bit[i + (m - 1)] = Bit[i] * Bit[m - 1]  BY <1>2, <1>5
<1>8. Bit[m - 1] \in Nat \ {0} /\ Bit[i] \in Nat \ {0}  BY <1>5, <1>3, BitType
<1>9. PICK x \in Nat, y \in Nat : x = Bit[m - 1] /\ y = Bit[i]  BY <1>8
<1>10. 2 * (y * x) = y * (2 * x)  BY Times
<1>11. QED  BY <1>2, <1>6, <1>7, <1>9, <1>10

-----------------------------------------------------------------------------
(* The constants, and the size class of a size                             *)

Bins == 0..(IndexBits * bins_per_leaf - 1)

LEMMA Constants ==
  /\ IndexBits \in Nat \ {0} /\ mantissa_bits \in 1..IndexBits
  /\ bins_per_leaf \in Nat /\ 2 <= bins_per_leaf
  /\ unused_node \in Nat /\ Bit[IndexBits] = unused_node + 1
  /\ capacity \in Nat \ {0} /\ capacity <= unused_node
  /\ max_allocations \in Nat \ {0}
  /\ node_capacity \in Nat /\ 3 <= node_capacity /\ node_capacity <= unused_node
<1>1. IndexBits \in Nat \ {0} /\ mantissa_bits \in 1..IndexBits  BY RangeAllocatorAssumption
<1>2. bins_per_leaf \in Nat /\ 2 <= bins_per_leaf
  <2>1. 1 \in 0..IndexBits /\ mantissa_bits \in 0..IndexBits /\ 1 \in 1..IndexBits  BY <1>1
  <2>2. Bit[1] = 2  BY <2>1, BitStep
  <2>3. Bit[1] <= Bit[mantissa_bits]  BY <1>1, <2>1, BitGrows
  <2>4. Bit[mantissa_bits] \in Nat \ {0}  BY <2>1, BitType
  <2>5. QED  BY <2>2, <2>3, <2>4 DEF bins_per_leaf
<1>3. unused_node \in Nat /\ Bit[IndexBits] = unused_node + 1
  <2>1. IndexBits \in 0..IndexBits  BY <1>1
  <2>2. Bit[IndexBits] \in Nat \ {0}  BY <2>1, BitType
  <2>3. PICK b \in Nat \ {0} : b = Bit[IndexBits]  BY <2>2
  <2>4. b - 1 \in Nat /\ b = (b - 1) + 1  OBVIOUS
  <2>5. QED  BY <2>3, <2>4 DEF unused_node
<1>4. capacity \in Nat \ {0} /\ capacity <= unused_node  BY <1>3, RangeAllocatorAssumption
<1>5. PICK u \in Nat : u = unused_node  BY <1>3
<1>6. max_allocations \in 1..((u - 1) \div 2)
  BY <1>5, RangeAllocatorAssumption DEF maximum_allocation_count
<1>7. u >= 1  BY <1>4, <1>5
<1>8. max_allocations \in Nat \ {0} /\ 2 * max_allocations <= u - 1
  BY <1>5, <1>6, <1>7
<1>9. node_capacity \in Nat /\ 3 <= node_capacity /\ node_capacity <= u
  BY <1>8 DEF node_capacity
<1>10. QED  BY <1>1, <1>2, <1>3, <1>4, <1>5, <1>8, <1>9

LEMMA UnusedIsNoNode == unused_node \notin NodeIndex /\ NodeIndex \in SUBSET Nat
    /\ Link = NodeIndex \cup {unused_node}
  BY Constants DEF NodeIndex, Link

(* Products of naturals in the order of their factors                      *)
LEMMA Products ==
  ASSUME NEW a \in Nat, NEW b \in Nat, NEW d \in Nat, a <= b
  PROVE  a * d <= b * d /\ a * d \in Nat
<1>1. PICK k \in Nat : b = a + k
  <2>1. b - a \in Nat /\ b = a + (b - a)  OBVIOUS
  <2>2. QED  BY <2>1
<1>2. b * d = a * d + k * d /\ k * d \in Nat /\ a * d \in Nat  BY <1>1, SMT
<1>3. QED  BY <1>2

LEMMA Factors ==
  ASSUME NEW a \in Nat, NEW b \in Nat, NEW d \in Nat, a * d < b * d
  PROVE  a < b
<1>1. SUFFICES ASSUME b <= a PROVE FALSE  OBVIOUS
<1>2. b * d <= a * d /\ b * d \in Nat /\ a * d \in Nat  BY <1>1, Products
<1>3. QED  BY <1>2

LEMMA Quotient ==
  ASSUME NEW x \in Nat, NEW d \in Nat \ {0}
  PROVE  /\ x \div d \in Nat /\ x % d \in 0 .. d - 1 /\ x = (x \div d) * d + (x % d)
  BY SMT

LEMMA HighestBitOf ==
  ASSUME NEW size \in 1..unused_node
  PROVE  /\ HighestBit(size) \in 0..(IndexBits - 1)
         /\ Bit[HighestBit(size)] <= size /\ size < Bit[HighestBit(size) + 1]
<1> DEFINE S == {b \in 0..(IndexBits - 1) : Bit[b] <= size}
<1>1. IndexBits \in Nat \ {0}  BY Constants
<1>2. IndexBits - 1 \in Nat /\ S \in SUBSET (0..(IndexBits - 1))  BY <1>1
<1>3. S # {}
  <2>1. Bit[0] <= size /\ 0 \in 0..(IndexBits - 1)  BY BitStep, <1>1
  <2>2. QED  BY <2>1
<1>4. HighestBit(size) = Max(S)  BY DEF HighestBit
<1> HIDE DEF S
<1>5. Max(S) \in S /\ \A y \in S : y <= Max(S)  BY <1>2, <1>3, GreatestElement
<1>6. PICK h : h = Max(S)  OBVIOUS
<1>7. h \in 0..(IndexBits - 1) /\ Bit[h] <= size  BY <1>5, <1>6 DEF S
<1>8. size < Bit[h + 1]
  <2>1. h + 1 \in 0..IndexBits /\ ~(h + 1 <= h)  BY <1>1, <1>7
  <2>2. Bit[h + 1] \in Nat  BY <2>1, BitType
  <2>3. CASE h + 1 = IndexBits
    <3>1. Bit[h + 1] = unused_node + 1  BY <2>3, Constants
    <3>2. unused_node \in Nat  BY Constants
    <3>3. QED  BY <3>1, <3>2
  <2>4. CASE h + 1 # IndexBits
    <3>1. h + 1 \in 0..(IndexBits - 1)  BY <1>1, <2>1, <2>4
    <3>2. h + 1 \notin S  BY <1>5, <1>6, <2>1
    <3>3. ~(Bit[h + 1] <= size)  BY <3>1, <3>2 DEF S
    <3>4. QED  BY <2>2, <3>3
  <2>5. QED  BY <2>3, <2>4
<1>9. QED  BY <1>4, <1>6, <1>7, <1>8

(* A size that does not fit the first leaf: its first bits are a quotient  *)
(* by a power of two.                                                      *)
LargeBin(size, start, q) ==
  /\ start \in 0..(IndexBits - 1 - mantissa_bits)
  /\ HighestBit(size) = start + mantissa_bits
  /\ q \in bins_per_leaf..(2 * bins_per_leaf - 1)
  /\ q * Bit[start] <= size /\ size < (q + 1) * Bit[start]
  /\ size_to_bin_round_down(size) = start * bins_per_leaf + q

LEMMA BinOfLarge ==
  ASSUME NEW size \in 1..unused_node, bins_per_leaf <= size
  PROVE  \E start, q \in Nat : LargeBin(size, start, q)
<1> DEFINE h == HighestBit(size)
           start == h - mantissa_bits
           q == size \div Bit[start]
<1>1. /\ IndexBits \in Nat \ {0} /\ mantissa_bits \in 1..IndexBits /\ bins_per_leaf \in Nat
      /\ 2 <= bins_per_leaf
      /\ unused_node \in Nat
  BY Constants
<1>2. h \in 0..(IndexBits - 1) /\ Bit[h] <= size /\ size < Bit[h + 1]  BY HighestBitOf
<1> HIDE DEF h
<1>3. mantissa_bits <= h
  <2>1. SUFFICES ASSUME h + 1 <= mantissa_bits PROVE FALSE  BY <1>1, <1>2
  <2>2. h + 1 \in 0..IndexBits /\ mantissa_bits \in (h + 1)..IndexBits  BY <1>1, <1>2, <2>1
  <2>3. Bit[h + 1] <= Bit[mantissa_bits]  BY <2>2, BitGrows
  <2>4. Bit[h + 1] \in Nat  BY <2>2, BitType
  <2>5. QED  BY <1>1, <1>2, <2>3, <2>4 DEF bins_per_leaf
<1>4. /\ start \in 0..(IndexBits - 1 - mantissa_bits) /\ h = start + mantissa_bits
      /\ start \in 0..IndexBits /\ mantissa_bits \in 0..(IndexBits - start)
      /\ h \in 0..IndexBits /\ h + 1 \in 1..IndexBits /\ (h + 1) - 1 = h
  BY <1>1, <1>2, <1>3
<1> HIDE DEF start
<1>5. PICK d \in Nat \ {0} : d = Bit[start]  BY <1>4, BitType
<1>6. PICK M \in Nat : M = bins_per_leaf  BY <1>1
<1>7. Bit[h] = d * M  BY <1>4, <1>5, <1>6, BitSum DEF bins_per_leaf
<1>8. Bit[h + 1] = 2 * Bit[h]  BY <1>4, BitStep
<1>9. PICK s \in Nat : s = size  BY <1>1
<1>10. q = s \div d /\ s \div d \in Nat /\ s % d \in 0 .. d - 1 /\ s = (s \div d) * d + (s % d)
  BY <1>5, <1>9, Quotient
<1> HIDE DEF q
<1>11. q \in Nat /\ q * d \in Nat /\ s = q * d + (s % d)  BY <1>10, Products
<1>12. q * d <= s /\ s < q * d + d  BY <1>10, <1>11
<1>13. (q + 1) * d = q * d + d /\ (2 * M) * d = 2 * (d * M) /\ M * d = d * M /\ d * M \in Nat  BY <1>11, SMT
<1>14. M <= q
  <2>1. M * d < (q + 1) * d
    <3>1. PICK x \in Nat, y \in Nat : x = M * d /\ y = (q + 1) * d  BY <1>11, <1>13
    <3>2. x <= s /\ s < y  BY <1>2, <1>7, <1>9, <1>12, <1>13, <3>1
    <3>3. QED  BY <3>1, <3>2
  <2>2. M < q + 1  BY <1>11, <2>1, Factors
  <2>3. QED  BY <1>11, <2>2
<1>15. q < 2 * M
  <2>1. q * d < (2 * M) * d  BY <1>2, <1>7, <1>8, <1>9, <1>11, <1>12, <1>13
  <2>2. 2 * M \in Nat  OBVIOUS
  <2>3. QED  BY <1>11, <2>1, <2>2, Factors
<1>16. q % M = q - M
  <2>1. PICK r \in 0..(M - 1) : q = M + r
    <3>1. q - M \in 0..(M - 1) /\ q = M + (q - M)  BY <1>11, <1>14, <1>15
    <3>2. QED  BY <3>1
  <2>2. M \in Nat \ {0}  BY <1>1, <1>6
  <2>3. (M + r) % M = r  BY <2>2, SMT
  <2>4. QED  BY <2>1, <2>3
<1>17. size_to_bin_round_down(size) = start * M + q
  <2>1. ~(s < M)  BY <1>1, <1>6, <1>9
  <2>2. size_to_bin_round_down(size) = (start + 1) * M + (q % M)
    BY <1>6, <1>9, <2>1 DEF size_to_bin_round_down, h, start, q
  <2>3. (start + 1) * M = start * M + M /\ start * M \in Nat  BY <1>4, SMT
  <2>4. QED  BY <1>11, <1>14, <1>16, <2>2, <2>3
<1>18. LargeBin(size, start, q)
  BY <1>4, <1>5, <1>6, <1>9, <1>11, <1>12, <1>13, <1>14, <1>15, <1>17 DEF LargeBin, h
<1>19. QED  BY <1>4, <1>11, <1>18

LEMMA BinType ==
  ASSUME NEW size \in 1..unused_node
  PROVE  size_to_bin_round_down(size) \in Bins
<1>1. /\ IndexBits \in Nat \ {0} /\ mantissa_bits \in 1..IndexBits /\ bins_per_leaf \in Nat
      /\ 2 <= bins_per_leaf
      /\ unused_node \in Nat
  BY Constants
<1>2. PICK M \in Nat, N \in Nat : M = bins_per_leaf /\ N = IndexBits  BY <1>1
<1>3. M <= N * M /\ N * M \in Nat
  <2>1. 1 * M <= N * M /\ N * M \in Nat  BY <1>1, <1>2, Products
  <2>2. QED  BY <2>1
<1>4. CASE size < M
  BY <1>1, <1>2, <1>3, <1>4 DEF size_to_bin_round_down, Bins
<1>5. CASE ~(size < M)
  <2>1. PICK start \in Nat, q \in Nat : LargeBin(size, start, q)  BY <1>1, <1>2, <1>5, BinOfLarge
  <2>2. start + 2 <= N /\ q \in 0..(2 * M - 1)  BY <1>1, <1>2, <2>1 DEF LargeBin
  <2>3. (start + 2) * M <= N * M /\ (start + 2) * M \in Nat  BY <2>2, Products
  <2>4. (start + 2) * M = start * M + 2 * M /\ start * M \in Nat  BY SMT
  <2>5. start * M + q \in 0..(N * M - 1)  BY <1>3, <2>2, <2>3, <2>4
  <2>6. QED  BY <1>2, <2>1, <2>5 DEF LargeBin, Bins
<1>6. QED  BY <1>4, <1>5

(* A smaller size is not in a higher bin.                                  *)
LEMMA BinsInOrder ==
  ASSUME NEW s \in 1..unused_node, NEW t \in s..unused_node
  PROVE  size_to_bin_round_down(s) <= size_to_bin_round_down(t)
<1>1. /\ IndexBits \in Nat \ {0} /\ mantissa_bits \in 1..IndexBits /\ bins_per_leaf \in Nat
      /\ 2 <= bins_per_leaf
      /\ unused_node \in Nat
  BY Constants
<1>2. PICK M \in Nat : M = bins_per_leaf  BY <1>1
<1>3. s \in Nat /\ t \in Nat /\ s <= t /\ t \in 1..unused_node  BY <1>1
<1>4. CASE t < M
  BY <1>2, <1>3, <1>4 DEF size_to_bin_round_down
<1>5. CASE s < M /\ ~(t < M)
  <2>1. PICK start \in Nat, q \in Nat : LargeBin(t, start, q)  BY <1>1, <1>2, <1>3, <1>5, BinOfLarge
  <2>2. start * M \in Nat  BY SMT
  <2>3. q \in M..(2 * M - 1)  BY <1>2, <2>1 DEF LargeBin
  <2>4. s <= start * M + q  BY <1>2, <1>3, <1>5, <2>2, <2>3
  <2>5. size_to_bin_round_down(s) = s  BY <1>2, <1>5 DEF size_to_bin_round_down
  <2>6. QED  BY <1>2, <2>1, <2>4, <2>5 DEF LargeBin
<1>6. CASE ~(s < M)
  <2>1. PICK a \in Nat, p \in Nat : LargeBin(s, a, p)  BY <1>1, <1>2, <1>3, <1>6, BinOfLarge
  <2>2. PICK b \in Nat, q \in Nat : LargeBin(t, b, q)  BY <1>1, <1>2, <1>3, <1>6, BinOfLarge
  <2>3. /\ p \in M..(2 * M - 1) /\ q \in M..(2 * M - 1)
        /\ a \in 0..(IndexBits - 1) /\ b \in 0..(IndexBits - 1)
    BY <1>1, <1>2, <2>1, <2>2 DEF LargeBin
  <2>4. a <= b
    <3>1. SUFFICES ASSUME b + 1 <= a PROVE FALSE  OBVIOUS
    <3> DEFINE h == HighestBit(s)
               g == HighestBit(t)
    <3>2. h = a + mantissa_bits /\ g = b + mantissa_bits  BY <2>1, <2>2 DEF LargeBin
    <3>3. Bit[h] <= s /\ t < Bit[g + 1] /\ h \in 0..(IndexBits - 1) /\ g \in 0..(IndexBits - 1)
      BY <1>3, HighestBitOf
    <3> HIDE DEF h, g
    <3>4. g + 1 \in 0..IndexBits /\ h \in (g + 1)..IndexBits /\ h \in 0..IndexBits  BY <1>1, <3>1, <3>2, <3>3
    <3>5. Bit[g + 1] <= Bit[h]  BY <3>4, BitGrows
    <3>6. Bit[g + 1] \in Nat /\ Bit[h] \in Nat  BY <3>4, BitType
    <3>7. QED  BY <1>3, <3>3, <3>5, <3>6
  <2>5. CASE a = b
    <3>1. a \in 0..IndexBits  BY <1>1, <2>3
    <3>2. PICK d \in Nat : d = Bit[a]  BY <3>1, BitType
    <3>3. p * d <= s /\ t < (q + 1) * d  BY <2>1, <2>2, <2>5, <3>2 DEF LargeBin
    <3>4. p * d \in Nat /\ (q + 1) * d \in Nat  BY SMT
    <3>5. p * d < (q + 1) * d  BY <1>3, <3>3, <3>4
    <3>6. p < q + 1  BY <3>5, Factors
    <3>7. a * M + p <= b * M + q
      <4>1. a * M \in Nat  BY SMT
      <4>2. QED  BY <2>5, <3>6, <4>1
    <3>8. QED  BY <1>2, <2>1, <2>2, <3>7 DEF LargeBin
  <2>6. CASE a # b
    <3>1. a + 1 <= b  BY <2>4, <2>6
    <3>2. (a + 1) * M <= b * M /\ (a + 1) * M \in Nat  BY <3>1, Products
    <3>3. (a + 1) * M = a * M + M /\ a * M \in Nat /\ b * M \in Nat  BY SMT
    <3>4. a * M + p <= b * M + q  BY <2>3, <3>2, <3>3
    <3>5. QED  BY <1>2, <2>1, <2>2, <3>4 DEF LargeBin
  <2>7. QED  BY <2>5, <2>6
<1>7. QED  BY <1>4, <1>5, <1>6

(* A bin is a leaf of a top.                                               *)
LEMMA BinOf ==
  ASSUME NEW t \in Nat, NEW l \in Leaves
  PROVE  /\ TopOf(t * bins_per_leaf + l) = t /\ LeafOf(t * bins_per_leaf + l) = l
         /\ t \in Tops => t * bins_per_leaf + l \in Bins
<1>1. PICK M \in Nat \ {0}, N \in Nat : M = bins_per_leaf /\ N = IndexBits  BY Constants
<1>2. l \in 0..(M - 1)  BY <1>1 DEF Leaves
<1>3. (t * M + l) \div M = t /\ (t * M + l) % M = l  BY <1>2, SMT
<1>4. ASSUME t \in Tops PROVE t * M + l \in 0..(N * M - 1)
  <2>1. t + 1 <= N  BY <1>1, <1>4 DEF Tops
  <2>2. (t + 1) * M <= N * M /\ (t + 1) * M \in Nat  BY <2>1, Products
  <2>3. (t + 1) * M = t * M + M /\ t * M \in Nat /\ N * M \in Nat  BY SMT
  <2>4. QED  BY <1>2, <2>2, <2>3
<1>5. QED  BY <1>1, <1>3, <1>4 DEF TopOf, LeafOf, Bins

LEMMA LeafAndTop ==
  ASSUME NEW b \in Nat
  PROVE  /\ TopOf(b) \in Nat /\ LeafOf(b) \in Leaves /\ b = TopOf(b) * bins_per_leaf + LeafOf(b)
         /\ b \in Bins => TopOf(b) \in Tops
<1>1. PICK M \in Nat \ {0}, N \in Nat : M = bins_per_leaf /\ N = IndexBits  BY Constants
<1>2. b \div M \in Nat /\ b % M \in 0 .. M - 1 /\ b = (b \div M) * M + (b % M)  BY Quotient
<1>3. ASSUME b \in Bins PROVE b \div M \in 0..(N - 1)
  <2>1. PICK t \in Nat : t = b \div M  BY <1>2
  <2>2. t * M \in Nat /\ N * M \in Nat  BY SMT
  <2>3. b \in 0..(N * M - 1)  BY <1>1, <1>3 DEF Bins
  <2>4. t * M < N * M  BY <1>2, <2>1, <2>2, <2>3
  <2>5. t < N  BY <2>4, Factors
  <2>6. QED  BY <2>1, <2>5
<1>4. QED  BY <1>1, <1>2, <1>3 DEF TopOf, LeafOf, Leaves, Tops

-----------------------------------------------------------------------------
(* The record of an allocator, its sizes and offsets not yet bounded       *)

AnyNode == [offset : Nat, size : Nat, used : BOOLEAN,
            bin_previous : Link, bin_next : Link, neighbor_previous : Link, neighbor_next : Link]
Ranges == [allocation_count : Int, used_top_bins : SUBSET Tops, used_leaf_bins : [Tops -> SUBSET Leaves],
           bin_indices : [Bins -> Link], nodes : [NodeIndex -> AnyNode], free_nodes : Seq(NodeIndex)]

BinOfNode(a, n) == size_to_bin_round_down(a.nodes[n].size)

(* S is what the lists hold; n was inserted at stamp[n], and a list goes   *)
(* from the youngest of its nodes to the oldest.                           *)
Listed(a, S, stamp, clock) ==
  /\ S \subseteq NodeIndex
  /\ stamp \in [NodeIndex -> Nat] /\ clock \in Nat
  /\ \A n \in S : stamp[n] < clock /\ a.nodes[n].size \in 1..unused_node
  /\ \A m, n \in S : stamp[m] = stamp[n] => m = n
  /\ \A b \in Bins : a.bin_indices[b] # unused_node =>
       /\ a.bin_indices[b] \in S /\ BinOfNode(a, a.bin_indices[b]) = b
       /\ a.nodes[a.bin_indices[b]].bin_previous = unused_node
  /\ \A n \in S : /\ a.bin_indices[BinOfNode(a, n)] # unused_node
                  /\ stamp[n] <= stamp[a.bin_indices[BinOfNode(a, n)]]
  /\ \A n \in S : a.nodes[n].bin_next # unused_node =>
       /\ a.nodes[n].bin_next \in S /\ BinOfNode(a, a.nodes[n].bin_next) = BinOfNode(a, n)
       /\ stamp[a.nodes[n].bin_next] < stamp[n]
       /\ a.nodes[a.nodes[n].bin_next].bin_previous = n
  /\ \A n \in S : a.nodes[n].bin_previous # unused_node =>
       a.nodes[n].bin_previous \in S /\ a.nodes[a.nodes[n].bin_previous].bin_next = n
  /\ \A n \in S : a.nodes[n].bin_previous = unused_node => a.bin_indices[BinOfNode(a, n)] = n
  /\ \A m, n \in S : BinOfNode(a, m) = BinOfNode(a, n) /\ stamp[m] < stamp[n] =>
       a.nodes[n].bin_next # unused_node /\ stamp[m] <= stamp[a.nodes[n].bin_next]
  /\ \A n \in NodeIndex \ S : a.nodes[n].bin_next = unused_node /\ a.nodes[n].bin_previous = unused_node

BitmapsExact(a) ==
  /\ \A b \in Bins : (a.bin_indices[b] # unused_node) <=> (LeafOf(b) \in a.used_leaf_bins[TopOf(b)])
  /\ a.used_top_bins = {t \in Tops : a.used_leaf_bins[t] # {}}

(* What a node is apart from its place in a list                           *)
SameRange(v, w) ==
  /\ v.offset = w.offset /\ v.size = w.size
  /\ v.neighbor_previous = w.neighbor_previous /\ v.neighbor_next = w.neighbor_next

LEMMA RelinkedNodes ==
  ASSUME NEW nodes \in [NodeIndex -> AnyNode], NEW n \in Link, NEW target \in Link
  PROVE  /\ Relinked(nodes, n, "bin_previous", target) =
              [m \in NodeIndex |-> IF m = n THEN [nodes[m] EXCEPT !.bin_previous = target] ELSE nodes[m]]
         /\ Relinked(nodes, n, "bin_next", target) =
              [m \in NodeIndex |-> IF m = n THEN [nodes[m] EXCEPT !.bin_next = target] ELSE nodes[m]]
         /\ Relinked(nodes, n, "neighbor_previous", target) =
              [m \in NodeIndex |-> IF m = n THEN [nodes[m] EXCEPT !.neighbor_previous = target] ELSE nodes[m]]
         /\ Relinked(nodes, n, "neighbor_next", target) =
              [m \in NodeIndex |-> IF m = n THEN [nodes[m] EXCEPT !.neighbor_next = target] ELSE nodes[m]]
<1>1. CASE n = unused_node
  <2>1. \A m \in NodeIndex : m # n  BY <1>1, UnusedIsNoNode
  <2>2. nodes = [m \in NodeIndex |-> nodes[m]]  OBVIOUS
  <2>3. QED  BY <1>1, <2>1, <2>2 DEF Relinked
<1>2. CASE n # unused_node
  <2>1. n \in NodeIndex  BY <1>2, UnusedIsNoNode
  <2>2. nodes = [m \in NodeIndex |-> nodes[m]] /\ nodes[n] \in AnyNode  BY <2>1
  <2>3. QED  BY <1>2, <2>1, <2>2 DEF Relinked, AnyNode
<1>3. QED  BY <1>1, <1>2

LEMMA RelinkedForward ==
  ASSUME NEW nodes \in [NodeIndex -> AnyNode], NEW n \in Link, NEW target \in Link
  PROVE  Relinked(nodes, n, "neighbor_next", target) =
           [m \in NodeIndex |-> IF m = n THEN [nodes[m] EXCEPT !.neighbor_next = target] ELSE nodes[m]]
  BY RelinkedNodes

LEMMA NodeBin ==
  ASSUME NEW a \in Ranges, NEW n \in NodeIndex, a.nodes[n].size \in 1..unused_node
  PROVE  /\ BinOfNode(a, n) \in Bins /\ TopOf(BinOfNode(a, n)) \in Tops /\ LeafOf(BinOfNode(a, n)) \in Leaves
         /\ a.bin_indices[BinOfNode(a, n)] \in Link
<1>1. BinOfNode(a, n) \in Bins  BY BinType DEF BinOfNode
<1>2. PICK b \in Bins : b = BinOfNode(a, n)  BY <1>1
<1>3. b \in Nat  BY Constants DEF Bins
<1>4. TopOf(b) \in Tops /\ LeafOf(b) \in Leaves  BY <1>3, LeafAndTop
<1>5. a.bin_indices[b] \in Link  BY DEF Ranges
<1>6. QED  BY <1>2, <1>4, <1>5

(* The fields of r, what insert_free_node makes of a                       *)
Inserted(r, a, n) ==
  LET b == BinOfNode(a, n)
      next == a.bin_indices[b]
  IN /\ r \in Ranges
     /\ r.allocation_count = a.allocation_count /\ r.free_nodes = a.free_nodes
     /\ r.used_top_bins = a.used_top_bins \cup {TopOf(b)}
     /\ \A t \in Tops : r.used_leaf_bins[t] = IF t = TopOf(b) THEN a.used_leaf_bins[t] \cup {LeafOf(b)}
                                             ELSE a.used_leaf_bins[t]
     /\ \A c \in Bins : r.bin_indices[c] = IF c = b THEN n ELSE a.bin_indices[c]
     /\ \A m \in NodeIndex :
          /\ SameRange(r.nodes[m], a.nodes[m])
          /\ r.nodes[m].used = IF m = n THEN FALSE ELSE a.nodes[m].used
          /\ r.nodes[m].bin_next = IF m = n THEN next ELSE a.nodes[m].bin_next
          /\ r.nodes[m].bin_previous = IF m = n THEN unused_node ELSE IF m = next THEN n
                                       ELSE a.nodes[m].bin_previous

LEMMA InsertFields ==
  ASSUME NEW a \in Ranges, NEW n \in NodeIndex, a.nodes[n].size \in 1..unused_node,
         a.bin_indices[BinOfNode(a, n)] # n
  PROVE  Inserted(InsertFreeNode(a, n), a, n)
<1> DEFINE b == BinOfNode(a, n)
           next == a.bin_indices[b]
           linked == [a.nodes EXCEPT ![n].used = FALSE, ![n].bin_previous = unused_node, ![n].bin_next = next]
           top == TopOf(b)
           leaf == LeafOf(b)
<1>1. b \in Bins /\ top \in Tops /\ leaf \in Leaves /\ next \in Link  BY NodeBin
<1>2. n \in Link /\ unused_node \in Link  BY DEF Link
<1>3. a.nodes \in [NodeIndex -> AnyNode]  BY DEF Ranges
<1>4. /\ linked \in [NodeIndex -> AnyNode]
      /\ \A m \in NodeIndex :
           linked[m] = IF m = n
               THEN [a.nodes[n] EXCEPT !.used = FALSE, !.bin_previous = unused_node, !.bin_next = next]
                       ELSE a.nodes[m]
  <2> HIDE DEF next
  <2>1. a.nodes[n] \in AnyNode  BY <1>3
  <2>2. linked = [m \in NodeIndex |->
                    IF m = n
                        THEN [a.nodes[n] EXCEPT !.used = FALSE, !.bin_previous = unused_node,
                              !.bin_next = next]
                    ELSE a.nodes[m]]
    BY <1>3, <2>1 DEF AnyNode
  <2>3. [a.nodes[n] EXCEPT !.used = FALSE, !.bin_previous = unused_node, !.bin_next = next] \in AnyNode
    BY <1>1, <1>2, <2>1 DEF AnyNode
  <2> HIDE DEF linked
  <2>4. QED  BY <1>3, <2>2, <2>3
<1>5. InsertFreeNode(a, n) =
        [a EXCEPT !.nodes = Relinked(linked, next, "bin_previous", n),
                  !.bin_indices[b] = n,
                  !.used_leaf_bins[top] = @ \cup {leaf},
                  !.used_top_bins = @ \cup {top}]
  BY DEF InsertFreeNode, BinOfNode
<1> HIDE DEF b, next, linked, top, leaf
<1> DEFINE nodes == Relinked(linked, next, "bin_previous", n)
<1>6. nodes = [m \in NodeIndex |-> IF m = next THEN [linked[m] EXCEPT !.bin_previous = n] ELSE linked[m]]
  BY <1>1, <1>2, <1>4, RelinkedNodes
<1>7. nodes \in [NodeIndex -> AnyNode]
  <2>1. \A m \in NodeIndex : linked[m] \in AnyNode /\ [linked[m] EXCEPT !.bin_previous = n] \in AnyNode
    BY <1>2, <1>4 DEF AnyNode
  <2>2. QED  BY <1>6, <2>1
<1> HIDE DEF nodes
<1>8. InsertFreeNode(a, n) =
        [allocation_count |-> a.allocation_count, used_top_bins |-> a.used_top_bins \cup {top},
         used_leaf_bins |-> [a.used_leaf_bins EXCEPT ![top] = @ \cup {leaf}],
         bin_indices |-> [a.bin_indices EXCEPT ![b] = n], nodes |-> nodes, free_nodes |-> a.free_nodes]
  BY <1>1, <1>5 DEF Ranges, nodes
<1> DEFINE r == InsertFreeNode(a, n)
<1>9. r \in Ranges
  <2>1. /\ a.allocation_count \in Int /\ a.used_top_bins \cup {top} \in SUBSET Tops
        /\ a.free_nodes \in Seq(NodeIndex)
    BY <1>1 DEF Ranges
  <2>2. [a.used_leaf_bins EXCEPT ![top] = @ \cup {leaf}] \in [Tops -> SUBSET Leaves]
    BY <1>1 DEF Ranges
  <2>3. [a.bin_indices EXCEPT ![b] = n] \in [Bins -> Link]
    BY <1>1, <1>2 DEF Ranges
  <2>4. QED  BY <1>7, <1>8, <2>1, <2>2, <2>3 DEF Ranges
<1>10. ASSUME NEW m \in NodeIndex
       PROVE  /\ SameRange(r.nodes[m], a.nodes[m])
              /\ r.nodes[m].used = (IF m = n THEN FALSE ELSE a.nodes[m].used)
              /\ r.nodes[m].bin_next = (IF m = n THEN next ELSE a.nodes[m].bin_next)
              /\ r.nodes[m].bin_previous = (IF m = n THEN unused_node ELSE IF m = next THEN n
                                            ELSE a.nodes[m].bin_previous)
  <2>1. next # n  BY DEF next, b
  <2>2. r.nodes[m] = nodes[m]  BY <1>8
  <2>3. a.nodes[m] \in AnyNode  BY <1>3
  <2>4. CASE m = n
    <3>1. nodes[m] = [a.nodes[m] EXCEPT !.used = FALSE, !.bin_previous = unused_node, !.bin_next = next]
      BY <1>4, <1>6, <2>1, <2>4
    <3>2. QED  BY <2>1, <2>2, <2>3, <2>4, <3>1 DEF AnyNode, SameRange
  <2>5. CASE m # n /\ m = next
    <3>1. nodes[m] = [a.nodes[m] EXCEPT !.bin_previous = n]  BY <1>4, <1>6, <2>5
    <3>2. QED  BY <2>2, <2>3, <2>5, <3>1 DEF AnyNode, SameRange
  <2>6. CASE m # n /\ m # next
    <3>1. nodes[m] = a.nodes[m]  BY <1>4, <1>6, <2>6
    <3>2. QED  BY <2>2, <2>6, <3>1 DEF SameRange
  <2>7. QED  BY <2>4, <2>5, <2>6
<1>11. /\ r.allocation_count = a.allocation_count /\ r.free_nodes = a.free_nodes
       /\ r.used_top_bins = a.used_top_bins \cup {top}
  BY <1>8
<1>12. \A t \in Tops : r.used_leaf_bins[t] = IF t = top THEN a.used_leaf_bins[t] \cup {leaf}
           ELSE a.used_leaf_bins[t]
  <2>1. r.used_leaf_bins = [a.used_leaf_bins EXCEPT ![top] = @ \cup {leaf}]  BY <1>8
  <2>2. a.used_leaf_bins \in [Tops -> SUBSET Leaves]  BY DEF Ranges
  <2> HIDE DEF r
  <2>3. QED  BY <1>1, <2>1, <2>2
<1>13. \A c \in Bins : r.bin_indices[c] = IF c = b THEN n ELSE a.bin_indices[c]
  BY <1>1, <1>8 DEF Ranges
<1>14. QED  BY <1>9, <1>10, <1>11, <1>12, <1>13 DEF Inserted, b, next, top, leaf

(* What insert_free_node asks of a and its node n, and what it makes of a  *)
Insertable(a, S, stamp, clock, n) ==
  /\ a \in Ranges /\ Listed(a, S, stamp, clock) /\ BitmapsExact(a)
  /\ n \in NodeIndex \ S /\ a.nodes[n].size \in 1..unused_node

Relisted(r, a, S, stamp, clock, n) ==
  /\ r \in Ranges /\ BitmapsExact(r)
  /\ Listed(r, S \cup {n}, [stamp EXCEPT ![n] = clock], clock + 1)
  /\ r.allocation_count = a.allocation_count /\ r.free_nodes = a.free_nodes
  /\ \A m \in NodeIndex : /\ SameRange(r.nodes[m], a.nodes[m])
                          /\ r.nodes[m].used = IF m = n THEN FALSE ELSE a.nodes[m].used

LEMMA InsertListed ==
  ASSUME NEW a, NEW S, NEW stamp, NEW clock, NEW n, Insertable(a, S, stamp, clock, n)
  PROVE  Relisted(InsertFreeNode(a, n), a, S, stamp, clock, n)
<1>0. /\ a \in Ranges /\ Listed(a, S, stamp, clock) /\ BitmapsExact(a)
      /\ n \in NodeIndex \ S /\ a.nodes[n].size \in 1..unused_node
  BY DEF Insertable
<1> USE <1>0
<1> DEFINE r == InsertFreeNode(a, n)
           b == BinOfNode(a, n)
           next == a.bin_indices[b]
           T == S \cup {n}
           st == [stamp EXCEPT ![n] = clock]
<1>1. b \in Bins /\ TopOf(b) \in Tops /\ LeafOf(b) \in Leaves /\ next \in Link  BY NodeBin
<1>2. next # n
  <2>1. next # unused_node => next \in S  BY <1>1 DEF Listed
  <2>2. n # unused_node  BY UnusedIsNoNode
  <2>3. QED  BY <2>1, <2>2
<1> DEFINE top == TopOf(b)
           leaf == LeafOf(b)
<1>3. /\ r \in Ranges
      /\ r.allocation_count = a.allocation_count /\ r.free_nodes = a.free_nodes
      /\ r.used_top_bins = a.used_top_bins \cup {top}
      /\ \A t \in Tops : r.used_leaf_bins[t] = IF t = top THEN a.used_leaf_bins[t] \cup {leaf}
                                              ELSE a.used_leaf_bins[t]
      /\ \A c \in Bins : r.bin_indices[c] = IF c = b THEN n ELSE a.bin_indices[c]
      /\ \A m \in NodeIndex :
           /\ SameRange(r.nodes[m], a.nodes[m])
           /\ r.nodes[m].used = IF m = n THEN FALSE ELSE a.nodes[m].used
           /\ r.nodes[m].bin_next = IF m = n THEN next ELSE a.nodes[m].bin_next
           /\ r.nodes[m].bin_previous = IF m = n THEN unused_node ELSE IF m = next THEN n
                                        ELSE a.nodes[m].bin_previous
  <2>1. n \in NodeIndex /\ a.bin_indices[BinOfNode(a, n)] # n  BY <1>2
  <2>2. Inserted(r, a, n)  BY <2>1, InsertFields
  <2> HIDE DEF r
  <2>3. QED  BY <2>2 DEF Inserted
<1> HIDE DEF r
<1>4. \A m \in NodeIndex :
           /\ SameRange(r.nodes[m], a.nodes[m])
           /\ r.nodes[m].used = IF m = n THEN FALSE ELSE a.nodes[m].used
           /\ r.nodes[m].bin_next = IF m = n THEN next ELSE a.nodes[m].bin_next
           /\ r.nodes[m].bin_previous = IF m = n THEN unused_node ELSE IF m = next THEN n
                                        ELSE a.nodes[m].bin_previous
  BY <1>3
<1>5. \A m \in NodeIndex : r.nodes[m].size = a.nodes[m].size /\ BinOfNode(r, m) = BinOfNode(a, m)
  BY <1>4 DEF SameRange, BinOfNode
<1>6. a.bin_indices \in [Bins -> Link]  BY DEF Ranges
<1>7. \A c \in Bins : r.bin_indices[c] = IF c = b THEN n ELSE a.bin_indices[c]  BY <1>3
<1>8. S \subseteq NodeIndex /\ stamp \in [NodeIndex -> Nat] /\ clock \in Nat  BY DEF Listed
<1>9. T \subseteq NodeIndex /\ st \in [NodeIndex -> Nat] /\ clock + 1 \in Nat
  BY <1>8
<1>10. \A m \in NodeIndex : st[m] = IF m = n THEN clock ELSE stamp[m]  BY <1>8
<1> HIDE DEF st
<1>11. \A m \in S :
           stamp[m] < clock /\ a.nodes[m].size \in 1..unused_node /\ stamp[m] \in Nat /\ m \in NodeIndex
               /\ m # n
  BY <1>8 DEF Listed
<1>12. n # unused_node /\ \A m \in S : BinOfNode(a, m) \in Bins
  BY <1>11, UnusedIsNoNode, NodeBin
<1> HIDE DEF b
<1> HIDE DEF next
<1>13. \A m \in T : st[m] < clock + 1 /\ r.nodes[m].size \in 1..unused_node
  BY <1>5, <1>8, <1>10, <1>11
<1>14. \A k, m \in T : st[k] = st[m] => k = m
  <2>1. \A k, m \in S : stamp[k] = stamp[m] => k = m  BY DEF Listed
  <2>2. QED  BY <1>8, <1>10, <1>11, <2>1
<1>15. \A c \in Bins : r.bin_indices[c] # unused_node =>
         /\ r.bin_indices[c] \in T /\ BinOfNode(r, r.bin_indices[c]) = c
         /\ r.nodes[r.bin_indices[c]].bin_previous = unused_node
  <2> SUFFICES ASSUME NEW c \in Bins, r.bin_indices[c] # unused_node
               PROVE  /\ r.bin_indices[c] \in T /\ BinOfNode(r, r.bin_indices[c]) = c
                      /\ r.nodes[r.bin_indices[c]].bin_previous = unused_node
    OBVIOUS
  <2>1. CASE c = b
    <3>1. BinOfNode(r, n) = b  BY <1>5 DEF b
    <3>2. QED  BY <1>4, <1>7, <2>1, <3>1
  <2>2. CASE c # b
    <3>1. r.bin_indices[c] = a.bin_indices[c]  BY <1>7, <2>2
    <3> PICK m : m = a.bin_indices[c]  OBVIOUS
    <3>2. m \in S /\ BinOfNode(a, m) = c /\ a.nodes[m].bin_previous = unused_node  BY <3>1 DEF Listed
    <3>3. m # next
      <4>1. SUFFICES ASSUME m = next PROVE FALSE  OBVIOUS
      <4>2. next # unused_node => BinOfNode(a, next) = b  BY <1>1 DEF Listed, next
      <4>3. QED  BY <1>11, <2>2, <3>2, <4>1, <4>2, UnusedIsNoNode
    <3>4. QED  BY <1>4, <1>5, <1>11, <3>1, <3>2, <3>3
  <2>3. QED  BY <2>1, <2>2
<1>16. \A m \in T : /\ r.bin_indices[BinOfNode(r, m)] # unused_node
                    /\ st[m] <= st[r.bin_indices[BinOfNode(r, m)]]
  <2> SUFFICES ASSUME NEW m \in T
               PROVE  /\ r.bin_indices[BinOfNode(r, m)] # unused_node
                      /\ st[m] <= st[r.bin_indices[BinOfNode(r, m)]]
    OBVIOUS
  <2>1. m \in NodeIndex /\ BinOfNode(r, m) = BinOfNode(a, m) /\ BinOfNode(a, m) \in Bins
    BY <1>1, <1>5, <1>9, <1>12 DEF b
  <2>2. CASE BinOfNode(a, m) = b  BY <1>7, <1>8, <1>10, <1>11, <1>12, <2>1, <2>2
  <2>3. CASE BinOfNode(a, m) # b
    <3>1. m \in S  BY <2>3 DEF b
    <3> PICK h : h = a.bin_indices[BinOfNode(a, m)]  OBVIOUS
    <3>2. h # unused_node /\ stamp[m] <= stamp[h]  BY <3>1 DEF Listed
    <3>3. h \in S  BY <2>1, <3>2 DEF Listed
    <3>4. QED  BY <1>7, <1>10, <1>11, <2>1, <2>3, <3>1, <3>2, <3>3
  <2>4. QED  BY <2>2, <2>3
<1>17. \A m \in T : r.nodes[m].bin_next # unused_node =>
         /\ r.nodes[m].bin_next \in T /\ BinOfNode(r, r.nodes[m].bin_next) = BinOfNode(r, m)
         /\ st[r.nodes[m].bin_next] < st[m]
         /\ r.nodes[r.nodes[m].bin_next].bin_previous = m
  <2> SUFFICES ASSUME NEW m \in T, r.nodes[m].bin_next # unused_node
               PROVE  /\ r.nodes[m].bin_next \in T /\ BinOfNode(r, r.nodes[m].bin_next) = BinOfNode(r, m)
                      /\ st[r.nodes[m].bin_next] < st[m]
                      /\ r.nodes[r.nodes[m].bin_next].bin_previous = m
    OBVIOUS
  <2>1. m \in NodeIndex  BY <1>9
  <2>2. CASE m = n
    <3>1. r.nodes[m].bin_next = next  BY <1>4, <2>2
    <3>2. next \in S /\ BinOfNode(a, next) = b  BY <1>1, <3>1 DEF Listed, next
    <3>3. QED  BY <1>4, <1>5, <1>10, <1>11, <2>2, <3>1, <3>2 DEF b
  <2>3. CASE m # n
    <3>1. m \in S /\ r.nodes[m].bin_next = a.nodes[m].bin_next  BY <1>4, <2>3, <2>1
    <3> PICK k : k = a.nodes[m].bin_next  OBVIOUS
    <3>2. k \in S /\ BinOfNode(a, k) = BinOfNode(a, m) /\ stamp[k] < stamp[m] /\ a.nodes[k].bin_previous = m
      BY <3>1 DEF Listed
    <3>3. k # next
      <4>1. SUFFICES ASSUME k = next PROVE FALSE  OBVIOUS
      <4>2. next # unused_node => a.nodes[next].bin_previous = unused_node  BY <1>1 DEF Listed, next
      <4>3. QED  BY <1>11, <3>1, <3>2, <4>1, <4>2, UnusedIsNoNode
    <3>4. QED  BY <1>4, <1>5, <1>10, <1>11, <2>1, <3>1, <3>2, <3>3
  <2>4. QED  BY <2>2, <2>3
<1>18. \A m \in T : r.nodes[m].bin_previous # unused_node =>
         r.nodes[m].bin_previous \in T /\ r.nodes[r.nodes[m].bin_previous].bin_next = m
  <2> SUFFICES ASSUME NEW m \in T, r.nodes[m].bin_previous # unused_node
               PROVE  r.nodes[m].bin_previous \in T /\ r.nodes[r.nodes[m].bin_previous].bin_next = m
    OBVIOUS
  <2>1. m \in NodeIndex /\ m # n  BY <1>4, <1>9
  <2>2. CASE m = next  BY <1>4, <2>1, <2>2
  <2>3. CASE m # next
    <3>1. m \in S /\ r.nodes[m].bin_previous = a.nodes[m].bin_previous  BY <1>4, <2>1, <2>3
    <3>2. a.nodes[m].bin_previous \in S /\ a.nodes[a.nodes[m].bin_previous].bin_next = m  BY <3>1 DEF Listed
    <3>3. QED  BY <1>4, <1>11, <3>1, <3>2
  <2>4. QED  BY <2>2, <2>3
<1>19. \A m \in T : r.nodes[m].bin_previous = unused_node => r.bin_indices[BinOfNode(r, m)] = m
  <2> SUFFICES ASSUME NEW m \in T, r.nodes[m].bin_previous = unused_node
               PROVE  r.bin_indices[BinOfNode(r, m)] = m
    OBVIOUS
  <2>1. m \in NodeIndex /\ BinOfNode(r, m) = BinOfNode(a, m) /\ BinOfNode(a, m) \in Bins
    BY <1>1, <1>5, <1>9, <1>12 DEF b
  <2>2. CASE m = n  BY <1>7, <2>1, <2>2 DEF b
  <2>3. CASE m # n
    <3>1. m # next  BY <1>4, <1>12, <2>1, <2>3
    <3>2. m \in S /\ a.nodes[m].bin_previous = unused_node  BY <1>4, <2>1, <2>3, <3>1
    <3>3. a.bin_indices[BinOfNode(a, m)] = m  BY <3>2 DEF Listed
    <3>4. BinOfNode(a, m) # b  BY <3>1, <3>3 DEF next
    <3>5. QED  BY <1>7, <2>1, <3>3, <3>4
  <2>4. QED  BY <2>2, <2>3
<1>20. \A k, m \in T : BinOfNode(r, k) = BinOfNode(r, m) /\ st[k] < st[m] =>
         r.nodes[m].bin_next # unused_node /\ st[k] <= st[r.nodes[m].bin_next]
  <2> SUFFICES ASSUME NEW k \in T, NEW m \in T, BinOfNode(r, k) = BinOfNode(r, m), st[k] < st[m]
               PROVE  r.nodes[m].bin_next # unused_node /\ st[k] <= st[r.nodes[m].bin_next]
    OBVIOUS
  <2>1. k \in NodeIndex /\ m \in NodeIndex  BY <1>9
  <2>2. BinOfNode(a, k) = BinOfNode(a, m)  BY <1>5, <2>1
  <2>3. k # n
    <3>1. st[n] = clock /\ st[m] <= clock  BY <1>8, <1>10, <1>11, <2>1
    <3>2. st[m] \in Nat  BY <1>9, <2>1
    <3>3. QED  BY <3>1, <3>2, <1>8
  <2>4. k \in S  BY <2>3
  <2>5. CASE m = n
    <3>1. BinOfNode(a, k) = b  BY <2>2, <2>5 DEF b
    <3>2. next # unused_node /\ stamp[k] <= stamp[next]  BY <2>4, <3>1 DEF Listed, next
    <3>3. next \in S  BY <1>1, <3>2 DEF Listed, next
    <3>4. QED  BY <1>4, <1>10, <1>11, <2>1, <2>4, <2>5, <3>2, <3>3
  <2>6. CASE m # n
    <3>1. m \in S  BY <2>6
    <3>2. stamp[k] < stamp[m]  BY <1>10, <2>1, <2>3, <2>6
    <3>3. a.nodes[m].bin_next # unused_node /\ stamp[k] <= stamp[a.nodes[m].bin_next]
      BY <2>2, <2>4, <3>1, <3>2 DEF Listed
    <3>4. a.nodes[m].bin_next \in S  BY <3>1, <3>3 DEF Listed
    <3>5. QED  BY <1>4, <1>10, <1>11, <2>1, <2>3, <2>6, <3>3, <3>4
  <2>7. QED  BY <2>5, <2>6
<1>21. \A m \in NodeIndex \ T : r.nodes[m].bin_next = unused_node /\ r.nodes[m].bin_previous = unused_node
  <2> SUFFICES ASSUME NEW m \in NodeIndex \ T
               PROVE  r.nodes[m].bin_next = unused_node /\ r.nodes[m].bin_previous = unused_node
    OBVIOUS
  <2>1. a.nodes[m].bin_next = unused_node /\ a.nodes[m].bin_previous = unused_node  BY DEF Listed
  <2>2. m # next
    <3>1. next # unused_node => next \in S  BY <1>1 DEF Listed, next
    <3>2. QED  BY <3>1, UnusedIsNoNode
  <2>3. QED  BY <1>4, <2>1, <2>2
<1>22. Listed(r, T, st, clock + 1)
  BY <1>9, <1>13, <1>14, <1>15, <1>16, <1>17, <1>18, <1>19, <1>20, <1>21 DEF Listed
<1>23. BitmapsExact(r)
  <2>0. top \in Tops /\ leaf \in Leaves  BY <1>1
  <2>1. \A t \in Tops : r.used_leaf_bins[t] = IF t = top THEN a.used_leaf_bins[t] \cup {leaf}
            ELSE a.used_leaf_bins[t]
    BY <1>3
  <2>2. ASSUME NEW c \in Bins
        PROVE  (r.bin_indices[c] # unused_node) <=> (LeafOf(c) \in r.used_leaf_bins[TopOf(c)])
    <3>1. c \in Nat /\ b \in Nat  BY <1>1, Constants DEF Bins
    <3>2. TopOf(c) \in Tops /\ (TopOf(c) = top /\ LeafOf(c) = leaf => c = b)
      BY <3>1, LeafAndTop
    <3>3. (a.bin_indices[c] # unused_node) <=> (LeafOf(c) \in a.used_leaf_bins[TopOf(c)])  BY DEF BitmapsExact
    <3>4. CASE c = b
      <4>1. r.bin_indices[c] = n /\ TopOf(c) = top /\ LeafOf(c) = leaf  BY <1>7, <3>4
      <4>2. leaf \in r.used_leaf_bins[top]  BY <2>0, <2>1
      <4>3. QED  BY <1>12, <4>1, <4>2
    <3>5. CASE c # b
      <4>1. r.bin_indices[c] = a.bin_indices[c]  BY <1>7, <3>5
      <4>2. LeafOf(c) \in r.used_leaf_bins[TopOf(c)] <=> LeafOf(c) \in a.used_leaf_bins[TopOf(c)]
        BY <2>1, <3>2, <3>5
      <4>3. QED  BY <3>3, <4>1, <4>2
    <3>6. QED  BY <3>4, <3>5
  <2>3. r.used_top_bins = {t \in Tops : r.used_leaf_bins[t] # {}}
    <3>1. a.used_top_bins = {t \in Tops : a.used_leaf_bins[t] # {}}  BY DEF BitmapsExact
    <3> HIDE DEF top, leaf
    <3>2. r.used_top_bins = a.used_top_bins \cup {top}  BY <1>3
    <3>3. QED  BY <2>0, <2>1, <3>1, <3>2
  <2>4. QED  BY <2>2, <2>3 DEF BitmapsExact
<1>24. Relisted(r, a, S, stamp, clock, n)  BY <1>3, <1>4, <1>22, <1>23 DEF Relisted, st
<1>25. QED  BY <1>24 DEF r

(* The fields of r, what remove_free_node makes of a                       *)
FirstInBin(a, n) == a.nodes[n].bin_previous = unused_node
Alone(a, n) == FirstInBin(a, n) /\ a.nodes[n].bin_next = unused_node
Removed(r, a, n) ==
  LET b == BinOfNode(a, n)
      previous == a.nodes[n].bin_previous
      next == a.nodes[n].bin_next
  IN /\ r \in Ranges
     /\ r.allocation_count = a.allocation_count /\ r.free_nodes = a.free_nodes
     /\ r.used_top_bins = IF Alone(a, n) /\ a.used_leaf_bins[TopOf(b)] = {LeafOf(b)}
          THEN a.used_top_bins \ {TopOf(b)}
                          ELSE a.used_top_bins
     /\ \A t \in Tops : r.used_leaf_bins[t] = IF Alone(a, n) /\ t = TopOf(b)
          THEN a.used_leaf_bins[t] \ {LeafOf(b)}
                                             ELSE a.used_leaf_bins[t]
     /\ \A c \in Bins : r.bin_indices[c] = IF FirstInBin(a, n) /\ c = b THEN next ELSE a.bin_indices[c]
     /\ \A m \in NodeIndex :
          /\ SameRange(r.nodes[m], a.nodes[m]) /\ r.nodes[m].used = a.nodes[m].used
          /\ r.nodes[m].bin_next = IF m = n THEN unused_node ELSE IF m = previous THEN next
                                   ELSE a.nodes[m].bin_next
          /\ r.nodes[m].bin_previous = IF m = n THEN unused_node ELSE IF m = next THEN previous
                                       ELSE a.nodes[m].bin_previous

LEMMA UnlinkedNodes ==
  ASSUME NEW nodes \in [NodeIndex -> AnyNode], NEW n \in NodeIndex,
         nodes[n].bin_previous # n, nodes[n].bin_next # n
  PROVE  /\ Unlinked(nodes, n) \in [NodeIndex -> AnyNode]
         /\ \A m \in NodeIndex :
              /\ SameRange(Unlinked(nodes, n)[m], nodes[m]) /\ Unlinked(nodes, n)[m].used = nodes[m].used
              /\ Unlinked(nodes, n)[m].bin_next =
                   IF m = n THEN unused_node ELSE IF m = nodes[n].bin_previous THEN nodes[n].bin_next
                   ELSE nodes[m].bin_next
              /\ Unlinked(nodes, n)[m].bin_previous =
                   IF m = n THEN unused_node ELSE IF m = nodes[n].bin_next THEN nodes[n].bin_previous
                   ELSE nodes[m].bin_previous
<1> DEFINE previous == nodes[n].bin_previous
           next == nodes[n].bin_next
           one == Relinked(nodes, previous, "bin_next", next)
           around == Relinked(one, next, "bin_previous", previous)
           result == [around EXCEPT ![n].bin_previous = unused_node, ![n].bin_next = unused_node]
<1>1. nodes[n] \in AnyNode /\ previous \in Link /\ next \in Link /\ unused_node \in Link
  BY DEF AnyNode, Link
<1>2. previous # n /\ next # n  OBVIOUS
<1>3. Unlinked(nodes, n) = result  BY DEF Unlinked
<1> HIDE DEF previous, next
<1>4. one = [m \in NodeIndex |-> IF m = previous THEN [nodes[m] EXCEPT !.bin_next = next] ELSE nodes[m]]
  BY <1>1, RelinkedNodes
<1>5. one \in [NodeIndex -> AnyNode]
  <2>1. \A m \in NodeIndex : nodes[m] \in AnyNode /\ [nodes[m] EXCEPT !.bin_next = next] \in AnyNode
    BY <1>1 DEF AnyNode
  <2>2. QED  BY <1>4, <2>1
<1> HIDE DEF one
<1>6. around = [m \in NodeIndex |-> IF m = next THEN [one[m] EXCEPT !.bin_previous = previous] ELSE one[m]]
  BY <1>1, <1>5, RelinkedNodes
<1>7. around \in [NodeIndex -> AnyNode]
  <2>1. \A m \in NodeIndex : one[m] \in AnyNode /\ [one[m] EXCEPT !.bin_previous = previous] \in AnyNode
    BY <1>1, <1>5 DEF AnyNode
  <2>2. QED  BY <1>6, <2>1
<1> HIDE DEF around
<1>8. result = [m \in NodeIndex |-> IF m = n THEN [around[n] EXCEPT !.bin_previous = unused_node,
                                                                   !.bin_next = unused_node]
                                    ELSE around[m]]
  <2>1. around[n] \in AnyNode  BY <1>7
  <2>2. QED  BY <1>7, <2>1 DEF AnyNode
<1> HIDE DEF result
<1>9. result \in [NodeIndex -> AnyNode]
  <2>1. around[n] \in AnyNode  BY <1>7
  <2>2. [around[n] EXCEPT !.bin_previous = unused_node, !.bin_next = unused_node] \in AnyNode
    BY <1>1, <2>1 DEF AnyNode
  <2>3. QED  BY <1>7, <1>8, <2>2
<1>10. ASSUME NEW m \in NodeIndex
       PROVE  /\ SameRange(result[m], nodes[m]) /\ result[m].used = nodes[m].used
              /\ result[m].bin_next = (IF m = n THEN unused_node ELSE IF m = previous THEN next
                                       ELSE nodes[m].bin_next)
              /\ result[m].bin_previous = (IF m = n THEN unused_node ELSE IF m = next THEN previous
                                           ELSE nodes[m].bin_previous)
  <2>1. nodes[m] \in AnyNode /\ one[m] \in AnyNode /\ around[m] \in AnyNode  BY <1>5, <1>7
  <2>2. /\ SameRange(one[m], nodes[m]) /\ one[m].used = nodes[m].used
        /\ one[m].bin_next = (IF m = previous THEN next ELSE nodes[m].bin_next)
        /\ one[m].bin_previous = nodes[m].bin_previous
    <3>1. CASE m = previous  BY <1>4, <2>1, <3>1 DEF AnyNode, SameRange
    <3>2. CASE m # previous  BY <1>4, <3>2 DEF SameRange
    <3>3. QED  BY <3>1, <3>2
  <2>3. /\ SameRange(around[m], nodes[m]) /\ around[m].used = nodes[m].used
        /\ around[m].bin_next = (IF m = previous THEN next ELSE nodes[m].bin_next)
        /\ around[m].bin_previous = (IF m = next THEN previous ELSE nodes[m].bin_previous)
    <3>1. CASE m = next  BY <1>6, <2>1, <2>2, <3>1 DEF AnyNode, SameRange
    <3>2. CASE m # next  BY <1>6, <2>2, <3>2 DEF SameRange
    <3>3. QED  BY <3>1, <3>2
  <2>4. CASE m = n
    <3>1. result[m] = [around[m] EXCEPT !.bin_previous = unused_node, !.bin_next = unused_node]  BY <1>8, <2>4
    <3>2. QED  BY <2>1, <2>3, <2>4, <3>1 DEF AnyNode, SameRange
  <2>5. CASE m # n
    <3>1. result[m] = around[m]  BY <1>8, <2>5
    <3>2. QED  BY <2>3, <2>5, <3>1
  <2>6. QED  BY <2>4, <2>5
<1>11. QED  BY <1>3, <1>9, <1>10 DEF previous, next

LEMMA RemoveFields ==
  ASSUME NEW a \in Ranges, NEW n \in NodeIndex, a.nodes[n].size \in 1..unused_node,
         a.nodes[n].bin_previous # n, a.nodes[n].bin_next # n
  PROVE  Removed(RemoveFreeNode(a, n), a, n)
<1> DEFINE b == BinOfNode(a, n)
           next == a.nodes[n].bin_next
           top == TopOf(b)
           leaf == LeafOf(b)
           nodes == Unlinked(a.nodes, n)
           head == IF FirstInBin(a, n) THEN next ELSE a.bin_indices[b]
           leaves == IF Alone(a, n) THEN a.used_leaf_bins[top] \ {leaf} ELSE a.used_leaf_bins[top]
           tops == IF Alone(a, n) /\ a.used_leaf_bins[top] = {leaf} THEN a.used_top_bins \ {top}
               ELSE a.used_top_bins
           r == RemoveFreeNode(a, n)
<1>1. b \in Bins /\ top \in Tops /\ leaf \in Leaves /\ a.bin_indices[b] \in Link  BY NodeBin
<1>2. a.nodes \in [NodeIndex -> AnyNode] /\ next \in Link  BY DEF Ranges, AnyNode
<1>3. nodes \in [NodeIndex -> AnyNode]  BY <1>2, UnlinkedNodes
<1>4. r = [a EXCEPT !.nodes = nodes, !.bin_indices[b] = head, !.used_leaf_bins[top] = leaves,
           !.used_top_bins = tops]
  BY DEF RemoveFreeNode, BinOfNode, FirstInBin, Alone
<1>5. head \in Link /\ leaves \in SUBSET Leaves /\ tops \in SUBSET Tops
  BY <1>1, <1>2 DEF Ranges
<1> HIDE DEF b, next, top, leaf, nodes, head, leaves, tops
<1>6. r = [allocation_count |-> a.allocation_count, used_top_bins |-> tops,
           used_leaf_bins |-> [a.used_leaf_bins EXCEPT ![top] = leaves],
           bin_indices |-> [a.bin_indices EXCEPT ![b] = head], nodes |-> nodes, free_nodes |-> a.free_nodes]
  BY <1>1, <1>4 DEF Ranges
<1> HIDE DEF r
<1>7. r \in Ranges
  <2>1. a.allocation_count \in Int /\ a.free_nodes \in Seq(NodeIndex)  BY DEF Ranges
  <2>2. [a.used_leaf_bins EXCEPT ![top] = leaves] \in [Tops -> SUBSET Leaves]
    BY <1>1, <1>5 DEF Ranges
  <2>3. [a.bin_indices EXCEPT ![b] = head] \in [Bins -> Link]
    BY <1>1, <1>5 DEF Ranges
  <2>4. QED  BY <1>3, <1>5, <1>6, <2>1, <2>2, <2>3 DEF Ranges
<1>8. \A t \in Tops : r.used_leaf_bins[t] = IF t = top THEN leaves ELSE a.used_leaf_bins[t]
  <2>1. r.used_leaf_bins = [a.used_leaf_bins EXCEPT ![top] = leaves]  BY <1>6
  <2>2. a.used_leaf_bins \in [Tops -> SUBSET Leaves]  BY DEF Ranges
  <2>3. QED  BY <1>1, <2>1, <2>2
<1>9. \A c \in Bins : r.bin_indices[c] = IF c = b THEN head ELSE a.bin_indices[c]
  <2>1. r.bin_indices = [a.bin_indices EXCEPT ![b] = head]  BY <1>6
  <2>2. a.bin_indices \in [Bins -> Link]  BY DEF Ranges
  <2>3. QED  BY <1>1, <2>1, <2>2
<1>10. \A t \in Tops : r.used_leaf_bins[t] = IF Alone(a, n) /\ t = top THEN a.used_leaf_bins[t] \ {leaf}
                                             ELSE a.used_leaf_bins[t]
  BY <1>1, <1>8 DEF leaves
<1>11. \A c \in Bins : r.bin_indices[c] = IF FirstInBin(a, n) /\ c = b THEN next ELSE a.bin_indices[c]
  BY <1>1, <1>9 DEF head
<1>12. r.allocation_count = a.allocation_count /\ r.free_nodes = a.free_nodes /\ r.used_top_bins = tops
       /\ r.nodes = nodes
  BY <1>6
<1>13. \A m \in NodeIndex :
          /\ SameRange(r.nodes[m], a.nodes[m]) /\ r.nodes[m].used = a.nodes[m].used
          /\ r.nodes[m].bin_next = IF m = n THEN unused_node ELSE IF m = a.nodes[n].bin_previous THEN next
                                   ELSE a.nodes[m].bin_next
          /\ r.nodes[m].bin_previous = IF m = n THEN unused_node ELSE IF m = next THEN a.nodes[n].bin_previous
                                       ELSE a.nodes[m].bin_previous
  BY <1>2, <1>12, UnlinkedNodes DEF nodes, next
<1>14. QED  BY <1>7, <1>10, <1>11, <1>12, <1>13 DEF Removed, b, next, top, leaf, tops, r

LEMMA RemoveListed ==
  ASSUME NEW a \in Ranges, NEW S, NEW stamp, NEW clock, Listed(a, S, stamp, clock), BitmapsExact(a),
         NEW n \in S
  PROVE  LET r == RemoveFreeNode(a, n)
         IN /\ r \in Ranges /\ BitmapsExact(r)
            /\ Listed(r, S \ {n}, stamp, clock)
            /\ r.allocation_count = a.allocation_count /\ r.free_nodes = a.free_nodes
            /\ \A m \in NodeIndex : SameRange(r.nodes[m], a.nodes[m]) /\ r.nodes[m].used = a.nodes[m].used
<1> DEFINE r == RemoveFreeNode(a, n)
           b == BinOfNode(a, n)
           previous == a.nodes[n].bin_previous
           next == a.nodes[n].bin_next
           T == S \ {n}
           top == TopOf(b)
           leaf == LeafOf(b)
<1>1. /\ S \subseteq NodeIndex /\ stamp \in [NodeIndex -> Nat] /\ clock \in Nat
      /\ \A m \in S : m \in NodeIndex /\ m # unused_node /\ stamp[m] \in Nat
      /\ \A m \in S : a.nodes[m].size \in 1..unused_node
  BY UnusedIsNoNode DEF Listed
<1>2. \A m \in S : BinOfNode(a, m) \in Bins  BY <1>1, NodeBin
<1>3. b \in Bins /\ top \in Tops /\ leaf \in Leaves  BY <1>1, NodeBin
<1>4. next # unused_node
          => next \in S /\ BinOfNode(a, next) = b /\ stamp[next] < stamp[n] /\ a.nodes[next].bin_previous = n
  BY DEF Listed
<1>5. previous # unused_node => previous \in S /\ a.nodes[previous].bin_next = n
  BY DEF Listed
<1>6. previous # unused_node => stamp[n] < stamp[previous] /\ BinOfNode(a, previous) = b
  <2>1. SUFFICES ASSUME previous # unused_node PROVE stamp[n] < stamp[previous] /\ BinOfNode(a, previous) = b
    OBVIOUS
  <2>2. previous \in S /\ a.nodes[previous].bin_next = n /\ n # unused_node  BY <1>1, <1>5, <2>1
  <2>3. QED  BY <2>2 DEF Listed
<1>7. next # n /\ previous # n  BY <1>1, <1>4, <1>6
<1>8. Removed(r, a, n)
  <2>1. n \in NodeIndex /\ a.nodes[n].size \in 1..unused_node  BY <1>1
  <2>2. QED  BY <1>7, <2>1, RemoveFields
<1> HIDE DEF r
<1>9. FirstInBin(a, n) <=> previous = unused_node  BY DEF FirstInBin
<1>10. Alone(a, n) <=> previous = unused_node /\ next = unused_node  BY DEF Alone, FirstInBin
<1>11. \A m \in NodeIndex :
         /\ SameRange(r.nodes[m], a.nodes[m]) /\ r.nodes[m].used = a.nodes[m].used
         /\ r.nodes[m].bin_next = IF m = n THEN unused_node ELSE IF m = previous THEN next
              ELSE a.nodes[m].bin_next
         /\ r.nodes[m].bin_previous = IF m = n THEN unused_node ELSE IF m = next THEN previous
                                      ELSE a.nodes[m].bin_previous
  BY <1>8 DEF Removed
<1>12. \A c \in Bins : r.bin_indices[c] = IF previous = unused_node /\ c = b THEN next ELSE a.bin_indices[c]
  BY <1>8, <1>9 DEF Removed
<1>13. \A m \in NodeIndex : r.nodes[m].size = a.nodes[m].size /\ BinOfNode(r, m) = BinOfNode(a, m)
  BY <1>11 DEF SameRange, BinOfNode
<1>14. r \in Ranges /\ r.allocation_count = a.allocation_count /\ r.free_nodes = a.free_nodes
  BY <1>8 DEF Removed
<1> HIDE DEF b, next, previous, top, leaf
<1>15. T \subseteq NodeIndex /\ \A m \in T : m \in S /\ m # n /\ m \in NodeIndex  BY <1>1
<1>16. \A m \in T : stamp[m] < clock /\ r.nodes[m].size \in 1..unused_node
  BY <1>13, <1>15 DEF Listed
<1>17. \A k, m \in T : stamp[k] = stamp[m] => k = m  BY <1>15 DEF Listed
<1>18. a.bin_indices[b] # unused_node /\ stamp[n] <= stamp[a.bin_indices[b]]
  BY DEF Listed, b
<1>19. previous = unused_node => a.bin_indices[b] = n  BY DEF Listed, b, previous
<1>20. \A c \in Bins : a.bin_indices[c] = n => c = b /\ previous = unused_node
  BY <1>1 DEF Listed, b, previous
<1>21. \A c \in Bins : r.bin_indices[c] # unused_node =>
         /\ r.bin_indices[c] \in T /\ BinOfNode(r, r.bin_indices[c]) = c
         /\ r.nodes[r.bin_indices[c]].bin_previous = unused_node
  <2> SUFFICES ASSUME NEW c \in Bins, r.bin_indices[c] # unused_node
               PROVE  /\ r.bin_indices[c] \in T /\ BinOfNode(r, r.bin_indices[c]) = c
                      /\ r.nodes[r.bin_indices[c]].bin_previous = unused_node
    OBVIOUS
  <2>1. CASE previous = unused_node /\ c = b
    <3>1. r.bin_indices[c] = next  BY <1>12, <2>1
    <3>2. next \in T /\ BinOfNode(a, next) = b  BY <1>4, <1>7, <3>1
    <3>3. QED  BY <1>7, <1>11, <1>13, <1>15, <2>1, <3>1, <3>2
  <2>2. CASE ~(previous = unused_node /\ c = b)
    <3>1. r.bin_indices[c] = a.bin_indices[c]  BY <1>12, <2>2
    <3> PICK m : m = a.bin_indices[c]  OBVIOUS
    <3>2. m \in S /\ BinOfNode(a, m) = c /\ a.nodes[m].bin_previous = unused_node  BY <3>1 DEF Listed
    <3>3. m # n  BY <1>20, <2>2
    <3>4. m # next  BY <1>1, <1>4, <3>2
    <3>5. QED  BY <1>11, <1>13, <1>15, <3>1, <3>2, <3>3, <3>4
  <2>3. QED  BY <2>1, <2>2
<1>22. \A m \in T : /\ r.bin_indices[BinOfNode(r, m)] # unused_node
                    /\ stamp[m] <= stamp[r.bin_indices[BinOfNode(r, m)]]
  <2> SUFFICES ASSUME NEW m \in T
               PROVE  /\ r.bin_indices[BinOfNode(r, m)] # unused_node
                      /\ stamp[m] <= stamp[r.bin_indices[BinOfNode(r, m)]]
    OBVIOUS
  <2> PICK c \in Bins : c = BinOfNode(a, m)  BY <1>2, <1>15
  <2>1. BinOfNode(r, m) = c /\ m \in S /\ m # n  BY <1>13, <1>15
  <2>2. a.bin_indices[c] # unused_node /\ stamp[m] <= stamp[a.bin_indices[c]]  BY <2>1 DEF Listed
  <2>3. CASE previous = unused_node /\ c = b
    <3>1. stamp[m] < stamp[n]
      <4>1. stamp[m] <= stamp[n] /\ stamp[m] # stamp[n]  BY <1>19, <2>1, <2>2, <2>3 DEF Listed
      <4>2. QED  BY <1>1, <2>1, <4>1
    <3>2. next # unused_node /\ stamp[m] <= stamp[next]  BY <2>1, <2>3, <3>1 DEF Listed, b, next
    <3>3. QED  BY <1>12, <2>1, <2>3, <3>2
  <2>4. CASE ~(previous = unused_node /\ c = b)
    <3>1. r.bin_indices[c] = a.bin_indices[c]  BY <1>12, <2>4
    <3>2. QED  BY <2>1, <2>2, <3>1
  <2>5. QED  BY <2>3, <2>4
<1>23. \A m \in T : r.nodes[m].bin_next # unused_node =>
         /\ r.nodes[m].bin_next \in T /\ BinOfNode(r, r.nodes[m].bin_next) = BinOfNode(r, m)
         /\ stamp[r.nodes[m].bin_next] < stamp[m]
         /\ r.nodes[r.nodes[m].bin_next].bin_previous = m
  <2> SUFFICES ASSUME NEW m \in T, r.nodes[m].bin_next # unused_node
               PROVE  /\ r.nodes[m].bin_next \in T /\ BinOfNode(r, r.nodes[m].bin_next) = BinOfNode(r, m)
                      /\ stamp[r.nodes[m].bin_next] < stamp[m]
                      /\ r.nodes[r.nodes[m].bin_next].bin_previous = m
    OBVIOUS
  <2>1. m \in S /\ m # n /\ m \in NodeIndex  BY <1>15
  <2>2. CASE m = previous
    <3>1. r.nodes[m].bin_next = next  BY <1>11, <2>1, <2>2
    <3>2. next \in T /\ BinOfNode(a, next) = b /\ stamp[next] < stamp[n]  BY <1>4, <1>7, <3>1
    <3>3. stamp[n] < stamp[m] /\ BinOfNode(a, m) = b  BY <1>1, <1>6, <2>1, <2>2
    <3>4. r.nodes[next].bin_previous = m  BY <1>11, <1>15, <2>2, <3>2
    <3>5. stamp[next] < stamp[m]  BY <1>1, <1>15, <2>1, <3>2, <3>3
    <3>6. QED  BY <1>13, <1>15, <2>1, <3>1, <3>2, <3>3, <3>4, <3>5
  <2>3. CASE m # previous
    <3>1. r.nodes[m].bin_next = a.nodes[m].bin_next  BY <1>11, <2>1, <2>3
    <3> PICK k : k = a.nodes[m].bin_next  OBVIOUS
    <3>2. k \in S /\ BinOfNode(a, k) = BinOfNode(a, m) /\ stamp[k] < stamp[m] /\ a.nodes[k].bin_previous = m
      BY <2>1, <3>1 DEF Listed
    <3>3. k # n  BY <2>3, <3>2 DEF previous
    <3>4. k # next  BY <1>4, <2>1, <3>2, <1>1
    <3>5. QED  BY <1>1, <1>11, <1>13, <2>1, <3>1, <3>2, <3>3, <3>4
  <2>4. QED  BY <2>2, <2>3
<1>24. \A m \in T : r.nodes[m].bin_previous # unused_node =>
         r.nodes[m].bin_previous \in T /\ r.nodes[r.nodes[m].bin_previous].bin_next = m
  <2> SUFFICES ASSUME NEW m \in T, r.nodes[m].bin_previous # unused_node
               PROVE  r.nodes[m].bin_previous \in T /\ r.nodes[r.nodes[m].bin_previous].bin_next = m
    OBVIOUS
  <2>1. m \in S /\ m # n /\ m \in NodeIndex  BY <1>15
  <2>2. CASE m = next
    <3>1. r.nodes[m].bin_previous = previous  BY <1>11, <2>1, <2>2
    <3>2. previous \in T  BY <1>5, <1>7, <3>1
    <3>3. QED  BY <1>11, <1>15, <2>2, <3>1, <3>2
  <2>3. CASE m # next
    <3>1. r.nodes[m].bin_previous = a.nodes[m].bin_previous  BY <1>11, <2>1, <2>3
    <3> PICK k : k = a.nodes[m].bin_previous  OBVIOUS
    <3>2. k \in S /\ a.nodes[k].bin_next = m  BY <2>1, <3>1 DEF Listed
    <3>3. k # n  BY <2>3, <3>2 DEF next
    <3>4. k # previous  BY <1>1, <1>5, <2>1, <3>2
    <3>5. QED  BY <1>11, <1>15, <3>1, <3>2, <3>3, <3>4
  <2>4. QED  BY <2>2, <2>3
<1>25. \A m \in T : r.nodes[m].bin_previous = unused_node => r.bin_indices[BinOfNode(r, m)] = m
  <2> SUFFICES ASSUME NEW m \in T, r.nodes[m].bin_previous = unused_node
               PROVE  r.bin_indices[BinOfNode(r, m)] = m
    OBVIOUS
  <2>1. m \in S /\ m # n /\ m \in NodeIndex  BY <1>15
  <2>2. CASE m = next
    <3>1. previous = unused_node  BY <1>11, <2>1, <2>2
    <3>2. BinOfNode(r, m) = b  BY <1>1, <1>4, <1>13, <2>1, <2>2
    <3>3. QED  BY <1>3, <1>12, <2>2, <3>1, <3>2
  <2>3. CASE m # next
    <3>1. a.nodes[m].bin_previous = unused_node  BY <1>11, <2>1, <2>3
    <3>2. a.bin_indices[BinOfNode(a, m)] = m  BY <2>1, <3>1 DEF Listed
    <3>3. ~(previous = unused_node /\ BinOfNode(a, m) = b)  BY <1>19, <2>1, <3>2
    <3>4. BinOfNode(r, m) = BinOfNode(a, m) /\ BinOfNode(a, m) \in Bins  BY <1>2, <1>13, <2>1
    <3>5. QED  BY <1>12, <3>2, <3>3, <3>4
  <2>4. QED  BY <2>2, <2>3
<1>26. \A k, m \in T : BinOfNode(r, k) = BinOfNode(r, m) /\ stamp[k] < stamp[m] =>
         r.nodes[m].bin_next # unused_node /\ stamp[k] <= stamp[r.nodes[m].bin_next]
  <2> SUFFICES ASSUME NEW k \in T, NEW m \in T, BinOfNode(r, k) = BinOfNode(r, m), stamp[k] < stamp[m]
               PROVE  r.nodes[m].bin_next # unused_node /\ stamp[k] <= stamp[r.nodes[m].bin_next]
    OBVIOUS
  <2>1. k \in S /\ k # n /\ m \in S /\ m # n /\ k \in NodeIndex /\ m \in NodeIndex  BY <1>15
  <2>2. BinOfNode(a, k) = BinOfNode(a, m)  BY <1>13, <2>1
  <2>3. a.nodes[m].bin_next # unused_node /\ stamp[k] <= stamp[a.nodes[m].bin_next]
    BY <2>1, <2>2 DEF Listed
  <2>4. CASE m = previous
    <3>1. a.nodes[m].bin_next = n /\ BinOfNode(a, m) = b  BY <1>1, <1>5, <1>6, <2>1, <2>4
    <3>2. stamp[k] < stamp[n]
      <4>1. stamp[k] <= stamp[n] /\ stamp[k] # stamp[n]  BY <2>1, <2>3, <3>1 DEF Listed
      <4>2. QED  BY <1>1, <2>1, <4>1
    <3>3. next # unused_node /\ stamp[k] <= stamp[next]  BY <2>1, <2>2, <3>1, <3>2 DEF Listed, b, next
    <3>4. QED  BY <1>11, <2>1, <2>4, <3>3
  <2>5. CASE m # previous
    <3>1. r.nodes[m].bin_next = a.nodes[m].bin_next  BY <1>11, <2>1, <2>5
    <3>2. QED  BY <2>3, <3>1
  <2>6. QED  BY <2>4, <2>5
<1>27. \A m \in NodeIndex \ T : r.nodes[m].bin_next = unused_node /\ r.nodes[m].bin_previous = unused_node
  <2> SUFFICES ASSUME NEW m \in NodeIndex \ T
               PROVE  r.nodes[m].bin_next = unused_node /\ r.nodes[m].bin_previous = unused_node
    OBVIOUS
  <2>1. CASE m = n  BY <1>11, <2>1
  <2>2. CASE m # n
    <3>1. m \notin S /\ m # unused_node  BY <2>2, UnusedIsNoNode
    <3>2. a.nodes[m].bin_next = unused_node /\ a.nodes[m].bin_previous = unused_node  BY <3>1 DEF Listed
    <3>3. m # previous /\ m # next  BY <1>4, <1>5, <3>1
    <3>4. QED  BY <1>11, <2>2, <3>2, <3>3
  <2>3. QED  BY <2>1, <2>2
<1>28. Listed(r, T, stamp, clock)
  BY <1>1, <1>15, <1>16, <1>17, <1>21, <1>22, <1>23, <1>24, <1>25, <1>26, <1>27 DEF Listed
<1>29. BitmapsExact(r)
  <2>1. \A t \in Tops : r.used_leaf_bins[t] = IF previous = unused_node /\ next = unused_node /\ t = top
                                              THEN a.used_leaf_bins[t] \ {leaf} ELSE a.used_leaf_bins[t]
    BY <1>8, <1>10 DEF Removed, top, leaf, b
  <2>2. r.used_top_bins = IF previous = unused_node /\ next = unused_node /\ a.used_leaf_bins[top] = {leaf}
                          THEN a.used_top_bins \ {top} ELSE a.used_top_bins
    BY <1>8, <1>10 DEF Removed, top, leaf, b
  <2>3. ASSUME NEW c \in Bins
        PROVE  (r.bin_indices[c] # unused_node) <=> (LeafOf(c) \in r.used_leaf_bins[TopOf(c)])
    <3>1. c \in Nat /\ b \in Nat  BY <1>3, Constants DEF Bins
    <3>2. TopOf(c) \in Tops /\ (TopOf(c) = top /\ LeafOf(c) = leaf => c = b)
      BY <3>1, LeafAndTop DEF top, leaf
    <3>3. (a.bin_indices[c] # unused_node) <=> (LeafOf(c) \in a.used_leaf_bins[TopOf(c)])  BY DEF BitmapsExact
    <3>4. CASE c = b /\ previous = unused_node
      <4>1. r.bin_indices[c] = next /\ TopOf(c) = top /\ LeafOf(c) = leaf  BY <1>12, <3>4 DEF top, leaf
      <4>2. leaf \in a.used_leaf_bins[top]  BY <1>18, <3>3, <3>4, <4>1
      <4>3. leaf \in r.used_leaf_bins[top] <=> next # unused_node  BY <1>3, <2>1, <3>4, <4>2
      <4>4. QED  BY <4>1, <4>3
    <3>5. CASE ~(c = b /\ previous = unused_node)
      <4>1. r.bin_indices[c] = a.bin_indices[c]  BY <1>12, <3>5
      <4>2. LeafOf(c) \in r.used_leaf_bins[TopOf(c)] <=> LeafOf(c) \in a.used_leaf_bins[TopOf(c)]
        BY <2>1, <3>2, <3>5
      <4>3. QED  BY <3>3, <4>1, <4>2
    <3>6. QED  BY <3>4, <3>5
  <2>4. r.used_top_bins = {t \in Tops : r.used_leaf_bins[t] # {}}
    <3>1. a.used_top_bins = {t \in Tops : a.used_leaf_bins[t] # {}}  BY DEF BitmapsExact
    <3>2. leaf \in a.used_leaf_bins[top]
      <4>1. (a.bin_indices[b] # unused_node) <=> (LeafOf(b) \in a.used_leaf_bins[TopOf(b)])
        BY <1>3 DEF BitmapsExact
      <4>2. QED  BY <1>18, <4>1 DEF top, leaf
    <3>3. CASE previous = unused_node /\ next = unused_node /\ a.used_leaf_bins[top] = {leaf}
      BY <1>3, <2>1, <2>2, <3>1, <3>3
    <3>4. CASE previous = unused_node /\ next = unused_node /\ a.used_leaf_bins[top] # {leaf}
      <4>1. a.used_leaf_bins[top] \ {leaf} # {}  BY <3>2, <3>4
      <4>2. QED  BY <1>3, <2>1, <2>2, <3>1, <3>2, <3>4, <4>1
    <3>5. CASE ~(previous = unused_node /\ next = unused_node)
      BY <2>1, <2>2, <3>1, <3>5
    <3>6. QED  BY <3>3, <3>4, <3>5
  <2>5. QED  BY <2>3, <2>4 DEF BitmapsExact
<1>30. QED  BY <1>11, <1>14, <1>28, <1>29 DEF r

-----------------------------------------------------------------------------
(* Walking a list, and the search through the bitmaps                      *)

Scans(f, a, size) ==
  f = [n \in Link |-> IF n = unused_node \/ a.nodes[n].size >= size THEN n ELSE f[a.nodes[n].bin_next]]

OlderOfSize(a, S, stamp, size, n) ==
  {m \in S : BinOfNode(a, m) = BinOfNode(a, n) /\ stamp[m] <= stamp[n] /\ a.nodes[m].size >= size}
Youngest(stamp, U) == CHOOSE m \in U : \A k \in U : stamp[k] <= stamp[m]

LEMMA ListedSteps ==
  ASSUME NEW a \in Ranges, NEW S, NEW stamp, NEW clock, Listed(a, S, stamp, clock)
  PROVE  /\ S \subseteq NodeIndex /\ \A n \in S : stamp[n] \in Nat /\ n \in Link /\ n # unused_node
         /\ \A n \in S : a.nodes[n].bin_next \in Link /\ a.nodes[n].size \in Nat
         /\ \A n \in S : a.nodes[n].bin_next # unused_node =>
              /\ a.nodes[n].bin_next \in S /\ BinOfNode(a, a.nodes[n].bin_next) = BinOfNode(a, n)
              /\ stamp[a.nodes[n].bin_next] < stamp[n]
              /\ \A m \in S : BinOfNode(a, m) = BinOfNode(a, n) =>
                   (stamp[m] <= stamp[a.nodes[n].bin_next] <=> stamp[m] <= stamp[n] /\ m # n)
         /\ \A n \in S : a.nodes[n].bin_next = unused_node =>
              \A m \in S : BinOfNode(a, m) = BinOfNode(a, n) => (stamp[m] <= stamp[n] <=> m = n)
<1>1. /\ S \subseteq NodeIndex /\ \A n \in S : stamp[n] \in Nat /\ n \in Link /\ n # unused_node
  BY UnusedIsNoNode DEF Listed
<1>2. \A n \in S : a.nodes[n].bin_next \in Link /\ a.nodes[n].size \in Nat
  <2>1. \A n \in S : a.nodes[n] \in AnyNode  BY <1>1 DEF Ranges
  <2>2. QED  BY <2>1 DEF AnyNode
<1>3. ASSUME NEW n \in S, a.nodes[n].bin_next # unused_node
      PROVE  /\ a.nodes[n].bin_next \in S /\ BinOfNode(a, a.nodes[n].bin_next) = BinOfNode(a, n)
             /\ stamp[a.nodes[n].bin_next] < stamp[n]
             /\ \A m \in S : BinOfNode(a, m) = BinOfNode(a, n) =>
                  (stamp[m] <= stamp[a.nodes[n].bin_next] <=> stamp[m] <= stamp[n] /\ m # n)
  <2> PICK next : next = a.nodes[n].bin_next  OBVIOUS
  <2>1. next \in S /\ BinOfNode(a, next) = BinOfNode(a, n) /\ stamp[next] < stamp[n]  BY <1>3 DEF Listed
  <2>2. \A m \in S : BinOfNode(a, m) = BinOfNode(a, n) /\ stamp[m] < stamp[n] => stamp[m] <= stamp[next]
    BY DEF Listed
  <2>3. \A m \in S : stamp[m] = stamp[n] => m = n  BY DEF Listed
  <2>4. stamp[next] \in Nat /\ stamp[n] \in Nat /\ \A m \in S : stamp[m] \in Nat  BY <1>1, <2>1
  <2>5. ASSUME NEW m \in S, BinOfNode(a, m) = BinOfNode(a, n)
        PROVE  stamp[m] <= stamp[next] <=> stamp[m] <= stamp[n] /\ m # n
    <3>1. stamp[m] < stamp[n] => stamp[m] <= stamp[next]  BY <2>2, <2>5
    <3>2. stamp[m] = stamp[n] => m = n  BY <2>3
    <3>3. m = n => stamp[m] = stamp[n]  OBVIOUS
    <3>4. QED  BY <2>1, <2>4, <3>1, <3>2, <3>3
  <2>6. QED  BY <2>1, <2>5
<1>4. ASSUME NEW n \in S, a.nodes[n].bin_next = unused_node, NEW m \in S, BinOfNode(a, m) = BinOfNode(a, n)
      PROVE  stamp[m] <= stamp[n] <=> m = n
  <2>1. ~(stamp[m] < stamp[n])  BY <1>4 DEF Listed
  <2>2. stamp[m] = stamp[n] => m = n  BY DEF Listed
  <2>3. stamp[m] \in Nat /\ stamp[n] \in Nat  BY <1>1
  <2>4. QED  BY <2>1, <2>2, <2>3
<1>5. QED  BY <1>1, <1>2, <1>3, <1>4

LEMMA ScanExists ==
  ASSUME NEW a \in Ranges, NEW S, NEW stamp, NEW clock, Listed(a, S, stamp, clock), NEW size \in Nat
  PROVE  \E f : Scans(f, a, size)
<1> DEFINE Older(n) == OlderOfSize(a, S, stamp, size, n)
           Value(n) == IF n = unused_node THEN n
                       ELSE IF n \in S THEN IF Older(n) = {} THEN unused_node ELSE Youngest(stamp, Older(n))
                       ELSE IF a.nodes[n].size >= size THEN n ELSE unused_node
           f == [n \in Link |-> Value(n)]
<1>0. \A n \in S : a.nodes[n].bin_next = unused_node =>
        \A m \in S : BinOfNode(a, m) = BinOfNode(a, n) => (stamp[m] <= stamp[n] <=> m = n)
  BY ListedSteps
<1>1. ASSUME NEW n \in Link
      PROVE  f[n] = IF n = unused_node \/ a.nodes[n].size >= size THEN n ELSE f[a.nodes[n].bin_next]
  <2>0. f[n] = Value(n) /\ unused_node \in Link /\ f[unused_node] = unused_node  BY DEF Link
  <2>1. CASE n = unused_node  BY <2>0, <2>1
  <2>2. CASE n \in S /\ a.nodes[n].size >= size
    <3>1. n # unused_node /\ stamp[n] \in Nat  BY <2>2, ListedSteps
    <3>2. n \in Older(n)  BY <2>2, <3>1 DEF OlderOfSize
    <3>3. \A k \in Older(n) : stamp[k] <= stamp[n]  BY DEF OlderOfSize
    <3>4. \A m \in Older(n) : stamp[n] <= stamp[m] => m = n
      <4>1. \A m \in Older(n) : m \in S /\ stamp[m] <= stamp[n]  BY DEF OlderOfSize
      <4>2. \A m \in S : stamp[m] \in Nat  BY ListedSteps
      <4>3. \A m \in S : stamp[m] = stamp[n] => m = n  BY <2>2 DEF Listed
      <4>4. QED  BY <3>1, <4>1, <4>2, <4>3
    <3> HIDE DEF Older
    <3>5. Youngest(stamp, Older(n)) = n  BY <3>2, <3>3, <3>4 DEF Youngest
    <3>6. QED  BY <2>0, <2>2, <3>1, <3>2, <3>5
  <2>3. CASE n \in S /\ ~(a.nodes[n].size >= size)
    <3> PICK next : next = a.nodes[n].bin_next  OBVIOUS
    <3>1. n # unused_node /\ stamp[n] \in Nat /\ next \in Link  BY <2>3, ListedSteps
    <3>2. CASE next = unused_node
      <4>1. \A m \in S : BinOfNode(a, m) = BinOfNode(a, n) => (stamp[m] <= stamp[n] <=> m = n)
        BY <1>0, <2>3, <3>2
      <4>2. Older(n) = {}  BY <2>3, <4>1 DEF OlderOfSize
      <4> HIDE DEF Older
      <4>3. QED  BY <2>0, <2>3, <3>1, <3>2, <4>2
    <3>3. CASE next # unused_node
      <4>1. /\ next \in S /\ BinOfNode(a, next) = BinOfNode(a, n)
            /\ \A m \in S : BinOfNode(a, m) = BinOfNode(a, n) =>
                 (stamp[m] <= stamp[next] <=> stamp[m] <= stamp[n] /\ m # n)
        BY <2>3, <3>3, ListedSteps
      <4>2. Older(n) = Older(next)  BY <2>3, <4>1 DEF OlderOfSize
      <4> HIDE DEF Older
      <4>3. Value(n) = Value(next)  BY <2>3, <3>1, <3>3, <4>1, <4>2
      <4>4. f[next] = Value(next)  BY <3>1
      <4> HIDE DEF Value, f
      <4>5. QED  BY <2>0, <2>3, <3>1, <4>3, <4>4
    <3>4. QED  BY <3>2, <3>3
  <2>4. CASE n # unused_node /\ n \notin S
    <3>1. n \in NodeIndex \ S  BY <2>4 DEF Link
    <3>2. a.nodes[n].bin_next = unused_node  BY <3>1 DEF Listed
    <3>3. QED  BY <2>0, <2>4, <3>2
  <2>5. QED  BY <2>1, <2>2, <2>3, <2>4
<1>2. f = [n \in Link |-> f[n]]  OBVIOUS
<1> HIDE DEF f
<1>3. Scans(f, a, size)  BY <1>1, <1>2 DEF Scans
<1>4. QED  BY <1>3

(* The scan of a list returns a node that is large enough, and none only   *)
(* when there is none.                                                     *)
LEMMA ScanFinds ==
  ASSUME NEW a \in Ranges, NEW S, NEW stamp, NEW clock, Listed(a, S, stamp, clock), NEW size \in Nat,
         NEW b \in Bins
  PROVE  LET n == FirstOfSize(a, b, size)
         IN \/ n = unused_node /\ \A m \in S : BinOfNode(a, m) = b => a.nodes[m].size < size
            \/ n \in S /\ a.nodes[n].size >= size
<1> DEFINE f == CHOOSE f : Scans(f, a, size)
           head == a.bin_indices[b]
<1>1. Scans(f, a, size)  BY ScanExists
<1>2. FirstOfSize(a, b, size) = f[head]  BY DEF FirstOfSize, Scans
<1> HIDE DEF f
<1>3. \A n \in Link : f[n] = IF n = unused_node \/ a.nodes[n].size >= size THEN n ELSE f[a.nodes[n].bin_next]
  BY <1>1 DEF Scans
<1> DEFINE Right(n) ==
             \/ /\ f[n] = unused_node
                /\ \A m \in S : BinOfNode(a, m) = BinOfNode(a, n) /\ stamp[m] <= stamp[n] => a.nodes[m].size < size
             \/ f[n] \in S /\ a.nodes[f[n]].size >= size
           Bad == {k \in Nat : \E n \in S : stamp[n] = k /\ ~Right(n)}
           least == Min(Bad)
<1>4. \A n \in S : Right(n)
  <2>1. SUFFICES ASSUME Bad # {} PROVE FALSE
    <3>1. \A n \in S : stamp[n] \in Nat  BY ListedSteps
    <3> HIDE DEF Right
    <3>2. QED  BY <3>1
  <2>2. least \in Bad /\ \A k \in Bad : least <= k
    <3>1. Bad \in SUBSET Nat  OBVIOUS
    <3> HIDE DEF Bad
    <3>2. QED  BY <2>1, <3>1, LeastElement
  <2> HIDE DEF least, Right
  <2>3. PICK n \in S : stamp[n] = least /\ ~Right(n)  BY <2>2
  <2>4. \A m \in S : stamp[m] < stamp[n] => Right(m)
    <3>1. \A m \in S : stamp[m] \in Nat  BY ListedSteps
    <3>2. SUFFICES ASSUME NEW m \in S, stamp[m] < stamp[n], ~Right(m) PROVE FALSE  OBVIOUS
    <3>3. stamp[m] \in Bad  BY <3>1, <3>2
    <3>4. least <= stamp[m]  BY <2>2, <3>3
    <3>5. stamp[m] \in Nat /\ stamp[n] \in Nat  BY <3>1
    <3>6. QED  BY <2>3, <3>2, <3>4, <3>5
  <2>5. n \in Link /\ n # unused_node /\ a.nodes[n].size \in Nat  BY ListedSteps
  <2>6. ~(a.nodes[n].size >= size)
    <3>1. SUFFICES ASSUME a.nodes[n].size >= size PROVE FALSE  OBVIOUS
    <3>2. f[n] = n  BY <1>3, <2>5, <3>1
    <3>3. QED  BY <2>3, <3>1, <3>2 DEF Right
  <2>7. f[n] = f[a.nodes[n].bin_next]  BY <1>3, <2>5, <2>6
  <2>8. PICK next : next = a.nodes[n].bin_next  OBVIOUS
  <2>9. CASE next = unused_node
    <3>1. f[n] = unused_node
      <4>1. unused_node \in Link  BY DEF Link
      <4>2. QED  BY <1>3, <2>7, <2>8, <2>9, <4>1
    <3>2. \A m \in S : BinOfNode(a, m) = BinOfNode(a, n) => (stamp[m] <= stamp[n] <=> m = n)
      <4>1. a.nodes[n].bin_next = unused_node  BY <2>8, <2>9
      <4>2. QED  BY <4>1, ListedSteps
    <3>3. \A m \in S : BinOfNode(a, m) = BinOfNode(a, n) /\ stamp[m] <= stamp[n] => a.nodes[m].size < size
      BY <2>5, <2>6, <3>2
    <3>4. QED  BY <2>3, <3>1, <3>3 DEF Right
  <2>10. CASE next # unused_node
    <3>1. /\ next \in S /\ BinOfNode(a, next) = BinOfNode(a, n) /\ stamp[next] < stamp[n]
          /\ \A m \in S : BinOfNode(a, m) = BinOfNode(a, n) =>
               (stamp[m] <= stamp[next] <=> stamp[m] <= stamp[n] /\ m # n)
      BY <2>8, <2>10, ListedSteps
    <3>2. Right(next)  BY <2>4, <3>1
    <3>3. CASE f[next] = unused_node /\ \A m \in S :
                   BinOfNode(a, m) = BinOfNode(a, next) /\ stamp[m] <= stamp[next]
                                                     => a.nodes[m].size < size
      <4>1. \A m \in S : BinOfNode(a, m) = BinOfNode(a, n) /\ stamp[m] <= stamp[n] => a.nodes[m].size < size
        BY <2>5, <2>6, <3>1, <3>3
      <4>2. QED  BY <2>3, <2>7, <2>8, <3>3, <4>1 DEF Right
    <3>4. CASE f[next] \in S /\ a.nodes[f[next]].size >= size
      BY <2>3, <2>7, <2>8, <3>4 DEF Right
    <3>5. QED  BY <3>2, <3>3, <3>4 DEF Right
  <2>11. QED  BY <2>9, <2>10
<1> HIDE DEF Bad, least
<1>5. CASE head = unused_node
  <2>1. f[head] = unused_node
    <3>1. unused_node \in Link  BY DEF Link
    <3>2. QED  BY <1>3, <1>5, <3>1
  <2>2. \A m \in S : BinOfNode(a, m) # b  BY <1>5 DEF Listed
  <2>3. QED  BY <1>2, <2>1, <2>2
<1>6. CASE head # unused_node
  <2>1. head \in S /\ BinOfNode(a, head) = b  BY <1>6 DEF Listed
  <2>2. \A m \in S : BinOfNode(a, m) = b => stamp[m] <= stamp[head]  BY DEF Listed
  <2>3. Right(head)  BY <1>4, <2>1
  <2> HIDE DEF head
  <2>4. QED  BY <1>2, <2>1, <2>2, <2>3
<1>7. QED  BY <1>5, <1>6

LEMMA BinOrder ==
  ASSUME NEW c \in Nat, NEW d \in Nat
  PROVE  c <= d <=> TopOf(c) < TopOf(d) \/ (TopOf(c) = TopOf(d) /\ LeafOf(c) <= LeafOf(d))
<1>1. PICK M \in Nat \ {0} : M = bins_per_leaf  BY Constants
<1>2. PICK s \in Nat, t \in Nat : s = TopOf(c) /\ t = TopOf(d)  BY LeafAndTop
<1>3. PICK k \in 0..(M - 1), l \in 0..(M - 1) : k = LeafOf(c) /\ l = LeafOf(d)
  BY <1>1, LeafAndTop DEF Leaves
<1>4. c = s * M + k /\ d = t * M + l  BY <1>1, <1>2, <1>3, LeafAndTop
<1>5. ASSUME NEW x \in Nat, NEW y \in Nat, NEW i \in 0..(M - 1), NEW j \in 0..(M - 1), x < y
      PROVE  x * M + i < y * M + j
  <2>1. (x + 1) * M <= y * M /\ (x + 1) * M \in Nat  BY <1>5, Products
  <2>2. (x + 1) * M = x * M + M /\ x * M \in Nat /\ y * M \in Nat  BY SMT
  <2>3. QED  BY <2>1, <2>2
<1>6. CASE s < t
  <2>1. c < d  BY <1>4, <1>5, <1>6
  <2>2. QED  BY <1>2, <1>6, <2>1
<1>7. CASE t < s
  <2>1. d < c  BY <1>4, <1>5, <1>7
  <2>2. QED  BY <1>2, <1>7, <2>1
<1>8. CASE s = t
  <2>1. s * M \in Nat  BY SMT
  <2>2. c <= d <=> k <= l  BY <1>4, <1>8, <2>1
  <2>3. QED  BY <1>2, <1>3, <1>8, <2>2
<1>9. QED  BY <1>6, <1>7, <1>8

(* The search through the bitmaps skips no list that is not empty.         *)
LEMMA BitmapsFind ==
  ASSUME NEW a \in Ranges, BitmapsExact(a), NEW minimum \in Nat
  PROVE  LET n == NextBinHead(a, minimum)
         IN \/ n = unused_node /\ \A c \in Bins : c >= minimum => a.bin_indices[c] = unused_node
            \/ n # unused_node /\ \E c \in Bins : c >= minimum /\ n = a.bin_indices[c]
<1> DEFINE top == TopOf(minimum)
           leaf == LeafOf(minimum)
           leaves == IF top \in Tops THEN BitsFrom(a.used_leaf_bins[top], leaf) ELSE {}
           tops == BitsFrom(a.used_top_bins, top + 1)
           n == NextBinHead(a, minimum)
<1>1. top \in Nat /\ leaf \in Leaves /\ leaf \in Nat  BY LeafAndTop, Constants DEF Leaves
<1>2. n = IF leaves # {} THEN a.bin_indices[top * bins_per_leaf + Min(leaves)]
          ELSE IF tops = {} THEN unused_node
          ELSE a.bin_indices[Min(tops) * bins_per_leaf + Min(a.used_leaf_bins[Min(tops)])]
  BY DEF NextBinHead
<1> HIDE DEF n
<1>3. Leaves \in SUBSET Nat /\ Tops \in SUBSET Nat  BY Constants DEF Leaves, Tops
<1>4. \A t \in Tops : a.used_leaf_bins[t] \in SUBSET Leaves  BY DEF Ranges
<1>5. ASSUME NEW t \in Tops, NEW l \in a.used_leaf_bins[t]
      PROVE  /\ t * bins_per_leaf + l \in Bins /\ t * bins_per_leaf + l \in Nat
             /\ TopOf(t * bins_per_leaf + l) = t /\ LeafOf(t * bins_per_leaf + l) = l
             /\ a.bin_indices[t * bins_per_leaf + l] # unused_node
  <2>1. t \in Nat /\ l \in Leaves  BY <1>3, <1>4
  <2>2. PICK c : c = t * bins_per_leaf + l  OBVIOUS
  <2>3. c \in Bins /\ TopOf(c) = t /\ LeafOf(c) = l  BY <2>1, <2>2, BinOf
  <2>4. c \in Nat  BY <2>3, Constants DEF Bins
  <2>5. a.bin_indices[c] # unused_node  BY <2>3 DEF BitmapsExact
  <2>6. QED  BY <2>2, <2>3, <2>4, <2>5
<1>6. ASSUME NEW c \in Bins, a.bin_indices[c] # unused_node
      PROVE  c \in Nat /\ TopOf(c) \in a.used_top_bins /\ TopOf(c) \in Tops
                 /\ LeafOf(c) \in a.used_leaf_bins[TopOf(c)]
  <2>1. c \in Nat  BY Constants DEF Bins
  <2>2. TopOf(c) \in Tops  BY <2>1, LeafAndTop
  <2>3. LeafOf(c) \in a.used_leaf_bins[TopOf(c)]  BY <1>6 DEF BitmapsExact
  <2>4. QED  BY <2>1, <2>2, <2>3 DEF BitmapsExact
<1>7. CASE leaves # {}
  <2>1. top \in Tops /\ leaves = {l \in a.used_leaf_bins[top] : l >= leaf}  BY <1>7 DEF BitsFrom
  <2> HIDE DEF leaves
  <2>2. leaves \in SUBSET Nat  BY <1>3, <1>4, <2>1
  <2>3. Min(leaves) \in leaves  BY <1>7, <2>2, LeastElement
  <2> PICK l : l = Min(leaves)  OBVIOUS
  <2>4. l \in a.used_leaf_bins[top] /\ l >= leaf  BY <2>1, <2>3
  <2> PICK c : c = top * bins_per_leaf + l  OBVIOUS
  <2>5. c \in Bins /\ c \in Nat /\ TopOf(c) = top /\ LeafOf(c) = l /\ a.bin_indices[c] # unused_node
    BY <1>5, <2>1, <2>4
  <2>6. minimum <= c
    <3>1. LeafOf(minimum) <= LeafOf(c)  BY <1>1, <2>2, <2>3, <2>4, <2>5
    <3>2. QED  BY <2>5, <3>1, BinOrder
  <2>7. n = a.bin_indices[c]  BY <1>2, <1>7
  <2>8. c >= minimum  BY <2>5, <2>6
  <2>9. QED  BY <2>5, <2>7, <2>8 DEF n
<1>8. CASE leaves = {} /\ tops = {}
  <2>1. n = unused_node  BY <1>2, <1>8
  <2>2. ASSUME NEW c \in Bins, c >= minimum, a.bin_indices[c] # unused_node PROVE FALSE
    <3>1. c \in Nat /\ TopOf(c) \in a.used_top_bins /\ TopOf(c) \in Tops
              /\ LeafOf(c) \in a.used_leaf_bins[TopOf(c)]
      BY <1>6, <2>2
    <3>2. top < TopOf(c) \/ (top = TopOf(c) /\ leaf <= LeafOf(c))  BY <2>2, <3>1, BinOrder
    <3>3. TopOf(c) \in Nat /\ LeafOf(c) \in Nat  BY <1>3, <1>4, <3>1
    <3>4. CASE top < TopOf(c)
      <4>1. TopOf(c) >= top + 1  BY <1>1, <3>3, <3>4
      <4>2. TopOf(c) \in tops  BY <3>1, <4>1 DEF BitsFrom
      <4>3. QED  BY <1>8, <4>2
    <3>5. CASE top = TopOf(c) /\ leaf <= LeafOf(c)
      <4>1. LeafOf(c) >= leaf  BY <1>1, <3>3, <3>5
      <4>2. LeafOf(c) \in leaves  BY <3>1, <3>5, <4>1 DEF BitsFrom
      <4>3. QED  BY <1>8, <4>2
    <3>6. QED  BY <3>2, <3>4, <3>5
  <2>3. QED  BY <2>1, <2>2 DEF n
<1>9. CASE leaves = {} /\ tops # {}
  <2>1. tops = {t \in a.used_top_bins : t >= top + 1}
            /\ a.used_top_bins = {t \in Tops : a.used_leaf_bins[t] # {}}
    BY DEF BitsFrom, BitmapsExact
  <2> HIDE DEF tops, leaves
  <2>2. tops \in SUBSET Nat  BY <1>3, <2>1
  <2>3. Min(tops) \in tops  BY <1>9, <2>2, LeastElement
  <2> PICK t : t = Min(tops)  OBVIOUS
  <2>4. t \in Tops /\ t >= top + 1 /\ a.used_leaf_bins[t] # {} /\ t \in Nat  BY <2>1, <2>2, <2>3
  <2>5. a.used_leaf_bins[t] \in SUBSET Nat  BY <1>3, <1>4, <2>4
  <2>6. Min(a.used_leaf_bins[t]) \in a.used_leaf_bins[t]  BY <2>4, <2>5, LeastElement
  <2> PICK l : l = Min(a.used_leaf_bins[t])  OBVIOUS
  <2> PICK c : c = t * bins_per_leaf + l  OBVIOUS
  <2>7. c \in Bins /\ c \in Nat /\ TopOf(c) = t /\ a.bin_indices[c] # unused_node
    BY <1>5, <2>4, <2>6
  <2>8. minimum <= c
    <3>1. TopOf(minimum) < TopOf(c)  BY <1>1, <2>4, <2>7
    <3>2. QED  BY <2>7, <3>1, BinOrder
  <2>9. n = a.bin_indices[c]  BY <1>2, <1>9
  <2>10. c >= minimum  BY <2>7, <2>8
  <2>11. QED  BY <2>7, <2>9, <2>10 DEF n
<1>10. QED  BY <1>7, <1>8, <1>9

(* find_node finds a node that is large enough if there is one.            *)
LEMMA FindNodeFinds ==
  ASSUME NEW a \in Ranges, NEW S, NEW stamp, NEW clock, Listed(a, S, stamp, clock), BitmapsExact(a),
         NEW size \in 1..unused_node
  PROVE  LET n == FindNode(a, size)
         IN \/ n = unused_node /\ \A m \in S : a.nodes[m].size < size
            \/ n \in S /\ a.nodes[n].size >= size
<1> DEFINE b == size_to_bin_round_down(size)
           near == FirstOfSize(a, b, size)
           far == NextBinHead(a, b + 1)
           n == FindNode(a, size)
<1>1. b \in Bins /\ b \in Nat /\ size \in Nat
  <2>1. b \in Bins  BY BinType
  <2> HIDE DEF b
  <2>2. QED  BY <2>1, Constants DEF Bins
<1>2. n = IF near # unused_node THEN near ELSE far  BY DEF FindNode
<1>3. \/ near = unused_node /\ \A m \in S : BinOfNode(a, m) = b => a.nodes[m].size < size
      \/ near \in S /\ a.nodes[near].size >= size
  <2> HIDE DEF b
  <2>1. QED  BY <1>1, ScanFinds
<1>4. \/ far = unused_node /\ \A c \in Bins : c >= b + 1 => a.bin_indices[c] = unused_node
      \/ far # unused_node /\ \E c \in Bins : c >= b + 1 /\ far = a.bin_indices[c]
  <2>1. b + 1 \in Nat  BY <1>1
  <2> HIDE DEF b
  <2>2. QED  BY <2>1, BitmapsFind
<1>5. \A m \in S : m # unused_node /\ m \in NodeIndex /\ a.nodes[m].size \in 1..unused_node
  BY UnusedIsNoNode DEF Listed
<1>6. \A m \in S : BinOfNode(a, m) \in Bins /\ BinOfNode(a, m) \in Nat
  <2>1. \A m \in S : BinOfNode(a, m) \in Bins  BY <1>5, NodeBin
  <2>2. QED  BY <2>1, Constants DEF Bins
<1>7. \A m \in S : a.nodes[m].size >= size => b <= BinOfNode(a, m)
  <2>1. SUFFICES ASSUME NEW m \in S, a.nodes[m].size >= size PROVE b <= BinOfNode(a, m)  OBVIOUS
  <2>2. PICK t \in 1..unused_node : t = a.nodes[m].size  BY <1>5
  <2>3. t \in size..unused_node  BY <1>1, <2>1, <2>2, Constants
  <2>4. QED  BY <2>2, <2>3, BinsInOrder DEF BinOfNode
<1>8. \A m \in S : BinOfNode(a, m) >= b + 1 => a.nodes[m].size >= size
  <2>1. SUFFICES ASSUME NEW m \in S, BinOfNode(a, m) >= b + 1, ~(a.nodes[m].size >= size) PROVE FALSE  OBVIOUS
  <2>2. PICK t \in 1..unused_node : t = a.nodes[m].size  BY <1>5
  <2>3. size \in t..unused_node  BY <1>1, <2>1, <2>2, Constants
  <2>4. BinOfNode(a, m) <= b  BY <2>2, <2>3, BinsInOrder DEF BinOfNode
  <2> HIDE DEF b
  <2>5. QED  BY <1>1, <1>6, <2>1, <2>4
<1> HIDE DEF b, near, far, n
<1>9. CASE near # unused_node  BY <1>2, <1>3, <1>9 DEF n
<1>10. CASE near = unused_node /\ far # unused_node
  <2>1. PICK c \in Bins : c >= b + 1 /\ far = a.bin_indices[c]  BY <1>4, <1>10
  <2>2. far \in S /\ BinOfNode(a, far) = c  BY <1>10, <2>1 DEF Listed
  <2>3. QED  BY <1>2, <1>8, <1>10, <2>1, <2>2 DEF n
<1>11. CASE near = unused_node /\ far = unused_node
  <2>1. unused_node \notin S  BY <1>5
  <2>2. ASSUME NEW m \in S PROVE a.nodes[m].size < size
    <3>1. SUFFICES ASSUME a.nodes[m].size >= size PROVE FALSE
      <4>1. a.nodes[m].size \in Nat  BY <1>5
      <4>2. QED  BY <1>1, <4>1
    <3>2. BinOfNode(a, m) # b
      <4>1. ~(a.nodes[m].size < size)
        <5>1. a.nodes[m].size \in Nat  BY <1>5
        <5>2. QED  BY <1>1, <3>1, <5>1
      <4>2. QED  BY <1>3, <1>11, <2>1, <4>1
    <3>3. BinOfNode(a, m) >= b + 1  BY <1>1, <1>6, <1>7, <3>1, <3>2
    <3>4. a.bin_indices[BinOfNode(a, m)] = unused_node  BY <1>4, <1>6, <1>11, <3>3
    <3>5. QED  BY <3>4 DEF Listed
  <2>3. n = unused_node  BY <1>2, <1>11
  <2>4. QED  BY <2>2, <2>3 DEF n
<1>12. QED  BY <1>9, <1>10, <1>11

Walks(f, a) == f = [n \in Link |-> IF n = unused_node THEN {} ELSE {n} \cup f[a.nodes[n].bin_next]]

Older(a, S, stamp, n) == {m \in S : BinOfNode(a, m) = BinOfNode(a, n) /\ stamp[m] <= stamp[n]}

LEMMA OlderSteps ==
  ASSUME NEW a \in Ranges, NEW S, NEW stamp, NEW clock, Listed(a, S, stamp, clock), NEW n \in S
  PROVE  Older(a, S, stamp, n) =
           {n} \cup (IF a.nodes[n].bin_next = unused_node THEN {}
               ELSE Older(a, S, stamp, a.nodes[n].bin_next))
<1> PICK next : next = a.nodes[n].bin_next  OBVIOUS
<1>1. stamp[n] \in Nat  BY ListedSteps
<1>2. n \in Older(a, S, stamp, n)  BY <1>1 DEF Older
<1>3. CASE next = unused_node
  <2>0. a.nodes[n].bin_next = unused_node  BY <1>3
  <2>1. \A m \in S : BinOfNode(a, m) = BinOfNode(a, n) => (stamp[m] <= stamp[n] <=> m = n)
    BY <2>0, ListedSteps
  <2>2. Older(a, S, stamp, n) = {n}  BY <1>2, <2>1 DEF Older
  <2>3. QED  BY <1>3, <2>2
<1>4. CASE next # unused_node
  <2>1. /\ next \in S /\ BinOfNode(a, next) = BinOfNode(a, n)
        /\ \A m \in S : BinOfNode(a, m) = BinOfNode(a, n) =>
             (stamp[m] <= stamp[next] <=> stamp[m] <= stamp[n] /\ m # n)
    BY <1>4, ListedSteps
  <2>2. \A m : m \in Older(a, S, stamp, next) <=> m \in Older(a, S, stamp, n) /\ m # n
    BY <2>1 DEF Older
  <2>3. Older(a, S, stamp, n) = {n} \cup Older(a, S, stamp, next)  BY <1>2, <2>2
  <2>4. QED  BY <1>4, <2>3
<1>5. QED  BY <1>3, <1>4

LEMMA WalkExists ==
  ASSUME NEW a \in Ranges, NEW S, NEW stamp, NEW clock, Listed(a, S, stamp, clock)
  PROVE  \E f : Walks(f, a)
<1> DEFINE Value(n) == IF n \in S THEN Older(a, S, stamp, n) ELSE IF n = unused_node THEN {} ELSE {n}
           f == [n \in Link |-> Value(n)]
<1>1. ASSUME NEW n \in Link
      PROVE  f[n] = IF n = unused_node THEN {} ELSE {n} \cup f[a.nodes[n].bin_next]
  <2>1. /\ \A m \in Link : f[m] = Value(m)
        /\ unused_node \in Link /\ unused_node \notin S /\ Value(unused_node) = {}
    BY UnusedIsNoNode DEF Link, Listed
  <2>2. CASE n = unused_node  BY <2>1, <2>2
  <2>3. CASE n \in S
    <3> PICK next : next = a.nodes[n].bin_next  OBVIOUS
    <3>1. n # unused_node /\ next \in Link  BY <2>1, <2>3, ListedSteps
    <3>2. next # unused_node => next \in S  BY <2>3 DEF Listed
    <3>3. Older(a, S, stamp, n) = {n} \cup (IF next = unused_node THEN {} ELSE Older(a, S, stamp, next))
      BY <2>3, OlderSteps
    <3>4. f[next] = IF next = unused_node THEN {} ELSE Older(a, S, stamp, next)
      BY <2>1, <3>1, <3>2
    <3>5. f[n] = Older(a, S, stamp, n)  BY <2>1, <2>3
    <3> HIDE DEF f
    <3>6. QED  BY <3>1, <3>3, <3>4, <3>5
  <2>4. CASE n # unused_node /\ n \notin S
    <3>1. n \in NodeIndex \ S  BY <2>4 DEF Link
    <3>2. a.nodes[n].bin_next = unused_node  BY <3>1 DEF Listed
    <3>3. f[n] = {n} /\ f[unused_node] = {}  BY <2>1, <2>4
    <3> HIDE DEF f
    <3>4. QED  BY <2>4, <3>2, <3>3
  <2>5. QED  BY <2>2, <2>3, <2>4
<1>2. f = [n \in Link |-> f[n]]  OBVIOUS
<1> HIDE DEF f
<1>3. Walks(f, a)  BY <1>1, <1>2 DEF Walks
<1>4. QED  BY <1>3

(* The list of a bin, walked from its head, has the nodes of the bin.      *)
LEMMA BinListHolds ==
  ASSUME NEW a \in Ranges, NEW S, NEW stamp, NEW clock, Listed(a, S, stamp, clock), NEW b \in Bins
  PROVE  BinList(a, b) = {n \in S : BinOfNode(a, n) = b}
<1> DEFINE f == CHOOSE f : Walks(f, a)
           head == a.bin_indices[b]
<1>1. Walks(f, a)  BY WalkExists
<1>2. BinList(a, b) = f[head]  BY DEF BinList, Walks
<1> HIDE DEF f
<1>3. \A n \in Link : f[n] = IF n = unused_node THEN {} ELSE {n} \cup f[a.nodes[n].bin_next]
  BY <1>1 DEF Walks
<1>4. f[unused_node] = {}
  <2>1. unused_node \in Link  BY DEF Link
  <2>2. QED  BY <1>3, <2>1
<1> DEFINE Bad == {k \in Nat : \E n \in S : stamp[n] = k /\ f[n] # Older(a, S, stamp, n)}
           least == Min(Bad)
<1>5. \A n \in S : f[n] = Older(a, S, stamp, n)
  <2>1. SUFFICES ASSUME Bad # {} PROVE FALSE
    <3>1. \A n \in S : stamp[n] \in Nat  BY ListedSteps
    <3>2. QED  BY <3>1
  <2>2. least \in Bad /\ \A k \in Bad : least <= k
    <3>1. Bad \in SUBSET Nat  OBVIOUS
    <3> HIDE DEF Bad
    <3>2. QED  BY <2>1, <3>1, LeastElement
  <2> HIDE DEF least
  <2>3. PICK n \in S : stamp[n] = least /\ f[n] # Older(a, S, stamp, n)  BY <2>2
  <2>4. \A m \in S : stamp[m] < stamp[n] => f[m] = Older(a, S, stamp, m)
    <3>1. \A m \in S : stamp[m] \in Nat  BY ListedSteps
    <3>2. SUFFICES ASSUME NEW m \in S, stamp[m] < stamp[n], f[m] # Older(a, S, stamp, m) PROVE FALSE  OBVIOUS
    <3>3. stamp[m] \in Bad  BY <3>1, <3>2
    <3>4. least <= stamp[m]  BY <2>2, <3>3
    <3>5. stamp[m] \in Nat /\ stamp[n] \in Nat  BY <3>1
    <3>6. QED  BY <2>3, <3>2, <3>4, <3>5
  <2> PICK next : next = a.nodes[n].bin_next  OBVIOUS
  <2>5. n \in Link /\ n # unused_node  BY ListedSteps
  <2>6. f[n] = {n} \cup f[next]  BY <1>3, <2>5
  <2>7. Older(a, S, stamp, n) = {n} \cup (IF next = unused_node THEN {} ELSE Older(a, S, stamp, next))
    BY OlderSteps
  <2>8. next # unused_node => next \in S /\ stamp[next] < stamp[n]  BY DEF Listed
  <2>9. f[next] = IF next = unused_node THEN {} ELSE Older(a, S, stamp, next)
    BY <1>4, <2>4, <2>8
  <2>10. QED  BY <2>3, <2>6, <2>7, <2>9
<1>6. CASE head = unused_node
  <2>1. \A m \in S : BinOfNode(a, m) # b  BY <1>6 DEF Listed
  <2> HIDE DEF head
  <2>2. QED  BY <1>2, <1>4, <1>6, <2>1
<1>7. CASE head # unused_node
  <2>1. head \in S /\ BinOfNode(a, head) = b  BY <1>7 DEF Listed
  <2>2. \A m \in S : BinOfNode(a, m) = b => stamp[m] <= stamp[head]  BY DEF Listed
  <2> HIDE DEF head
  <2>3. f[head] = {m \in S : BinOfNode(a, m) = b}  BY <1>5, <2>1, <2>2 DEF Older
  <2>4. QED  BY <1>2, <2>3
<1>8. QED  BY <1>6, <1>7

LEMMA ListsAreBins ==
  ASSUME NEW a \in Ranges, NEW stamp, NEW clock, Listed(a, FreeOnes(a), stamp, clock), BitmapsExact(a)
  PROVE  Binned(a)
<1> DEFINE S == FreeOnes(a)
<1>1. DOMAIN a.bin_indices = Bins  BY DEF Ranges
<1>2. ASSUME NEW b \in Bins
      PROVE  /\ BinList(a, b) = {n \in S : BinOfNode(a, n) = b}
             /\ (a.bin_indices[b] # unused_node) = (LeafOf(b) \in a.used_leaf_bins[TopOf(b)])
  <2> HIDE DEF S
  <2>1. BinList(a, b) = {n \in S : BinOfNode(a, n) = b}  BY BinListHolds DEF S
  <2>2. (a.bin_indices[b] # unused_node) <=> (LeafOf(b) \in a.used_leaf_bins[TopOf(b)])  BY DEF BitmapsExact
  <2>3. QED  BY <2>1, <2>2
<1>3. ASSUME NEW n \in S
      PROVE  IF a.nodes[n].bin_previous = unused_node THEN a.bin_indices[BinOfNode(a, n)] = n
             ELSE a.nodes[a.nodes[n].bin_previous].bin_next = n
  BY DEF Listed
<1>4. a.used_top_bins = {t \in Tops : a.used_leaf_bins[t] # {}}  BY DEF BitmapsExact
<1>5. QED  BY <1>1, <1>2, <1>3, <1>4 DEF Binned, BinOfNode

(* What else may change without a list noticing                            *)
LEMMA ListedKept ==
  ASSUME NEW a \in Ranges, NEW r \in Ranges, NEW S, NEW stamp, NEW clock, Listed(a, S, stamp, clock),
         BitmapsExact(a),
         r.bin_indices = a.bin_indices, r.used_leaf_bins = a.used_leaf_bins,
         r.used_top_bins = a.used_top_bins,
         \A n \in NodeIndex : r.nodes[n].bin_next = a.nodes[n].bin_next
                              /\ r.nodes[n].bin_previous = a.nodes[n].bin_previous,
         \A n \in S : r.nodes[n].size = a.nodes[n].size
  PROVE  Listed(r, S, stamp, clock) /\ BitmapsExact(r)
<1>1. \A n \in S : n \in NodeIndex /\ BinOfNode(r, n) = BinOfNode(a, n) /\ r.nodes[n].size = a.nodes[n].size
                   /\ r.nodes[n].bin_next = a.nodes[n].bin_next
                   /\ r.nodes[n].bin_previous = a.nodes[n].bin_previous
  BY DEF Listed, BinOfNode
<1>2. BitmapsExact(r)  BY DEF BitmapsExact
<1>3. S \subseteq NodeIndex /\ stamp \in [NodeIndex -> Nat] /\ clock \in Nat  BY DEF Listed
<1>4. \A n \in S : stamp[n] < clock /\ r.nodes[n].size \in 1..unused_node  BY <1>1 DEF Listed
<1>5. \A m, n \in S : stamp[m] = stamp[n] => m = n  BY DEF Listed
<1>6. \A b \in Bins : r.bin_indices[b] # unused_node =>
       /\ r.bin_indices[b] \in S /\ BinOfNode(r, r.bin_indices[b]) = b
       /\ r.nodes[r.bin_indices[b]].bin_previous = unused_node
  BY <1>1 DEF Listed
<1>7. \A n \in S : /\ r.bin_indices[BinOfNode(r, n)] # unused_node
                  /\ stamp[n] <= stamp[r.bin_indices[BinOfNode(r, n)]]
  BY <1>1 DEF Listed
<1>8. \A n \in S : r.nodes[n].bin_next # unused_node =>
       /\ r.nodes[n].bin_next \in S /\ BinOfNode(r, r.nodes[n].bin_next) = BinOfNode(r, n)
       /\ stamp[r.nodes[n].bin_next] < stamp[n]
       /\ r.nodes[r.nodes[n].bin_next].bin_previous = n
  BY <1>1 DEF Listed
<1>9. \A n \in S : r.nodes[n].bin_previous # unused_node =>
       r.nodes[n].bin_previous \in S /\ r.nodes[r.nodes[n].bin_previous].bin_next = n
  BY <1>1 DEF Listed
<1>10. \A n \in S : r.nodes[n].bin_previous = unused_node => r.bin_indices[BinOfNode(r, n)] = n
  BY <1>1 DEF Listed
<1>11. \A m, n \in S : BinOfNode(r, m) = BinOfNode(r, n) /\ stamp[m] < stamp[n] =>
       r.nodes[n].bin_next # unused_node /\ stamp[m] <= stamp[r.nodes[n].bin_next]
  BY <1>1 DEF Listed
<1>12. \A n \in NodeIndex \ S : r.nodes[n].bin_next = unused_node /\ r.nodes[n].bin_previous = unused_node
  BY DEF Listed
<1>13. QED  BY <1>2, <1>3, <1>4, <1>5, <1>6, <1>7, <1>8, <1>9, <1>10, <1>11, <1>12 DEF Listed

-----------------------------------------------------------------------------
(* How the live nodes lie in the heap, and how they are linked             *)

End(nodes, n) == nodes[n].offset + nodes[n].size

Tiling(nodes, live) ==
  /\ live \in SUBSET NodeIndex
  /\ \A n \in live : nodes[n].size > 0 /\ End(nodes, n) <= capacity
  /\ \A m, n \in live : m # n => End(nodes, m) <= nodes[n].offset \/ End(nodes, n) <= nodes[m].offset
  /\ \A e \in 0..(capacity - 1) : \E n \in live : nodes[n].offset <= e /\ e < End(nodes, n)

LinkedBack(nodes, live, n) ==
  \/ nodes[n].neighbor_previous = unused_node /\ nodes[n].offset = 0
  \/ nodes[n].neighbor_previous \in live /\ End(nodes, nodes[n].neighbor_previous) = nodes[n].offset

LinkedOn(nodes, live, n) ==
  \/ nodes[n].neighbor_next = unused_node /\ End(nodes, n) = capacity
  \/ nodes[n].neighbor_next \in live /\ nodes[nodes[n].neighbor_next].offset = End(nodes, n)

FreeApart(nodes, live) ==
  \A m, n \in live : End(nodes, m) = nodes[n].offset => nodes[m].used \/ nodes[n].used

LEMMA NodeTypes ==
  ASSUME NEW nodes \in [NodeIndex -> AnyNode]
  PROVE  \A n \in NodeIndex :
           /\ nodes[n].offset \in Nat /\ nodes[n].size \in Nat /\ nodes[n].used \in BOOLEAN
           /\ nodes[n].neighbor_previous \in Link /\ nodes[n].neighbor_next \in Link
           /\ nodes[n].bin_previous \in Link /\ nodes[n].bin_next \in Link
           /\ End(nodes, n) \in Nat
<1>1. ASSUME NEW n \in NodeIndex
      PROVE  /\ nodes[n].offset \in Nat /\ nodes[n].size \in Nat /\ nodes[n].used \in BOOLEAN
             /\ nodes[n].neighbor_previous \in Link /\ nodes[n].neighbor_next \in Link
             /\ nodes[n].bin_previous \in Link /\ nodes[n].bin_next \in Link
  <2>1. nodes[n] \in AnyNode  OBVIOUS
  <2>2. QED  BY <2>1 DEF AnyNode
<1>2. QED  BY <1>1 DEF End

(* Where a node begins and where it ends, one node each.                   *)
LEMMA OneNodeThere ==
  ASSUME NEW nodes \in [NodeIndex -> AnyNode], NEW live, Tiling(nodes, live), NEW m \in live, NEW n \in live
  PROVE  /\ nodes[m].offset = nodes[n].offset => m = n
         /\ End(nodes, m) = End(nodes, n) => m = n
         /\ End(nodes, m) = nodes[n].offset => m # n
<1>1. m \in NodeIndex /\ n \in NodeIndex  BY DEF Tiling
<1>2. /\ nodes[m].offset \in Nat /\ nodes[m].size \in Nat /\ nodes[n].offset \in Nat /\ nodes[n].size \in Nat
  BY <1>1, NodeTypes
<1>3. nodes[m].size > 0 /\ nodes[n].size > 0  BY DEF Tiling
<1>4. m # n => End(nodes, m) <= nodes[n].offset \/ End(nodes, n) <= nodes[m].offset  BY DEF Tiling
<1>5. QED  BY <1>2, <1>3, <1>4 DEF End

(* The nodes v, when the first size elements of n become used and the rest *)
(* of them r.                                                              *)
SplitNodes(v, nodes, live, n, r, size) ==
  /\ v[n].offset = nodes[n].offset /\ v[n].size = size /\ v[n].used = TRUE
  /\ v[n].neighbor_previous = nodes[n].neighbor_previous /\ v[n].neighbor_next = r
  /\ v[r].offset = nodes[n].offset + size /\ v[r].size = nodes[n].size - size /\ v[r].used = FALSE
  /\ v[r].neighbor_previous = n /\ v[r].neighbor_next = nodes[n].neighbor_next
  /\ \A m \in live \ {n} :
       /\ v[m].offset = nodes[m].offset /\ v[m].size = nodes[m].size /\ v[m].used = nodes[m].used
       /\ v[m].neighbor_next = nodes[m].neighbor_next
       /\ v[m].neighbor_previous = IF m = nodes[n].neighbor_next THEN r ELSE nodes[m].neighbor_previous

Whole(nodes, live) ==
  /\ Tiling(nodes, live) /\ FreeApart(nodes, live)
  /\ \A n \in live : LinkedBack(nodes, live, n) /\ LinkedOn(nodes, live, n)

LEMMA SplitIsWhole ==
  ASSUME NEW nodes \in [NodeIndex -> AnyNode], NEW v \in [NodeIndex -> AnyNode], NEW live, Whole(nodes, live),
         NEW n \in live, NEW r \in NodeIndex \ live, NEW size \in Nat, 0 < size, size < nodes[n].size,
         ~nodes[n].used, SplitNodes(v, nodes, live, n, r, size)
  PROVE  Whole(v, live \cup {r})
<1> DEFINE all == live \cup {r}
<1>1. /\ live \in SUBSET NodeIndex /\ r \notin live /\ n \in NodeIndex /\ r \in NodeIndex /\ n # r
      /\ unused_node \notin live /\ r # unused_node
  BY UnusedIsNoNode DEF Whole, Tiling
<1>2. \A m \in live : nodes[m].offset \in Nat /\ nodes[m].size \in Nat /\ nodes[m].used \in BOOLEAN
  BY <1>1, NodeTypes
<1>3. /\ \A m \in live : nodes[m].size > 0 /\ End(nodes, m) <= capacity
      /\ \A m, k \in live : m # k => End(nodes, m) <= nodes[k].offset \/ End(nodes, k) <= nodes[m].offset
      /\ \A e \in 0..(capacity - 1) : \E m \in live : nodes[m].offset <= e /\ e < End(nodes, m)
  BY DEF Whole, Tiling
<1>4. capacity \in Nat  BY Constants
<1>5. /\ v[n].offset = nodes[n].offset /\ v[n].size = size /\ v[n].used = TRUE
      /\ v[r].offset = nodes[n].offset + size /\ v[r].size = nodes[n].size - size /\ v[r].used = FALSE
      /\ \A m \in live \ {n} :
           v[m].offset = nodes[m].offset /\ v[m].size = nodes[m].size /\ v[m].used = nodes[m].used
  BY DEF SplitNodes
<1>6. /\ End(v, n) = nodes[n].offset + size /\ End(v, r) = End(nodes, n)
      /\ \A m \in live \ {n} : End(v, m) = End(nodes, m)
      /\ v[r].offset \in Nat /\ End(nodes, n) = nodes[n].offset + nodes[n].size
  BY <1>2, <1>5 DEF End
<1>7. \A m \in all : v[m].offset \in Nat /\ v[m].size \in Nat /\ End(v, m) \in Nat
  BY <1>1, NodeTypes
<1>8. ASSUME NEW m \in all PROVE v[m].size > 0 /\ End(v, m) <= capacity
  <2>1. CASE m = n
    <3>1. End(nodes, n) <= capacity  BY <1>3
    <3>2. QED  BY <1>2, <1>4, <1>5, <1>6, <2>1, <3>1
  <2>2. CASE m = r
    <3>1. End(nodes, n) <= capacity  BY <1>3
    <3>2. QED  BY <1>2, <1>5, <1>6, <2>2, <3>1
  <2>3. CASE m \in live \ {n}  BY <1>3, <1>5, <1>6, <2>3
  <2>4. QED  BY <2>1, <2>2, <2>3
<1>9. ASSUME NEW m \in live \ {n}
      PROVE  /\ End(v, m) <= v[n].offset \/ End(v, n) <= v[m].offset
             /\ End(v, m) <= v[r].offset \/ End(v, r) <= v[m].offset
  <2>1. End(nodes, m) <= nodes[n].offset \/ End(nodes, n) <= nodes[m].offset  BY <1>3
  <2>2. End(v, m) = End(nodes, m) /\ v[m].offset = nodes[m].offset /\ End(v, m) \in Nat /\ v[m].offset \in Nat
    BY <1>5, <1>6, <1>7
  <2>3. QED  BY <1>2, <1>5, <1>6, <2>1, <2>2
<1>10. ASSUME NEW m \in all, NEW k \in all, m # k
       PROVE  End(v, m) <= v[k].offset \/ End(v, k) <= v[m].offset
  <2>1. End(v, n) <= v[r].offset  BY <1>2, <1>5, <1>6
  <2>2. CASE m \in live \ {n} /\ k \in live \ {n}  BY <1>3, <1>5, <1>6, <1>10, <2>2
  <2>3. CASE m \in live \ {n} /\ k \in {n, r}  BY <1>9, <2>3
  <2>4. CASE k \in live \ {n} /\ m \in {n, r}  BY <1>9, <2>4
  <2>5. CASE m \in {n, r} /\ k \in {n, r}  BY <1>10, <2>1, <2>5
  <2>6. QED  BY <2>2, <2>3, <2>4, <2>5
<1>11. ASSUME NEW e \in 0..(capacity - 1) PROVE \E m \in all : v[m].offset <= e /\ e < End(v, m)
  <2>1. PICK m \in live : nodes[m].offset <= e /\ e < End(nodes, m)  BY <1>3
  <2>2. CASE m # n  BY <1>5, <1>6, <2>1, <2>2
  <2>3. CASE m = n
    <3>1. (v[n].offset <= e /\ e < End(v, n)) \/ (v[r].offset <= e /\ e < End(v, r))
      BY <1>2, <1>4, <1>5, <1>6, <2>1, <2>3
    <3>2. QED  BY <3>1
  <2>4. QED  BY <2>2, <2>3
<1>12. Tiling(v, all)  BY <1>1, <1>8, <1>10, <1>11 DEF Tiling
<1>13. FreeApart(v, all)
  <2>1. SUFFICES ASSUME NEW m \in all, NEW k \in all, End(v, m) = v[k].offset, v[m].used = FALSE
                 PROVE  v[k].used
    <3>1. \A m \in all : v[m].used \in BOOLEAN  BY <1>1, NodeTypes
    <3>2. QED  BY <2>1, <3>1 DEF FreeApart
  <2>2. CASE k = n  BY <1>5, <2>2
  <2>3. m # n  BY <1>5, <2>1
  <2>4. CASE k = r
    <3>1. End(v, n) = v[r].offset  BY <1>5, <1>6
    <3>2. n \in all /\ m \in all  OBVIOUS
    <3>3. m = n  BY <1>12, <2>1, <2>4, <3>1, <3>2, OneNodeThere
    <3>4. QED  BY <2>3, <3>3
  <2>5. CASE k \in live \ {n}
    <3> PICK o \in live : o = (IF m = r THEN n ELSE m)  BY <2>1
    <3>1. End(nodes, o) = nodes[k].offset /\ ~nodes[o].used
      BY <1>5, <1>6, <2>1, <2>3, <2>5
    <3>2. nodes[k].used  BY <3>1, <2>5 DEF Whole, FreeApart
    <3>3. QED  BY <1>5, <2>5, <3>2
  <2>6. QED  BY <2>2, <2>4, <2>5
<1>14. ASSUME NEW m \in all PROVE LinkedBack(v, all, m)
  <2>1. CASE m = n
    <3>1. LinkedBack(nodes, live, n)  BY DEF Whole
    <3>2. v[n].neighbor_previous = nodes[n].neighbor_previous  BY DEF SplitNodes
    <3>3. \A p \in live : End(nodes, p) = nodes[n].offset => p # n  BY OneNodeThere DEF Whole
    <3>4. QED  BY <1>5, <1>6, <2>1, <3>1, <3>2, <3>3 DEF LinkedBack
  <2>2. CASE m = r
    <3>1. v[r].neighbor_previous = n  BY DEF SplitNodes
    <3>2. QED  BY <1>5, <1>6, <2>2, <3>1 DEF LinkedBack
  <2>3. CASE m \in live \ {n} /\ m = nodes[n].neighbor_next
    <3>1. v[m].neighbor_previous = r  BY <2>3 DEF SplitNodes
    <3>2. LinkedOn(nodes, live, n) /\ m # unused_node  BY <1>1, <2>3 DEF Whole
    <3>3. nodes[m].offset = End(nodes, n)  BY <2>3, <3>2 DEF LinkedOn
    <3>4. QED  BY <1>5, <1>6, <2>3, <3>1, <3>3 DEF LinkedBack
  <2>4. CASE m \in live \ {n} /\ m # nodes[n].neighbor_next
    <3>1. v[m].neighbor_previous = nodes[m].neighbor_previous  BY <2>4 DEF SplitNodes
    <3>2. LinkedBack(nodes, live, m)  BY <2>4 DEF Whole
    <3>3. nodes[m].neighbor_previous # n
      <4>1. SUFFICES ASSUME nodes[m].neighbor_previous = n PROVE FALSE  OBVIOUS
      <4>2. End(nodes, n) = nodes[m].offset  BY <1>1, <3>2, <4>1 DEF LinkedBack
      <4>3. LinkedOn(nodes, live, n)  BY DEF Whole
      <4>4. CASE nodes[n].neighbor_next = unused_node /\ End(nodes, n) = capacity
        <5>1. m \in live /\ nodes[m].size > 0 /\ End(nodes, m) <= capacity  BY <1>3, <2>4
        <5>2. nodes[m].offset \in Nat /\ nodes[m].size \in Nat  BY <1>2, <2>4
        <5>3. QED  BY <1>4, <4>2, <4>4, <5>1, <5>2 DEF End
      <4>5. CASE nodes[n].neighbor_next \in live /\ nodes[nodes[n].neighbor_next].offset = End(nodes, n)
        <5>1. m \in live /\ Tiling(nodes, live)  BY <2>4 DEF Whole
        <5>2. nodes[n].neighbor_next = m  BY <4>2, <4>5, <5>1, OneNodeThere
        <5>3. QED  BY <2>4, <5>2
      <4>6. QED  BY <4>3, <4>4, <4>5 DEF LinkedOn
    <3>4. QED  BY <1>5, <1>6, <2>4, <3>1, <3>2, <3>3 DEF LinkedBack
  <2>5. QED  BY <2>1, <2>2, <2>3, <2>4
<1>15. ASSUME NEW m \in all PROVE LinkedOn(v, all, m)
  <2>1. CASE m = n
    <3>1. v[n].neighbor_next = r  BY DEF SplitNodes
    <3>2. QED  BY <1>5, <1>6, <2>1, <3>1 DEF LinkedOn
  <2>2. CASE m = r
    <3>1. v[r].neighbor_next = nodes[n].neighbor_next  BY DEF SplitNodes
    <3>2. LinkedOn(nodes, live, n)  BY DEF Whole
    <3>3. \A p \in live : nodes[p].offset = End(nodes, n) => p # n  BY OneNodeThere DEF Whole
    <3>4. QED  BY <1>5, <1>6, <2>2, <3>1, <3>2, <3>3 DEF LinkedOn
  <2>3. CASE m \in live \ {n}
    <3>1. v[m].neighbor_next = nodes[m].neighbor_next  BY <2>3 DEF SplitNodes
    <3>2. LinkedOn(nodes, live, m)  BY <2>3 DEF Whole
    <3>3. QED  BY <1>5, <1>6, <2>3, <3>1, <3>2 DEF LinkedOn
  <2>4. QED  BY <2>1, <2>2, <2>3
<1>16. QED  BY <1>12, <1>13, <1>14, <1>15 DEF Whole

(* A live node takes the place of its neighbour p, which is no longer      *)
(* live: the nodes v, when token takes over the elements of p before it or *)
(* after it, with the link of p that leads away from token.                *)
TookPrevious(v, nodes, live, token, p) ==
  /\ v[token].offset = nodes[p].offset /\ v[token].size = nodes[token].size + nodes[p].size
  /\ v[token].neighbor_previous = nodes[p].neighbor_previous
  /\ v[token].neighbor_next = nodes[token].neighbor_next
  /\ v[token].used = nodes[token].used
  /\ \A m \in live \ {token, p} : SameRange(v[m], nodes[m]) /\ v[m].used = nodes[m].used
TookNext(v, nodes, live, token, p) ==
  /\ v[token].offset = nodes[token].offset /\ v[token].size = nodes[token].size + nodes[p].size
  /\ v[token].neighbor_previous = nodes[token].neighbor_previous
  /\ v[token].neighbor_next = nodes[p].neighbor_next
  /\ v[token].used = nodes[token].used
  /\ \A m \in live \ {token, p} : SameRange(v[m], nodes[m]) /\ v[m].used = nodes[m].used

(* Whole, but for the links that should lead to token.                     *)
AlmostWhole(nodes, live, token) ==
  /\ Tiling(nodes, live) /\ FreeApart(nodes, live)
  /\ \A n \in live : /\ LinkedBack(nodes, live, n) \/ (n # token /\ n = nodes[token].neighbor_next)
                     /\ LinkedOn(nodes, live, n) \/ (n # token /\ n = nodes[token].neighbor_previous)

UsedBefore(nodes, live, token) == \A m \in live : End(nodes, m) = nodes[token].offset => nodes[m].used
UsedAfter(nodes, live, token) == \A m \in live : nodes[m].offset = End(nodes, token) => nodes[m].used

Took(v, nodes, live, token, p) ==
  /\ \/ End(nodes, p) = nodes[token].offset /\ v[token].offset = nodes[p].offset
     \/ End(nodes, token) = nodes[p].offset /\ v[token].offset = nodes[token].offset
  /\ v[token].size = nodes[token].size + nodes[p].size
  /\ \A m \in live \ {token, p} : v[m].offset = nodes[m].offset /\ v[m].size = nodes[m].size

TookEnds(v, nodes, live, token, p) ==
  /\ Tiling(v, live \ {p})
  /\ v[token].offset = nodes[p].offset => End(v, token) = End(nodes, token)
  /\ v[token].offset = nodes[token].offset => End(v, token) = End(nodes, p)
  /\ \A m \in live \ {token, p} : End(v, m) = End(nodes, m)

(* The tiling, when token takes over a neighbour's elements                *)
LEMMA TookTiles ==
  ASSUME NEW nodes \in [NodeIndex -> AnyNode], NEW v \in [NodeIndex -> AnyNode], NEW live,
         Tiling(nodes, live),
         NEW token \in live, NEW p \in live \ {token}, Took(v, nodes, live, token, p)
  PROVE  TookEnds(v, nodes, live, token, p)
<1> DEFINE rest == live \ {p}
<1> USE DEF Took
<1>1. live \in SUBSET NodeIndex /\ rest \in SUBSET NodeIndex /\ token \in rest  BY DEF Tiling
<1>2. \A m \in live : nodes[m].offset \in Nat /\ nodes[m].size \in Nat  BY <1>1, NodeTypes
<1>3. /\ \A m \in live : nodes[m].size > 0 /\ End(nodes, m) <= capacity
      /\ \A m, k \in live : m # k => End(nodes, m) <= nodes[k].offset \/ End(nodes, k) <= nodes[m].offset
      /\ \A e \in 0..(capacity - 1) : \E m \in live : nodes[m].offset <= e /\ e < End(nodes, m)
  BY DEF Tiling
<1>4. capacity \in Nat  BY Constants
<1>5. \A m \in live : End(nodes, m) = nodes[m].offset + nodes[m].size /\ End(nodes, m) \in Nat
  BY <1>2 DEF End
<1>6. \A m \in live \ {token, p} : End(v, m) = End(nodes, m) /\ v[m].offset = nodes[m].offset
  BY DEF End
<1>7. /\ v[token].offset \in Nat /\ End(v, token) = v[token].offset + nodes[token].size + nodes[p].size
      /\ v[token].size > 0
  BY <1>2, <1>3 DEF End
<1>8. \/ /\ End(nodes, p) = nodes[token].offset /\ v[token].offset = nodes[p].offset
         /\ End(v, token) = End(nodes, token)
      \/ /\ End(nodes, token) = nodes[p].offset /\ v[token].offset = nodes[token].offset
         /\ End(v, token) = End(nodes, p)
  BY <1>2, <1>5, <1>7
<1>9. \A m \in rest : v[m].size > 0 /\ End(v, m) <= capacity
  BY <1>3, <1>6, <1>7, <1>8
<1>10. ASSUME NEW m \in live \ {token, p}
       PROVE  End(v, m) <= v[token].offset \/ End(v, token) <= v[m].offset
  <2>1. /\ End(nodes, m) <= nodes[token].offset \/ End(nodes, token) <= nodes[m].offset
        /\ End(nodes, m) <= nodes[p].offset \/ End(nodes, p) <= nodes[m].offset
    BY <1>3
  <2>2. /\ nodes[m].size > 0 /\ nodes[token].size > 0 /\ nodes[p].size > 0
        /\ m \in live
    BY <1>3
  <2>3. /\ nodes[m].offset \in Nat /\ nodes[m].size \in Nat /\ nodes[p].offset \in Nat
        /\ nodes[p].size \in Nat
        /\ nodes[token].offset \in Nat /\ nodes[token].size \in Nat
    BY <1>2
  <2>4. /\ End(nodes, m) = nodes[m].offset + nodes[m].size /\ End(nodes, p) = nodes[p].offset + nodes[p].size
        /\ End(nodes, token) = nodes[token].offset + nodes[token].size
    BY DEF End
  <2>5. End(v, m) = End(nodes, m) /\ v[m].offset = nodes[m].offset  BY <1>6
  <2>6. QED  BY <1>8, <2>1, <2>2, <2>3, <2>4, <2>5
<1>11. ASSUME NEW m \in rest, NEW k \in rest, m # k
       PROVE  End(v, m) <= v[k].offset \/ End(v, k) <= v[m].offset
  <2>1. CASE m # token /\ k # token  BY <1>3, <1>6, <1>11, <2>1
  <2>2. CASE m = token \/ k = token  BY <1>10, <1>11, <2>2
  <2>3. QED  BY <2>1, <2>2
<1>12. ASSUME NEW e \in 0..(capacity - 1) PROVE \E m \in rest : v[m].offset <= e /\ e < End(v, m)
  <2>1. PICK m \in live : nodes[m].offset <= e /\ e < End(nodes, m)  BY <1>3
  <2>2. CASE m \notin {token, p}  BY <1>6, <2>1, <2>2
  <2>3. CASE m \in {token, p}
    <3>1. v[token].offset <= e /\ e < End(v, token)
      BY <1>2, <1>4, <1>5, <1>8, <2>1, <2>3
    <3>2. QED  BY <1>1, <3>1
  <2>4. QED  BY <2>2, <2>3
<1>13. Tiling(v, rest)  BY <1>1, <1>9, <1>11, <1>12 DEF Tiling
<1>14. nodes[p].offset # nodes[token].offset
  BY OneNodeThere
<1>15. QED  BY <1>6, <1>8, <1>13, <1>14 DEF TookEnds

LEMMA PreviousTaken ==
  ASSUME NEW nodes \in [NodeIndex -> AnyNode], NEW v \in [NodeIndex -> AnyNode], NEW live, Whole(nodes, live),
         NEW token \in live, nodes[token].used, NEW p \in live, nodes[token].neighbor_previous = p,
         ~nodes[p].used,
         TookPrevious(v, nodes, live, token, p)
  PROVE  /\ AlmostWhole(v, live \ {p}, token) /\ UsedBefore(v, live \ {p}, token)
         /\ \A n \in live \ {p} : LinkedBack(v, live \ {p}, n)
<1> DEFINE rest == live \ {p}
<1>1. /\ Tiling(nodes, live) /\ FreeApart(nodes, live) /\ live \in SUBSET NodeIndex
      /\ \A n \in live : LinkedBack(nodes, live, n) /\ LinkedOn(nodes, live, n)
  BY DEF Whole, Tiling
<1>2. unused_node \notin live /\ rest \in SUBSET NodeIndex /\ token \in NodeIndex /\ p \in NodeIndex
  BY <1>1, UnusedIsNoNode
<1>3. End(nodes, p) = nodes[token].offset
  BY <1>1, <1>2 DEF LinkedBack
<1>4. p # token /\ token \in rest  OBVIOUS
<1>5. /\ v[token].offset = nodes[p].offset /\ v[token].size = nodes[token].size + nodes[p].size
      /\ v[token].neighbor_previous = nodes[p].neighbor_previous
      /\ v[token].neighbor_next = nodes[token].neighbor_next /\ v[token].used = nodes[token].used
  BY DEF TookPrevious
<1>6. \A m \in live \ {token, p} :
        /\ v[m].offset = nodes[m].offset /\ v[m].size = nodes[m].size /\ v[m].used = nodes[m].used
        /\ v[m].neighbor_previous = nodes[m].neighbor_previous /\ v[m].neighbor_next = nodes[m].neighbor_next
  BY DEF TookPrevious, SameRange
<1>7. /\ Tiling(v, rest) /\ End(v, token) = End(nodes, token)
      /\ \A m \in live \ {token, p} : End(v, m) = End(nodes, m)
  <2>1. p \in live \ {token}  BY <1>4
  <2>2. Took(v, nodes, live, token, p)  BY <1>3, <1>5, <1>6 DEF Took
  <2>3. TookEnds(v, nodes, live, token, p)  BY <1>1, <2>1, <2>2, TookTiles
  <2>4. QED  BY <1>5, <2>3 DEF TookEnds
<1>8. \A m, k \in live : End(nodes, m) = End(nodes, k) \/ nodes[m].offset = nodes[k].offset => m = k
  BY <1>1, OneNodeThere
<1>9. \A m \in live : nodes[m].used \in BOOLEAN  BY <1>1, NodeTypes
<1>10. UsedBefore(v, rest, token)
  <2>1. SUFFICES ASSUME NEW m \in rest, End(v, m) = v[token].offset PROVE v[m].used  BY DEF UsedBefore
  <2>2. m # token  BY <1>4, <1>7, <2>1, OneNodeThere
  <2>3. End(nodes, m) = nodes[p].offset  BY <1>5, <1>7, <2>1, <2>2
  <2>4. nodes[m].used  BY <1>1, <2>3 DEF FreeApart
  <2>5. QED  BY <1>6, <2>2, <2>4
<1>11. FreeApart(v, rest)
  <2>1. SUFFICES ASSUME NEW m \in rest, NEW k \in rest, End(v, m) = v[k].offset PROVE v[m].used \/ v[k].used
    BY DEF FreeApart
  <2>2. CASE m = token \/ k = token  BY <1>5, <2>2
  <2>3. CASE m # token /\ k # token
    <3>1. End(nodes, m) = nodes[k].offset  BY <1>6, <1>7, <2>1, <2>3
    <3>2. nodes[m].used \/ nodes[k].used  BY <1>1, <3>1 DEF FreeApart
    <3>3. QED  BY <1>6, <2>3, <3>2
  <2>4. QED  BY <2>2, <2>3
<1>12. ASSUME NEW n \in rest PROVE LinkedBack(v, rest, n)
  <2>1. CASE n = token
    <3>1. LinkedBack(nodes, live, p)  BY <1>1
    <3> PICK q : q = nodes[p].neighbor_previous  OBVIOUS
    <3>2. CASE q = unused_node /\ nodes[p].offset = 0  BY <1>5, <2>1, <3>2 DEF LinkedBack
    <3>3. CASE q \in live /\ End(nodes, q) = nodes[p].offset
      <4>1. q # p  BY <1>1, <3>3, OneNodeThere
      <4>2. q # token
        <5>1. SUFFICES ASSUME q = token PROVE FALSE  OBVIOUS
        <5>2. End(nodes, token) = nodes[p].offset  BY <3>3, <5>1
        <5>3. /\ nodes[token].offset \in Nat /\ nodes[token].size \in Nat /\ nodes[p].offset \in Nat
              /\ nodes[p].size \in Nat
          BY <1>2, NodeTypes
        <5>4. nodes[token].size > 0 /\ nodes[p].size > 0  BY <1>1 DEF Tiling
        <5>5. QED  BY <1>3, <5>2, <5>3, <5>4 DEF End
      <4>3. QED  BY <1>5, <1>7, <2>1, <3>3, <4>1, <4>2 DEF LinkedBack
    <3>4. QED  BY <3>1, <3>2, <3>3 DEF LinkedBack
  <2>2. CASE n # token
    <3>1. LinkedBack(nodes, live, n)  BY <1>1
    <3> PICK q : q = nodes[n].neighbor_previous  OBVIOUS
    <3>2. v[n].neighbor_previous = q /\ v[n].offset = nodes[n].offset  BY <1>6, <2>2
    <3>3. CASE q = unused_node /\ nodes[n].offset = 0  BY <3>2, <3>3 DEF LinkedBack
    <3>4. CASE q \in live /\ End(nodes, q) = nodes[n].offset
      <4>1. q # p
        <5>1. SUFFICES ASSUME q = p PROVE FALSE  OBVIOUS
        <5>2. nodes[n].offset = nodes[token].offset  BY <1>3, <3>4, <5>1
        <5>3. QED  BY <1>8, <2>2, <5>2
      <4>2. End(v, q) = nodes[n].offset  BY <1>7, <3>4, <4>1
      <4>3. QED  BY <3>2, <3>4, <4>1, <4>2 DEF LinkedBack
    <3>5. QED  BY <3>1, <3>3, <3>4 DEF LinkedBack
  <2>3. QED  BY <2>1, <2>2
<1>13. ASSUME NEW n \in rest, ~(n # token /\ n = v[token].neighbor_previous)
       PROVE  LinkedOn(v, rest, n)
  <2>1. LinkedOn(nodes, live, n)  BY <1>1
  <2> PICK q : q = nodes[n].neighbor_next  OBVIOUS
  <2>2. v[n].neighbor_next = q /\ End(v, n) = End(nodes, n)  BY <1>5, <1>6, <1>7
  <2>3. CASE q = unused_node /\ End(nodes, n) = capacity  BY <2>2, <2>3 DEF LinkedOn
  <2>4. CASE q \in live /\ nodes[q].offset = End(nodes, n)
    <3>1. q # token
      <4>1. SUFFICES ASSUME q = token PROVE FALSE  OBVIOUS
      <4>2. End(nodes, n) = End(nodes, p)  BY <1>3, <2>4, <4>1
      <4>3. QED  BY <1>8, <4>2
    <3>2. q # p
      <4>1. SUFFICES ASSUME q = p PROVE FALSE  OBVIOUS
      <4>2. End(nodes, n) = nodes[p].offset /\ n # p  BY <2>4, <4>1
      <4>3. n # token
        <5>1. SUFFICES ASSUME n = token PROVE FALSE  OBVIOUS
        <5>2. /\ nodes[token].offset \in Nat /\ nodes[token].size \in Nat /\ nodes[p].offset \in Nat
              /\ nodes[p].size \in Nat
          BY <1>2, NodeTypes
        <5>3. nodes[token].size > 0 /\ nodes[p].size > 0  BY <1>1 DEF Tiling
        <5>4. QED  BY <1>3, <4>2, <5>1, <5>2, <5>3 DEF End
      <4>4. LinkedBack(nodes, live, p)  BY <1>1
      <4>5. nodes[p].neighbor_previous # n  BY <1>5, <1>13, <4>3
      <4>6. CASE nodes[p].neighbor_previous = unused_node /\ nodes[p].offset = 0
        <5>1. nodes[n].offset \in Nat /\ nodes[n].size \in Nat /\ nodes[n].size > 0
          BY <1>1, NodeTypes DEF Tiling
        <5>2. QED  BY <4>2, <4>6, <5>1 DEF End
      <4>7. CASE nodes[p].neighbor_previous \in live
                     /\ End(nodes, nodes[p].neighbor_previous) = nodes[p].offset
        BY <1>8, <4>2, <4>5, <4>7
      <4>8. QED  BY <4>4, <4>6, <4>7 DEF LinkedBack
    <3>3. v[q].offset = nodes[q].offset  BY <1>6, <2>4, <3>1, <3>2
    <3>4. QED  BY <2>2, <2>4, <3>2, <3>3 DEF LinkedOn
  <2>5. QED  BY <2>1, <2>3, <2>4 DEF LinkedOn
<1>14. QED  BY <1>7, <1>10, <1>11, <1>12, <1>13 DEF AlmostWhole

(* Between the two merges of free: only the node before token does not yet *)
(* lead to it.                                                             *)
BackWhole(nodes, live, token) ==
  /\ AlmostWhole(nodes, live, token) /\ UsedBefore(nodes, live, token)
  /\ \A n \in live : LinkedBack(nodes, live, n)

LEMMA NextTaken ==
  ASSUME NEW nodes \in [NodeIndex -> AnyNode], NEW v \in [NodeIndex -> AnyNode], NEW live,
         NEW token \in live, BackWhole(nodes, live, token),
         nodes[token].used, NEW p \in live, nodes[token].neighbor_next = p, ~nodes[p].used,
         TookNext(v, nodes, live, token, p)
  PROVE  /\ AlmostWhole(v, live \ {p}, token) /\ UsedBefore(v, live \ {p}, token)
         /\ UsedAfter(v, live \ {p}, token)
<1> DEFINE rest == live \ {p}
<1>1. /\ Tiling(nodes, live) /\ FreeApart(nodes, live) /\ live \in SUBSET NodeIndex
      /\ \A n \in live : LinkedBack(nodes, live, n)
      /\ \A n \in live : LinkedOn(nodes, live, n) \/ (n # token /\ n = nodes[token].neighbor_previous)
      /\ UsedBefore(nodes, live, token)
  BY DEF BackWhole, AlmostWhole, Tiling
<1>2. unused_node \notin live /\ rest \in SUBSET NodeIndex /\ token \in NodeIndex /\ p \in NodeIndex
  BY <1>1, UnusedIsNoNode
<1>3. nodes[p].offset = End(nodes, token)
  BY <1>1, <1>2 DEF LinkedOn
<1>4. p # token /\ token \in rest  OBVIOUS
<1>5. /\ v[token].offset = nodes[token].offset /\ v[token].size = nodes[token].size + nodes[p].size
      /\ v[token].neighbor_previous = nodes[token].neighbor_previous
      /\ v[token].neighbor_next = nodes[p].neighbor_next /\ v[token].used = nodes[token].used
  BY DEF TookNext
<1>6. \A m \in live \ {token, p} :
        /\ v[m].offset = nodes[m].offset /\ v[m].size = nodes[m].size /\ v[m].used = nodes[m].used
        /\ v[m].neighbor_previous = nodes[m].neighbor_previous /\ v[m].neighbor_next = nodes[m].neighbor_next
  BY DEF TookNext, SameRange
<1>7. /\ Tiling(v, rest) /\ End(v, token) = End(nodes, p)
      /\ \A m \in live \ {token, p} : End(v, m) = End(nodes, m)
  <2>1. p \in live \ {token}  BY <1>4
  <2>2. Took(v, nodes, live, token, p)  BY <1>3, <1>5, <1>6 DEF Took
  <2>3. TookEnds(v, nodes, live, token, p)  BY <1>1, <2>1, <2>2, TookTiles
  <2>4. QED  BY <1>5, <2>3 DEF TookEnds
<1>8. \A m, k \in live : End(nodes, m) = End(nodes, k) \/ nodes[m].offset = nodes[k].offset => m = k
  BY <1>1, OneNodeThere
<1>9. \A m \in live : nodes[m].used \in BOOLEAN  BY <1>1, NodeTypes
<1>10. /\ nodes[token].offset \in Nat /\ nodes[token].size \in Nat /\ nodes[p].offset \in Nat
       /\ nodes[p].size \in Nat /\ nodes[token].size > 0 /\ nodes[p].size > 0
       /\ End(nodes, p) = nodes[p].offset + nodes[p].size
       /\ End(nodes, token) = nodes[token].offset + nodes[token].size
  BY <1>1, <1>2, NodeTypes DEF Tiling, End
<1>11. UsedBefore(v, rest, token)
  <2>1. SUFFICES ASSUME NEW m \in rest, End(v, m) = v[token].offset PROVE v[m].used  BY DEF UsedBefore
  <2>2. m # token  BY <1>4, <1>7, <2>1, OneNodeThere
  <2>3. End(nodes, m) = nodes[token].offset  BY <1>5, <1>7, <2>1, <2>2
  <2>4. nodes[m].used  BY <1>1, <2>3 DEF UsedBefore
  <2>5. QED  BY <1>6, <2>2, <2>4
<1>12. UsedAfter(v, rest, token)
  <2>1. SUFFICES ASSUME NEW m \in rest, v[m].offset = End(v, token) PROVE v[m].used  BY DEF UsedAfter
  <2>2. m # token  BY <1>4, <1>7, <2>1, OneNodeThere
  <2>3. End(nodes, p) = nodes[m].offset  BY <1>6, <1>7, <2>1, <2>2
  <2>4. nodes[m].used  BY <1>1, <2>3 DEF FreeApart
  <2>5. QED  BY <1>6, <2>2, <2>4
<1>13. FreeApart(v, rest)
  <2>1. SUFFICES ASSUME NEW m \in rest, NEW k \in rest, End(v, m) = v[k].offset PROVE v[m].used \/ v[k].used
    BY DEF FreeApart
  <2>2. CASE m = token \/ k = token  BY <1>5, <2>2
  <2>3. CASE m # token /\ k # token
    <3>1. End(nodes, m) = nodes[k].offset  BY <1>6, <1>7, <2>1, <2>3
    <3>2. nodes[m].used \/ nodes[k].used  BY <1>1, <3>1 DEF FreeApart
    <3>3. QED  BY <1>6, <2>3, <3>2
  <2>4. QED  BY <2>2, <2>3
<1>14. ASSUME NEW n \in rest, ~(n # token /\ n = v[token].neighbor_next)
       PROVE  LinkedBack(v, rest, n)
  <2>1. LinkedBack(nodes, live, n)  BY <1>1
  <2> PICK q : q = nodes[n].neighbor_previous  OBVIOUS
  <2>2. v[n].neighbor_previous = q /\ v[n].offset = nodes[n].offset  BY <1>5, <1>6
  <2>3. CASE q = unused_node /\ nodes[n].offset = 0  BY <2>2, <2>3 DEF LinkedBack
  <2>4. CASE q \in live /\ End(nodes, q) = nodes[n].offset
    <3>1. q # token
      <4>1. SUFFICES ASSUME q = token PROVE FALSE  OBVIOUS
      <4>2. nodes[n].offset = nodes[p].offset  BY <1>3, <2>4, <4>1
      <4>3. QED  BY <1>8, <4>2
    <3>2. q # p
      <4>1. SUFFICES ASSUME q = p PROVE FALSE  OBVIOUS
      <4>2. End(nodes, p) = nodes[n].offset  BY <2>4, <4>1
      <4>3. n # token  BY <1>3, <1>10, <4>2
      <4>4. p # token /\ ~(p # token /\ p = nodes[token].neighbor_previous)
        <5>1. SUFFICES ASSUME p = nodes[token].neighbor_previous PROVE FALSE  BY <1>4
        <5>2. LinkedBack(nodes, live, token)  BY <1>1
        <5>3. End(nodes, p) = nodes[token].offset  BY <1>2, <5>1, <5>2 DEF LinkedBack
        <5>4. QED  BY <1>3, <1>10, <5>3
      <4>5. LinkedOn(nodes, live, p)  BY <1>1, <4>4
      <4>6. nodes[p].neighbor_next # n  BY <1>5, <1>14, <4>3
      <4>7. CASE nodes[p].neighbor_next = unused_node /\ End(nodes, p) = capacity
        <5>1. nodes[n].offset \in Nat /\ nodes[n].size \in Nat /\ nodes[n].size > 0
                  /\ End(nodes, n) <= capacity
          BY <1>1, NodeTypes DEF Tiling
        <5>2. capacity \in Nat  BY Constants
        <5>3. QED  BY <4>2, <4>7, <5>1, <5>2 DEF End
      <4>8. CASE nodes[p].neighbor_next \in live /\ nodes[nodes[p].neighbor_next].offset = End(nodes, p)
        BY <1>8, <4>2, <4>6, <4>8
      <4>9. QED  BY <4>5, <4>7, <4>8 DEF LinkedOn
    <3>3. End(v, q) = End(nodes, q)  BY <1>7, <2>4, <3>1, <3>2
    <3>4. QED  BY <2>2, <2>4, <3>2, <3>3 DEF LinkedBack
  <2>5. QED  BY <2>1, <2>3, <2>4 DEF LinkedBack
<1>15. ASSUME NEW n \in rest, ~(n # token /\ n = v[token].neighbor_previous)
       PROVE  LinkedOn(v, rest, n)
  <2>1. CASE n = token
    <3>1. ~(p # token /\ p = nodes[token].neighbor_previous)
      <4>1. SUFFICES ASSUME p = nodes[token].neighbor_previous PROVE FALSE  OBVIOUS
      <4>2. LinkedBack(nodes, live, token)  BY <1>1
      <4>3. End(nodes, p) = nodes[token].offset  BY <1>2, <4>1, <4>2 DEF LinkedBack
      <4>4. QED  BY <1>3, <1>10, <4>3
    <3>2. LinkedOn(nodes, live, p)  BY <1>1, <3>1
    <3> PICK q : q = nodes[p].neighbor_next  OBVIOUS
    <3>3. CASE q = unused_node /\ End(nodes, p) = capacity  BY <1>5, <1>7, <2>1, <3>3 DEF LinkedOn
    <3>4. CASE q \in live /\ nodes[q].offset = End(nodes, p)
      <4>1. q # p  BY <1>1, <3>4, OneNodeThere
      <4>2. q # token  BY <1>3, <1>10, <3>4
      <4>3. v[q].offset = nodes[q].offset  BY <1>6, <3>4, <4>1, <4>2
      <4>4. QED  BY <1>5, <1>7, <2>1, <3>4, <4>1, <4>3 DEF LinkedOn
    <3>5. QED  BY <3>2, <3>3, <3>4 DEF LinkedOn
  <2>2. CASE n # token
    <3>1. LinkedOn(nodes, live, n)  BY <1>1, <1>5, <1>15
    <3> PICK q : q = nodes[n].neighbor_next  OBVIOUS
    <3>2. v[n].neighbor_next = q /\ End(v, n) = End(nodes, n)  BY <1>6, <1>7, <2>2
    <3>3. CASE q = unused_node /\ End(nodes, n) = capacity  BY <3>2, <3>3 DEF LinkedOn
    <3>4. CASE q \in live /\ nodes[q].offset = End(nodes, n)
      <4>1. q # p
        <5>1. SUFFICES ASSUME q = p PROVE FALSE  OBVIOUS
        <5>2. End(nodes, n) = End(nodes, token)  BY <1>3, <3>4, <5>1
        <5>3. QED  BY <1>8, <2>2, <5>2
      <4>2. v[q].offset = nodes[q].offset  BY <1>5, <1>6, <3>4, <4>1
      <4>3. QED  BY <3>2, <3>4, <4>1, <4>2 DEF LinkedOn
    <3>5. QED  BY <3>1, <3>3, <3>4 DEF LinkedOn
  <2>3. QED  BY <2>1, <2>2
<1>16. QED  BY <1>7, <1>11, <1>12, <1>13, <1>14, <1>15 DEF AlmostWhole

(* Nothing to merge before token, or after it                              *)
LEMMA NothingBefore ==
  ASSUME NEW nodes \in [NodeIndex -> AnyNode], NEW live, Whole(nodes, live), NEW token \in live,
         nodes[token].neighbor_previous = unused_node \/ nodes[nodes[token].neighbor_previous].used
  PROVE  BackWhole(nodes, live, token)
<1>1. AlmostWhole(nodes, live, token) /\ \A n \in live : LinkedBack(nodes, live, n)  BY DEF Whole, AlmostWhole
<1>2. ASSUME NEW m \in live, End(nodes, m) = nodes[token].offset PROVE nodes[m].used
  <2>1. LinkedBack(nodes, live, token) /\ Tiling(nodes, live)  BY DEF Whole
  <2>2. live \in SUBSET NodeIndex /\ nodes[m].size > 0  BY <2>1 DEF Tiling
  <2>3. nodes[m].offset \in Nat /\ nodes[m].size \in Nat  BY <2>2, NodeTypes
  <2>4. nodes[token].offset # 0  BY <1>2, <2>2, <2>3 DEF End
  <2>5. /\ nodes[token].neighbor_previous \in live
        /\ End(nodes, nodes[token].neighbor_previous) = nodes[token].offset
    BY <2>1, <2>4 DEF LinkedBack
  <2>6. nodes[token].neighbor_previous = m  BY <1>2, <2>1, <2>5, OneNodeThere
  <2>7. m # unused_node  BY <2>2, UnusedIsNoNode
  <2>8. QED  BY <2>6, <2>7
<1>3. QED  BY <1>1, <1>2 DEF BackWhole, UsedBefore

LEMMA NothingAfter ==
  ASSUME NEW nodes \in [NodeIndex -> AnyNode], NEW live, NEW token \in live, BackWhole(nodes, live, token),
         nodes[token].neighbor_next = unused_node \/ nodes[nodes[token].neighbor_next].used
  PROVE  UsedAfter(nodes, live, token)
<1>1. ASSUME NEW m \in live, nodes[m].offset = End(nodes, token) PROVE nodes[m].used
  <2>1. LinkedOn(nodes, live, token) /\ Tiling(nodes, live)  BY DEF BackWhole, AlmostWhole
  <2>2. live \in SUBSET NodeIndex /\ nodes[m].size > 0 /\ End(nodes, m) <= capacity  BY <2>1 DEF Tiling
  <2>3. nodes[m].offset \in Nat /\ nodes[m].size \in Nat /\ capacity \in Nat  BY <2>2, NodeTypes, Constants
  <2>4. End(nodes, token) # capacity  BY <1>1, <2>2, <2>3 DEF End
  <2>5. /\ nodes[token].neighbor_next \in live
        /\ nodes[nodes[token].neighbor_next].offset = End(nodes, token)
    BY <2>1, <2>4 DEF LinkedOn
  <2>6. nodes[token].neighbor_next = m  BY <1>1, <2>1, <2>5, OneNodeThere
  <2>7. m # unused_node  BY <2>2, UnusedIsNoNode
  <2>8. QED  BY <2>6, <2>7
<1>2. QED  BY <1>1 DEF UsedAfter

(* What is left of free: the neighbours' links to token, which is free.    *)
RelinkedTo(v, nodes, live, token) ==
  \A m \in live :
    /\ v[m].offset = nodes[m].offset /\ v[m].size = nodes[m].size
    /\ v[m].used = IF m = token THEN FALSE ELSE nodes[m].used
    /\ v[m].neighbor_next = IF m = nodes[token].neighbor_previous THEN token ELSE nodes[m].neighbor_next
    /\ v[m].neighbor_previous = IF m = nodes[token].neighbor_next THEN token ELSE nodes[m].neighbor_previous

LEMMA RelinkedIsWhole ==
  ASSUME NEW nodes \in [NodeIndex -> AnyNode], NEW v \in [NodeIndex -> AnyNode], NEW live, NEW token \in live,
         AlmostWhole(nodes, live, token), UsedBefore(nodes, live, token), UsedAfter(nodes, live, token),
         RelinkedTo(v, nodes, live, token)
  PROVE  Whole(v, live)
<1>1. /\ Tiling(nodes, live) /\ FreeApart(nodes, live) /\ live \in SUBSET NodeIndex
      /\ LinkedBack(nodes, live, token) /\ LinkedOn(nodes, live, token)
      /\ unused_node \notin live
  BY UnusedIsNoNode DEF AlmostWhole, Tiling
<1>2. /\ \A m \in live : v[m].offset = nodes[m].offset /\ v[m].size = nodes[m].size
      /\ \A m \in live : End(v, m) = End(nodes, m)
      /\ \A m \in live : v[m].used = IF m = token THEN FALSE ELSE nodes[m].used
  BY DEF RelinkedTo, End
<1>3. Tiling(v, live)  BY <1>1, <1>2 DEF Tiling
<1>4. FreeApart(v, live)
  <2>1. SUFFICES ASSUME NEW m \in live, NEW n \in live, End(v, m) = v[n].offset PROVE v[m].used \/ v[n].used
    BY DEF FreeApart
  <2>2. End(nodes, m) = nodes[n].offset /\ m # n  BY <1>1, <1>2, <2>1, OneNodeThere
  <2>3. CASE m = token  BY <1>2, <2>2, <2>3 DEF UsedAfter
  <2>4. CASE n = token  BY <1>2, <2>2, <2>4 DEF UsedBefore
  <2>5. CASE m # token /\ n # token  BY <1>1, <1>2, <2>2, <2>5 DEF FreeApart
  <2>6. QED  BY <2>3, <2>4, <2>5
<1>5. \A m \in live :
        /\ v[m].neighbor_next = IF m = nodes[token].neighbor_previous THEN token ELSE nodes[m].neighbor_next
        /\ v[m].neighbor_previous = IF m = nodes[token].neighbor_next THEN token
             ELSE nodes[m].neighbor_previous
  BY DEF RelinkedTo
<1>6. ASSUME NEW n \in live PROVE LinkedBack(v, live, n)
  <2>1. CASE n = nodes[token].neighbor_next
    <3>1. nodes[n].offset = End(nodes, token)  BY <1>1, <2>1 DEF LinkedOn
    <3>2. QED  BY <1>2, <1>5, <2>1, <3>1 DEF LinkedBack
  <2>2. CASE n # nodes[token].neighbor_next
    <3>1. LinkedBack(nodes, live, n)  BY <2>2 DEF AlmostWhole
    <3>2. v[n].neighbor_previous = nodes[n].neighbor_previous  BY <1>5, <2>2
    <3>3. QED  BY <1>2, <3>1, <3>2 DEF LinkedBack
  <2>3. QED  BY <2>1, <2>2
<1>7. ASSUME NEW n \in live PROVE LinkedOn(v, live, n)
  <2>1. CASE n = nodes[token].neighbor_previous
    <3>1. End(nodes, n) = nodes[token].offset  BY <1>1, <2>1 DEF LinkedBack
    <3>2. QED  BY <1>2, <1>5, <2>1, <3>1 DEF LinkedOn
  <2>2. CASE n # nodes[token].neighbor_previous
    <3>1. LinkedOn(nodes, live, n)  BY <2>2 DEF AlmostWhole
    <3>2. v[n].neighbor_next = nodes[n].neighbor_next  BY <1>5, <2>2
    <3>3. QED  BY <1>2, <3>1, <3>2 DEF LinkedOn
  <2>3. QED  BY <2>1, <2>2
<1>8. QED  BY <1>3, <1>4, <1>6, <1>7 DEF Whole

-----------------------------------------------------------------------------
(* The nodes that are not live, from which allocate takes one for a        *)
(* remainder and to which free returns those it merges                     *)

Pooled(a) == a.free_nodes \in Seq(NodeIndex) /\ IsInjective(a.free_nodes)

(* r is a with other free_nodes                                            *)
SameButPool(r, a) ==
  /\ r.allocation_count = a.allocation_count /\ r.used_top_bins = a.used_top_bins
  /\ r.used_leaf_bins = a.used_leaf_bins /\ r.bin_indices = a.bin_indices /\ r.nodes = a.nodes

LEMMA Acquires ==
  ASSUME NEW a \in Ranges, Pooled(a), a.free_nodes # <<>>
  PROVE  /\ AcquireNode(a) \in Ranges /\ Pooled(AcquireNode(a)) /\ SameButPool(AcquireNode(a), a)
         /\ AcquiredNode(a) \in NodeIndex \ LiveNodes(a)
         /\ LiveNodes(AcquireNode(a)) = LiveNodes(a) \cup {AcquiredNode(a)}
<1> DEFINE s == a.free_nodes
           r == AcquireNode(a)
           f == Front(s)
<1>1. s \in Seq(NodeIndex) /\ s # <<>> /\ Len(s) \in Nat /\ Len(s) > 0  BY DEF Pooled
<1>2. r = [a EXCEPT !.free_nodes = f]  BY DEF AcquireNode
<1>3. \A i, j \in 1..Len(s) : s[i] = s[j] => i = j  BY <1>1 DEF Pooled, IsInjective
<1>4. f \in Seq(NodeIndex) /\ Len(f) = Len(s) - 1 /\ \A i \in 1..(Len(s) - 1) : f[i] = s[i]
  BY <1>1 DEF Front
<1>5. SameButPool(r, a) /\ r.free_nodes = f /\ r \in Ranges
  BY <1>2, <1>4 DEF Ranges, SameButPool
<1>6. Pooled(r)
  <2>1. \A i, j \in 1..Len(f) : f[i] = f[j] => i = j  BY <1>1, <1>3, <1>4
  <2>2. IsInjective(f)  BY <1>4, <2>1 DEF IsInjective
  <2>3. QED  BY <1>4, <1>5, <2>2 DEF Pooled
<1>7. AcquiredNode(a) = s[Len(s)] /\ Len(s) \in 1..Len(s) /\ s[Len(s)] \in NodeIndex
  BY <1>1 DEF AcquiredNode, Last
<1>8. /\ \A n : n \in ToSet(s) <=> \E i \in 1..Len(s) : s[i] = n
      /\ \A n : n \in ToSet(f) <=> \E i \in 1..(Len(s) - 1) : f[i] = n
  BY <1>1, <1>4 DEF ToSet
<1>9. \A n : n \in ToSet(f) <=> n \in ToSet(s) /\ n # AcquiredNode(a)
  <2>1. SUFFICES ASSUME NEW n PROVE n \in ToSet(f) <=> n \in ToSet(s) /\ n # AcquiredNode(a)  OBVIOUS
  <2>2. ASSUME n \in ToSet(f) PROVE n \in ToSet(s) /\ n # AcquiredNode(a)
    <3>1. PICK i \in 1..(Len(s) - 1) : f[i] = n  BY <1>8, <2>2
    <3>2. i \in 1..Len(s) /\ s[i] = n /\ i # Len(s)  BY <1>1, <1>4, <3>1
    <3>3. QED  BY <1>3, <1>7, <1>8, <3>2
  <2>3. ASSUME n \in ToSet(s), n # AcquiredNode(a) PROVE n \in ToSet(f)
    <3>1. PICK i \in 1..Len(s) : s[i] = n  BY <1>8, <2>3
    <3>2. i \in 1..(Len(s) - 1)  BY <1>1, <1>7, <2>3, <3>1
    <3>3. f[i] = n  BY <1>4, <3>1, <3>2
    <3>4. QED  BY <1>8, <3>2, <3>3
  <2>4. QED  BY <2>2, <2>3
<1>10. AcquiredNode(a) \in ToSet(s)  BY <1>7, <1>8
<1>11. LiveNodes(a) = NodeIndex \ ToSet(s) /\ LiveNodes(r) = NodeIndex \ ToSet(f)  BY <1>5 DEF LiveNodes
<1> HIDE DEF s, f
<1>12. AcquiredNode(a) \in NodeIndex \ LiveNodes(a)  BY <1>7, <1>10, <1>11
<1>13. LiveNodes(r) = LiveNodes(a) \cup {AcquiredNode(a)}  BY <1>7, <1>9, <1>11
<1>14. QED  BY <1>5, <1>6, <1>12, <1>13

(* The fields of r, what release_node makes of a                           *)
Released(r, a, n) ==
  /\ r \in Ranges /\ Pooled(r) /\ LiveNodes(r) = LiveNodes(a) \ {n}
  /\ r.allocation_count = a.allocation_count /\ r.used_top_bins = a.used_top_bins
  /\ r.used_leaf_bins = a.used_leaf_bins /\ r.bin_indices = a.bin_indices
  /\ \A m \in NodeIndex : r.nodes[m] = IF m = n THEN ClearedNode ELSE a.nodes[m]

LEMMA Cleared == ClearedNode \in AnyNode /\ ClearedNode.bin_next = unused_node
    /\ ClearedNode.bin_previous = unused_node
                 /\ ClearedNode.offset = 0 /\ ClearedNode.neighbor_previous = unused_node
                 /\ ClearedNode.neighbor_next = unused_node /\ ClearedNode.used = FALSE
<1>1. unused_node \in Link  BY DEF Link
<1>2. QED  BY <1>1 DEF ClearedNode, AnyNode

LEMMA Releases ==
  ASSUME NEW a \in Ranges, Pooled(a), NEW n \in LiveNodes(a)
  PROVE  Released(ReleaseNode(a, n), a, n)
<1> DEFINE s == a.free_nodes
           r == ReleaseNode(a, n)
           g == Append(s, n)
<1>1. n \in NodeIndex /\ n \notin ToSet(s) /\ s \in Seq(NodeIndex) /\ Len(s) \in Nat
  BY DEF LiveNodes, Pooled
<1>2. r = [a EXCEPT !.nodes[n] = ClearedNode, !.free_nodes = g]  BY DEF ReleaseNode
<1>3. /\ g \in Seq(NodeIndex) /\ Len(g) = Len(s) + 1 /\ g[Len(s) + 1] = n
      /\ \A i \in 1..Len(s) : g[i] = s[i]
  BY <1>1
<1>4. \A i, j \in 1..Len(s) : s[i] = s[j] => i = j  BY <1>1 DEF Pooled, IsInjective
<1>5. /\ \A m : m \in ToSet(s) <=> \E i \in 1..Len(s) : s[i] = m
      /\ \A m : m \in ToSet(g) <=> \E i \in 1..(Len(s) + 1) : g[i] = m
  BY <1>1, <1>3 DEF ToSet
<1>6. IsInjective(g)
  <2>1. \A i \in 1..Len(s) : s[i] # n  BY <1>1, <1>5
  <2>2. ASSUME NEW i \in 1..(Len(s) + 1), NEW j \in 1..(Len(s) + 1), g[i] = g[j] PROVE i = j
    <3>1. i \in 1..Len(s) \/ i = Len(s) + 1  BY <1>1
    <3>2. j \in 1..Len(s) \/ j = Len(s) + 1  BY <1>1
    <3>3. QED  BY <1>3, <1>4, <2>1, <2>2, <3>1, <3>2
  <2>3. DOMAIN g = 1..(Len(s) + 1)  BY <1>3
  <2> HIDE DEF g
  <2>4. QED  BY <2>2, <2>3 DEF IsInjective
<1>7. ASSUME NEW m PROVE m \in ToSet(g) <=> m \in ToSet(s) \/ m = n
  <2>1. ASSUME m \in ToSet(g) PROVE m \in ToSet(s) \/ m = n
    <3>1. PICK i \in 1..(Len(s) + 1) : g[i] = m  BY <1>5, <2>1
    <3>2. i \in 1..Len(s) \/ i = Len(s) + 1  BY <1>1
    <3>3. QED  BY <1>3, <1>5, <3>1, <3>2
  <2>2. ASSUME m \in ToSet(s) PROVE m \in ToSet(g)
    <3>1. PICK i \in 1..Len(s) : s[i] = m  BY <1>5, <2>2
    <3>2. i \in 1..(Len(s) + 1) /\ g[i] = m  BY <1>1, <1>3, <3>1
    <3>3. QED  BY <1>5, <3>2
  <2>3. n \in ToSet(g)
    <3>1. Len(s) + 1 \in 1..(Len(s) + 1)  BY <1>1
    <3>2. QED  BY <1>3, <1>5, <3>1
  <2>4. QED  BY <2>1, <2>2, <2>3
<1> HIDE DEF g, s
<1>8. /\ r.allocation_count = a.allocation_count /\ r.used_top_bins = a.used_top_bins
      /\ r.used_leaf_bins = a.used_leaf_bins /\ r.bin_indices = a.bin_indices /\ r.free_nodes = g
      /\ r.nodes = [a.nodes EXCEPT ![n] = ClearedNode]
  BY <1>2 DEF Ranges
<1>9. r.nodes \in [NodeIndex -> AnyNode] /\ \A m \in NodeIndex : r.nodes[m] = IF m = n THEN ClearedNode
          ELSE a.nodes[m]
  BY <1>1, <1>8, Cleared DEF Ranges
<1>10. r \in Ranges
  <2>1. r = [allocation_count |-> r.allocation_count, used_top_bins |-> r.used_top_bins,
             used_leaf_bins |-> r.used_leaf_bins, bin_indices |-> r.bin_indices, nodes |-> r.nodes,
             free_nodes |-> r.free_nodes]
    BY <1>2 DEF Ranges
  <2>2. /\ r.allocation_count \in Int /\ r.used_top_bins \in SUBSET Tops
        /\ r.used_leaf_bins \in [Tops -> SUBSET Leaves] /\ r.bin_indices \in [Bins -> Link]
    BY <1>8 DEF Ranges
  <2> HIDE DEF r
  <2>3. QED  BY <1>3, <1>8, <1>9, <2>1, <2>2 DEF Ranges
<1>11. LiveNodes(r) = LiveNodes(a) \ {n}  BY <1>7, <1>8 DEF LiveNodes, s
<1>12. Pooled(r)  BY <1>3, <1>6, <1>8 DEF Pooled
<1>13. QED  BY <1>8, <1>9, <1>10, <1>11, <1>12 DEF Released

-----------------------------------------------------------------------------
(* The invariant of an allocator                                           *)

UsedOnes(a) == {n \in LiveNodes(a) : a.nodes[n].used}

(* Nodes in the pool are as release_node left them.                        *)
IdleNodes(a) == \A n \in NodeIndex \ LiveNodes(a) : a.nodes[n].offset = 0 /\ a.nodes[n].size = 0

RangesInv(a) ==
  /\ a \in Ranges /\ Pooled(a) /\ IdleNodes(a) /\ BitmapsExact(a) /\ Whole(a.nodes, LiveNodes(a))
  /\ \E stamp, clock : Listed(a, FreeOnes(a), stamp, clock)
  /\ a.allocation_count = Cardinality(UsedOnes(a))

LEMMA LiveAreNodes ==
  ASSUME NEW a \in Ranges
  PROVE  /\ LiveNodes(a) \in SUBSET NodeIndex /\ UsedOnes(a) \in SUBSET LiveNodes(a)
         /\ FreeOnes(a) = LiveNodes(a) \ UsedOnes(a)
         /\ IsFiniteSet(LiveNodes(a)) /\ IsFiniteSet(UsedOnes(a)) /\ IsFiniteSet(FreeOnes(a))
         /\ Cardinality(UsedOnes(a)) \in Nat
         /\ IsFiniteSet(NodeIndex) /\ Cardinality(NodeIndex) = 2 * max_allocations + 1
<1>1. LiveNodes(a) \in SUBSET NodeIndex /\ UsedOnes(a) \in SUBSET LiveNodes(a)
  BY DEF LiveNodes, UsedOnes
<1>2. FreeOnes(a) = LiveNodes(a) \ UsedOnes(a)
  <2>1. \A n \in LiveNodes(a) : a.nodes[n].used \in BOOLEAN  BY <1>1, NodeTypes DEF Ranges
  <2>2. QED  BY <2>1 DEF FreeOnes, UsedOnes
<1>3. IsFiniteSet(NodeIndex) /\ Cardinality(NodeIndex) = 2 * max_allocations + 1
  <2>1. max_allocations \in Nat /\ node_capacity - 1 = 2 * max_allocations  BY Constants DEF node_capacity
  <2>2. 0 \in Int /\ node_capacity - 1 \in Int /\ ~(0 > node_capacity - 1)  BY <2>1
  <2>3. QED  BY <2>1, <2>2, FS_Interval DEF NodeIndex
<1>4. IsFiniteSet(LiveNodes(a))  BY <1>1, <1>3, FS_Subset
<1>5. IsFiniteSet(UsedOnes(a)) /\ IsFiniteSet(FreeOnes(a))
  <2>1. FreeOnes(a) \in SUBSET LiveNodes(a)  BY <1>2
  <2>2. QED  BY <1>1, <1>4, <2>1, FS_Subset
<1>6. Cardinality(UsedOnes(a)) \in Nat  BY <1>5, FS_CardinalityType
<1>7. QED  BY <1>1, <1>2, <1>3, <1>4, <1>5, <1>6

(* A free node is followed by a used one or by the end of the heap: there  *)
(* is at most one more of them than of those in use.                       *)
LEMMA PoolSuffices ==
  ASSUME NEW a, RangesInv(a), a.allocation_count < max_allocations
  PROVE  a.free_nodes # <<>>
<1> DEFINE U == UsedOnes(a)
           F == FreeOnes(a)
           T == U \cup {unused_node}
           f == [n \in F |-> a.nodes[n].neighbor_next]
<1>1. a \in Ranges /\ Whole(a.nodes, LiveNodes(a)) /\ a.allocation_count = Cardinality(U)  BY DEF RangesInv
<1>2. /\ LiveNodes(a) \in SUBSET NodeIndex /\ U \in SUBSET LiveNodes(a) /\ F = LiveNodes(a) \ U
      /\ IsFiniteSet(U) /\ IsFiniteSet(F) /\ Cardinality(U) \in Nat
      /\ IsFiniteSet(NodeIndex) /\ Cardinality(NodeIndex) = 2 * max_allocations + 1
  BY <1>1, LiveAreNodes
<1>3. a.nodes \in [NodeIndex -> AnyNode]  BY <1>1 DEF Ranges
<1>4. unused_node \notin LiveNodes(a)  BY <1>2, UnusedIsNoNode
<1>5. /\ Tiling(a.nodes, LiveNodes(a)) /\ FreeApart(a.nodes, LiveNodes(a))
      /\ \A n \in LiveNodes(a) : LinkedOn(a.nodes, LiveNodes(a), n)
  BY <1>1 DEF Whole
<1>6. f \in [F -> T]
  <2>1. ASSUME NEW n \in F PROVE a.nodes[n].neighbor_next \in T
    <3>1. n \in LiveNodes(a) /\ ~a.nodes[n].used  BY DEF FreeOnes
    <3>2. LinkedOn(a.nodes, LiveNodes(a), n)  BY <1>5, <3>1
    <3>3. CASE a.nodes[n].neighbor_next = unused_node  BY <3>3
    <3>4. CASE /\ a.nodes[n].neighbor_next \in LiveNodes(a)
               /\ a.nodes[a.nodes[n].neighbor_next].offset = End(a.nodes, n)
      <4>1. a.nodes[a.nodes[n].neighbor_next].used  BY <1>5, <3>1, <3>4 DEF FreeApart
      <4>2. QED  BY <3>4, <4>1 DEF UsedOnes
    <3>5. QED  BY <3>2, <3>3, <3>4 DEF LinkedOn
  <2>2. QED  BY <2>1
<1>7. ASSUME NEW m \in F, NEW n \in F, f[m] = f[n] PROVE m = n
  <2>1. m \in LiveNodes(a) /\ n \in LiveNodes(a)  BY DEF FreeOnes
  <2>2. LinkedOn(a.nodes, LiveNodes(a), m) /\ LinkedOn(a.nodes, LiveNodes(a), n)  BY <1>5, <2>1
  <2>3. a.nodes[m].neighbor_next = a.nodes[n].neighbor_next  BY <1>7
  <2>4. End(a.nodes, m) = End(a.nodes, n)  BY <1>4, <2>2, <2>3 DEF LinkedOn
  <2>5. QED  BY <1>3, <1>5, <2>1, <2>4, OneNodeThere
<1>8. IsFiniteSet(T) /\ Cardinality(T) = Cardinality(U) + 1
  BY <1>2, <1>4, FS_AddElement
<1>9. Cardinality(F) \in Nat /\ Cardinality(F) <= Cardinality(U) + 1
  <2>1. Cardinality(F) \in Nat  BY <1>2, FS_CardinalityType
  <2>2. SUFFICES ASSUME Cardinality(T) < Cardinality(F) PROVE FALSE  BY <1>2, <1>8, <2>1
  <2> HIDE DEF f, F, T
  <2>3. \E x, y \in F : x # y /\ f[x] = f[y]  BY <1>2, <1>6, <1>8, <2>2, FS_PigeonHole
  <2>4. QED  BY <1>7, <2>3
<1>10. Cardinality(LiveNodes(a)) = Cardinality(F) + Cardinality(U)
  <2>1. F \cup U = LiveNodes(a) /\ F \cap U = {}  BY <1>2
  <2>2. Cardinality({}) = 0  BY FS_EmptySet
  <2> HIDE DEF F, U
  <2>3. Cardinality(F \cup U) = Cardinality(F) + Cardinality(U) - Cardinality(F \cap U)  BY <1>2, FS_Union
  <2>4. Cardinality(F \cup U) = Cardinality(LiveNodes(a)) /\ Cardinality(F \cap U) = 0  BY <2>1, <2>2
  <2>5. Cardinality(U) \in Nat  BY <1>2
  <2>6. QED  BY <1>9, <2>3, <2>4, <2>5
<1>11. SUFFICES ASSUME a.free_nodes = <<>> PROVE FALSE  OBVIOUS
<1>12. LiveNodes(a) = NodeIndex  BY <1>11 DEF LiveNodes, ToSet
<1>13. max_allocations \in Nat /\ Cardinality(U) < max_allocations  BY <1>1, Constants
<1> HIDE DEF F, U
<1>14. QED  BY <1>2, <1>9, <1>10, <1>12, <1>13

(* The node n, taken out of its list and marked in use                     *)
TakenFrom(r, a, n, size) ==
  /\ r \in Ranges /\ r.allocation_count = a.allocation_count + 1 /\ r.free_nodes = a.free_nodes
  /\ BitmapsExact(r)
  /\ \A m \in NodeIndex :
       /\ r.nodes[m].offset = a.nodes[m].offset
       /\ r.nodes[m].size = IF m = n THEN size ELSE a.nodes[m].size
       /\ r.nodes[m].used = IF m = n THEN TRUE ELSE a.nodes[m].used
       /\ r.nodes[m].neighbor_previous = a.nodes[m].neighbor_previous
       /\ r.nodes[m].neighbor_next = a.nodes[m].neighbor_next

LEMMA Takes ==
  ASSUME NEW a \in Ranges, NEW S, NEW stamp, NEW clock, Listed(a, S, stamp, clock), BitmapsExact(a),
         NEW n \in S,
         NEW size \in Nat
  PROVE  TakenFrom(Taken(a, n, size), a, n, size) /\ Listed(Taken(a, n, size), S \ {n}, stamp, clock)
<1> DEFINE q == RemoveFreeNode(a, n)
           r == Taken(a, n, size)
<1>1. n \in NodeIndex  BY DEF Listed
<1>2. /\ q \in Ranges /\ BitmapsExact(q) /\ Listed(q, S \ {n}, stamp, clock)
      /\ q.allocation_count = a.allocation_count /\ q.free_nodes = a.free_nodes
      /\ \A m \in NodeIndex : SameRange(q.nodes[m], a.nodes[m]) /\ q.nodes[m].used = a.nodes[m].used
  BY RemoveListed
<1>3. r = [q EXCEPT !.nodes[n].size = size, !.nodes[n].used = TRUE, !.allocation_count = @ + 1]
  BY DEF Taken
<1> HIDE DEF q
<1>4. q.nodes \in [NodeIndex -> AnyNode] /\ q.allocation_count \in Int  BY <1>2 DEF Ranges
<1> DEFINE node == [q.nodes[n] EXCEPT !.size = size, !.used = TRUE]
           nodes == [q.nodes EXCEPT ![n] = node]
<1>5. node \in AnyNode
  <2>1. q.nodes[n] \in AnyNode  BY <1>1, <1>4
  <2>2. QED  BY <2>1 DEF AnyNode
<1>6. r = [q EXCEPT !.nodes = nodes, !.allocation_count = q.allocation_count + 1]
  BY <1>1, <1>2, <1>3, <1>4 DEF Ranges
<1>7. nodes \in [NodeIndex -> AnyNode] /\ \A m \in NodeIndex : nodes[m] = IF m = n THEN node ELSE q.nodes[m]
  <2> HIDE DEF node
  <2>1. QED  BY <1>1, <1>4, <1>5
<1> HIDE DEF nodes, r
<1>8. /\ r \in Ranges /\ r.nodes = nodes /\ r.allocation_count = a.allocation_count + 1
      /\ r.free_nodes = a.free_nodes /\ r.bin_indices = q.bin_indices
      /\ r.used_leaf_bins = q.used_leaf_bins /\ r.used_top_bins = q.used_top_bins
  <2>1. r = [allocation_count |-> q.allocation_count + 1, used_top_bins |-> q.used_top_bins,
             used_leaf_bins |-> q.used_leaf_bins, bin_indices |-> q.bin_indices, nodes |-> nodes,
             free_nodes |-> q.free_nodes]
    BY <1>2, <1>6 DEF Ranges
  <2>2. /\ q.allocation_count + 1 \in Int /\ q.used_top_bins \in SUBSET Tops
        /\ q.used_leaf_bins \in [Tops -> SUBSET Leaves] /\ q.bin_indices \in [Bins -> Link]
        /\ q.free_nodes \in Seq(NodeIndex)
    BY <1>2, <1>4 DEF Ranges
  <2>3. r \in Ranges  BY <1>7, <2>1, <2>2 DEF Ranges
  <2>4. QED  BY <1>2, <2>1, <2>3
<1>9. ASSUME NEW m \in NodeIndex
      PROVE  /\ r.nodes[m].offset = a.nodes[m].offset
             /\ r.nodes[m].size = (IF m = n THEN size ELSE a.nodes[m].size)
             /\ r.nodes[m].used = (IF m = n THEN TRUE ELSE a.nodes[m].used)
             /\ r.nodes[m].neighbor_previous = a.nodes[m].neighbor_previous
             /\ r.nodes[m].neighbor_next = a.nodes[m].neighbor_next
             /\ r.nodes[m].bin_next = q.nodes[m].bin_next /\ r.nodes[m].bin_previous = q.nodes[m].bin_previous
  <2>1. SameRange(q.nodes[m], a.nodes[m]) /\ q.nodes[m].used = a.nodes[m].used /\ q.nodes[m] \in AnyNode
    BY <1>2, <1>4
  <2>2. CASE m = n
    <3>1. r.nodes[m] = [q.nodes[m] EXCEPT !.size = size, !.used = TRUE]  BY <1>7, <1>8, <2>2
    <3>2. QED  BY <2>1, <2>2, <3>1 DEF SameRange, AnyNode
  <2>3. CASE m # n
    <3>1. r.nodes[m] = q.nodes[m]  BY <1>7, <1>8, <2>3
    <3>2. QED  BY <2>1, <2>3, <3>1 DEF SameRange
  <2>4. QED  BY <2>2, <2>3
<1>10. Listed(r, S \ {n}, stamp, clock) /\ BitmapsExact(r)
  <2>1. \A m \in S \ {n} : r.nodes[m].size = q.nodes[m].size
    <3>1. \A m \in S : m \in NodeIndex  BY DEF Listed
    <3>2. \A m \in NodeIndex : q.nodes[m].size = a.nodes[m].size  BY <1>2 DEF SameRange
    <3>3. QED  BY <1>9, <3>1, <3>2
  <2>2. \A m \in NodeIndex : r.nodes[m].bin_next = q.nodes[m].bin_next
                              /\ r.nodes[m].bin_previous = q.nodes[m].bin_previous
    BY <1>9
  <2>3. QED  BY <1>2, <1>8, <2>1, <2>2, ListedKept
<1>11. TakenFrom(r, a, n, size)  BY <1>8, <1>9, <1>10 DEF TakenFrom
<1>12. QED  BY <1>10, <1>11 DEF r

LEMMA UsedIsWhole ==
  ASSUME NEW nodes \in [NodeIndex -> AnyNode], NEW v \in [NodeIndex -> AnyNode], NEW live, Whole(nodes, live),
         \A m \in live : SameRange(v[m], nodes[m]) /\ (nodes[m].used => v[m].used)
  PROVE  Whole(v, live)
<1>1. \A m \in live : /\ v[m].offset = nodes[m].offset /\ v[m].size = nodes[m].size
                      /\ v[m].neighbor_previous = nodes[m].neighbor_previous
                      /\ v[m].neighbor_next = nodes[m].neighbor_next /\ End(v, m) = End(nodes, m)
  BY DEF SameRange, End
<1>2. Tiling(v, live)  BY <1>1 DEF Whole, Tiling
<1>3. FreeApart(v, live)  BY <1>1 DEF Whole, FreeApart
<1>4. ASSUME NEW n \in live PROVE LinkedBack(v, live, n) /\ LinkedOn(v, live, n)
  <2>1. LinkedBack(nodes, live, n) /\ LinkedOn(nodes, live, n)  BY DEF Whole
  <2>2. LinkedBack(v, live, n)  BY <1>1, <2>1 DEF LinkedBack
  <2>3. LinkedOn(v, live, n)  BY <1>1, <2>1 DEF LinkedOn
  <2>4. QED  BY <2>2, <2>3
<1>5. QED  BY <1>2, <1>3, <1>4 DEF Whole

(* What allocate makes of an allocator                                     *)
Allocated(r, a, n, size) ==
  /\ RangesInv(r) /\ UsedOnes(r) = UsedOnes(a) \cup {n} /\ r.allocation_count = a.allocation_count + 1
  /\ r.nodes[n].offset = a.nodes[n].offset /\ r.nodes[n].size = size
  /\ \A m \in UsedOnes(a) : r.nodes[m].offset = a.nodes[m].offset /\ r.nodes[m].size = a.nodes[m].size

(* What allocate adds to the count                                         *)
LEMMA OneMoreUsed ==
  ASSUME NEW a, RangesInv(a), NEW n \in FreeOnes(a)
  PROVE  /\ a \in Ranges /\ n \in LiveNodes(a) /\ n \in NodeIndex /\ n \notin UsedOnes(a) /\ ~a.nodes[n].used
         /\ Cardinality(UsedOnes(a) \cup {n}) = a.allocation_count + 1
         /\ a.nodes[n].size \in Nat /\ a.nodes[n].size <= capacity
<1>1. a \in Ranges /\ a.allocation_count = Cardinality(UsedOnes(a)) /\ Tiling(a.nodes, LiveNodes(a))
  BY DEF RangesInv, Whole
<1>2. n \in LiveNodes(a) /\ ~a.nodes[n].used  BY DEF FreeOnes
<1>3. n \in NodeIndex  BY <1>2 DEF LiveNodes
<1>4. n \notin UsedOnes(a)  BY <1>2 DEF UsedOnes
<1>5. IsFiniteSet(UsedOnes(a))  BY <1>1, LiveAreNodes
<1>6. Cardinality(UsedOnes(a) \cup {n}) = a.allocation_count + 1  BY <1>1, <1>4, <1>5, FS_AddElement
<1>7. a.nodes[n].size \in Nat /\ a.nodes[n].offset \in Nat /\ capacity \in Nat
  BY <1>1, <1>3, NodeTypes, Constants DEF Ranges
<1>8. End(a.nodes, n) <= capacity  BY <1>1, <1>2 DEF Tiling
<1>9. a.nodes[n].size <= capacity  BY <1>7, <1>8 DEF End
<1>10. QED  BY <1>1, <1>2, <1>3, <1>4, <1>6, <1>7, <1>9

LEMMA TakenWhole ==
  ASSUME NEW a, RangesInv(a), NEW n \in FreeOnes(a)
  PROVE  Allocated(Taken(a, n, a.nodes[n].size), a, n, a.nodes[n].size)
<1> DEFINE size == a.nodes[n].size
           r == Taken(a, n, size)
<1>1. /\ a \in Ranges /\ n \in LiveNodes(a) /\ n \in NodeIndex /\ n \notin UsedOnes(a) /\ ~a.nodes[n].used
      /\ Cardinality(UsedOnes(a) \cup {n}) = a.allocation_count + 1 /\ size \in Nat
  BY OneMoreUsed
<1>2. Pooled(a) /\ BitmapsExact(a) /\ Whole(a.nodes, LiveNodes(a))  BY DEF RangesInv
<1>3. PICK stamp, clock : Listed(a, FreeOnes(a), stamp, clock)  BY DEF RangesInv
<1>4. TakenFrom(r, a, n, size) /\ Listed(r, FreeOnes(a) \ {n}, stamp, clock)  BY <1>1, <1>2, <1>3, Takes
<1> HIDE DEF r
<1>5. /\ r \in Ranges /\ BitmapsExact(r) /\ r.allocation_count = a.allocation_count + 1
      /\ r.free_nodes = a.free_nodes
      /\ \A m \in NodeIndex : SameRange(r.nodes[m], a.nodes[m])
      /\ \A m \in NodeIndex : r.nodes[m].used = IF m = n THEN TRUE ELSE a.nodes[m].used
  BY <1>4 DEF TakenFrom, SameRange
<1>6. LiveNodes(r) = LiveNodes(a) /\ Pooled(r) /\ LiveNodes(a) \in SUBSET NodeIndex
  BY <1>2, <1>5 DEF LiveNodes, Pooled
<1>7. UsedOnes(r) = UsedOnes(a) \cup {n}  BY <1>1, <1>5, <1>6 DEF UsedOnes
<1>8. FreeOnes(r) = FreeOnes(a) \ {n}  BY <1>1, <1>5, <1>6 DEF FreeOnes
<1>9. Whole(r.nodes, LiveNodes(r))
  <2>1. a.nodes \in [NodeIndex -> AnyNode] /\ r.nodes \in [NodeIndex -> AnyNode]  BY <1>1, <1>5 DEF Ranges
  <2>2. \A m \in LiveNodes(a) : SameRange(r.nodes[m], a.nodes[m]) /\ (a.nodes[m].used => r.nodes[m].used)
    BY <1>5, <1>6
  <2>3. Whole(r.nodes, LiveNodes(a))  BY <1>2, <2>1, <2>2, UsedIsWhole
  <2>4. QED  BY <1>6, <2>3
<1>10. RangesInv(r)
  <2>1. \E st, cl : Listed(r, FreeOnes(r), st, cl)  BY <1>4, <1>8
  <2>2. r.allocation_count = Cardinality(UsedOnes(r))  BY <1>1, <1>5, <1>7
  <2>3. IdleNodes(r)
    <3>1. IdleNodes(a)  BY DEF RangesInv
    <3>2. QED  BY <1>5, <1>6, <3>1 DEF IdleNodes, SameRange
  <2>4. QED  BY <1>5, <1>6, <1>9, <2>1, <2>2, <2>3 DEF RangesInv
<1>11. \A m \in UsedOnes(a) : r.nodes[m].offset = a.nodes[m].offset /\ r.nodes[m].size = a.nodes[m].size
  BY <1>5, <1>6 DEF UsedOnes, SameRange
<1>12. r.nodes[n].offset = a.nodes[n].offset /\ r.nodes[n].size = size
  BY <1>1, <1>5 DEF SameRange
<1>13. Allocated(r, a, n, size)  BY <1>5, <1>7, <1>10, <1>11, <1>12 DEF Allocated
<1>14. QED  BY <1>13 DEF r

(* The nodes with the remainder r linked in behind n                       *)
RemainderLinked(v, nodes, n, r, remainder, next) ==
  /\ v \in [NodeIndex -> AnyNode]
  /\ \A m \in NodeIndex :
       /\ v[m].offset = IF m = r THEN remainder.offset ELSE nodes[m].offset
       /\ v[m].size = IF m = r THEN remainder.size ELSE nodes[m].size
       /\ v[m].used = IF m = r THEN FALSE ELSE nodes[m].used
       /\ v[m].bin_next = IF m = r THEN unused_node ELSE nodes[m].bin_next
       /\ v[m].bin_previous = IF m = r THEN unused_node ELSE nodes[m].bin_previous
       /\ v[m].neighbor_next = IF m = r THEN next ELSE IF m = n THEN r ELSE nodes[m].neighbor_next
       /\ v[m].neighbor_previous = IF m = next THEN r ELSE IF m = r THEN n ELSE nodes[m].neighbor_previous

LEMMA LinksRemainder ==
  ASSUME NEW nodes \in [NodeIndex -> AnyNode], NEW n \in NodeIndex, NEW r \in NodeIndex \ {n},
         NEW next \in Link,
         NEW offset \in Nat, NEW size \in Nat
  PROVE  LET remainder == [ClearedNode EXCEPT !.offset = offset, !.size = size,
                                              !.neighbor_previous = n, !.neighbor_next = next]
         IN RemainderLinked(Relinked([nodes EXCEPT ![r] = remainder, ![n].neighbor_next = r],
                                     next, "neighbor_previous", r), nodes, n, r, remainder, next)
<1> DEFINE remainder == [ClearedNode EXCEPT !.offset = offset, !.size = size,
                                            !.neighbor_previous = n, !.neighbor_next = next]
           cut == [nodes EXCEPT ![r] = remainder, ![n].neighbor_next = r]
           v == Relinked(cut, next, "neighbor_previous", r)
<1>1. n \in Link /\ r \in Link /\ unused_node \in Link  BY DEF Link
<1>2. /\ remainder \in AnyNode /\ remainder.offset = offset /\ remainder.size = size
      /\ remainder.used = FALSE /\ remainder.bin_next = unused_node /\ remainder.bin_previous = unused_node
      /\ remainder.neighbor_previous = n /\ remainder.neighbor_next = next
  BY <1>1 DEF ClearedNode, AnyNode
<1> HIDE DEF remainder
<1>3. /\ cut \in [NodeIndex -> AnyNode]
      /\ \A m \in NodeIndex : cut[m] = IF m = r THEN remainder
                                       ELSE IF m = n THEN [nodes[m] EXCEPT !.neighbor_next = r] ELSE nodes[m]
  <2>1. nodes[n] \in AnyNode  OBVIOUS
  <2>2. cut = [m \in NodeIndex |-> IF m = r THEN remainder
                                   ELSE IF m = n THEN [nodes[m] EXCEPT !.neighbor_next = r] ELSE nodes[m]]
    OBVIOUS
  <2>3. [nodes[n] EXCEPT !.neighbor_next = r] \in AnyNode  BY <1>1, <2>1 DEF AnyNode
  <2> HIDE DEF cut
  <2>4. QED  BY <1>2, <2>2, <2>3
<1> HIDE DEF cut
<1>4. v = [m \in NodeIndex |-> IF m = next THEN [cut[m] EXCEPT !.neighbor_previous = r] ELSE cut[m]]
  BY <1>1, <1>3, RelinkedNodes
<1>5. v \in [NodeIndex -> AnyNode]
  <2>1. \A m \in NodeIndex : cut[m] \in AnyNode /\ [cut[m] EXCEPT !.neighbor_previous = r] \in AnyNode
    BY <1>1, <1>3 DEF AnyNode
  <2>2. QED  BY <1>4, <2>1
<1> HIDE DEF v
<1>6. ASSUME NEW m \in NodeIndex
      PROVE  /\ v[m].offset = cut[m].offset /\ v[m].size = cut[m].size /\ v[m].used = cut[m].used
             /\ v[m].bin_next = cut[m].bin_next /\ v[m].bin_previous = cut[m].bin_previous
             /\ v[m].neighbor_next = cut[m].neighbor_next
             /\ v[m].neighbor_previous = (IF m = next THEN r ELSE cut[m].neighbor_previous)
  <2>1. cut[m] \in AnyNode  BY <1>3
  <2>2. v[m] = IF m = next THEN [cut[m] EXCEPT !.neighbor_previous = r] ELSE cut[m]  BY <1>4
  <2>3. QED  BY <2>1, <2>2 DEF AnyNode
<1>7. ASSUME NEW m \in NodeIndex
      PROVE  /\ cut[m].offset = (IF m = r THEN remainder.offset ELSE nodes[m].offset)
             /\ cut[m].size = (IF m = r THEN remainder.size ELSE nodes[m].size)
             /\ cut[m].used = (IF m = r THEN FALSE ELSE nodes[m].used)
             /\ cut[m].bin_next = (IF m = r THEN unused_node ELSE nodes[m].bin_next)
             /\ cut[m].bin_previous = (IF m = r THEN unused_node ELSE nodes[m].bin_previous)
             /\ cut[m].neighbor_next = (IF m = r THEN next ELSE IF m = n THEN r ELSE nodes[m].neighbor_next)
             /\ cut[m].neighbor_previous = (IF m = r THEN n ELSE nodes[m].neighbor_previous)
  <2>1. nodes[m] \in AnyNode  OBVIOUS
  <2>2. CASE m = r  BY <1>2, <1>3, <2>2
  <2>3. CASE m # r /\ m = n
    <3>1. cut[m] = [nodes[m] EXCEPT !.neighbor_next = r]  BY <1>3, <2>3
    <3>2. QED  BY <2>1, <2>3, <3>1 DEF AnyNode
  <2>4. CASE m # r /\ m # n  BY <1>3, <2>4
  <2>5. QED  BY <2>2, <2>3, <2>4
<1>8. ASSUME NEW m \in NodeIndex
      PROVE  /\ v[m].offset = (IF m = r THEN remainder.offset ELSE nodes[m].offset)
             /\ v[m].size = (IF m = r THEN remainder.size ELSE nodes[m].size)
             /\ v[m].used = (IF m = r THEN FALSE ELSE nodes[m].used)
             /\ v[m].bin_next = (IF m = r THEN unused_node ELSE nodes[m].bin_next)
             /\ v[m].bin_previous = (IF m = r THEN unused_node ELSE nodes[m].bin_previous)
             /\ v[m].neighbor_next = (IF m = r THEN next ELSE IF m = n THEN r ELSE nodes[m].neighbor_next)
             /\ v[m].neighbor_previous = (IF m = next THEN r ELSE IF m = r THEN n
                  ELSE nodes[m].neighbor_previous)
  <2>1. /\ v[m].offset = cut[m].offset /\ v[m].size = cut[m].size /\ v[m].used = cut[m].used
        /\ v[m].bin_next = cut[m].bin_next /\ v[m].bin_previous = cut[m].bin_previous
        /\ v[m].neighbor_next = cut[m].neighbor_next
        /\ v[m].neighbor_previous = (IF m = next THEN r ELSE cut[m].neighbor_previous)
    BY <1>6
  <2>2. /\ cut[m].offset = (IF m = r THEN remainder.offset ELSE nodes[m].offset)
        /\ cut[m].size = (IF m = r THEN remainder.size ELSE nodes[m].size)
        /\ cut[m].used = (IF m = r THEN FALSE ELSE nodes[m].used)
        /\ cut[m].bin_next = (IF m = r THEN unused_node ELSE nodes[m].bin_next)
        /\ cut[m].bin_previous = (IF m = r THEN unused_node ELSE nodes[m].bin_previous)
        /\ cut[m].neighbor_next = (IF m = r THEN next ELSE IF m = n THEN r ELSE nodes[m].neighbor_next)
        /\ cut[m].neighbor_previous = (IF m = r THEN n ELSE nodes[m].neighbor_previous)
    BY <1>7
  <2>3. QED  BY <2>1, <2>2
<1>9. RemainderLinked(v, nodes, n, r, remainder, next)  BY <1>5, <1>8 DEF RemainderLinked
<1>10. QED  BY <1>9 DEF v, cut, remainder

LEMMA SplitOff ==
  ASSUME NEW a, RangesInv(a), NEW n \in FreeOnes(a), NEW size \in Nat, 0 < size, size < a.nodes[n].size,
         a.allocation_count < max_allocations
  PROVE  Allocated(Split(a, n, size), a, n, size)
<1> DEFINE t == Taken(a, n, size)
           r == AcquiredNode(t)
           next == a.nodes[n].neighbor_next
           remainder == [ClearedNode EXCEPT !.offset = a.nodes[n].offset + size,
                         !.size = a.nodes[n].size - size,
                                            !.neighbor_previous = n, !.neighbor_next = next]
           u == AcquireNode(t)
           nodes == Relinked([u.nodes EXCEPT ![r] = remainder,
                              ![n].neighbor_next = r], next, "neighbor_previous", r)
           w == [u EXCEPT !.nodes = nodes]
           z == InsertFreeNode(w, r)
           live == LiveNodes(a)
           S == FreeOnes(a) \ {n}
<1>1. /\ a \in Ranges /\ n \in live /\ n \in NodeIndex /\ n \notin UsedOnes(a) /\ ~a.nodes[n].used
      /\ Cardinality(UsedOnes(a) \cup {n}) = a.allocation_count + 1
      /\ a.nodes[n].size \in Nat /\ a.nodes[n].size <= capacity
  BY OneMoreUsed
<1>2. Pooled(a) /\ BitmapsExact(a) /\ Whole(a.nodes, live) /\ live \in SUBSET NodeIndex
  BY DEF RangesInv, Whole, Tiling
<1>3. PICK stamp, clock : Listed(a, FreeOnes(a), stamp, clock)  BY DEF RangesInv
<1>4. Split(a, n, size) = z
  <2>1. a.nodes[n].size # size  BY <1>1
  <2>2. Split(a, n, size) = IF a.nodes[n].size = size THEN t ELSE z  BY DEF Split
  <2>3. QED  BY <2>1, <2>2
<1>5. TakenFrom(t, a, n, size) /\ Listed(t, S, stamp, clock)  BY <1>1, <1>2, <1>3, Takes
<1> HIDE DEF t
<1>6. /\ t \in Ranges /\ BitmapsExact(t) /\ t.allocation_count = a.allocation_count + 1
      /\ t.free_nodes = a.free_nodes
  BY <1>5 DEF TakenFrom
<1>7. LiveNodes(t) = live /\ Pooled(t)  BY <1>2, <1>6 DEF LiveNodes, Pooled
<1>8. t.free_nodes # <<>>  BY <1>6, PoolSuffices
<1>9. /\ u \in Ranges /\ Pooled(u) /\ SameButPool(u, t) /\ r \in NodeIndex \ live
      /\ LiveNodes(u) = live \cup {r}
  BY <1>6, <1>7, <1>8, Acquires
<1> HIDE DEF u, r
<1>10. /\ u.nodes = t.nodes /\ u.bin_indices = t.bin_indices /\ u.used_leaf_bins = t.used_leaf_bins
       /\ u.used_top_bins = t.used_top_bins /\ u.allocation_count = a.allocation_count + 1
  BY <1>6, <1>9 DEF SameButPool
<1>11. /\ a.nodes[n].offset \in Nat /\ next \in Link /\ a.nodes[n].offset + size \in Nat
       /\ a.nodes[n].size - size \in Nat /\ a.nodes[n].size - size > 0
       /\ a.nodes[n].size - size <= capacity
  <2>1. a.nodes \in [NodeIndex -> AnyNode]  BY <1>1 DEF Ranges
  <2>2. a.nodes[n].offset \in Nat /\ a.nodes[n].neighbor_next \in Link  BY <1>1, <2>1, NodeTypes
  <2>3. capacity \in Nat  BY Constants
  <2>4. /\ a.nodes[n].offset + size \in Nat /\ a.nodes[n].size - size \in Nat
        /\ a.nodes[n].size - size > 0 /\ a.nodes[n].size - size <= capacity
    BY <1>1, <2>2, <2>3
  <2>5. QED  BY <2>2, <2>4
<1>12. u.nodes \in [NodeIndex -> AnyNode] /\ r \in NodeIndex \ {n} /\ r # n  BY <1>1, <1>9 DEF Ranges
<1>13. RemainderLinked(nodes, u.nodes, n, r, remainder, next)
  BY <1>1, <1>11, <1>12, LinksRemainder
<1>14. remainder.offset = a.nodes[n].offset + size /\ remainder.size = a.nodes[n].size - size
  BY DEF ClearedNode
<1> HIDE DEF nodes, remainder
<1>15. /\ w \in Ranges /\ w.nodes = nodes /\ w.free_nodes = u.free_nodes
       /\ w.allocation_count = u.allocation_count
       /\ w.bin_indices = u.bin_indices /\ w.used_leaf_bins = u.used_leaf_bins
       /\ w.used_top_bins = u.used_top_bins
  BY <1>9, <1>13 DEF Ranges, RemainderLinked
<1> HIDE DEF w
<1>16. S \in SUBSET NodeIndex /\ r \notin S /\ n \notin S /\ S \subseteq live
  BY <1>2, <1>9 DEF FreeOnes
<1>17. \A m \in NodeIndex :
         /\ t.nodes[m].offset = a.nodes[m].offset
         /\ t.nodes[m].size = IF m = n THEN size ELSE a.nodes[m].size
         /\ t.nodes[m].used = IF m = n THEN TRUE ELSE a.nodes[m].used
         /\ t.nodes[m].neighbor_previous = a.nodes[m].neighbor_previous
         /\ t.nodes[m].neighbor_next = a.nodes[m].neighbor_next
  BY <1>5 DEF TakenFrom
<1>18. \A m \in NodeIndex :
         /\ w.nodes[m].offset = IF m = r THEN remainder.offset ELSE t.nodes[m].offset
         /\ w.nodes[m].size = IF m = r THEN remainder.size ELSE t.nodes[m].size
         /\ w.nodes[m].used = IF m = r THEN FALSE ELSE t.nodes[m].used
         /\ w.nodes[m].bin_next = IF m = r THEN unused_node ELSE t.nodes[m].bin_next
         /\ w.nodes[m].bin_previous = IF m = r THEN unused_node ELSE t.nodes[m].bin_previous
         /\ w.nodes[m].neighbor_next = IF m = r THEN next ELSE IF m = n THEN r ELSE t.nodes[m].neighbor_next
         /\ w.nodes[m].neighbor_previous = IF m = next THEN r ELSE IF m = r THEN n
              ELSE t.nodes[m].neighbor_previous
  <2>1. RemainderLinked(w.nodes, t.nodes, n, r, remainder, next)  BY <1>10, <1>13, <1>15
  <2>2. QED  BY <2>1 DEF RemainderLinked
<1>19. Listed(w, S, stamp, clock) /\ BitmapsExact(w)
  <2>1. \A m \in S : w.nodes[m].size = t.nodes[m].size  BY <1>16, <1>18
  <2>2. t.nodes[r].bin_next = unused_node /\ t.nodes[r].bin_previous = unused_node
    <3>1. r \in NodeIndex \ S  BY <1>9, <1>16
    <3>2. QED  BY <1>5, <3>1 DEF Listed
  <2>3. \A m \in NodeIndex : w.nodes[m].bin_next = t.nodes[m].bin_next
                              /\ w.nodes[m].bin_previous = t.nodes[m].bin_previous
    BY <1>18, <2>2
  <2>4. w.bin_indices = t.bin_indices /\ w.used_leaf_bins = t.used_leaf_bins
            /\ w.used_top_bins = t.used_top_bins
    BY <1>10, <1>15
  <2>5. QED  BY <1>5, <1>6, <1>15, <2>1, <2>3, <2>4, ListedKept
<1>20. w.nodes[r].size = a.nodes[n].size - size /\ w.nodes[r].size \in 1..unused_node
  <2>1. w.nodes[r].size = a.nodes[n].size - size  BY <1>9, <1>14, <1>18
  <2>2. /\ capacity \in Nat /\ unused_node \in Nat /\ capacity <= unused_node
        /\ a.nodes[n].size - size \in Nat /\ a.nodes[n].size - size > 0 /\ a.nodes[n].size - size <= capacity
    BY <1>11, Constants
  <2>3. a.nodes[n].size - size \in 1..unused_node  BY <2>2
  <2>4. QED  BY <2>1, <2>3
<1>21. /\ z \in Ranges /\ BitmapsExact(z) /\ Listed(z, S \cup {r}, [stamp EXCEPT ![r] = clock], clock + 1)
       /\ z.allocation_count = w.allocation_count /\ z.free_nodes = w.free_nodes
       /\ \A m \in NodeIndex : /\ SameRange(z.nodes[m], w.nodes[m])
                               /\ z.nodes[m].used = IF m = r THEN FALSE ELSE w.nodes[m].used
  <2>1. r \in NodeIndex \ S  BY <1>9, <1>16
  <2>2. w \in Ranges /\ BitmapsExact(w) /\ Listed(w, S, stamp, clock)  BY <1>15, <1>19
  <2>3. w.nodes[r].size \in 1..unused_node  BY <1>20
  <2>4. Insertable(w, S, stamp, clock, r)  BY <2>1, <2>2, <2>3 DEF Insertable
  <2>5. Relisted(InsertFreeNode(w, r), w, S, stamp, clock, r)  BY ONLY <2>4, InsertListed
  <2>6. Relisted(z, w, S, stamp, clock, r)  BY <2>5
  <2> HIDE DEF z
  <2>7. QED  BY ONLY <2>6 DEF Relisted
<1> HIDE DEF z
<1>22. ASSUME NEW m \in NodeIndex
       PROVE  /\ z.nodes[m].offset = (IF m = r THEN a.nodes[n].offset + size ELSE a.nodes[m].offset)
              /\ z.nodes[m].size = (IF m = r THEN a.nodes[n].size - size ELSE IF m = n THEN size
                   ELSE a.nodes[m].size)
              /\ z.nodes[m].used = (IF m = r THEN FALSE ELSE IF m = n THEN TRUE ELSE a.nodes[m].used)
              /\ z.nodes[m].neighbor_next =
                   (IF m = r THEN next ELSE IF m = n THEN r ELSE a.nodes[m].neighbor_next)
              /\ z.nodes[m].neighbor_previous =
                   (IF m = next THEN r ELSE IF m = r THEN n ELSE a.nodes[m].neighbor_previous)
  <2>1. /\ SameRange(z.nodes[m], w.nodes[m])
        /\ z.nodes[m].used = IF m = r THEN FALSE ELSE w.nodes[m].used
    BY <1>21
  <2>2. /\ w.nodes[m].offset = IF m = r THEN remainder.offset ELSE t.nodes[m].offset
        /\ w.nodes[m].size = IF m = r THEN remainder.size ELSE t.nodes[m].size
        /\ w.nodes[m].used = IF m = r THEN FALSE ELSE t.nodes[m].used
        /\ w.nodes[m].neighbor_next = IF m = r THEN next ELSE IF m = n THEN r ELSE t.nodes[m].neighbor_next
        /\ w.nodes[m].neighbor_previous = IF m = next THEN r ELSE IF m = r THEN n
             ELSE t.nodes[m].neighbor_previous
    BY <1>18
  <2>3. /\ t.nodes[m].offset = a.nodes[m].offset
        /\ t.nodes[m].size = IF m = n THEN size ELSE a.nodes[m].size
        /\ t.nodes[m].used = IF m = n THEN TRUE ELSE a.nodes[m].used
        /\ t.nodes[m].neighbor_previous = a.nodes[m].neighbor_previous
        /\ t.nodes[m].neighbor_next = a.nodes[m].neighbor_next
    BY <1>17
  <2>4. QED  BY <1>14, <2>1, <2>2, <2>3 DEF SameRange
<1>23. next # n /\ next # r
  <2>1. LinkedOn(a.nodes, live, n) /\ Tiling(a.nodes, live)  BY <1>1, <1>2 DEF Whole
  <2>2. next = unused_node \/ next \in live  BY <2>1 DEF LinkedOn
  <2>3. unused_node \notin NodeIndex  BY UnusedIsNoNode
  <2>4. next # r  BY <1>9, <2>2, <2>3
  <2>5. next = unused_node \/ a.nodes[next].offset = End(a.nodes, n)  BY <2>1 DEF LinkedOn
  <2>6. End(a.nodes, n) # a.nodes[n].offset  BY <1>1, <1>11 DEF End
  <2>7. QED  BY <1>1, <2>3, <2>4, <2>5, <2>6
<1>24. SplitNodes(z.nodes, a.nodes, live, n, r, size)
  <2>1. /\ z.nodes[n].offset = a.nodes[n].offset /\ z.nodes[n].size = size /\ z.nodes[n].used = TRUE
        /\ z.nodes[n].neighbor_previous = a.nodes[n].neighbor_previous /\ z.nodes[n].neighbor_next = r
    BY <1>1, <1>12, <1>22, <1>23
  <2>2. /\ z.nodes[r].offset = a.nodes[n].offset + size /\ z.nodes[r].size = a.nodes[n].size - size
        /\ z.nodes[r].used = FALSE /\ z.nodes[r].neighbor_previous = n /\ z.nodes[r].neighbor_next = next
    BY <1>9, <1>12, <1>22, <1>23
  <2>3. ASSUME NEW m \in live \ {n}
        PROVE  /\ z.nodes[m].offset = a.nodes[m].offset /\ z.nodes[m].size = a.nodes[m].size
               /\ z.nodes[m].used = a.nodes[m].used /\ z.nodes[m].neighbor_next = a.nodes[m].neighbor_next
               /\ z.nodes[m].neighbor_previous = (IF m = next THEN r ELSE a.nodes[m].neighbor_previous)
    <3>1. m \in NodeIndex /\ m # r /\ m # n  BY <1>2, <1>9
    <3>2. QED  BY <1>22, <3>1
  <2>4. QED  BY <2>1, <2>2, <2>3 DEF SplitNodes
<1>25. Whole(z.nodes, live \cup {r})
  <2>1. a.nodes \in [NodeIndex -> AnyNode] /\ z.nodes \in [NodeIndex -> AnyNode]  BY <1>1, <1>21 DEF Ranges
  <2>2. QED  BY <1>1, <1>2, <1>9, <1>24, <2>1, SplitIsWhole
<1>26. LiveNodes(z) = live \cup {r} /\ Pooled(z)
  BY <1>9, <1>15, <1>21 DEF LiveNodes, Pooled
<1>27. \A m \in live : m # r /\ m \in NodeIndex  BY <1>2, <1>9
<1>28. UsedOnes(z) = UsedOnes(a) \cup {n}
  <2>1. \A m \in live : z.nodes[m].used <=> a.nodes[m].used \/ m = n  BY <1>22, <1>27
  <2>2. ~z.nodes[r].used  BY <1>9, <1>22
  <2>3. QED  BY <1>1, <1>26, <2>1, <2>2 DEF UsedOnes
<1>29. FreeOnes(z) = S \cup {r}
  <2>1. \A m \in live : ~z.nodes[m].used <=> ~a.nodes[m].used /\ m # n  BY <1>22, <1>27
  <2>2. ~z.nodes[r].used  BY <1>9, <1>22
  <2>3. QED  BY <1>1, <1>26, <2>1, <2>2 DEF FreeOnes
<1>30. RangesInv(z)
  <2>1. \E st, cl : Listed(z, FreeOnes(z), st, cl)  BY <1>21, <1>29
  <2>2. z.allocation_count = Cardinality(UsedOnes(z))  BY <1>1, <1>10, <1>15, <1>21, <1>28
  <2>3. IdleNodes(z)
    <3>1. IdleNodes(a)  BY DEF RangesInv
    <3>2. ASSUME NEW m \in NodeIndex \ LiveNodes(z) PROVE z.nodes[m].offset = 0 /\ z.nodes[m].size = 0
      <4>1. m \in NodeIndex \ live /\ m # r /\ m # n  BY <1>1, <1>26
      <4>2. QED  BY <1>22, <3>1, <4>1 DEF IdleNodes
    <3>3. QED  BY <3>2 DEF IdleNodes
  <2>4. QED  BY <1>21, <1>25, <1>26, <2>1, <2>2, <2>3 DEF RangesInv
<1>31. \A m \in UsedOnes(a) : z.nodes[m].offset = a.nodes[m].offset /\ z.nodes[m].size = a.nodes[m].size
  <2>1. \A m \in UsedOnes(a) : m \in live /\ m # n  BY <1>1 DEF UsedOnes
  <2>2. QED  BY <1>22, <1>27, <2>1
<1>32. z.nodes[n].offset = a.nodes[n].offset /\ z.nodes[n].size = size
  BY <1>1, <1>22, <1>27
<1>33. z.allocation_count = a.allocation_count + 1  BY <1>10, <1>15, <1>21
<1>34. Allocated(z, a, n, size)  BY <1>28, <1>30, <1>31, <1>32, <1>33 DEF Allocated
<1>35. QED  BY <1>4, <1>34

LEMMA Splits ==
  ASSUME NEW a, RangesInv(a), NEW n \in FreeOnes(a), NEW size \in Nat, 0 < size, size <= a.nodes[n].size,
         a.allocation_count < max_allocations
  PROVE  Allocated(Split(a, n, size), a, n, size)
<1>1. a.nodes[n].size \in Nat  BY OneMoreUsed
<1>2. CASE size = a.nodes[n].size
  <2>1. Split(a, n, size) = Taken(a, n, size)  BY <1>2 DEF Split
  <2>2. QED  BY <1>2, <2>1, TakenWhole
<1>3. CASE size < a.nodes[n].size  BY <1>3, SplitOff
<1>4. QED  BY <1>1, <1>2, <1>3

(* The lists and the pool, all that merging two nodes has to keep apart    *)
(* from the links                                                          *)
Kept(a) ==
  /\ a \in Ranges /\ Pooled(a) /\ IdleNodes(a) /\ BitmapsExact(a)
  /\ \E stamp, clock : Listed(a, FreeOnes(a), stamp, clock)

(* token, now the node `node`, took over the elements of p.                *)
Absorbed(r, a, token, p, node) ==
  /\ Kept(r) /\ LiveNodes(r) = LiveNodes(a) \ {p} /\ UsedOnes(r) = UsedOnes(a)
  /\ r.allocation_count = a.allocation_count /\ r.nodes[token] = node
  /\ \A m \in LiveNodes(a) \ {token, p} :
       SameRange(r.nodes[m], a.nodes[m]) /\ r.nodes[m].used = a.nodes[m].used

LEMMA Absorbs ==
  ASSUME NEW a, Kept(a), NEW token \in UsedOnes(a), NEW p \in FreeOnes(a), NEW node \in AnyNode,
         node.used = TRUE, node.bin_next = unused_node, node.bin_previous = unused_node
  PROVE  Absorbed(ReleaseNode([RemoveFreeNode(a, p) EXCEPT !.nodes[token] = node], p), a, token, p, node)
<1> DEFINE q == RemoveFreeNode(a, p)
           x == [q EXCEPT !.nodes[token] = node]
           r == ReleaseNode(x, p)
           S == FreeOnes(a) \ {p}
<1>1. a \in Ranges /\ Pooled(a) /\ BitmapsExact(a)  BY DEF Kept
<1>2. PICK stamp, clock : Listed(a, FreeOnes(a), stamp, clock)  BY DEF Kept
<1>3. /\ LiveNodes(a) \in SUBSET NodeIndex /\ token \in LiveNodes(a) /\ p \in LiveNodes(a) /\ token # p
      /\ FreeOnes(a) = LiveNodes(a) \ UsedOnes(a) /\ token \notin FreeOnes(a) /\ a.nodes[token].used
  BY <1>1, LiveAreNodes DEF UsedOnes
<1>4. /\ q \in Ranges /\ BitmapsExact(q) /\ Listed(q, S, stamp, clock)
      /\ q.allocation_count = a.allocation_count /\ q.free_nodes = a.free_nodes
      /\ \A m \in NodeIndex : SameRange(q.nodes[m], a.nodes[m]) /\ q.nodes[m].used = a.nodes[m].used
  BY <1>1, <1>2, RemoveListed
<1> HIDE DEF q
<1>5. q.nodes \in [NodeIndex -> AnyNode]  BY <1>4 DEF Ranges
<1>6. /\ x \in Ranges /\ x.allocation_count = a.allocation_count /\ x.free_nodes = a.free_nodes
      /\ x.bin_indices = q.bin_indices /\ x.used_leaf_bins = q.used_leaf_bins
      /\ x.used_top_bins = q.used_top_bins
      /\ \A m \in NodeIndex : x.nodes[m] = IF m = token THEN node ELSE q.nodes[m]
  <2> DEFINE nodes == [q.nodes EXCEPT ![token] = node]
  <2>1. nodes \in [NodeIndex -> AnyNode] /\ \A m \in NodeIndex : nodes[m] = IF m = token THEN node
            ELSE q.nodes[m]
    BY <1>3, <1>5
  <2>2. x = [q EXCEPT !.nodes = nodes]  BY <1>4 DEF Ranges
  <2> HIDE DEF nodes, x
  <2>3. x = [allocation_count |-> q.allocation_count, used_top_bins |-> q.used_top_bins,
             used_leaf_bins |-> q.used_leaf_bins, bin_indices |-> q.bin_indices, nodes |-> nodes,
             free_nodes |-> q.free_nodes]
    BY <1>4, <2>2 DEF Ranges
  <2>4. /\ q.allocation_count \in Int /\ q.used_top_bins \in SUBSET Tops
        /\ q.used_leaf_bins \in [Tops -> SUBSET Leaves] /\ q.bin_indices \in [Bins -> Link]
        /\ q.free_nodes \in Seq(NodeIndex)
    BY <1>4 DEF Ranges
  <2>5. x \in Ranges  BY <2>1, <2>3, <2>4 DEF Ranges
  <2>6. QED  BY <1>4, <2>1, <2>3, <2>5
<1> HIDE DEF x
<1>7. token \in NodeIndex \ S /\ p \in NodeIndex \ S /\ S \in SUBSET LiveNodes(a)  BY <1>3
<1>8. Listed(x, S, stamp, clock) /\ BitmapsExact(x)
  <2>1. q.nodes[token].bin_next = unused_node /\ q.nodes[token].bin_previous = unused_node
    BY <1>4, <1>7 DEF Listed
  <2>2. \A m \in NodeIndex : x.nodes[m].bin_next = q.nodes[m].bin_next
                              /\ x.nodes[m].bin_previous = q.nodes[m].bin_previous
    BY <1>6, <2>1
  <2>3. \A m \in S : x.nodes[m].size = q.nodes[m].size  BY <1>3, <1>6, <1>7
  <2>4. QED  BY <1>4, <1>6, <2>2, <2>3, ListedKept
<1>9. LiveNodes(x) = LiveNodes(a) /\ Pooled(x)  BY <1>1, <1>6 DEF LiveNodes, Pooled
<1>10. Released(r, x, p)  BY <1>3, <1>6, <1>9, Releases
<1> HIDE DEF r
<1>11. /\ r \in Ranges /\ Pooled(r) /\ LiveNodes(r) = LiveNodes(a) \ {p}
       /\ r.allocation_count = a.allocation_count /\ r.used_top_bins = x.used_top_bins
       /\ r.used_leaf_bins = x.used_leaf_bins /\ r.bin_indices = x.bin_indices
       /\ \A m \in NodeIndex : r.nodes[m] = IF m = p THEN ClearedNode ELSE x.nodes[m]
  BY <1>6, <1>9, <1>10 DEF Released
<1>12. Listed(r, S, stamp, clock) /\ BitmapsExact(r)
  <2>1. x.nodes[p].bin_next = unused_node /\ x.nodes[p].bin_previous = unused_node
    BY <1>7, <1>8 DEF Listed
  <2>2. \A m \in NodeIndex : r.nodes[m].bin_next = x.nodes[m].bin_next
                              /\ r.nodes[m].bin_previous = x.nodes[m].bin_previous
    BY <1>11, <2>1, Cleared
  <2>3. \A m \in S : r.nodes[m].size = x.nodes[m].size  BY <1>3, <1>7, <1>11
  <2>4. QED  BY <1>6, <1>8, <1>11, <2>2, <2>3, ListedKept
<1>13. \A m \in LiveNodes(a) \ {p} :
         r.nodes[m] = IF m = token THEN node ELSE q.nodes[m]
  BY <1>3, <1>6, <1>11
<1>14. r.nodes[token] = node  BY <1>3, <1>13
<1>15. ASSUME NEW m \in LiveNodes(a) \ {token, p}
       PROVE  SameRange(r.nodes[m], a.nodes[m]) /\ r.nodes[m].used = a.nodes[m].used
  <2>1. r.nodes[m] = q.nodes[m] /\ m \in NodeIndex  BY <1>3, <1>13
  <2>2. QED  BY <1>4, <2>1
<1>16. ~a.nodes[p].used  BY DEF FreeOnes
<1>17. UsedOnes(r) = UsedOnes(a)
  BY <1>3, <1>11, <1>14, <1>15, <1>16 DEF UsedOnes
<1>18. FreeOnes(r) = S  BY <1>3, <1>11, <1>14, <1>15, <1>16 DEF FreeOnes
<1>19. Kept(r)
  <2>1. IdleNodes(a)  BY DEF Kept
  <2>2. ASSUME NEW m \in NodeIndex \ LiveNodes(r) PROVE r.nodes[m].offset = 0 /\ r.nodes[m].size = 0
    <3>1. CASE m = p
      <4>1. r.nodes[m] = ClearedNode  BY <1>3, <1>11, <3>1
      <4>2. QED  BY <4>1 DEF ClearedNode
    <3>2. CASE m # p
      <4>1. m \in NodeIndex \ LiveNodes(a) /\ m # token  BY <1>3, <1>11, <3>2
      <4>2. r.nodes[m] = q.nodes[m]  BY <1>6, <1>11, <3>2, <4>1
      <4>3. SameRange(r.nodes[m], a.nodes[m])  BY <1>4, <4>1, <4>2
      <4>4. QED  BY <2>1, <4>1, <4>3 DEF IdleNodes, SameRange
    <3>3. QED  BY <3>1, <3>2
  <2>3. QED  BY <1>11, <1>12, <1>18, <2>2 DEF Kept, IdleNodes
<1>20. Absorbed(r, a, token, p, node)  BY <1>11, <1>14, <1>15, <1>17, <1>19 DEF Absorbed
<1>21. QED  BY <1>20 DEF r, x, q

(* What is left of the merges while free is at work                        *)
SameOthers(b, a, token) ==
  /\ UsedOnes(b) = UsedOnes(a) /\ b.allocation_count = a.allocation_count
  /\ \A m \in UsedOnes(a) \ {token} :
       b.nodes[m].offset = a.nodes[m].offset /\ b.nodes[m].size = a.nodes[m].size

LEMMA AbsorbedOthers ==
  ASSUME NEW a \in Ranges, NEW r, NEW token \in UsedOnes(a), NEW p \in FreeOnes(a), NEW node,
         Absorbed(r, a, token, p, node)
  PROVE  SameOthers(r, a, token) /\ token \in UsedOnes(r) /\ Kept(r)
<1>1. \A m \in UsedOnes(a) \ {token} : m \in LiveNodes(a) \ {token, p}  BY DEF UsedOnes, FreeOnes
<1>2. \A m \in UsedOnes(a) \ {token} : SameRange(r.nodes[m], a.nodes[m])  BY <1>1 DEF Absorbed
<1>3. QED  BY <1>2 DEF Absorbed, SameOthers, SameRange

LEMMA MergesPrevious ==
  ASSUME NEW a, RangesInv(a), NEW token \in UsedOnes(a)
  PROVE  LET b == MergedPrevious(a, token)
         IN /\ Kept(b) /\ SameOthers(b, a, token) /\ BackWhole(b.nodes, LiveNodes(b), token)
<1> DEFINE p == a.nodes[token].neighbor_previous
           b == MergedPrevious(a, token)
           live == LiveNodes(a)
<1>1. /\ a \in Ranges /\ Pooled(a) /\ BitmapsExact(a) /\ Whole(a.nodes, live) /\ Kept(a)
  BY DEF RangesInv, Kept
<1>2. token \in live /\ a.nodes[token].used /\ live \in SUBSET NodeIndex /\ unused_node \notin live
  BY <1>1, LiveAreNodes, UnusedIsNoNode DEF UsedOnes
<1>3. a.nodes \in [NodeIndex -> AnyNode]  BY <1>1 DEF Ranges
<1>4. CASE p = unused_node \/ a.nodes[p].used
  <2>1. b = a  BY <1>4 DEF MergedPrevious
  <2>2. BackWhole(a.nodes, live, token)  BY <1>1, <1>2, <1>3, <1>4, NothingBefore
  <2>3. SameOthers(a, a, token)  BY DEF SameOthers
  <2> HIDE DEF b
  <2>4. QED  BY <1>1, <2>1, <2>2, <2>3 DEF b
<1>5. CASE p # unused_node /\ ~a.nodes[p].used
  <2>1. p \in live /\ End(a.nodes, p) = a.nodes[token].offset
    <3>1. LinkedBack(a.nodes, live, token)  BY <1>1, <1>2 DEF Whole
    <3>2. QED  BY <1>5, <3>1 DEF LinkedBack
  <2>2. p \in FreeOnes(a) /\ p # token  BY <1>2, <1>5, <2>1 DEF FreeOnes
  <2> DEFINE q == RemoveFreeNode(a, p)
             node == [q.nodes[token] EXCEPT !.offset = a.nodes[p].offset, !.size = @ + a.nodes[p].size,
                                            !.neighbor_previous = a.nodes[p].neighbor_previous]
  <2>3. PICK stamp, clock : Listed(a, FreeOnes(a), stamp, clock)  BY <1>1 DEF Kept
  <2>4. /\ q \in Ranges /\ Listed(q, FreeOnes(a) \ {p}, stamp, clock)
        /\ \A m \in NodeIndex : SameRange(q.nodes[m], a.nodes[m]) /\ q.nodes[m].used = a.nodes[m].used
    BY <1>1, <2>2, <2>3, RemoveListed
  <2>5. b = ReleaseNode([q EXCEPT !.nodes[token] = node], p)
    <3>1. b = ReleaseNode([q EXCEPT !.nodes[token].offset = a.nodes[p].offset,
                                    !.nodes[token].size = @ + a.nodes[p].size,
                                    !.nodes[token].neighbor_previous = a.nodes[p].neighbor_previous], p)
      BY <1>5 DEF MergedPrevious
    <3> HIDE DEF q
    <3>2. q.nodes \in [NodeIndex -> AnyNode] /\ token \in NodeIndex  BY <1>2, <2>4 DEF Ranges
    <3>3. q.nodes[token] \in AnyNode  BY <3>2
    <3>4. [q EXCEPT !.nodes[token].offset = a.nodes[p].offset,
                    !.nodes[token].size = @ + a.nodes[p].size,
                    !.nodes[token].neighbor_previous = a.nodes[p].neighbor_previous]
            = [q EXCEPT !.nodes[token] = node]
      BY <2>4, <3>2, <3>3 DEF Ranges, AnyNode
    <3>5. QED  BY <3>1, <3>4
  <2> HIDE DEF b
  <2>6. /\ node \in AnyNode /\ node.used = TRUE /\ node.bin_next = unused_node
        /\ node.bin_previous = unused_node
        /\ node.offset = a.nodes[p].offset /\ node.size = a.nodes[token].size + a.nodes[p].size
        /\ node.neighbor_previous = a.nodes[p].neighbor_previous
        /\ node.neighbor_next = a.nodes[token].neighbor_next
    <3>1. q.nodes[token] \in AnyNode  BY <1>2, <2>4 DEF Ranges
    <3>2. /\ a.nodes[p].offset \in Nat /\ a.nodes[p].size \in Nat /\ a.nodes[p].neighbor_previous \in Link
          /\ a.nodes[token].size \in Nat
      BY <1>2, <1>3, <2>1, NodeTypes
    <3>3. SameRange(q.nodes[token], a.nodes[token]) /\ q.nodes[token].used = a.nodes[token].used
      BY <1>2, <2>4
    <3>4. q.nodes[token].bin_next = unused_node /\ q.nodes[token].bin_previous = unused_node
      <4>1. token \in NodeIndex \ (FreeOnes(a) \ {p})  BY <1>2 DEF FreeOnes
      <4>2. QED  BY <2>4, <4>1 DEF Listed
    <3>5. q.nodes[token].used = TRUE  BY <1>2, <1>3, <3>3, NodeTypes
    <3> PICK base, o, s, l : base = q.nodes[token] /\ o = a.nodes[p].offset /\ s = a.nodes[p].size
                             /\ l = a.nodes[p].neighbor_previous
      OBVIOUS
    <3>6. node = [base EXCEPT !.offset = o, !.size = base.size + s, !.neighbor_previous = l]  OBVIOUS
    <3> HIDE DEF node
    <3>7. base \in AnyNode /\ o \in Nat /\ s \in Nat /\ l \in Link  BY <3>1, <3>2
    <3>8. /\ base.used = TRUE /\ base.bin_next = unused_node /\ base.bin_previous = unused_node
          /\ base.size = a.nodes[token].size /\ base.neighbor_next = a.nodes[token].neighbor_next
      BY <3>3, <3>4, <3>5 DEF SameRange
    <3>9. /\ node \in AnyNode /\ node.offset = o /\ node.size = base.size + s /\ node.neighbor_previous = l
          /\ node.used = base.used /\ node.bin_next = base.bin_next /\ node.bin_previous = base.bin_previous
          /\ node.neighbor_next = base.neighbor_next
      <4>1. base.size \in Nat /\ base.size + s \in Nat  BY <3>7 DEF AnyNode
      <4>2. PICK t \in Nat : t = base.size + s  BY <4>1
      <4>3. node = [base EXCEPT !.offset = o, !.size = t, !.neighbor_previous = l]  BY <3>6, <4>2
      <4>4. node = [offset |-> o, size |-> t, used |-> base.used, bin_previous |-> base.bin_previous,
                    bin_next |-> base.bin_next, neighbor_previous |-> l, neighbor_next |-> base.neighbor_next]
        BY <3>7, <4>3 DEF AnyNode
      <4>5. /\ base.used \in BOOLEAN /\ base.bin_previous \in Link /\ base.bin_next \in Link
            /\ base.neighbor_next \in Link
        BY <3>7 DEF AnyNode
      <4>6. QED  BY <3>7, <4>2, <4>4, <4>5 DEF AnyNode
    <3>10. QED  BY <3>8, <3>9
  <2> HIDE DEF node
  <2>7. Absorbed(b, a, token, p, node)  BY <1>1, <2>2, <2>5, <2>6, Absorbs
  <2>8. /\ b \in Ranges /\ LiveNodes(b) = live \ {p} /\ b.nodes[token] = node
        /\ \A m \in live \ {token, p} : SameRange(b.nodes[m], a.nodes[m]) /\ b.nodes[m].used = a.nodes[m].used
    BY <2>7 DEF Absorbed, Kept
  <2>9. TookPrevious(b.nodes, a.nodes, live, token, p)
    <3>1. a.nodes[token].used = TRUE  BY <1>2, <1>3, NodeTypes
    <3>2. QED  BY <2>6, <2>8, <3>1 DEF TookPrevious
  <2>10. b.nodes \in [NodeIndex -> AnyNode]  BY <2>8 DEF Ranges
  <2>11. PICK pp : pp = p  OBVIOUS
  <2>12. BackWhole(b.nodes, live \ {pp}, token)
    <3>1. pp \in live /\ a.nodes[token].neighbor_previous = pp /\ ~a.nodes[pp].used  BY <1>5, <2>1, <2>11
    <3>2. TookPrevious(b.nodes, a.nodes, live, token, pp)  BY <2>9, <2>11
    <3> HIDE DEF p, live
    <3>3. /\ AlmostWhole(b.nodes, live \ {pp}, token) /\ UsedBefore(b.nodes, live \ {pp}, token)
          /\ \A n \in live \ {pp} : LinkedBack(b.nodes, live \ {pp}, n)
      BY <1>1, <1>2, <1>3, <2>10, <3>1, <3>2, PreviousTaken
    <3>4. QED  BY <3>3 DEF BackWhole
  <2>13. Kept(b) /\ SameOthers(b, a, token)  BY <1>1, <2>2, <2>7, AbsorbedOthers
  <2>14. BackWhole(b.nodes, LiveNodes(b), token)  BY <2>8, <2>11, <2>12
  <2>15. QED  BY <2>13, <2>14 DEF b
<1>6. QED  BY <1>4, <1>5

LEMMA MergesNext ==
  ASSUME NEW a, Kept(a), NEW token \in UsedOnes(a), BackWhole(a.nodes, LiveNodes(a), token)
  PROVE  LET b == MergedNext(a, token)
         IN /\ Kept(b) /\ SameOthers(b, a, token) /\ AlmostWhole(b.nodes, LiveNodes(b), token)
            /\ UsedBefore(b.nodes, LiveNodes(b), token) /\ UsedAfter(b.nodes, LiveNodes(b), token)
<1> DEFINE p == a.nodes[token].neighbor_next
           b == MergedNext(a, token)
           live == LiveNodes(a)
<1>1. a \in Ranges /\ Pooled(a) /\ BitmapsExact(a)  BY DEF Kept
<1>2. token \in live /\ a.nodes[token].used /\ live \in SUBSET NodeIndex /\ unused_node \notin live
  BY <1>1, LiveAreNodes, UnusedIsNoNode DEF UsedOnes
<1>3. a.nodes \in [NodeIndex -> AnyNode]  BY <1>1 DEF Ranges
<1>4. CASE p = unused_node \/ a.nodes[p].used
  <2>1. b = a  BY <1>4 DEF MergedNext
  <2>2. UsedAfter(a.nodes, live, token)  BY <1>2, <1>3, <1>4, NothingAfter
  <2>3. SameOthers(a, a, token)  BY DEF SameOthers
  <2>4. AlmostWhole(a.nodes, live, token) /\ UsedBefore(a.nodes, live, token)  BY DEF BackWhole
  <2> HIDE DEF b
  <2>5. QED  BY <1>1, <2>1, <2>2, <2>3, <2>4 DEF b
<1>5. CASE p # unused_node /\ ~a.nodes[p].used
  <2>1. p \in live /\ a.nodes[p].offset = End(a.nodes, token)
    <3>1. LinkedOn(a.nodes, live, token)  BY <1>2 DEF BackWhole, AlmostWhole
    <3>2. QED  BY <1>5, <3>1 DEF LinkedOn
  <2>2. p \in FreeOnes(a) /\ p # token  BY <1>2, <1>5, <2>1 DEF FreeOnes
  <2> DEFINE q == RemoveFreeNode(a, p)
             node == [q.nodes[token] EXCEPT !.size = @ + a.nodes[p].size,
                                            !.neighbor_next = a.nodes[p].neighbor_next]
  <2>3. PICK stamp, clock : Listed(a, FreeOnes(a), stamp, clock)  BY DEF Kept
  <2>4. /\ q \in Ranges /\ Listed(q, FreeOnes(a) \ {p}, stamp, clock)
        /\ \A m \in NodeIndex : SameRange(q.nodes[m], a.nodes[m]) /\ q.nodes[m].used = a.nodes[m].used
    BY <1>1, <2>2, <2>3, RemoveListed
  <2>5. b = ReleaseNode([q EXCEPT !.nodes[token] = node], p)
    <3>1. b = ReleaseNode([q EXCEPT !.nodes[token].size = @ + a.nodes[p].size,
                                    !.nodes[token].neighbor_next = a.nodes[p].neighbor_next], p)
      BY <1>5 DEF MergedNext
    <3> HIDE DEF q
    <3>2. q.nodes \in [NodeIndex -> AnyNode] /\ token \in NodeIndex  BY <1>2, <2>4 DEF Ranges
    <3>3. q.nodes[token] \in AnyNode  BY <3>2
    <3>4. [q EXCEPT !.nodes[token].size = @ + a.nodes[p].size,
                    !.nodes[token].neighbor_next = a.nodes[p].neighbor_next]
            = [q EXCEPT !.nodes[token] = node]
      BY <2>4, <3>2, <3>3 DEF Ranges, AnyNode
    <3>5. QED  BY <3>1, <3>4
  <2> HIDE DEF b
  <2>6. /\ node \in AnyNode /\ node.used = TRUE /\ node.bin_next = unused_node
        /\ node.bin_previous = unused_node
        /\ node.offset = a.nodes[token].offset /\ node.size = a.nodes[token].size + a.nodes[p].size
        /\ node.neighbor_previous = a.nodes[token].neighbor_previous
        /\ node.neighbor_next = a.nodes[p].neighbor_next
    <3>1. q.nodes[token] \in AnyNode  BY <1>2, <2>4 DEF Ranges
    <3>2. /\ a.nodes[p].size \in Nat /\ a.nodes[p].neighbor_next \in Link /\ a.nodes[token].size \in Nat
      BY <1>2, <1>3, <2>1, NodeTypes
    <3>3. SameRange(q.nodes[token], a.nodes[token]) /\ q.nodes[token].used = a.nodes[token].used
      BY <1>2, <2>4
    <3>4. q.nodes[token].bin_next = unused_node /\ q.nodes[token].bin_previous = unused_node
      <4>1. token \in NodeIndex \ (FreeOnes(a) \ {p})  BY <1>2 DEF FreeOnes
      <4>2. QED  BY <2>4, <4>1 DEF Listed
    <3>5. q.nodes[token].used = TRUE  BY <1>2, <1>3, <3>3, NodeTypes
    <3> PICK base, s, l : base = q.nodes[token] /\ s = a.nodes[p].size /\ l = a.nodes[p].neighbor_next
      OBVIOUS
    <3>6. node = [base EXCEPT !.size = base.size + s, !.neighbor_next = l]  OBVIOUS
    <3> HIDE DEF node
    <3>7. base \in AnyNode /\ s \in Nat /\ l \in Link  BY <3>1, <3>2
    <3>8. /\ base.used = TRUE /\ base.bin_next = unused_node /\ base.bin_previous = unused_node
          /\ base.size = a.nodes[token].size /\ base.neighbor_previous = a.nodes[token].neighbor_previous
          /\ base.offset = a.nodes[token].offset
      BY <3>3, <3>4, <3>5 DEF SameRange
    <3>9. /\ node \in AnyNode /\ node.offset = base.offset /\ node.size = base.size + s
          /\ node.neighbor_next = l
          /\ node.used = base.used /\ node.bin_next = base.bin_next /\ node.bin_previous = base.bin_previous
          /\ node.neighbor_previous = base.neighbor_previous
      <4>1. base.size \in Nat /\ base.size + s \in Nat  BY <3>7 DEF AnyNode
      <4>2. PICK t \in Nat : t = base.size + s  BY <4>1
      <4>3. node = [base EXCEPT !.size = t, !.neighbor_next = l]  BY <3>6, <4>2
      <4>4. node = [offset |-> base.offset, size |-> t, used |-> base.used,
                    bin_previous |-> base.bin_previous,
                    bin_next |-> base.bin_next, neighbor_previous |-> base.neighbor_previous,
                    neighbor_next |-> l]
        BY <3>7, <4>3 DEF AnyNode
      <4>5. /\ base.used \in BOOLEAN /\ base.bin_previous \in Link /\ base.bin_next \in Link
            /\ base.neighbor_previous \in Link /\ base.offset \in Nat
        BY <3>7 DEF AnyNode
      <4>6. QED  BY <3>7, <4>2, <4>4, <4>5 DEF AnyNode
    <3>10. QED  BY <3>8, <3>9
  <2> HIDE DEF node
  <2>7. Absorbed(b, a, token, p, node)  BY <1>1, <2>2, <2>5, <2>6, Absorbs
  <2>8. /\ b \in Ranges /\ LiveNodes(b) = live \ {p} /\ b.nodes[token] = node
        /\ \A m \in live \ {token, p} : SameRange(b.nodes[m], a.nodes[m]) /\ b.nodes[m].used = a.nodes[m].used
    BY <2>7 DEF Absorbed, Kept
  <2>9. TookNext(b.nodes, a.nodes, live, token, p)
    <3>1. a.nodes[token].used = TRUE  BY <1>2, <1>3, NodeTypes
    <3>2. QED  BY <2>6, <2>8, <3>1 DEF TookNext
  <2>10. b.nodes \in [NodeIndex -> AnyNode]  BY <2>8 DEF Ranges
  <2>11. PICK pp : pp = p  OBVIOUS
  <2>12. /\ AlmostWhole(b.nodes, live \ {pp}, token) /\ UsedBefore(b.nodes, live \ {pp}, token)
         /\ UsedAfter(b.nodes, live \ {pp}, token)
    <3>1. pp \in live /\ a.nodes[token].neighbor_next = pp /\ ~a.nodes[pp].used  BY <1>5, <2>1, <2>11
    <3>2. TookNext(b.nodes, a.nodes, live, token, pp)  BY <2>9, <2>11
    <3>3. BackWhole(a.nodes, live, token)  OBVIOUS
    <3> HIDE DEF p, live
    <3>4. QED  BY <1>2, <1>3, <2>10, <3>1, <3>2, <3>3, NextTaken
  <2>13. Kept(b) /\ SameOthers(b, a, token)  BY <1>1, <2>2, <2>7, AbsorbedOthers
  <2>14. /\ AlmostWhole(b.nodes, LiveNodes(b), token) /\ UsedBefore(b.nodes, LiveNodes(b), token)
         /\ UsedAfter(b.nodes, LiveNodes(b), token)
    BY <2>8, <2>11, <2>12
  <2>15. QED  BY <2>13, <2>14 DEF b
<1>6. QED  BY <1>4, <1>5

(* What free makes of an allocator                                         *)
FreedOf(r, a, token) ==
  /\ RangesInv(r) /\ UsedOnes(r) = UsedOnes(a) \ {token} /\ r.allocation_count = a.allocation_count - 1
  /\ \A m \in UsedOnes(r) : r.nodes[m].offset = a.nodes[m].offset /\ r.nodes[m].size = a.nodes[m].size

LEMMA Frees ==
  ASSUME NEW a, RangesInv(a), NEW token \in UsedOnes(a)
  PROVE  FreedOf(Freed(a, token), a, token)
<1> DEFINE b == MergedPrevious(a, token)
           c == MergedNext(b, token)
           node == c.nodes[token]
           previous == node.neighbor_previous
           next == node.neighbor_next
           one == Relinked(c.nodes, previous, "neighbor_next", token)
           linked == Relinked(one, next, "neighbor_previous", token)
           d == [c EXCEPT !.nodes = linked, !.allocation_count = c.allocation_count - 1]
           z == InsertFreeNode(d, token)
           live == LiveNodes(c)
<1>1. a \in Ranges /\ a.allocation_count = Cardinality(UsedOnes(a))  BY DEF RangesInv
<1>2. Kept(b) /\ SameOthers(b, a, token) /\ BackWhole(b.nodes, LiveNodes(b), token)  BY MergesPrevious
<1>3. Freed(a, token) = z
  <2>1. Freed(a, token) = InsertFreeNode([c EXCEPT !.nodes = linked, !.allocation_count = @ - 1], token)
    BY DEF Freed
  <2>2. QED  BY <2>1
<1> HIDE DEF b
<1>4. token \in UsedOnes(b)  BY <1>2 DEF SameOthers
<1>5. /\ Kept(c) /\ SameOthers(c, b, token) /\ AlmostWhole(c.nodes, live, token)
      /\ UsedBefore(c.nodes, live, token) /\ UsedAfter(c.nodes, live, token)
  BY <1>2, <1>4, MergesNext
<1> HIDE DEF c
<1>6. /\ c \in Ranges /\ Pooled(c) /\ BitmapsExact(c) /\ UsedOnes(c) = UsedOnes(a)
      /\ c.allocation_count = a.allocation_count
  BY <1>2, <1>5 DEF Kept, SameOthers
<1>7. PICK stamp, clock : Listed(c, FreeOnes(c), stamp, clock)  BY <1>5 DEF Kept
<1>8. /\ live \in SUBSET NodeIndex /\ token \in live /\ c.nodes[token].used /\ token \in NodeIndex
      /\ FreeOnes(c) = live \ UsedOnes(c) /\ token \notin FreeOnes(c) /\ UsedOnes(c) \in SUBSET live
  BY <1>6, LiveAreNodes DEF UsedOnes
<1>9. c.nodes \in [NodeIndex -> AnyNode] /\ previous \in Link /\ next \in Link /\ token \in Link
  BY <1>6, <1>8, NodeTypes DEF Ranges, Link
<1> HIDE DEF previous, next
<1>10. one = [m \in NodeIndex |-> IF m = previous THEN [c.nodes[m] EXCEPT !.neighbor_next = token]
           ELSE c.nodes[m]]
  <2> PICK v \in [NodeIndex -> AnyNode] : v = c.nodes  BY <1>9
  <2>1. Relinked(v, previous, "neighbor_next", token) =
          [m \in NodeIndex |-> IF m = previous THEN [v[m] EXCEPT !.neighbor_next = token] ELSE v[m]]
    <3>1. previous \in Link /\ token \in Link  BY <1>9
    <3>2. QED  BY <3>1, RelinkedForward
  <2>2. QED  BY <2>1
<1>11. one \in [NodeIndex -> AnyNode]
  <2>1. \A m \in NodeIndex : c.nodes[m] \in AnyNode /\ [c.nodes[m] EXCEPT !.neighbor_next = token] \in AnyNode
    BY <1>9 DEF AnyNode
  <2>2. QED  BY <1>10, <2>1
<1> HIDE DEF one
<1>12. linked = [m \in NodeIndex |-> IF m = next THEN [one[m] EXCEPT !.neighbor_previous = token] ELSE one[m]]
  BY <1>9, <1>11, RelinkedNodes
<1>13. linked \in [NodeIndex -> AnyNode]
  <2>1. \A m \in NodeIndex : one[m] \in AnyNode /\ [one[m] EXCEPT !.neighbor_previous = token] \in AnyNode
    BY <1>9, <1>11 DEF AnyNode
  <2>2. QED  BY <1>12, <2>1
<1> HIDE DEF linked
<1>14. ASSUME NEW m \in NodeIndex
       PROVE  /\ linked[m].offset = c.nodes[m].offset /\ linked[m].size = c.nodes[m].size
              /\ linked[m].used = c.nodes[m].used
              /\ linked[m].bin_next = c.nodes[m].bin_next /\ linked[m].bin_previous = c.nodes[m].bin_previous
              /\ linked[m].neighbor_next = (IF m = previous THEN token ELSE c.nodes[m].neighbor_next)
              /\ linked[m].neighbor_previous = (IF m = next THEN token ELSE c.nodes[m].neighbor_previous)
  <2>1. c.nodes[m] \in AnyNode /\ one[m] \in AnyNode  BY <1>9, <1>11
  <2>2. one[m] = IF m = previous THEN [c.nodes[m] EXCEPT !.neighbor_next = token] ELSE c.nodes[m]  BY <1>10
  <2>3. linked[m] = IF m = next THEN [one[m] EXCEPT !.neighbor_previous = token] ELSE one[m]  BY <1>12
  <2>4. /\ one[m].offset = c.nodes[m].offset /\ one[m].size = c.nodes[m].size /\ one[m].used = c.nodes[m].used
        /\ one[m].bin_next = c.nodes[m].bin_next /\ one[m].bin_previous = c.nodes[m].bin_previous
        /\ one[m].neighbor_next = (IF m = previous THEN token ELSE c.nodes[m].neighbor_next)
        /\ one[m].neighbor_previous = c.nodes[m].neighbor_previous
    BY <2>1, <2>2 DEF AnyNode
  <2>5. /\ linked[m].offset = one[m].offset /\ linked[m].size = one[m].size /\ linked[m].used = one[m].used
        /\ linked[m].bin_next = one[m].bin_next /\ linked[m].bin_previous = one[m].bin_previous
        /\ linked[m].neighbor_next = one[m].neighbor_next
        /\ linked[m].neighbor_previous = (IF m = next THEN token ELSE one[m].neighbor_previous)
    BY <2>1, <2>3 DEF AnyNode
  <2>6. QED  BY <2>4, <2>5
<1>15. /\ d \in Ranges /\ d.nodes = linked /\ d.free_nodes = c.free_nodes
       /\ d.allocation_count = a.allocation_count - 1 /\ d.bin_indices = c.bin_indices
       /\ d.used_leaf_bins = c.used_leaf_bins /\ d.used_top_bins = c.used_top_bins
  <2>1. d = [allocation_count |-> c.allocation_count - 1, used_top_bins |-> c.used_top_bins,
             used_leaf_bins |-> c.used_leaf_bins, bin_indices |-> c.bin_indices, nodes |-> linked,
             free_nodes |-> c.free_nodes]
    <3> PICK k : k = c.allocation_count - 1  OBVIOUS
    <3>1. d = [c EXCEPT !.nodes = linked, !.allocation_count = k]  OBVIOUS
    <3> HIDE DEF d
    <3>2. QED  BY <1>6, <3>1 DEF Ranges
  <2>2. /\ c.allocation_count - 1 \in Int /\ c.used_top_bins \in SUBSET Tops
        /\ c.used_leaf_bins \in [Tops -> SUBSET Leaves] /\ c.bin_indices \in [Bins -> Link]
        /\ c.free_nodes \in Seq(NodeIndex)
    BY <1>6 DEF Ranges
  <2> HIDE DEF d
  <2>3. QED  BY <1>6, <1>13, <2>1, <2>2 DEF Ranges
<1> HIDE DEF d
<1>16. Listed(d, FreeOnes(c), stamp, clock) /\ BitmapsExact(d)
  <2>1. \A m \in NodeIndex : d.nodes[m].bin_next = c.nodes[m].bin_next
                              /\ d.nodes[m].bin_previous = c.nodes[m].bin_previous
    BY <1>14, <1>15
  <2>2. \A m \in FreeOnes(c) : d.nodes[m].size = c.nodes[m].size  BY <1>8, <1>14, <1>15
  <2>3. QED  BY <1>6, <1>7, <1>15, <2>1, <2>2, ListedKept
<1>17. d.nodes[token].size \in 1..unused_node
  <2>1. c.nodes[token].size > 0 /\ End(c.nodes, token) <= capacity  BY <1>5, <1>8 DEF AlmostWhole, Tiling
  <2>2. /\ c.nodes[token].size \in Nat /\ c.nodes[token].offset \in Nat /\ capacity \in Nat
        /\ unused_node \in Nat /\ capacity <= unused_node
    BY <1>8, <1>9, NodeTypes, Constants
  <2>3. d.nodes[token].size = c.nodes[token].size  BY <1>8, <1>14, <1>15
  <2>4. QED  BY <2>1, <2>2, <2>3 DEF End
<1>18. token \in NodeIndex \ FreeOnes(c)  BY <1>8
<1>19. /\ z \in Ranges /\ BitmapsExact(z)
       /\ Listed(z, FreeOnes(c) \cup {token}, [stamp EXCEPT ![token] = clock], clock + 1)
       /\ z.allocation_count = d.allocation_count /\ z.free_nodes = d.free_nodes
       /\ \A m \in NodeIndex : /\ SameRange(z.nodes[m], d.nodes[m])
                               /\ z.nodes[m].used = IF m = token THEN FALSE ELSE d.nodes[m].used
  <2>1. Insertable(d, FreeOnes(c), stamp, clock, token)  BY <1>15, <1>16, <1>17, <1>18 DEF Insertable
  <2>2. Relisted(InsertFreeNode(d, token), d, FreeOnes(c), stamp, clock, token)
    BY ONLY <2>1, InsertListed
  <2>3. Relisted(z, d, FreeOnes(c), stamp, clock, token)  BY <2>2
  <2> HIDE DEF z
  <2>4. QED  BY ONLY <2>3 DEF Relisted
<1> HIDE DEF z
<1>20. ASSUME NEW m \in NodeIndex
       PROVE  /\ z.nodes[m].offset = c.nodes[m].offset /\ z.nodes[m].size = c.nodes[m].size
              /\ z.nodes[m].used = (IF m = token THEN FALSE ELSE c.nodes[m].used)
              /\ z.nodes[m].neighbor_next = (IF m = previous THEN token ELSE c.nodes[m].neighbor_next)
              /\ z.nodes[m].neighbor_previous = (IF m = next THEN token ELSE c.nodes[m].neighbor_previous)
  <2>1. /\ SameRange(z.nodes[m], linked[m])
        /\ z.nodes[m].used = IF m = token THEN FALSE ELSE linked[m].used
    BY <1>15, <1>19
  <2>2. /\ linked[m].offset = c.nodes[m].offset /\ linked[m].size = c.nodes[m].size
        /\ linked[m].used = c.nodes[m].used
        /\ linked[m].neighbor_next = (IF m = previous THEN token ELSE c.nodes[m].neighbor_next)
        /\ linked[m].neighbor_previous = (IF m = next THEN token ELSE c.nodes[m].neighbor_previous)
    BY <1>14
  <2>3. QED  BY <2>1, <2>2 DEF SameRange
<1>21. Whole(z.nodes, live)
  <2>1. RelinkedTo(z.nodes, c.nodes, live, token)
    <3>1. \A m \in live : m \in NodeIndex  BY <1>8
    <3>2. c.nodes[token].neighbor_previous = previous /\ c.nodes[token].neighbor_next = next
      BY DEF previous, next
    <3>3. QED  BY <1>20, <3>1, <3>2 DEF RelinkedTo
  <2>2. z.nodes \in [NodeIndex -> AnyNode]  BY <1>19 DEF Ranges
  <2>3. QED  BY <1>5, <1>8, <1>9, <2>1, <2>2, RelinkedIsWhole
<1>22. LiveNodes(z) = live /\ Pooled(z)
  BY <1>6, <1>15, <1>19 DEF LiveNodes, Pooled
<1>23. UsedOnes(z) = UsedOnes(a) \ {token}
  <2>1. \A m \in live : z.nodes[m].used <=> c.nodes[m].used /\ m # token  BY <1>8, <1>20
  <2>2. UsedOnes(z) = UsedOnes(c) \ {token}  BY <1>22, <2>1 DEF UsedOnes
  <2>3. QED  BY <1>6, <2>2
<1>24. FreeOnes(z) = FreeOnes(c) \cup {token}
  <2>1. \A m \in live : ~z.nodes[m].used <=> ~c.nodes[m].used \/ m = token  BY <1>8, <1>20
  <2>2. QED  BY <1>8, <1>22, <2>1 DEF FreeOnes
<1>25. z.allocation_count = a.allocation_count - 1  BY <1>15, <1>19
<1>26. Cardinality(UsedOnes(a) \ {token}) = a.allocation_count - 1
  <2>1. IsFiniteSet(UsedOnes(a))  BY <1>1, LiveAreNodes
  <2>2. QED  BY <1>1, <2>1, FS_RemoveElement
<1>27. RangesInv(z)
  <2>1. \E st, cl : Listed(z, FreeOnes(z), st, cl)  BY <1>19, <1>24
  <2>2. z.allocation_count = Cardinality(UsedOnes(z))  BY <1>23, <1>25, <1>26
  <2>3. IdleNodes(z)
    <3>1. IdleNodes(c)  BY <1>5 DEF Kept
    <3>2. QED  BY <1>20, <1>22, <3>1 DEF IdleNodes
  <2>4. QED  BY <1>19, <1>21, <1>22, <2>1, <2>2, <2>3 DEF RangesInv
<1>28. ASSUME NEW m \in UsedOnes(z)
       PROVE  z.nodes[m].offset = a.nodes[m].offset /\ z.nodes[m].size = a.nodes[m].size
  <2>1. m \in UsedOnes(a) \ {token} /\ m \in NodeIndex  BY <1>6, <1>8, <1>23
  <2>2. c.nodes[m].offset = b.nodes[m].offset /\ c.nodes[m].size = b.nodes[m].size
    <3>1. m \in UsedOnes(b) \ {token}  BY <1>2, <2>1 DEF SameOthers
    <3>2. QED  BY <1>5, <3>1 DEF SameOthers
  <2>3. b.nodes[m].offset = a.nodes[m].offset /\ b.nodes[m].size = a.nodes[m].size
    BY <1>2, <2>1 DEF SameOthers
  <2>4. QED  BY <1>20, <2>1, <2>2, <2>3
<1>29. FreedOf(z, a, token)  BY <1>23, <1>25, <1>27, <1>28 DEF FreedOf
<1>30. QED  BY <1>3, <1>29

(* A new allocator: one free node of the whole heap                        *)
LEMMA Resets == RangesInv(ResetRanges) /\ UsedOnes(ResetRanges) = {} /\ ResetRanges.allocation_count = 0
<1> DEFINE n == AcquiredNode(Blank)
           u == AcquireNode(Blank)
           w == [u EXCEPT !.nodes[n].size = capacity]
           z == InsertFreeNode(w, n)
           stamp == [m \in NodeIndex |-> 0]
<1>1. ResetRanges = z  BY DEF ResetRanges
<1>2. /\ node_capacity \in Nat /\ 3 <= node_capacity /\ capacity \in Nat \ {0} /\ capacity <= unused_node
      /\ unused_node \in Nat
  BY Constants
<1>3. unused_node \in Link /\ ClearedNode \in AnyNode  BY Cleared DEF Link
<1>4. /\ Blank.allocation_count = 0 /\ Blank.used_top_bins = {}
      /\ Blank.used_leaf_bins = [t \in Tops |-> {}] /\ Blank.bin_indices = [b \in Bins |-> unused_node]
      /\ Blank.nodes = [m \in NodeIndex |-> ClearedNode]
      /\ Blank.free_nodes = [i \in 1..node_capacity |-> i - 1]
  BY DEF Blank, Bins
<1>5. Blank.free_nodes \in Seq(NodeIndex) /\ Len(Blank.free_nodes) = node_capacity
  <2>1. \A i \in 1..node_capacity : i - 1 \in NodeIndex  BY <1>2 DEF NodeIndex
  <2>2. QED  BY <1>2, <1>4, <2>1
<1>6. Blank \in Ranges
  <2>1. Blank = [allocation_count |-> 0, used_top_bins |-> {}, used_leaf_bins |-> Blank.used_leaf_bins,
                 bin_indices |-> Blank.bin_indices, nodes |-> Blank.nodes, free_nodes |-> Blank.free_nodes]
    BY DEF Blank
  <2>2. /\ Blank.used_leaf_bins \in [Tops -> SUBSET Leaves] /\ Blank.bin_indices \in [Bins -> Link]
        /\ Blank.nodes \in [NodeIndex -> AnyNode] /\ {} \in SUBSET Tops
    BY <1>3, <1>4
  <2>3. QED  BY <1>5, <2>1, <2>2 DEF Ranges
<1>7. Pooled(Blank)
  <2>1. \A i, j \in 1..node_capacity : Blank.free_nodes[i] = Blank.free_nodes[j] => i = j  BY <1>2, <1>4
  <2>2. DOMAIN Blank.free_nodes = 1..node_capacity  BY <1>4
  <2>3. QED  BY <1>5, <2>1, <2>2 DEF Pooled, IsInjective
<1>8. LiveNodes(Blank) = {}
  <2>1. ASSUME NEW m \in NodeIndex PROVE m \in ToSet(Blank.free_nodes)
    <3>1. m + 1 \in 1..node_capacity  BY <1>2, <2>1 DEF NodeIndex
    <3>2. Blank.free_nodes[m + 1] = m  BY <1>2, <1>4, <2>1, <3>1 DEF NodeIndex
    <3>3. DOMAIN Blank.free_nodes = 1..node_capacity  BY <1>4
    <3>4. QED  BY <3>1, <3>2, <3>3 DEF ToSet
  <2>2. QED  BY <2>1 DEF LiveNodes
<1>9. Blank.free_nodes # <<>>  BY <1>2, <1>5
<1>10. /\ u \in Ranges /\ Pooled(u) /\ SameButPool(u, Blank) /\ n \in NodeIndex /\ LiveNodes(u) = {n}
  BY <1>6, <1>7, <1>8, <1>9, Acquires
<1> HIDE DEF u, n
<1>11. /\ u.allocation_count = 0 /\ u.used_top_bins = {} /\ u.used_leaf_bins = [t \in Tops |-> {}]
       /\ u.bin_indices = [b \in Bins |-> unused_node] /\ u.nodes = [m \in NodeIndex |-> ClearedNode]
  BY <1>4, <1>10 DEF SameButPool
<1> DEFINE only == [ClearedNode EXCEPT !.size = capacity]
           nodes == [u.nodes EXCEPT ![n] = only]
<1>12. /\ only \in AnyNode /\ only.offset = 0 /\ only.size = capacity /\ only.used = FALSE
       /\ only.bin_next = unused_node /\ only.bin_previous = unused_node
       /\ only.neighbor_previous = unused_node /\ only.neighbor_next = unused_node
  BY <1>2, <1>3 DEF ClearedNode, AnyNode
<1>13. w = [u EXCEPT !.nodes = nodes]
  <2>1. u.nodes \in [NodeIndex -> AnyNode] /\ u.nodes[n] = ClearedNode  BY <1>3, <1>10, <1>11
  <2>2. QED  BY <1>10, <2>1 DEF Ranges
<1> HIDE DEF only
<1>14. nodes \in [NodeIndex -> AnyNode] /\ \A m \in NodeIndex : nodes[m] = IF m = n THEN only ELSE ClearedNode
  BY <1>3, <1>10, <1>11, <1>12
<1> HIDE DEF nodes, w
<1>15. /\ w \in Ranges /\ w.nodes = nodes /\ w.free_nodes = u.free_nodes /\ w.allocation_count = 0
       /\ w.used_top_bins = {} /\ w.used_leaf_bins = [t \in Tops |-> {}]
       /\ w.bin_indices = [b \in Bins |-> unused_node]
  <2>1. w = [allocation_count |-> u.allocation_count, used_top_bins |-> u.used_top_bins,
             used_leaf_bins |-> u.used_leaf_bins, bin_indices |-> u.bin_indices, nodes |-> nodes,
             free_nodes |-> u.free_nodes]
    BY <1>10, <1>13 DEF Ranges
  <2>2. /\ u.allocation_count \in Int /\ u.used_top_bins \in SUBSET Tops
        /\ u.used_leaf_bins \in [Tops -> SUBSET Leaves] /\ u.bin_indices \in [Bins -> Link]
        /\ u.free_nodes \in Seq(NodeIndex)
    BY <1>10 DEF Ranges
  <2>3. w \in Ranges  BY <1>14, <2>1, <2>2 DEF Ranges
  <2>4. QED  BY <1>11, <2>1, <2>3
<1>16. BitmapsExact(w)
  <2>1. ASSUME NEW b \in Bins
        PROVE  (w.bin_indices[b] # unused_node) <=> (LeafOf(b) \in w.used_leaf_bins[TopOf(b)])
    <3>1. b \in Nat  BY DEF Bins
    <3>2. TopOf(b) \in Tops  BY <3>1, LeafAndTop
    <3>3. w.bin_indices[b] = unused_node /\ w.used_leaf_bins[TopOf(b)] = {}  BY <1>15, <3>2
    <3>4. QED  BY <3>3
  <2>2. w.used_top_bins = {t \in Tops : w.used_leaf_bins[t] # {}}  BY <1>15
  <2>3. QED  BY <2>1, <2>2 DEF BitmapsExact
<1>17. Listed(w, {}, stamp, 0)
  <2>1. stamp \in [NodeIndex -> Nat]  OBVIOUS
  <2>2. \A b \in Bins : w.bin_indices[b] = unused_node  BY <1>15
  <2>3. \A m \in NodeIndex : w.nodes[m].bin_next = unused_node /\ w.nodes[m].bin_previous = unused_node
    BY <1>12, <1>14, <1>15, Cleared
  <2> HIDE DEF stamp
  <2>4. QED  BY <2>1, <2>2, <2>3 DEF Listed
<1>18. w.nodes[n].size \in 1..unused_node  BY <1>2, <1>10, <1>12, <1>14, <1>15
<1>19. /\ z \in Ranges /\ BitmapsExact(z) /\ Listed(z, {} \cup {n}, [stamp EXCEPT ![n] = 0], 0 + 1)
       /\ z.allocation_count = w.allocation_count /\ z.free_nodes = w.free_nodes
       /\ \A m \in NodeIndex : /\ SameRange(z.nodes[m], w.nodes[m])
                               /\ z.nodes[m].used = IF m = n THEN FALSE ELSE w.nodes[m].used
  <2>0. PICK S, st, clock : S = {} /\ st = stamp /\ clock = 0  OBVIOUS
  <2>1. n \in NodeIndex \ S /\ Listed(w, S, st, clock)  BY <1>10, <1>17, <2>0
  <2> HIDE DEF stamp
  <2>2. /\ InsertFreeNode(w, n) \in Ranges /\ BitmapsExact(InsertFreeNode(w, n))
        /\ Listed(InsertFreeNode(w, n), S \cup {n}, [st EXCEPT ![n] = clock], clock + 1)
        /\ InsertFreeNode(w, n).allocation_count = w.allocation_count
        /\ InsertFreeNode(w, n).free_nodes = w.free_nodes
        /\ \A m \in NodeIndex : /\ SameRange(InsertFreeNode(w, n).nodes[m], w.nodes[m])
                                /\ InsertFreeNode(w, n).nodes[m].used = IF m = n THEN FALSE
                                     ELSE w.nodes[m].used
    <3>1. w \in Ranges /\ BitmapsExact(w) /\ w.nodes[n].size \in 1..unused_node  BY <1>15, <1>16, <1>18
    <3>2. Insertable(w, S, st, clock, n)  BY <2>1, <3>1 DEF Insertable
    <3>3. Relisted(InsertFreeNode(w, n), w, S, st, clock, n)  BY ONLY <3>2, InsertListed
    <3>4. QED  BY ONLY <3>3 DEF Relisted
  <2>3. QED  BY <2>0, <2>2 DEF z
<1> HIDE DEF z
<1>20. LiveNodes(z) = {n} /\ Pooled(z)  BY <1>10, <1>15, <1>19 DEF LiveNodes, Pooled
<1>21. /\ z.nodes[n].offset = 0 /\ z.nodes[n].size = capacity /\ ~z.nodes[n].used
       /\ z.nodes[n].neighbor_previous = unused_node /\ z.nodes[n].neighbor_next = unused_node
  <2>1. SameRange(z.nodes[n], only) /\ z.nodes[n].used = FALSE  BY <1>10, <1>14, <1>15, <1>19
  <2>2. QED  BY <1>12, <2>1 DEF SameRange
<1>22. End(z.nodes, n) = capacity  BY <1>2, <1>21 DEF End
<1>23. Whole(z.nodes, {n})
  <2>1. Tiling(z.nodes, {n})  BY <1>2, <1>10, <1>21, <1>22 DEF Tiling
  <2>2. FreeApart(z.nodes, {n})  BY <1>2, <1>21, <1>22 DEF FreeApart
  <2>3. LinkedBack(z.nodes, {n}, n) /\ LinkedOn(z.nodes, {n}, n)  BY <1>21, <1>22 DEF LinkedBack, LinkedOn
  <2>4. QED  BY <2>1, <2>2, <2>3 DEF Whole
<1>24. UsedOnes(z) = {} /\ FreeOnes(z) = {n}  BY <1>20, <1>21 DEF UsedOnes, FreeOnes
<1>25. IdleNodes(z)
  <2>1. ASSUME NEW m \in NodeIndex \ LiveNodes(z) PROVE z.nodes[m].offset = 0 /\ z.nodes[m].size = 0
    <3>1. m # n /\ m \in NodeIndex  BY <1>20, <2>1
    <3>2. SameRange(z.nodes[m], ClearedNode)  BY <1>14, <1>15, <1>19, <3>1
    <3>3. QED  BY <3>2 DEF SameRange, ClearedNode
  <2>2. QED  BY <2>1 DEF IdleNodes
<1>26. z.allocation_count = 0 /\ Cardinality({}) = 0  BY <1>15, <1>19, FS_EmptySet
<1>27. RangesInv(z)
  <2>1. \E st, cl : Listed(z, FreeOnes(z), st, cl)  BY <1>19, <1>24
  <2>2. z.allocation_count = Cardinality(UsedOnes(z))  BY <1>24, <1>26
  <2>3. QED  BY <1>19, <1>20, <1>23, <1>25, <2>1, <2>2 DEF RangesInv
<1>28. QED  BY <1>1, <1>24, <1>26, <1>27

LEMMA NotMovedFrom == ASSUME NEW a \in Ranges PROVE a # MovedFrom
<1>1. 0 \in NodeIndex  BY Constants DEF NodeIndex
<1>2. DOMAIN a.nodes = NodeIndex  BY DEF Ranges
<1>3. MovedFrom.nodes = <<>> /\ DOMAIN <<>> = {}  BY DEF MovedFrom
<1>4. QED  BY <1>1, <1>2, <1>3

LEMMA Fits32 == ASSUME NEW size \in Nat, size <= capacity PROVE Uint32(size) = size
<1>1. PICK d \in Nat : d = unused_node  BY Constants
<1>2. size < d + 1 /\ Bit[IndexBits] = d + 1  BY <1>1, Constants
<1>3. size % (d + 1) = size  BY <1>2
<1>4. QED  BY <1>2, <1>3 DEF Uint32

LEMMA RequestedType == ASSUME NEW byte_size \in Nat \ {0} PROVE Requested(byte_size) \in Nat \ {0}
<1>1. element_size \in Nat \ {0} /\ byte_size - 1 \in Nat  BY RangeAllocatorAssumption
<1>2. PICK q \in Nat : q = (byte_size - 1) \div element_size  BY <1>1, Quotient
<1>3. QED  BY <1>2 DEF Requested

(* What allocate finds: a free node long enough, unless there is none.     *)
LEMMA CandidateFits ==
  ASSUME NEW a, RangesInv(a), NEW byte_size \in Nat \ {0}
  PROVE  LET n == Candidate(a, byte_size)
             size == Requested(byte_size)
         IN /\ n = unused_node => \/ a.allocation_count = max_allocations \/ size > capacity
                                  \/ \A m \in FreeOnes(a) : a.nodes[m].size < size
            /\ n # unused_node => /\ a.allocation_count # max_allocations
                                  /\ n \in FreeOnes(a) /\ size <= a.nodes[n].size /\ size <= capacity
                                  /\ Uint32(size) = size
<1> DEFINE n == Candidate(a, byte_size)
           size == Requested(byte_size)
<1>1. a \in Ranges /\ BitmapsExact(a) /\ size \in Nat \ {0}  BY RequestedType DEF RangesInv
<1> HIDE DEF size
<1>2. a # MovedFrom  BY <1>1, NotMovedFrom
<1>3. CASE a.allocation_count = max_allocations \/ size > capacity
  <2>1. n = unused_node  BY <1>2, <1>3 DEF Candidate, size
  <2>2. QED  BY <1>3, <2>1 DEF size
<1>4. CASE a.allocation_count # max_allocations /\ ~(size > capacity)
  <2>1. size <= capacity /\ capacity \in Nat /\ capacity <= unused_node /\ unused_node \in Nat
    BY <1>1, <1>4, Constants
  <2>2. Uint32(size) = size  BY <1>1, <2>1, Fits32
  <2>3. n = FindNode(a, size)  BY <1>2, <1>4, <2>2 DEF Candidate, size
  <2>4. size \in 1..unused_node  BY <1>1, <2>1
  <2>5. PICK stamp, clock : Listed(a, FreeOnes(a), stamp, clock)  BY DEF RangesInv
  <2>6. \/ n = unused_node /\ \A m \in FreeOnes(a) : a.nodes[m].size < size
        \/ n \in FreeOnes(a) /\ a.nodes[n].size >= size
    BY <1>1, <2>3, <2>4, <2>5, FindNodeFinds
  <2>7. \A m \in FreeOnes(a) : m # unused_node /\ a.nodes[m].size \in Nat
    <3>1. \A m \in FreeOnes(a) : m \in NodeIndex  BY DEF FreeOnes, LiveNodes
    <3>2. a.nodes \in [NodeIndex -> AnyNode]  BY <1>1 DEF Ranges
    <3>3. QED  BY <3>1, <3>2, NodeTypes, UnusedIsNoNode
  <2> HIDE DEF n
  <2>8. n # unused_node => n \in FreeOnes(a) /\ size <= a.nodes[n].size  BY <1>1, <2>6, <2>7
  <2>9. n = unused_node => \A m \in FreeOnes(a) : a.nodes[m].size < size  BY <2>6, <2>7
  <2>10. QED  BY <1>4, <2>1, <2>2, <2>8, <2>9 DEF n, size
<1>5. QED  BY <1>3, <1>4

(* The properties of an allocator that the runs check follow.              *)
LEMMA RangesAreTyped ==
  ASSUME NEW a, RangesInv(a), a.allocation_count <= max_allocations
  PROVE  RangesTypeOK(a)
<1>1. a \in Ranges /\ Pooled(a) /\ a.allocation_count = Cardinality(UsedOnes(a))  BY DEF RangesInv
<1>2. a.allocation_count \in 0..max_allocations
  <2>1. Cardinality(UsedOnes(a)) \in Nat  BY <1>1, LiveAreNodes
  <2>2. max_allocations \in Nat  BY Constants
  <2>3. QED  BY <1>1, <2>1, <2>2
<1>3. /\ a.used_top_bins \subseteq Tops /\ a.used_leaf_bins \in [Tops -> SUBSET Leaves]
      /\ DOMAIN a.bin_indices = Bins /\ \A b \in Bins : a.bin_indices[b] \in Link
      /\ DOMAIN a.nodes = NodeIndex /\ a.nodes \in [NodeIndex -> AnyNode]
  BY <1>1 DEF Ranges
<1>4. ASSUME NEW n \in NodeIndex PROVE a.nodes[n] \in Node
  <2>1. a.nodes[n] \in AnyNode  BY <1>3
  <2>2. a.nodes[n].offset \in Nat /\ a.nodes[n].size \in Nat /\ capacity \in Nat
    BY <2>1, Constants DEF AnyNode
  <2>3. a.nodes[n].offset <= capacity /\ a.nodes[n].size <= capacity
    <3>1. CASE n \in LiveNodes(a)
      <4>1. End(a.nodes, n) <= capacity  BY <3>1 DEF RangesInv, Whole, Tiling
      <4>2. QED  BY <2>2, <4>1 DEF End
    <3>2. CASE n \notin LiveNodes(a)
      <4>1. a.nodes[n].offset = 0 /\ a.nodes[n].size = 0  BY <3>2 DEF RangesInv, IdleNodes
      <4>2. QED  BY <2>2, <4>1
    <3>3. QED  BY <3>1, <3>2
  <2>4. a.nodes[n].offset \in 0..capacity /\ a.nodes[n].size \in 0..capacity  BY <2>2, <2>3
  <2>5. QED  BY <2>1, <2>4 DEF AnyNode, Node
<1>5. IsInjective(a.free_nodes) /\ ToSet(a.free_nodes) \subseteq NodeIndex
  <2>1. a.free_nodes \in Seq(NodeIndex)  BY <1>1 DEF Pooled
  <2>2. QED  BY <1>1, <2>1 DEF Pooled, ToSet
<1>6. QED  BY <1>2, <1>3, <1>4, <1>5 DEF RangesTypeOK, Bins

LEMMA RangesAreTiled == ASSUME NEW a, RangesInv(a) PROVE Tiled(a)
<1> DEFINE live == LiveNodes(a)
           nodes == a.nodes
<1>1. /\ nodes \in [NodeIndex -> AnyNode] /\ Tiling(nodes, live) /\ FreeApart(nodes, live)
      /\ live \in SUBSET NodeIndex /\ unused_node \notin live
      /\ \A n \in live : LinkedBack(nodes, live, n) /\ LinkedOn(nodes, live, n)
  BY UnusedIsNoNode DEF RangesInv, Whole, Ranges, Tiling
<1>2. \A n \in live : nodes[n].offset \in Nat /\ nodes[n].size \in Nat /\ nodes[n].size > 0
                      /\ End(nodes, n) = nodes[n].offset + nodes[n].size
  BY <1>1, NodeTypes DEF Tiling, End
<1> HIDE DEF nodes, live
<1>3. \E n \in live : nodes[n].offset = 0
  <2>1. 0 \in 0..(capacity - 1)  BY Constants
  <2>2. PICK n \in live : nodes[n].offset <= 0  BY <1>1, <2>1 DEF Tiling
  <2>3. QED  BY <1>2, <2>2
<1>4. ASSUME NEW n \in live
      PROVE  (nodes[n].neighbor_previous = unused_node) = (nodes[n].offset = 0)
  <2>1. LinkedBack(nodes, live, n)  BY <1>1
  <2>2. (nodes[n].neighbor_previous = unused_node) <=> (nodes[n].offset = 0)
    <3>1. CASE nodes[n].neighbor_previous = unused_node /\ nodes[n].offset = 0  BY <3>1
    <3>2. CASE /\ nodes[n].neighbor_previous \in live
               /\ End(nodes, nodes[n].neighbor_previous) = nodes[n].offset
      <4>1. nodes[n].neighbor_previous # unused_node  BY <1>1, <3>2
      <4>2. nodes[n].offset # 0  BY <1>2, <3>2
      <4>3. QED  BY <4>1, <4>2
    <3>3. QED  BY <2>1, <3>1, <3>2 DEF LinkedBack
  <2>3. QED  BY <2>2
<1>5. ASSUME NEW n \in live
      PROVE  IF nodes[n].neighbor_next = unused_node THEN nodes[n].offset + nodes[n].size = capacity
             ELSE /\ nodes[n].neighbor_next \in live
                  /\ nodes[nodes[n].neighbor_next].offset = nodes[n].offset + nodes[n].size
                  /\ nodes[nodes[n].neighbor_next].neighbor_previous = n
                  /\ nodes[n].used \/ nodes[nodes[n].neighbor_next].used
  <2> PICK next : next = nodes[n].neighbor_next  OBVIOUS
  <2>1. LinkedOn(nodes, live, n)  BY <1>1
  <2>2. CASE next = unused_node  BY <1>1, <1>2, <2>1, <2>2 DEF LinkedOn
  <2>3. CASE next # unused_node
    <3>1. next \in live /\ nodes[next].offset = End(nodes, n)  BY <2>1, <2>3 DEF LinkedOn
    <3>2. nodes[n].used \/ nodes[next].used  BY <1>1, <3>1 DEF FreeApart
    <3>3. LinkedBack(nodes, live, next)  BY <1>1, <3>1
    <3>4. nodes[next].offset # 0  BY <1>2, <3>1
    <3> PICK m : m = nodes[next].neighbor_previous  OBVIOUS
    <3>5. m \in live /\ End(nodes, m) = End(nodes, n)  BY <3>1, <3>3, <3>4 DEF LinkedBack
    <3>6. m = n  BY <1>1, <3>5, OneNodeThere
    <3>7. QED  BY <1>2, <2>3, <3>1, <3>2, <3>6
  <2>4. QED  BY <2>2, <2>3
<1>6. \A n \in live : nodes[n].size > 0  BY <1>2
<1>7. QED  BY <1>3, <1>4, <1>5, <1>6 DEF Tiled, live, nodes

LEMMA RangesAreBinned == ASSUME NEW a, RangesInv(a) PROVE Binned(a)
<1>1. a \in Ranges /\ BitmapsExact(a)  BY DEF RangesInv
<1>2. PICK stamp, clock : Listed(a, FreeOnes(a), stamp, clock)  BY DEF RangesInv
<1>3. QED  BY <1>1, <1>2, ListsAreBins
=============================================================================
