---------------------------- MODULE BpcRulesProofs ----------------------------
(***************************************************************************)
(* Facts about the operators of the rules modules, for every list of       *)
(* fields, members or variables.  The rules recurse along the list; what   *)
(* they compute is established by looking at the least position where it   *)
(* would fail.                                                             *)
(***************************************************************************)
EXTENDS BpcEnumRules, BpcLayoutRules, BpcBondRules, TLAPS, WellFoundedInduction

\* A set of naturals that is not empty has a least element.
LEMMA LeastNat ==
  ASSUME NEW T \in SUBSET Nat, T # {}
  PROVE  \E x \in T : \A y \in T : x <= y
<1>1. IsWellFoundedOn(OpToRel(<, Nat), Nat)
  BY NatLessThanWellFounded
<1>2. PICK x \in T : \A y \in T : <<y, x>> \notin OpToRel(<, Nat)
  BY <1>1, WFMin
<1>3. \A y \in T : ~(y < x)
  BY <1>2 DEF OpToRel
<1>4. T \subseteq Nat
  OBVIOUS
<1>5. \A y \in T : x <= y
  BY <1>3, <1>4
<1> QED
  BY <1>5

\* Induction over an initial segment of the naturals, the property given as
\* the set of the positions that have it.
LEMMA SegmentInduction ==
  ASSUME NEW n \in Nat, NEW Holds, 0 \in Holds,
         \A k \in 1..n : k - 1 \in Holds => k \in Holds
  PROVE  0..n \subseteq Holds
<1> DEFINE T == {k \in 0..n : k \notin Holds}
<1> SUFFICES ASSUME T # {} PROVE FALSE
  OBVIOUS
<1>1. T \in SUBSET Nat
  OBVIOUS
<1>2. PICK x \in T : \A y \in T : x <= y
  BY <1>1, LeastNat
<1>3. x \in 1..n /\ x \notin Holds
  BY <1>2
<1>4. x - 1 \in 0..n /\ ~(x <= x - 1)
  BY <1>3
<1>5. x - 1 \in Holds
  BY <1>2, <1>4
<1> QED
  BY <1>3, <1>5

\* f starts with first on 0..n and goes on with step.
Follows(f, n, first, step) ==
  /\ f[0] = first
  /\ \A k \in 1..n : f[k] = step[k][f[k - 1]]

\* Recursion along a list: a first value and a step define a function.
LEMMA SegmentRecursion ==
  ASSUME NEW n \in Nat, NEW S, NEW first \in S, NEW step \in [1..n -> [S -> S]]
  PROVE  \E f \in [0..n -> S] : Follows(f, n, first, step)
<1> DEFINE Solves(m, f) == /\ f[0] = first
                           /\ \A k \in 1..m : f[k] = step[k][f[k - 1]]
           Holds == {m \in 0..n : \E f \in [0..m -> S] : Solves(m, f)}
<1>1. 0 \in Holds
  <2>1. [k \in 0..0 |-> first] \in [0..0 -> S]
    OBVIOUS
  <2>2. Solves(0, [k \in 0..0 |-> first])
    OBVIOUS
  <2> HIDE DEF Solves
  <2>3. \E f \in [0..0 -> S] : Solves(0, f)
    BY <2>1, <2>2
  <2> QED
    BY <2>3
<1>2. ASSUME NEW m \in 1..n, m - 1 \in Holds
      PROVE  m \in Holds
  <2>1. PICK f \in [0..(m - 1) -> S] : Solves(m - 1, f)
    BY <1>2
  <2> DEFINE g == [k \in 0..m |-> IF k = m THEN step[m][f[m - 1]] ELSE f[k]]
  <2>2. m - 1 \in 0..(m - 1) /\ f[m - 1] \in S
    BY <2>1
  <2>3. step[m][f[m - 1]] \in S
    BY <2>2
  <2>4. g \in [0..m -> S]
    BY <2>1, <2>3
  <2>5. g[0] = first
    BY <2>1
  <2>6. ASSUME NEW k \in 1..m PROVE g[k] = step[k][g[k - 1]]
    <3>1. CASE k = m
      BY <3>1
    <3>2. CASE k # m
      BY <2>1, <3>2
    <3> QED
      BY <3>1, <3>2
  <2>7. Solves(m, g)
    BY <2>5, <2>6
  <2> HIDE DEF Solves, g
  <2>8. \E h \in [0..m -> S] : Solves(m, h)
    BY <2>4, <2>7
  <2> QED
    BY <2>8
<1> HIDE DEF Holds
<1>3. 0..n \subseteq Holds
  BY <1>1, <1>2, SegmentInduction
<1>4. PICK f \in [0..n -> S] : Solves(n, f)
  BY <1>3 DEF Holds
<1>5. Follows(f, n, first, step)
  BY <1>4 DEF Follows
<1> QED
  BY <1>5
-----------------------------------------------------------------------------
(* Arithmetic of uint32_t *)

Width == MaxOf["uint32"] + 1

\* The width of uint32_t is a multiple of every alignment.
LEMMA WidthFacts ==
  /\ MaxOf["uint32"] \in Nat /\ MaxOf["uint32"] >= 3
  /\ Width \in Nat /\ Width > 0 /\ Width % 4 = 0
<1>1. MaxOf["uint32"] \in Int /\ MaxOf["uint32"] > 0
  BY LimitsAssumption DEF IntegerTypes, SignedTypes, UnsignedTypes
<1>2. Width % 4 = 0
  BY LimitsAssumption DEF Width
<1> QED
  BY <1>1, <1>2 DEF Width

\* A sum that wraps around is a uint32_t.
LEMMA U32Range ==
  ASSUME NEW x \in Int
  PROVE  U32(x) \in 0..MaxOf["uint32"]
<1>1. U32(x) = x % Width
  BY DEF U32, Width
<1> QED
  BY <1>1, WidthFacts DEF Width

\* Division with remainder.
LEMMA DivMod ==
  ASSUME NEW x \in Nat, NEW w \in Nat, w > 0
  PROVE  x = w * (x \div w) + (x % w)
OBVIOUS

\* Wrapping around does not disturb alignment.
LEMMA U32KeepsAlignment ==
  ASSUME NEW x \in Nat, NEW b \in Alignments
  PROVE  U32(x) % b = x % b
<1> DEFINE q == x \div Width
           p == Width \div 4
           r == U32(x)
<1>1. q \in Nat /\ p \in Nat /\ r \in Nat
  BY WidthFacts, U32Range
<1>2. x = Width * q + r
  <2>1. r = x % Width
    BY DEF U32, Width
  <2> QED
    BY <2>1, DivMod, WidthFacts
<1>3. Width = 4 * p
  BY WidthFacts
<1> HIDE DEF q, p, r
<1>4. p * q \in Nat
  BY <1>1
<1> DEFINE n == p * q
<1>5. Width * q = 4 * n
  BY <1>1, <1>3
<1>6. n \in Nat /\ x = 4 * n + r
  BY <1>2, <1>4, <1>5
<1> HIDE DEF n
<1>7. r % b = x % b
  BY <1>1, <1>6 DEF Alignments
<1> QED
  BY <1>7 DEF r

\* The padding is less than its boundary, and ends at a multiple of it.
LEMMA PaddingFacts ==
  ASSUME NEW end \in Nat, NEW b \in Alignments
  PROVE  /\ Padding(b, end) \in 0..3
         /\ U32(end + Padding(b, end)) % b = 0
<1> DEFINE u == U32(end)
<1>1. u \in Nat /\ u % b = end % b
  BY U32Range, WidthFacts, U32KeepsAlignment
<1>2. Padding(b, end) = (b - (u % b)) % b
  BY DEF Padding
<1> HIDE DEF u
<1>3. Padding(b, end) \in 0..3 /\ (end + Padding(b, end)) % b = 0
  BY <1>1, <1>2 DEF Alignments
<1>4. end + Padding(b, end) \in Nat
  BY <1>3
<1> QED
  BY <1>3, <1>4, U32KeepsAlignment
-----------------------------------------------------------------------------
(* The layout rules *)

U32Limit == 0..MaxOf["uint32"]

\* What the layout of a list of fields rests on.
WellFormed(fields) ==
  /\ Len(fields) \in Nat
  /\ \A k \in 1..Len(fields) : /\ fields[k].size \in Nat
                               /\ fields[k].align \in Alignments
                               /\ fields[k].array.static_array_len \in Nat

\* The size of a field, array or not, is a natural number.
LEMMA RealSizeIsNat ==
  ASSUME NEW f, f.size \in Nat, f.array.static_array_len \in Nat
  PROVE  RealSize(f) \in Nat
<1>1. f.size * f.array.static_array_len \in Nat
  OBVIOUS
<1> QED
  BY <1>1, U32Range, WidthFacts DEF RealSize

\* One field: what is added is a uint32_t again, and a multiple of the boundary.
LEMMA PlaceFacts ==
  ASSUME NEW fields, WellFormed(fields), NEW unit \in Alignments,
         NEW k \in 1..Len(fields), NEW size \in Nat
  PROVE  LET end     == size + RealSize(fields[k])
             padding == Padding(Boundary(fields, unit, k), end)
         IN  /\ end \in Nat
             /\ Boundary(fields, unit, k) \in Alignments
             /\ padding \in 0..3
             /\ U32(end + padding) \in U32Limit
             /\ U32(end + padding) % Boundary(fields, unit, k) = 0
<1> DEFINE end     == size + RealSize(fields[k])
           b       == Boundary(fields, unit, k)
           padding == Padding(b, end)
<1>1. end \in Nat
  BY RealSizeIsNat DEF WellFormed
<1>2. b \in Alignments
  BY DEF Boundary, WellFormed
<1> HIDE DEF end, b
<1>3. padding \in 0..3 /\ U32(end + padding) % b = 0
  BY <1>1, <1>2, PaddingFacts
<1>4. U32(end + padding) \in U32Limit
  <2>1. end + padding \in Int
    BY <1>1, <1>3
  <2> HIDE DEF padding
  <2> QED
    BY <2>1, U32Range DEF U32Limit
<1> QED
  BY <1>1, <1>2, <1>3, <1>4 DEF end, b

\* The unit size is one of the alignments, and none is larger.
LEMMA UnitSizeFacts ==
  ASSUME NEW fields, DOMAIN fields = 1..Len(fields), WellFormed(fields)
  PROVE  /\ UnitSize(fields) \in Alignments
         /\ UnitSize(fields) \in {1} \cup {fields[k].align : k \in DOMAIN fields}
         /\ \A k \in 1..Len(fields) : fields[k].align <= UnitSize(fields)
<1> DEFINE aligns == {1} \cup {fields[k].align : k \in DOMAIN fields}
<1>1. aligns \subseteq Alignments /\ 1 \in aligns
  BY DEF WellFormed, Alignments
<1>2. \E a \in aligns : \A b \in aligns : b <= a
  <2> HIDE DEF aligns
  <2>1. CASE 4 \in aligns
    BY <1>1, <2>1 DEF Alignments
  <2>2. CASE 4 \notin aligns /\ 2 \in aligns
    BY <1>1, <2>2 DEF Alignments
  <2>3. CASE 4 \notin aligns /\ 2 \notin aligns
    BY <1>1, <2>3 DEF Alignments
  <2> QED
    BY <2>1, <2>2, <2>3
<1>3. UnitSize(fields) = CHOOSE a \in aligns : \A b \in aligns : b <= a
  BY DEF UnitSize
<1>4. \A k \in 1..Len(fields) : fields[k].align \in aligns
  OBVIOUS
<1> HIDE DEF aligns
<1>5. UnitSize(fields) \in aligns /\ \A b \in aligns : b <= UnitSize(fields)
  BY <1>2, <1>3
<1> QED
  BY <1>1, <1>4, <1>5 DEF aligns

\* SizeAfter is the running size: it starts at 0 and every field adds itself
\* and its padding, in uint32_t arithmetic.
LEMMA SizeAfterFacts ==
  ASSUME NEW fields, DOMAIN fields = 1..Len(fields), WellFormed(fields)
  PROVE  /\ SizeAfter(fields) \in [0..Len(fields) -> U32Limit]
         /\ SizeAfter(fields)[0] = 0
         /\ \A k \in 1..Len(fields) :
              LET end == SizeAfter(fields)[k - 1] + RealSize(fields[k])
              IN  SizeAfter(fields)[k] =
                    U32(end + Padding(Boundary(fields, UnitSize(fields), k), end))
<1> DEFINE n    == Len(fields)
           unit == UnitSize(fields)
           Add(k, size) ==
             LET end == size + RealSize(fields[k])
             IN  U32(end + Padding(Boundary(fields, unit, k), end))
           step == [k \in 1..n |-> [size \in U32Limit |-> Add(k, size)]]
           Rec(f) == [k \in 0..n |-> IF k = 0 THEN 0 ELSE Add(k, f[k - 1])]
<1>1. n \in Nat /\ unit \in Alignments /\ U32Limit \subseteq Nat /\ 0 \in U32Limit
  BY UnitSizeFacts, WidthFacts DEF WellFormed, U32Limit
<1>2. \A k \in 1..n, size \in U32Limit : Add(k, size) \in U32Limit
  BY <1>1, PlaceFacts
<1>3. SizeAfter(fields) = CHOOSE f : f = Rec(f)
  BY DEF SizeAfter
<1> HIDE DEF n, unit, Add
<1>4. step \in [1..n -> [U32Limit -> U32Limit]]
  BY <1>2
<1>5. PICK f \in [0..n -> U32Limit] : Follows(f, n, 0, step)
  <2> HIDE DEF step
  <2> QED
    BY <1>1, <1>4, SegmentRecursion
<1>6. \A k \in 1..n : f[k - 1] \in U32Limit /\ f[k] = Add(k, f[k - 1])
  <2> SUFFICES ASSUME NEW k \in 1..n
               PROVE  f[k - 1] \in U32Limit /\ f[k] = Add(k, f[k - 1])
    OBVIOUS
  <2>1. k - 1 \in 0..n /\ f[k - 1] \in U32Limit
    BY <1>1, <1>5
  <2>2. f[k] = step[k][f[k - 1]]
    BY <1>5 DEF Follows
  <2>3. step[k][f[k - 1]] = Add(k, f[k - 1])
    BY <2>1
  <2> QED
    BY <2>1, <2>2, <2>3
<1>7. f = Rec(f)
  BY <1>1, <1>5, <1>6 DEF Follows
<1> HIDE DEF Rec
<1>8. SizeAfter(fields) = Rec(SizeAfter(fields))
  BY <1>3, <1>7
<1> DEFINE s == SizeAfter(fields)
<1> HIDE DEF s
<1>9. s = [k \in 0..n |-> IF k = 0 THEN 0 ELSE Add(k, s[k - 1])]
  BY <1>8 DEF Rec, s
<1>10. s[0] = 0 /\ \A k \in 1..n : s[k] = Add(k, s[k - 1])
  BY <1>1, <1>9
<1>11. 0..n \subseteq {k \in 0..n : s[k] \in U32Limit}
  <2> DEFINE Holds == {k \in 0..n : s[k] \in U32Limit}
  <2>1. 0 \in Holds
    BY <1>1, <1>10
  <2>2. \A k \in 1..n : k - 1 \in Holds => k \in Holds
    <3> SUFFICES ASSUME NEW k \in 1..n, s[k - 1] \in U32Limit
                 PROVE  s[k] \in U32Limit
      BY <1>1
    <3> QED
      BY <1>2, <1>10
  <2> HIDE DEF Holds
  <2>3. 0..n \subseteq Holds
    BY <1>1, <2>1, <2>2, SegmentInduction
  <2> QED
    BY <2>3 DEF Holds
<1>12. s \in [0..n -> U32Limit]
  BY <1>9, <1>11
<1> QED
  BY <1>10, <1>12 DEF s, n, Add, unit
-----------------------------------------------------------------------------
(* The enum rules *)

\* The limits of an integer type lie around 0, at 0 for an unsigned one.
LEMMA LimitFacts ==
  \A t \in IntegerTypes : /\ MinOf[t] \in Int
                          /\ MaxOf[t] \in Int
                          /\ MinOf[t] <= 0
                          /\ 0 < MaxOf[t]
                          /\ t \in UnsignedTypes => MinOf[t] = 0
BY LimitsAssumption DEF IntegerTypes, SignedTypes, UnsignedTypes

\* The next value of a member without one stays within the type.
LEMMA SuccessorInRange ==
  ASSUME NEW t \in IntegerTypes, NEW v \in MinOf[t]..MaxOf[t]
  PROVE  Successor(v, t) \in MinOf[t]..MaxOf[t]
BY LimitFacts DEF Successor

\* A specified value that is let through fits the type.
LEMMA LegalInRange ==
  ASSUME NEW t \in IntegerTypes, NEW v \in Int, IsLegalValue(v, t)
  PROVE  v \in MinOf[t]..MaxOf[t]
BY LimitFacts DEF IsLegalValue, SuccessUint, SuccessInt

\* The value of member k when the one before it has the value prev.
ValueAfter(members, t, k, prev) ==
  IF members[k].has_specified_value THEN members[k].specified_value
  ELSE IF k = 1 THEN 0 ELSE Successor(prev, t)

\* EnumValues gives every member its value from the one before it.
LEMMA EnumValuesFacts ==
  ASSUME NEW members, Len(members) \in Nat, NEW t \in IntegerTypes,
         \A k \in 1..Len(members) : members[k].specified_value \in Int
  PROVE  /\ EnumValues(members, t) \in [1..Len(members) -> Int]
         /\ \A k \in 1..Len(members) :
              EnumValues(members, t)[k] =
                ValueAfter(members, t, k, EnumValues(members, t)[k - 1])
<1> DEFINE n == Len(members)
           At(k, prev) == ValueAfter(members, t, k, prev)
           step == [k \in 1..n |-> [prev \in Int |-> At(k, prev)]]
           Rec(f) == [k \in 1..n |-> At(k, f[k - 1])]
<1>1. EnumValues(members, t) = CHOOSE f : f = Rec(f)
  BY DEF EnumValues, ValueAfter
<1>2. \A k \in 1..n, prev \in Int : At(k, prev) \in Int
  BY LimitFacts DEF ValueAfter, Successor
<1>3. \A x, y : At(1, x) = At(1, y)
  BY DEF ValueAfter
<1>4. n \in Nat
  OBVIOUS
<1> HIDE DEF n, At
<1>5. step \in [1..n -> [Int -> Int]]
  BY <1>2
<1>6. PICK f \in [0..n -> Int] : Follows(f, n, 0, step)
  <2> DEFINE S == Int
  <2>1. 0 \in S /\ step \in [1..n -> [S -> S]]
    BY <1>5
  <2> HIDE DEF step, S
  <2>2. \E f \in [0..n -> S] : Follows(f, n, 0, step)
    BY <1>4, <2>1, SegmentRecursion
  <2> QED
    BY <2>2 DEF S
<1> DEFINE g == [k \in 1..n |-> f[k]]
<1>7. \A k \in 1..n : g[k] = At(k, g[k - 1])
  <2> SUFFICES ASSUME NEW k \in 1..n PROVE g[k] = At(k, g[k - 1])
    OBVIOUS
  <2>1. k - 1 \in 0..n /\ f[k - 1] \in Int
    BY <1>4, <1>6
  <2>2. g[k] = step[k][f[k - 1]]
    BY <1>6 DEF Follows
  <2>3. g[k] = At(k, f[k - 1])
    BY <2>1, <2>2
  <2>4. CASE k = 1
    BY <1>3, <2>3, <2>4
  <2>5. CASE k # 1
    <3>1. g[k - 1] = f[k - 1]
      BY <1>4, <2>5
    <3> QED
      BY <2>3, <3>1
  <2> QED
    BY <2>4, <2>5
<1>8. g = Rec(g)
  <2>1. Rec(g) = [k \in 1..n |-> g[k]]
    BY <1>7
  <2> QED
    BY <2>1
<1> HIDE DEF Rec
<1>9. EnumValues(members, t) = Rec(EnumValues(members, t))
  BY <1>1, <1>8
<1> DEFINE v == EnumValues(members, t)
<1> HIDE DEF v
<1>10. v = [k \in 1..n |-> At(k, v[k - 1])]
  BY <1>9 DEF Rec, v
<1>11. \A k \in 1..n : v[k] = At(k, v[k - 1])
  BY <1>10
<1>12. 0..n \subseteq {0} \cup {k \in 1..n : v[k] \in Int}
  <2> DEFINE Holds == {0} \cup {k \in 1..n : v[k] \in Int}
  <2>1. 0 \in Holds
    OBVIOUS
  <2>2. ASSUME NEW k \in 1..n, k - 1 \in Holds
        PROVE  v[k] \in Int
    <3>1. CASE k = 1
      <4>1. v[k] = At(1, 0)
        BY <1>3, <1>11, <3>1
      <4> QED
        BY <1>2, <3>1, <4>1
    <3>2. CASE k # 1
      <4>1. v[k - 1] \in Int
        BY <2>2, <3>2
      <4>2. v[k] = At(k, v[k - 1])
        BY <1>11
      <4> QED
        BY <1>2, <4>1, <4>2
    <3> QED
      BY <3>1, <3>2
  <2>3. \A k \in 1..n : k - 1 \in Holds => k \in Holds
    BY <2>2
  <2> HIDE DEF Holds
  <2>4. 0..n \subseteq Holds
    BY <1>4, <2>1, <2>3, SegmentInduction
  <2> QED
    BY <2>4 DEF Holds
<1>13. v \in [1..n -> Int]
  <2>1. \A k \in 1..n : v[k] \in Int
    BY <1>4, <1>12
  <2>2. v = [k \in 1..n |-> v[k]]
    BY <1>10
  <2> QED
    BY <2>1, <2>2
<1> QED
  BY <1>11, <1>13 DEF v, n, At

\* When no specified value is refused every member's value fits the type.
LEMMA AcceptedInRange ==
  ASSUME NEW members, Len(members) \in Nat, NEW t \in IntegerTypes,
         \A k \in 1..Len(members) : members[k].specified_value \in Int,
         EnumAccepted(members, t)
  PROVE  \A k \in 1..Len(members) :
           EnumValues(members, t)[k] \in MinOf[t]..MaxOf[t]
<1> DEFINE n == Len(members)
           v == EnumValues(members, t)
           Holds == {0} \cup {k \in 1..n : v[k] \in MinOf[t]..MaxOf[t]}
<1>1. \A k \in 1..n : v[k] = ValueAfter(members, t, k, v[k - 1])
  BY EnumValuesFacts
<1>2. ASSUME NEW k \in 1..n, k - 1 \in Holds
      PROVE  v[k] \in MinOf[t]..MaxOf[t]
  <2>1. v[k] = ValueAfter(members, t, k, v[k - 1])
    BY <1>1
  <2> HIDE DEF v
  <2>2. CASE members[k].has_specified_value
    <3>1. IsLegalValue(members[k].specified_value, t)
      BY <2>2 DEF EnumAccepted
    <3>2. members[k].specified_value \in MinOf[t]..MaxOf[t]
      BY <3>1, LegalInRange
    <3> QED
      BY <2>1, <2>2, <3>2 DEF ValueAfter
  <2>3. CASE ~members[k].has_specified_value /\ k = 1
    <3>1. v[k] = 0
      BY <2>1, <2>3 DEF ValueAfter
    <3> QED
      BY <3>1, LimitFacts
  <2>4. CASE ~members[k].has_specified_value /\ k # 1
    <3>1. v[k] = Successor(v[k - 1], t)
      BY <2>1, <2>4 DEF ValueAfter
    <3>2. v[k - 1] \in MinOf[t]..MaxOf[t]
      BY <1>2, <2>4
    <3> QED
      BY <3>1, <3>2, SuccessorInRange
  <2> QED
    BY <2>2, <2>3, <2>4
<1>3. 0 \in Holds /\ \A k \in 1..n : k - 1 \in Holds => k \in Holds
  BY <1>2
<1> HIDE DEF Holds
<1>4. 0..n \subseteq Holds
  BY <1>3, SegmentInduction
<1> QED
  BY <1>4 DEF Holds
-----------------------------------------------------------------------------
(* The rules of bonding *)

\* What a group says of the variables: a bonded one is a run that matches the
\* rules, any other one variable that does not.
SoundGroups(types, rules) ==
  {g \in [is_bonded : BOOLEAN, first : 1..Len(types), len : 1..Len(types)] :
     /\ g.first + g.len <= Len(types) + 1
     /\ g.is_bonded => \A j \in g.first..(g.first + g.len - 1) : types[j] \in rules
     /\ ~g.is_bonded => g.len = 1 /\ types[g.first] \notin rules}

\* The run from a position on.
LEMMA RunFacts ==
  ASSUME NEW T, NEW types \in Seq(T), NEW rules, NEW i \in 1..Len(types)
  PROVE  LET n == RunLength(types, rules, i)
         IN  /\ n \in 0..(Len(types) - i + 1)
             /\ \A j \in i..(i + n - 1) : types[j] \in rules
             /\ i + n > Len(types) \/ types[i + n] \notin rules
<1> DEFINE l == Len(types)
           Ends == {n \in Nat : n <= l - i + 1 /\ (i + n > l \/ types[i + n] \notin rules)}
           Is(n) == /\ \A j \in i..(i + n - 1) : types[j] \in rules
                    /\ i + n > l \/ types[i + n] \notin rules
<1>1. l \in Nat /\ i \in Nat /\ i <= l
  OBVIOUS
<1>2. RunLength(types, rules, i) = CHOOSE n \in 0..(l - i + 1) : Is(n)
  BY DEF RunLength
<1> HIDE DEF l
<1>3. l - i + 1 \in Ends /\ Ends \in SUBSET Nat
  BY <1>1
<1>4. PICK n \in Ends : \A m \in Ends : n <= m
  BY <1>3, LeastNat
<1>5. n \in 0..(l - i + 1) /\ (i + n > l \/ types[i + n] \notin rules)
  BY <1>1, <1>4
<1>6. ASSUME NEW j \in i..(i + n - 1) PROVE types[j] \in rules
  <2>1. j - i \in Nat /\ ~(n <= j - i) /\ j - i <= l - i + 1 /\ i + (j - i) = j
    BY <1>1, <1>5
  <2>2. j - i \notin Ends
    BY <1>4, <2>1
  <2> QED
    BY <2>1, <2>2
<1>7. n \in 0..(l - i + 1) /\ Is(n)
  BY <1>5, <1>6
<1> HIDE DEF Is, Ends
<1>8. LET c == CHOOSE c \in 0..(l - i + 1) : Is(c) IN c \in 0..(l - i + 1) /\ Is(c)
  BY <1>7
<1> QED
  BY <1>2, <1>8 DEF Is, l

\* One turn of the loop makes a group that starts where it stands.
LEMMA GroupAtFacts ==
  ASSUME NEW T, NEW types \in Seq(T), NEW rules, NEW i \in 1..Len(types)
  PROVE  LET g == GroupAt(types, rules, i)
         IN  g \in SoundGroups(types, rules) /\ g.first = i
<1> DEFINE n == RunLength(types, rules, i)
           l == Len(types)
           g == GroupAt(types, rules, i)
<1>1. /\ n \in 0..(l - i + 1)
      /\ \A j \in i..(i + n - 1) : types[j] \in rules
      /\ i + n > l \/ types[i + n] \notin rules
  BY RunFacts
<1>2. l \in Nat /\ i \in 1..l
  OBVIOUS
<1>3. g = IF n = 0 THEN [is_bonded |-> FALSE, first |-> i, len |-> 1]
          ELSE [is_bonded |-> TRUE, first |-> i, len |-> n]
  BY DEF GroupAt, Group
<1> HIDE DEF n, l, g
<1>4. CASE n = 0
  <2>1. g = [is_bonded |-> FALSE, first |-> i, len |-> 1]
    BY <1>3, <1>4
  <2>2. types[i] \notin rules /\ 1 \in 1..l /\ i + 1 <= l + 1
    BY <1>1, <1>2, <1>4
  <2>3. /\ g \in [is_bonded : BOOLEAN, first : 1..l, len : 1..l] /\ g.first = i
        /\ g.len = 1 /\ g.is_bonded = FALSE
    BY <1>2, <2>1, <2>2
  <2> QED
    BY <2>2, <2>3 DEF SoundGroups, g, l
<1>5. CASE n # 0
  <2>1. g = [is_bonded |-> TRUE, first |-> i, len |-> n]
    BY <1>3, <1>5
  <2>2. n \in 1..l /\ i + n <= l + 1
    BY <1>1, <1>2, <1>5
  <2>3. /\ g \in [is_bonded : BOOLEAN, first : 1..l, len : 1..l] /\ g.first = i
        /\ g.len = n /\ g.is_bonded = TRUE
    BY <1>2, <2>1, <2>2
  <2> QED
    BY <1>1, <2>2, <2>3 DEF SoundGroups, g, l
<1> QED
  BY <1>4, <1>5

\* What is left to do from each position on: its group, and then the rest.
BondsFrom(types, rules, from) ==
  /\ from \in [1..Len(types) + 1 -> Seq(SoundGroups(types, rules))]
  /\ from[Len(types) + 1] = <<>>
  /\ \A i \in 1..Len(types) :
       LET g == GroupAt(types, rules, i)
       IN  i + g.len \in (i + 1)..(Len(types) + 1) /\ from[i] = <<g>> \o from[i + g.len]

\* The loop as a recursion from the end of the list.
LEMMA BondVarsRecursion ==
  ASSUME NEW T, NEW types \in Seq(T), NEW rules
  PROVE  \E from : BondsFrom(types, rules, from) /\ BondVars(types, rules) = from[1]
<1> DEFINE l == Len(types)
           S == SoundGroups(types, rules)
           at(i) == GroupAt(types, rules, i)
           Rec(f) == [i \in 1..l + 1 |-> IF i > l THEN <<>> ELSE <<at(i)>> \o f[i + at(i).len]]
           from == CHOOSE f : f = Rec(f)
           Tables == [1..l + 1 -> Seq(S)]
           step == [k \in 1..l |-> [t \in Tables |->
                      [t EXCEPT ![l + 1 - k] = <<at(l + 1 - k)>> \o t[l + 1 - k + at(l + 1 - k).len]]]]
           none == [i \in 1..l + 1 |-> <<>>]
<1>1. BondVars(types, rules) = from[1]
  BY DEF BondVars
<1>2. l \in Nat
  OBVIOUS
<1>3. ASSUME NEW i \in 1..l
      PROVE  at(i) \in S /\ at(i).len \in Nat /\ i + at(i).len \in (i + 1)..(l + 1)
  <2>1. at(i) \in S /\ at(i).first = i
    BY GroupAtFacts
  <2>2. at(i).len \in 1..l /\ at(i).first + at(i).len <= l + 1
    <3> HIDE DEF at
    <3> QED
      BY <2>1 DEF SoundGroups
  <2> HIDE DEF at, l
  <2> QED
    BY <1>2, <2>1, <2>2
<1>4. <<>> \in Seq(S) /\ \A g \in S, s \in Seq(S) : <<g>> \o s \in Seq(S)
  OBVIOUS
<1> HIDE DEF l, S, at
<1>5. none \in Tables
  BY <1>4
<1>6. step \in [1..l -> [Tables -> Tables]]
  <2> SUFFICES ASSUME NEW k \in 1..l, NEW t \in Tables
               PROVE  [t EXCEPT ![l + 1 - k] = <<at(l + 1 - k)>> \o t[l + 1 - k + at(l + 1 - k).len]]
                        \in Tables
    OBVIOUS
  <2> DEFINE i == l + 1 - k
  <2>1. i \in 1..l
    BY <1>2
  <2> HIDE DEF i
  <2>2. i + at(i).len \in 1..l + 1 /\ at(i) \in S
    BY <1>2, <1>3, <2>1
  <2>3. <<at(i)>> \o t[i + at(i).len] \in Seq(S)
    BY <1>4, <2>2
  <2>4. [t EXCEPT ![i] = <<at(i)>> \o t[i + at(i).len]] \in Tables
    BY <2>3
  <2> QED
    BY <2>4 DEF i
<1>7. PICK u \in [0..l -> Tables] : Follows(u, l, none, step)
  <2> HIDE DEF step, none, Tables
  <2> QED
    BY <1>2, <1>5, <1>6, SegmentRecursion
<1> DEFINE Solves(t, i) == t[i] = IF i > l THEN <<>> ELSE <<at(i)>> \o t[i + at(i).len]
           Good == {k \in 0..l : \A i \in (l + 1 - k)..(l + 1) : Solves(u[k], i)}
<1>8. 0 \in Good
  <2>1. u[0] = none
    BY <1>7 DEF Follows
  <2>2. \A i \in (l + 1 - 0)..(l + 1) : i > l /\ none[i] = <<>>
    BY <1>2
  <2> HIDE DEF none
  <2> QED
    BY <1>2, <2>1, <2>2
<1>9. ASSUME NEW k \in 1..l, k - 1 \in Good PROVE k \in Good
  <2> DEFINE j == l + 1 - k
             t == u[k - 1]
             value == <<at(j)>> \o t[j + at(j).len]
  <2>1. j \in 1..l /\ k - 1 \in 0..l /\ k \in 0..l /\ t \in Tables
    BY <1>2, <1>7
  <2>2. u[k] = step[k][t]
    BY <1>7 DEF Follows
  <2>3. u[k] = [t EXCEPT ![j] = value]
    BY <2>1, <2>2
  <2>4. u[k][j] = value /\ \A i \in 1..l + 1 : i # j => u[k][i] = t[i]
    <3>1. j \in 1..l + 1
      BY <1>2, <2>1
    <3> HIDE DEF j, t, value, step
    <3> QED
      BY <2>1, <2>3, <3>1
  <2>5. \A i \in (j + 1)..(l + 1) : Solves(t, i)
    <3>1. l + 1 - (k - 1) = j + 1
      BY <1>2
    <3> HIDE DEF j, Solves
    <3> QED
      BY <1>9, <3>1
  <2> HIDE DEF t, step
  <2>6. ASSUME NEW i \in j..(l + 1) PROVE Solves(u[k], i)
    <3>0. i \in 1..l + 1 /\ j \in Nat /\ i >= j
      BY <1>2, <2>1
    <3> HIDE DEF j
    <3>1. CASE i = j
      <4>1. j + at(j).len \in (j + 1)..(l + 1) /\ ~(j > l)
        <5>1. j + at(j).len \in (j + 1)..(l + 1)
          BY <1>3, <2>1
        <5>2. ~(j > l)
          BY <1>2, <2>1
        <5> QED
          BY <5>1, <5>2
      <4>2. j + at(j).len \in 1..l + 1 /\ j + at(j).len # j
        BY <1>2, <3>0, <4>1, SMTT(60)
      <4> QED
        BY <2>4, <3>1, <4>1, <4>2
    <3>2. CASE i # j
      <4>1. i \in (j + 1)..(l + 1)
        BY <1>2, <3>0, <3>2
      <4>2. t[i] = IF i > l THEN <<>> ELSE <<at(i)>> \o t[i + at(i).len]
        BY <2>5, <4>1
      <4>3. u[k][i] = t[i]
        BY <2>4, <3>0, <3>2
      <4>4. ~(i > l) => u[k][i + at(i).len] = t[i + at(i).len]
        <5> SUFFICES ASSUME ~(i > l) PROVE u[k][i + at(i).len] = t[i + at(i).len]
          OBVIOUS
        <5>1. i \in 1..l
          BY <1>2, <3>0
        <5> DEFINE next == i + at(i).len
        <5>2. next \in (i + 1)..(l + 1)
          BY <1>3, <5>1
        <5> HIDE DEF next
        <5>3. next \in 1..l + 1 /\ next # j
          BY <1>2, <3>0, <5>2
        <5>4. i + at(i).len \in 1..l + 1 /\ i + at(i).len # j
          BY <5>3 DEF next
        <5> QED
          BY <2>4, <5>4
      <4> QED
        BY <4>2, <4>3, <4>4
    <3> QED
      BY <3>1, <3>2
  <2> HIDE DEF Solves
  <2> QED
    BY <2>1, <2>6
<1> HIDE DEF Good
<1>10. 0..l \subseteq Good
  BY <1>2, <1>8, <1>9, SegmentInduction
<1> DEFINE w == u[l]
<1>11. w \in Tables /\ \A i \in 1..l + 1 : Solves(w, i)
  <2>1. l \in 0..l /\ l \in Good /\ l + 1 - l = 1
    BY <1>2, <1>10
  <2>2. \A i \in (l + 1 - l)..(l + 1) : Solves(w, i)
    BY <2>1 DEF Good
  <2> HIDE DEF Solves
  <2> QED
    BY <1>7, <2>1, <2>2
<1>12. w = Rec(w)
  <2> HIDE DEF w
  <2> QED
    BY <1>11
<1> HIDE DEF Rec, w
<1>13. from = Rec(from)
  BY <1>12
<1> HIDE DEF from
<1>14. \A i \in 1..l + 1 : Solves(from, i)
  BY <1>13 DEF Rec
<1> DEFINE Typed == {k \in 0..l : \A i \in (l + 1 - k)..(l + 1) : from[i] \in Seq(S)}
<1>15. 0 \in Typed
  <2>1. ASSUME NEW i \in (l + 1 - 0)..(l + 1) PROVE from[i] \in Seq(S)
    <3>1. i > l /\ i \in 1..l + 1
      BY <1>2
    <3> QED
      BY <1>4, <1>14, <3>1
  <2> QED
    BY <1>2, <2>1
<1>16. ASSUME NEW k \in 1..l, k - 1 \in Typed PROVE k \in Typed
  <2> DEFINE j == l + 1 - k
  <2>1. j \in 1..l /\ k \in 0..l /\ j \in 1..l + 1 /\ ~(j > l)
    BY <1>2
  <2>2. \A i \in (j + 1)..(l + 1) : from[i] \in Seq(S)
    <3>1. l + 1 - (k - 1) = j + 1
      BY <1>2
    <3> HIDE DEF j
    <3> QED
      BY <1>16, <3>1
  <2> HIDE DEF j
  <2>3. at(j) \in S /\ j + at(j).len \in (j + 1)..(l + 1)
    BY <1>3, <2>1
  <2>4. from[j] = <<at(j)>> \o from[j + at(j).len]
    BY <1>14, <2>1
  <2>5. from[j] \in Seq(S)
    BY <1>4, <2>2, <2>3, <2>4
  <2>6. ASSUME NEW i \in j..(l + 1) PROVE from[i] \in Seq(S)
    <3>1. i = j \/ i \in (j + 1)..(l + 1)
      BY <1>2, <2>1
    <3> QED
      BY <2>2, <2>5, <3>1
  <2> QED
    BY <2>1, <2>6 DEF j
<1> HIDE DEF Typed
<1>17. 0..l \subseteq Typed
  BY <1>2, <1>15, <1>16, SegmentInduction
<1>18. \A i \in 1..l + 1 : from[i] \in Seq(S)
  <2>1. l \in Typed /\ \A i \in 1..l + 1 : i \in (l + 1 - l)..(l + 1)
    BY <1>2, <1>17
  <2> QED
    BY <2>1 DEF Typed
<1> DEFINE v == [i \in 1..l + 1 |-> from[i]]
<1>19. v \in [1..l + 1 -> Seq(S)] /\ v[1] = from[1] /\ v[l + 1] = <<>>
  <2>1. l + 1 \in 1..l + 1 /\ 1 \in 1..l + 1 /\ l + 1 > l
    BY <1>2
  <2>2. from[l + 1] = <<>>
    BY <1>14, <2>1
  <2> QED
    BY <1>18, <2>1, <2>2
<1>20. ASSUME NEW i \in 1..l
       PROVE  i + at(i).len \in (i + 1)..(l + 1) /\ v[i] = <<at(i)>> \o v[i + at(i).len]
  <2>1. i \in 1..l + 1 /\ ~(i > l)
    BY <1>2
  <2>2. i + at(i).len \in (i + 1)..(l + 1)
    BY <1>3
  <2>3. i + at(i).len \in 1..l + 1
    <3> DEFINE next == i + at(i).len
    <3>1. next \in (i + 1)..(l + 1)
      BY <2>2
    <3> HIDE DEF next
    <3>2. next \in 1..l + 1
      BY <1>2, <3>1
    <3> QED
      BY <3>2 DEF next
  <2> QED
    BY <1>14, <2>1, <2>2, <2>3
<1> HIDE DEF v
<1>21. BondsFrom(types, rules, v)
  BY <1>19, <1>20 DEF BondsFrom, S, l, at
<1> QED
  BY <1>1, <1>19, <1>21
=============================================================================
