---------------------------- MODULE BpcLoopsProofs ----------------------------
(***************************************************************************)
(* Theorems about the loops of the compiler: the enum values, for every    *)
(* list of members and every integer type, the field layout, for every     *)
(* list of fields and every width of uint32_t, and the bonding, for every  *)
(* list of variables and every set of rules.                               *)
(***************************************************************************)
EXTENDS BpcEnum, BpcLayout, BpcBond, BpcRulesProofs
-----------------------------------------------------------------------------
(* The enum values *)

\* What the loop maintains: everything given out is in range and recorded, the
\* last value given out is pending, and the next one will be checked.
EnumInv ==
  /\ EnumTypeOK
  /\ ValuesInRange
  /\ DistinctValues
  /\ SeenIsGivenOut
  /\ cursor > 1 => pending \in MinOf[bt]..MaxOf[bt]

\* Before the first member nothing has been given out.
LEMMA InitEnumInv == EnumInit => EnumInv
<1> SUFFICES ASSUME EnumInit PROVE EnumInv
  OBVIOUS
<1>1. PICK call \in Calls : members = call[1] /\ bt = call[2]
  BY DEF EnumInit
<1>2. members \in Seq(MemberSpec) /\ bt \in IntegerTypes
  BY <1>1, CallsAssumption
<1>3. cursor = 1 /\ pending = 0 /\ seen = {} /\ values = <<>> /\ outcome = "loop"
  BY DEF EnumInit
<1>4. EnumTypeOK
  BY <1>2, <1>3 DEF EnumTypeOK
<1> QED
  BY <1>3, <1>4 DEF EnumInv, ValuesInRange, DistinctValues, SeenIsGivenOut

\* Storing a value in range keeps the invariant: it is either new, or the call
\* ends without storing it.
LEMMA AssignIInv ==
  ASSUME EnumInv, cursor <= Len(members), outcome = "loop",
         NEW v \in MinOf[bt]..MaxOf[bt], Assign(v)
  PROVE  EnumInv'
<1> USE DEF EnumInv
<1>1. /\ bt \in IntegerTypes /\ bt' = bt /\ members' = members
      /\ pending' = v /\ seen' = seen \cup {v}
      /\ v \in Int /\ Len(values) = cursor - 1 /\ cursor \in Nat /\ values \in Seq(Int)
  BY LimitFacts DEF Assign, EnumTypeOK
<1>2. CASE Duplicate(v)
  <2>1. outcome' = "false" /\ cursor' = cursor /\ values' = values
    BY <1>2 DEF Assign
  <2> QED
    BY <1>1, <2>1 DEF EnumTypeOK, ValuesInRange, DistinctValues, SeenIsGivenOut
<1>3. CASE ~Duplicate(v)
  <2>1. values' = Append(values, v) /\ cursor' = cursor + 1 /\ outcome' = outcome
    BY <1>3 DEF Assign
  <2>2. /\ Len(values') = Len(values) + 1
        /\ values'[Len(values) + 1] = v
        /\ \A k \in 1..Len(values) : values'[k] = values[k]
    BY <1>1, <2>1
  <2>3. v \notin seen /\ seen = {values[k] : k \in 1..Len(values)}
    BY <1>3 DEF Duplicate, SeenIsGivenOut
  <2>4. EnumTypeOK'
    BY <1>1, <2>1, <2>2 DEF EnumTypeOK
  <2>5. ValuesInRange'
    BY <1>1, <2>2 DEF ValuesInRange
  <2>6. DistinctValues'
    BY <1>1, <2>2, <2>3 DEF DistinctValues
  <2>7. SeenIsGivenOut'
    BY <1>1, <2>2, <2>3 DEF SeenIsGivenOut
  <2> QED
    BY <1>1, <2>4, <2>5, <2>6, <2>7
<1> QED
  BY <1>2, <1>3

\* Every step of the loop keeps the values distinct and in range.
LEMMA NextEnumInv == EnumInv /\ [EnumNext]_enumVars => EnumInv'
<1> SUFFICES ASSUME EnumInv, [EnumNext]_enumVars PROVE EnumInv'
  OBVIOUS
<1>1. CASE AssignSpecified
  <2>0. members[cursor] \in MemberSpec
    BY <1>1 DEF EnumInv, EnumTypeOK, AssignSpecified
  <2>1. members[cursor].specified_value \in Int
    BY <2>0 DEF MemberSpec
  <2>2. members[cursor].specified_value \in MinOf[bt]..MaxOf[bt]
    BY <1>1, <2>1, LegalInRange DEF EnumInv, EnumTypeOK, AssignSpecified
  <2> QED
    BY <1>1, <2>2, AssignIInv DEF AssignSpecified
<1>2. CASE RejectSpecified
  BY <1>2 DEF RejectSpecified, EnumInv, EnumTypeOK, ValuesInRange, DistinctValues,
              SeenIsGivenOut
<1>3. CASE Distribute
  <2>1. bt \in IntegerTypes /\ cursor \in Nat /\ cursor >= 1
    BY DEF EnumInv, EnumTypeOK
  <2> DEFINE v == IF cursor = 1 THEN 0 ELSE Successor(pending, bt)
  <2>2. v \in MinOf[bt]..MaxOf[bt]
    BY <2>1, SuccessorInRange, LimitFacts DEF EnumInv
  <2> HIDE DEF v
  <2>3. Assign(v) /\ cursor <= Len(members) /\ outcome = "loop"
    BY <1>3 DEF Distribute, v
  <2> QED
    BY <2>2, <2>3, AssignIInv
<1>4. CASE Finish
  BY <1>4 DEF Finish, EnumInv, EnumTypeOK, ValuesInRange, DistinctValues, SeenIsGivenOut
<1>5. CASE UNCHANGED enumVars
  BY <1>5 DEF enumVars, EnumInv, EnumTypeOK, ValuesInRange, DistinctValues, SeenIsGivenOut
<1> QED
  BY <1>1, <1>2, <1>3, <1>4, <1>5 DEF EnumNext

\* Whatever members the loop is given, refused ones included, the values it
\* has given out are distinct, fit the basic type and are those it remembers
\* as seen (bpcsmtv_arrange_enum_body_value).
THEOREM EnumInvariance == EnumSpec => []EnumInv
<1>1. EnumInit => EnumInv
  BY InitEnumInv
<1>2. EnumInv /\ [EnumNext]_enumVars => EnumInv'
  BY NextEnumInv
<1> QED
  BY <1>1, <1>2, PTL DEF EnumSpec

\* No enum the compiler accepts, or is about to reject, has given one value
\* to two members (bpcsmtv_arrange_enum_body_value).
THEOREM DistinctValuesHolds == EnumSpec => []DistinctValues
BY EnumInvariance, PTL DEF EnumInv

\* Every value given out fits the enum's basic type, wrapping included.
THEOREM ValuesInRangeHolds == EnumSpec => []ValuesInRange
BY EnumInvariance, PTL DEF EnumInv

\* The hash table of used values never forgets one, nor holds one that was
\* not given out, as long as the enum is not refused.
THEOREM SeenIsGivenOutHolds == EnumSpec => []SeenIsGivenOut
BY EnumInvariance, PTL DEF EnumInv

\* The loop's state is well formed throughout.
THEOREM EnumTypeCorrect == EnumSpec => []EnumTypeOK
BY EnumInvariance, PTL DEF EnumInv
-----------------------------------------------------------------------------
(* The loop against the rules *)

\* What the loop has computed and let through so far is what the rules say,
\* and it only gives up when the rules refuse.
EnumAgrees ==
  /\ \A k \in 1..(cursor - 1) :
       /\ values[k] = EnumValues(members, bt)[k]
       /\ members[k].has_specified_value =>
            IsLegalValue(members[k].specified_value, bt)
  /\ outcome # "false" /\ cursor > 1 => pending = values[cursor - 1]
  /\ outcome = "true"  => cursor = Len(members) + 1
  /\ outcome = "false" => ~EnumAccepted(members, bt)

\* The members a run is given keep their names and specified values.
LEMMA MembersFacts ==
  ASSUME EnumTypeOK
  PROVE  /\ Len(members) \in Nat /\ bt \in IntegerTypes
         /\ cursor \in Nat /\ 1 <= cursor /\ cursor <= Len(members) + 1 /\ Len(values) = cursor - 1
         /\ \A k \in 1..Len(members) : members[k].specified_value \in Int
         /\ EnumValues(members, bt) \in [1..Len(members) -> Int]
         /\ \A k \in 1..Len(members) :
              EnumValues(members, bt)[k] =
                ValueAfter(members, bt, k, EnumValues(members, bt)[k - 1])
<1>1. /\ Len(members) \in Nat /\ bt \in IntegerTypes
      /\ cursor \in Nat /\ 1 <= cursor /\ cursor <= Len(members) + 1 /\ Len(values) = cursor - 1
      /\ \A k \in 1..Len(members) : members[k] \in MemberSpec
  BY DEF EnumTypeOK
<1>2. \A k \in 1..Len(members) : members[k].specified_value \in Int
  BY <1>1 DEF MemberSpec
<1> QED
  BY <1>1, <1>2, EnumValuesFacts

\* A member that is given a value is given the one the rules give it.
LEMMA AssignAgrees ==
  ASSUME EnumInv, EnumAgrees, outcome = "loop", cursor <= Len(members),
         members[cursor].has_specified_value =>
           IsLegalValue(members[cursor].specified_value, bt),
         NEW v, v = EnumValues(members, bt)[cursor], Assign(v)
  PROVE  EnumAgrees'
<1>1. /\ cursor \in 1..Len(members) /\ Len(values) = cursor - 1 /\ Len(members) \in Nat
      /\ values \in Seq(Int) /\ v \in Int
      /\ seen = {values[k] : k \in 1..Len(values)}
  BY MembersFacts DEF EnumInv, EnumTypeOK, SeenIsGivenOut
<1>2. members' = members /\ bt' = bt /\ pending' = v
  BY DEF Assign
<1>3. CASE Duplicate(v)
  <2>1. outcome' = "false" /\ cursor' = cursor /\ values' = values
    BY <1>3 DEF Assign
  <2>2. PICK k \in 1..(cursor - 1) : v = values[k]
    BY <1>1, <1>3 DEF Duplicate
  <2>3. k \in 1..Len(members) /\ k # cursor
    BY <1>1, <2>2
  <2>4. EnumValues(members, bt)[k] = EnumValues(members, bt)[cursor]
    BY <2>2 DEF EnumAgrees
  <2>5. ~EnumAccepted(members, bt)
    BY <1>1, <2>3, <2>4 DEF EnumAccepted
  <2> QED
    BY <1>2, <2>1, <2>5 DEF EnumAgrees
<1>4. CASE ~Duplicate(v)
  <2>1. values' = Append(values, v) /\ cursor' = cursor + 1 /\ outcome' = "loop"
    BY <1>4 DEF Assign
  <2>2. values'[cursor] = v /\ \A k \in 1..(cursor - 1) : values'[k] = values[k]
    BY <1>1, <2>1
  <2>3. \A k \in 1..cursor :
          /\ values'[k] = EnumValues(members, bt)[k]
          /\ members[k].has_specified_value =>
               IsLegalValue(members[k].specified_value, bt)
    <3> SUFFICES ASSUME NEW k \in 1..cursor
                 PROVE  /\ values'[k] = EnumValues(members, bt)[k]
                        /\ members[k].has_specified_value =>
                             IsLegalValue(members[k].specified_value, bt)
      OBVIOUS
    <3>1. CASE k = cursor
      BY <2>2, <3>1
    <3>2. CASE k # cursor
      <4>1. k \in 1..(cursor - 1)
        BY <1>1, <3>2
      <4> QED
        BY <2>2, <4>1 DEF EnumAgrees
    <3> QED
      BY <3>1, <3>2
  <2>4. cursor' - 1 = cursor
    BY <1>1, <2>1
  <2> QED
    BY <1>1, <1>2, <2>1, <2>2, <2>3, <2>4 DEF EnumAgrees
<1> QED
  BY <1>3, <1>4

\* Every step of the loop keeps in step with the rules.
LEMMA NextEnumAgrees == EnumInv /\ EnumAgrees /\ [EnumNext]_enumVars => EnumAgrees'
<1> SUFFICES ASSUME EnumInv, EnumAgrees, [EnumNext]_enumVars PROVE EnumAgrees'
  OBVIOUS
<1>1. EnumTypeOK
  BY DEF EnumInv
<1>2. CASE AssignSpecified
  <2>1. cursor \in 1..Len(members) /\ members[cursor].has_specified_value
    BY <1>1, <1>2, MembersFacts DEF AssignSpecified
  <2>2. members[cursor].specified_value = EnumValues(members, bt)[cursor]
    BY <1>1, <2>1, MembersFacts DEF ValueAfter
  <2> QED
    BY <1>2, <2>2, AssignAgrees DEF AssignSpecified
<1>3. CASE RejectSpecified
  <2>1. cursor \in 1..Len(members) /\ members[cursor].has_specified_value
        /\ ~IsLegalValue(members[cursor].specified_value, bt)
    BY <1>1, <1>3, MembersFacts DEF RejectSpecified
  <2>2. ~EnumAccepted(members, bt)
    BY <2>1 DEF EnumAccepted
  <2> QED
    BY <1>3, <2>2 DEF RejectSpecified, EnumAgrees
<1>4. CASE Distribute
  <2>1. cursor \in 1..Len(members) /\ ~members[cursor].has_specified_value /\ outcome = "loop"
    BY <1>1, <1>4, MembersFacts DEF Distribute
  <2> DEFINE v == IF cursor = 1 THEN 0 ELSE Successor(pending, bt)
  <2>2. EnumValues(members, bt)[cursor] =
          IF cursor = 1 THEN 0 ELSE Successor(EnumValues(members, bt)[cursor - 1], bt)
    BY <1>1, <2>1, MembersFacts DEF ValueAfter
  <2>3. cursor # 1 => pending = EnumValues(members, bt)[cursor - 1]
    BY <2>1 DEF EnumAgrees
  <2>4. v = EnumValues(members, bt)[cursor]
    BY <2>2, <2>3
  <2>5. Assign(v)
    BY <1>4 DEF Distribute
  <2> HIDE DEF v
  <2> QED
    BY <2>1, <2>4, <2>5, AssignAgrees
<1>5. CASE Finish
  <2>1. cursor = Len(members) + 1
    BY <1>1, <1>5, MembersFacts DEF Finish
  <2> QED
    BY <1>5, <2>1 DEF Finish, EnumAgrees
<1>6. CASE UNCHANGED enumVars
  BY <1>6 DEF enumVars, EnumAgrees
<1> QED
  BY <1>2, <1>3, <1>4, <1>5, <1>6 DEF EnumNext

\* A loop in step with the rules has, at its end, done what they say.
LEMMA AgreeIsEnough == EnumInv /\ EnumAgrees => EnumAgreesWithRules
<1> SUFFICES ASSUME EnumInv, EnumAgrees, outcome = "true"
             PROVE  /\ EnumAccepted(members, bt)
                    /\ values = EnumValues(members, bt)
  BY DEF EnumAgrees, EnumAgreesWithRules
<1>1. EnumTypeOK
  BY DEF EnumInv
<1>2. /\ cursor = Len(members) + 1 /\ Len(values) = Len(members)
      /\ Len(members) \in Nat /\ values \in Seq(Int)
  BY <1>1, MembersFacts DEF EnumAgrees, EnumTypeOK
<1>3. \A k \in 1..Len(members) :
        /\ values[k] = EnumValues(members, bt)[k]
        /\ members[k].has_specified_value =>
             IsLegalValue(members[k].specified_value, bt)
  BY <1>2 DEF EnumAgrees
<1>4. values \in [1..Len(members) -> Int]
  BY <1>2
<1>5. EnumValues(members, bt) \in [1..Len(members) -> Int]
  BY <1>1, MembersFacts
<1> DEFINE E == EnumValues(members, bt)
<1> HIDE DEF E
<1>6. values = E
  BY <1>3, <1>4, <1>5 DEF E
<1>7. EnumAccepted(members, bt)
  BY <1>2, <1>3 DEF EnumAccepted, EnumInv, DistinctValues
<1> QED
  BY <1>6, <1>7 DEF E

\* bpcsmtv_arrange_enum_body_value returns true exactly for the lists the
\* rules accept, and then has given every member the value the rules give it.
THEOREM EnumAgreesWithRulesHolds == EnumSpec => []EnumAgreesWithRules
<1>1. EnumInit => EnumAgrees
  BY DEF EnumInit, EnumAgrees
<1>2. EnumInv /\ EnumAgrees /\ [EnumNext]_enumVars => EnumAgrees'
  BY NextEnumAgrees
<1>3. EnumInv /\ EnumAgrees => EnumAgreesWithRules
  BY AgreeIsEnough
<1> QED
  BY <1>1, <1>2, <1>3, EnumInvariance, PTL DEF EnumSpec
-----------------------------------------------------------------------------
(* The values of C *)

\* C gives every member its value from the one before it.
LEMMA CValuesFacts ==
  ASSUME EnumTypeOK
  PROVE  /\ CValues = [k \in 1..Len(members) |-> CValues[k]]
         /\ \A k \in 1..Len(members) :
              CValues[k] = IF members[k].has_specified_value THEN members[k].specified_value
                           ELSE IF k = 1 THEN 0 ELSE CValues[k - 1] + 1
<1> DEFINE n == Len(members)
           At(k, prev) == IF members[k].has_specified_value THEN members[k].specified_value
                          ELSE IF k = 1 THEN 0 ELSE prev + 1
           step == [k \in 1..n |-> [prev \in Int |-> At(k, prev)]]
           Rec(f) == [k \in 1..n |-> At(k, f[k - 1])]
<1>1. CValues = CHOOSE f : f = Rec(f)
  BY DEF CValues
<1>2. n \in Nat /\ \A k \in 1..n : members[k].specified_value \in Int
  BY MembersFacts
<1>3. \A k \in 1..n, prev \in Int : At(k, prev) \in Int
  BY <1>2
<1>4. \A x, y : At(1, x) = At(1, y)
  OBVIOUS
<1> HIDE DEF n, At
<1>5. step \in [1..n -> [Int -> Int]]
  BY <1>3
<1>6. PICK f \in [0..n -> Int] : Follows(f, n, 0, step)
  <2> DEFINE S == Int
  <2>1. 0 \in S /\ step \in [1..n -> [S -> S]]
    BY <1>5
  <2> HIDE DEF step, S
  <2>2. \E f \in [0..n -> S] : Follows(f, n, 0, step)
    BY <1>2, <2>1, SegmentRecursion
  <2> QED
    BY <2>2 DEF S
<1> DEFINE g == [k \in 1..n |-> f[k]]
<1>7. \A k \in 1..n : g[k] = At(k, g[k - 1])
  <2> SUFFICES ASSUME NEW k \in 1..n PROVE g[k] = At(k, g[k - 1])
    OBVIOUS
  <2>1. k - 1 \in 0..n /\ f[k - 1] \in Int
    BY <1>2, <1>6
  <2>2. g[k] = step[k][f[k - 1]]
    BY <1>6 DEF Follows
  <2>3. g[k] = At(k, f[k - 1])
    BY <2>1, <2>2
  <2>4. CASE k = 1
    BY <1>4, <2>3, <2>4
  <2>5. CASE k # 1
    <3>1. g[k - 1] = f[k - 1]
      BY <1>2, <2>5
    <3> QED
      BY <2>3, <3>1
  <2> QED
    BY <2>4, <2>5
<1>8. g = Rec(g)
  <2>1. Rec(g) = [k \in 1..n |-> g[k]]
    BY <1>7
  <2> QED
    BY <2>1
<1> HIDE DEF Rec
<1>9. CValues = Rec(CValues)
  BY <1>1, <1>8
<1> DEFINE v == CValues
<1> HIDE DEF v
<1>10. v = [k \in 1..n |-> At(k, v[k - 1])]
  BY <1>9 DEF Rec, v
<1>11. /\ v = [k \in 1..n |-> v[k]]
       /\ \A k \in 1..n : v[k] = At(k, v[k - 1])
  BY <1>10
<1> QED
  BY <1>11 DEF v, At, n

\* As long as C stays within the type nothing wraps around, and the rules give
\* the members the values of C.
LEMMA RulesAsInC ==
  ASSUME EnumTypeOK, \A k \in 1..Len(members) : CValues[k] \in MinOf[bt]..MaxOf[bt]
  PROVE  \A k \in 1..Len(members) : EnumValues(members, bt)[k] = CValues[k]
<1> DEFINE n == Len(members)
           e == EnumValues(members, bt)
           c == CValues
           Same == {0} \cup {k \in 1..n : e[k] = c[k]}
<1>1. /\ n \in Nat /\ bt \in IntegerTypes
      /\ \A k \in 1..n : e[k] = ValueAfter(members, bt, k, e[k - 1])
  BY MembersFacts
<1>2. \A k \in 1..n : c[k] = IF members[k].has_specified_value THEN members[k].specified_value
                            ELSE IF k = 1 THEN 0 ELSE c[k - 1] + 1
  BY CValuesFacts
<1>3. MinOf[bt] \in Int /\ MaxOf[bt] \in Int
  BY <1>1, LimitFacts
<1> HIDE DEF e, c
<1>4. ASSUME NEW k \in 1..n, k - 1 \in Same PROVE e[k] = c[k]
  <2>1. CASE members[k].has_specified_value \/ k = 1
    BY <1>1, <1>2, <2>1 DEF ValueAfter
  <2>2. CASE ~members[k].has_specified_value /\ k # 1
    <3>1. k - 1 \in 1..n /\ e[k - 1] = c[k - 1]
      BY <1>1, <1>4, <2>2
    <3>2. c[k] = c[k - 1] + 1 /\ e[k] = Successor(c[k - 1], bt)
      BY <1>1, <1>2, <2>2, <3>1 DEF ValueAfter
    <3>3. c[k - 1] \in Int /\ c[k] <= MaxOf[bt]
      BY <1>3, <3>1 DEF c
    <3> QED
      BY <1>3, <3>2, <3>3 DEF Successor
  <2> QED
    BY <2>1, <2>2
<1>5. 0 \in Same /\ \A k \in 1..n : k - 1 \in Same => k \in Same
  BY <1>4
<1> HIDE DEF Same
<1>6. 0..n \subseteq Same
  BY <1>1, <1>5, SegmentInduction
<1> QED
  BY <1>1, <1>6 DEF Same, e, c

\* A specified value that fits the type is let through.
LEMMA InRangeIsLegal ==
  ASSUME NEW t \in IntegerTypes, NEW v \in MinOf[t]..MaxOf[t]
  PROVE  IsLegalValue(v, t)
<1>1. MinOf[t] \in Int /\ MaxOf[t] \in Int /\ MinOf["int64"] \in Int /\ MaxOf["int64"] \in Int
      /\ MaxOf["uint64"] \in Int /\ t \in SignedTypes \cup UnsignedTypes
  BY LimitFacts DEF IntegerTypes, SignedTypes, UnsignedTypes
<1>2. CASE t \in UnsignedTypes
  BY <1>1, <1>2, LimitsAssumption DEF IsLegalValue, SuccessUint
<1>3. CASE t \notin UnsignedTypes
  BY <1>1, <1>3, LimitsAssumption DEF IsLegalValue, SuccessInt
<1> QED
  BY <1>2, <1>3

\* Where C accepts an enum the compiler gives its members the values of C, and
\* the one thing it refuses that C does not is two members with one value
\* (docs/BpFile.md:130).
THEOREM AsInCHolds == EnumSpec => []AsInC
<1>1. EnumInv /\ EnumAgreesWithRules => AsInC
  <2> SUFFICES ASSUME EnumInv, EnumAgreesWithRules,
                      \A k \in 1..Len(members) : CValues[k] \in MinOf[bt]..MaxOf[bt]
               PROVE  /\ outcome = "true" => values = CValues
                      /\ outcome = "false" => \E j, k \in 1..Len(members) :
                                           j # k /\ CValues[j] = CValues[k]
    BY DEF AsInC
  <2>1. EnumTypeOK
    BY DEF EnumInv
  <2>2. \A k \in 1..Len(members) : EnumValues(members, bt)[k] = CValues[k]
    BY <2>1, RulesAsInC
  <2>3. ASSUME outcome = "true" PROVE values = CValues
    <3>1. values = EnumValues(members, bt)
      BY <2>3 DEF EnumAgreesWithRules
    <3>2. values = [k \in 1..Len(members) |-> values[k]]
      BY <2>1, <3>1, MembersFacts
    <3>3. CValues = [k \in 1..Len(members) |-> CValues[k]]
      BY <2>1, CValuesFacts
    <3> QED
      BY <2>2, <3>1, <3>2, <3>3
  <2>4. ASSUME outcome = "false"
        PROVE  \E j, k \in 1..Len(members) : j # k /\ CValues[j] = CValues[k]
    <3>1. ~EnumAccepted(members, bt)
      BY <2>4 DEF EnumAgreesWithRules
    <3>2. \A k \in 1..Len(members) : members[k].has_specified_value =>
             IsLegalValue(members[k].specified_value, bt)
      <4>1. \A k \in 1..Len(members) : members[k].has_specified_value =>
               members[k].specified_value \in MinOf[bt]..MaxOf[bt]
        BY <2>1, CValuesFacts
      <4> QED
        BY <2>1, <4>1, InRangeIsLegal, MembersFacts
    <3> QED
      BY <2>2, <3>1, <3>2 DEF EnumAccepted
  <2> QED
    BY <2>3, <2>4
<1> QED
  BY <1>1, EnumInvariance, EnumAgreesWithRulesHolds, PTL
-----------------------------------------------------------------------------
(* The field layout *)

(* The inductive invariant *)

UnitCoversUpTo(n) ==
  \A k \in 1..n : modifier.struct_unit_size >= fields[k].align

FixedUpTo(n) == \A k \in 1..n : fields[k].fixed

\* What each loop has established about the fields it has passed.
LoopInv ==
  /\ loop = "check" => FixedUpTo(position - 1)
  /\ loop = "decide" /\ natural => FixedUpTo(Len(fields))
  /\ loop \in {"unit", "place"} => Natural
  /\ loop = "unit" => UnitCoversUpTo(position - 1)
  /\ loop \in {"place", "done"} /\ Natural => UnitCoversUpTo(Len(fields))

LayoutInv == LayoutTypeOK /\ NaturalIsFixed /\ FieldsAligned /\ LoopInv

\* Of two alignments the larger is a multiple of the smaller.
LEMMA LargerCovers ==
  ASSUME NEW a \in Alignments, NEW b \in Alignments, a >= b
  PROVE  a % b = 0
BY DEF Alignments

\* What the type invariant says, in the form the steps below need it.
LEMMA TypeFacts ==
  ASSUME LayoutTypeOK
  PROVE  /\ position \in Nat /\ position >= 1 /\ position <= Len(fields) + 1 /\ Len(fields) \in Nat
         /\ modifier.struct_size \in Nat
         /\ modifier.struct_size <= MaxOf["uint32"]
         /\ modifier.struct_unit_size \in Alignments
         /\ \A k \in 1..Len(fields) :
              fields[k] \in FieldType /\ fields[k].align \in Alignments
         /\ DOMAIN fields = 1..Len(fields) /\ WellFormed(fields)
<1>1. /\ fields \in Seq(FieldType) /\ modifier \in ModifierType
      /\ position \in 1..(Len(fields) + 1)
  BY DEF LayoutTypeOK
<1>2. Len(fields) \in Nat /\ \A k \in 1..Len(fields) : fields[k] \in FieldType
  BY <1>1
<1>3. \A k \in 1..Len(fields) : /\ fields[k].align \in Alignments
                               /\ fields[k].size \in Nat
                               /\ fields[k].array.static_array_len \in Nat
  BY <1>2, WidthFacts DEF FieldType
<1>4. /\ modifier.struct_size \in 0..MaxOf["uint32"]
      /\ modifier.struct_unit_size \in Alignments
  BY <1>1 DEF ModifierType
<1>5. DOMAIN fields = 1..Len(fields) /\ WellFormed(fields)
  BY <1>1, <1>2, <1>3 DEF WellFormed
<1> QED
  BY <1>1, <1>2, <1>3, <1>4, <1>5, WidthFacts

\* Before the first loop no field has been placed.
LEMMA InitLayoutInv == LayoutInit => LayoutInv
<1> SUFFICES ASSUME LayoutInit PROVE LayoutInv
  OBVIOUS
<1>1. fields \in Seq(FieldType) /\ modifier \in ModifierType
  BY InputsAssumption DEF LayoutInit
<1>2. loop = "check" /\ position = 1 /\ natural = TRUE
      /\ given = [fields |-> fields, modifier |-> modifier]
  BY DEF LayoutInit
<1>3. LayoutTypeOK
  BY <1>1, <1>2 DEF LayoutTypeOK
<1> QED
  BY <1>2, <1>3
  DEF LayoutInv, NaturalIsFixed, FieldsAligned, LoopInv, FixedUpTo

\* First loop: looking at one field for a fixed size.
LEMMA CheckFieldStep == LayoutInv /\ CheckField => LayoutInv'
<1> SUFFICES ASSUME LayoutInv, CheckField PROVE LayoutInv'
  OBVIOUS
<1>1. /\ loop = "check" /\ position \in 1..Len(fields) /\ position \in Nat /\ Len(fields) \in Nat
      /\ fields' = fields /\ modifier' = modifier /\ given' = given
      /\ FixedUpTo(position - 1)
  BY TypeFacts DEF LayoutInv, CheckField, More, LoopInv
<1>2. CASE fields[position].fixed
  <2>1. position' = position + 1 /\ loop' = loop /\ natural' = natural
    BY <1>2 DEF CheckField
  <2>2. LayoutTypeOK'
    BY <1>1, <2>1 DEF LayoutInv, LayoutTypeOK
  <2>3. FixedUpTo(position - 1)'
    BY <1>1, <1>2, <2>1 DEF FixedUpTo
  <2> QED
    BY <1>1, <2>1, <2>2, <2>3 DEF LayoutInv, NaturalIsFixed, FieldsAligned, LoopInv
<1>3. CASE ~fields[position].fixed
  <2>1. position' = position /\ loop' = "decide" /\ natural' = FALSE
    BY <1>3 DEF CheckField
  <2>2. LayoutTypeOK'
    BY <1>1, <2>1 DEF LayoutInv, LayoutTypeOK
  <2> QED
    BY <1>1, <2>1, <2>2 DEF LayoutInv, NaturalIsFixed, FieldsAligned, LoopInv
<1> QED
  BY <1>2, <1>3

\* First loop: all fields have been looked at.
LEMMA CheckDoneStep == LayoutInv /\ CheckDone => LayoutInv'
<1> SUFFICES ASSUME LayoutInv, CheckDone PROVE LayoutInv'
  OBVIOUS
<1>1. /\ loop = "check" /\ loop' = "decide" /\ position = Len(fields) + 1
      /\ Len(fields) \in Nat
      /\ position' = position /\ fields' = fields /\ modifier' = modifier /\ given' = given
      /\ natural' = natural /\ FixedUpTo(position - 1)
  BY TypeFacts DEF LayoutInv, CheckDone, More, LoopInv
<1>2. LayoutTypeOK'
  BY <1>1 DEF LayoutInv, LayoutTypeOK
<1>3. FixedUpTo(Len(fields))'
  BY <1>1 DEF FixedUpTo
<1> QED
  BY <1>1, <1>2, <1>3 DEF LayoutInv, NaturalIsFixed, FieldsAligned, LoopInv

\* The choice between the two layouts.
LEMMA DecideStep == LayoutInv /\ Decide => LayoutInv'
<1> SUFFICES ASSUME LayoutInv, Decide PROVE LayoutInv'
  OBVIOUS
<1>1. /\ loop = "decide" /\ position' = 1 /\ fields' = fields /\ given' = given
      /\ natural' = natural /\ natural \in BOOLEAN /\ modifier \in ModifierType
      /\ loop' = IF ChosenNarrow THEN "done" ELSE "unit"
      /\ Len(fields) \in Nat
  BY TypeFacts DEF LayoutInv, Decide, LayoutTypeOK
<1>2. ChosenNarrow \in BOOLEAN /\ (~ChosenNarrow => natural)
  BY <1>1 DEF ChosenNarrow, ModifierType
<1>3. /\ modifier' \in ModifierType /\ modifier'.is_narrow = ChosenNarrow
      /\ ChosenNarrow => modifier'.struct_size = 1
  <2>1. modifier' = [modifier EXCEPT
                       !.has_set_field_layout = TRUE,
                       !.is_narrow = ChosenNarrow,
                       !.struct_size = IF ChosenNarrow THEN 1
                                       ELSE modifier.struct_size,
                       !.struct_unit_size = 1]
    BY DEF Decide
  <2>2. 1 \in 0..MaxOf["uint32"] /\ 1 \in Alignments
    BY WidthFacts DEF Alignments
  <2>3. modifier.struct_size \in 0..MaxOf["uint32"]
    BY <1>1 DEF ModifierType
  <2> QED
    BY <1>1, <1>2, <2>1, <2>2, <2>3 DEF ModifierType
<1>4. LayoutTypeOK'
  BY <1>1, <1>3 DEF LayoutInv, LayoutTypeOK
<1>5. natural => FixedUpTo(Len(fields))
  BY <1>1 DEF LayoutInv, LoopInv
<1>6. Natural' => CanBeNatural(fields)'
  BY <1>1, <1>2, <1>3, <1>5 DEF Natural, CanBeNatural, FixedUpTo, LayoutInv, LayoutTypeOK
<1>7. NaturalIsFixed'
  BY <1>6 DEF NaturalIsFixed
<1>8. FieldsAligned'
  BY <1>1, <1>3 DEF FieldsAligned
<1>9. LoopInv'
  BY <1>1, <1>3 DEF LoopInv, Natural, UnitCoversUpTo
<1> QED
  BY <1>4, <1>7, <1>8, <1>9 DEF LayoutInv

\* Second loop: the unit size takes in one more field.
LEMMA GrowUnitStep == LayoutInv /\ GrowUnit => LayoutInv'
<1> SUFFICES ASSUME LayoutInv, GrowUnit PROVE LayoutInv'
  OBVIOUS
<1>1. /\ loop = "unit" /\ loop' = "unit" /\ position \in 1..Len(fields) /\ position \in Nat
      /\ position' = position + 1 /\ fields' = fields /\ given' = given /\ natural' = natural
      /\ Len(fields) \in Nat /\ modifier \in ModifierType
      /\ Natural /\ UnitCoversUpTo(position - 1) /\ CanBeNatural(fields)
  BY TypeFacts DEF LayoutInv, GrowUnit, More, LoopInv, LayoutTypeOK, NaturalIsFixed
<1> DEFINE u == modifier.struct_unit_size
<1>2. u \in Alignments /\ fields[position].align \in Alignments
      /\ \A k \in 1..Len(fields) : fields[k].align \in Alignments
  BY <1>1, TypeFacts DEF LayoutInv
<1>3. /\ modifier' = [modifier EXCEPT !.struct_unit_size = Larger(u, fields[position].align)]
      /\ Larger(u, fields[position].align) \in Alignments
  BY <1>2 DEF GrowUnit, Larger
<1>4. /\ modifier' \in ModifierType /\ modifier'.is_narrow = modifier.is_narrow
      /\ modifier'.struct_unit_size = Larger(u, fields[position].align)
  BY <1>1, <1>3 DEF ModifierType
<1>5. LayoutTypeOK'
  BY <1>1, <1>4 DEF LayoutInv, LayoutTypeOK
<1>6. Larger(u, fields[position].align) >= u /\ Larger(u, fields[position].align) >= fields[position].align
  BY <1>2 DEF Larger, Alignments
<1>7. UnitCoversUpTo(position - 1)'
  <2> SUFFICES ASSUME NEW k \in 1..position
               PROVE  Larger(u, fields[position].align) >= fields[k].align
    BY <1>1, <1>4 DEF UnitCoversUpTo
  <2>1. CASE k = position
    BY <2>1, <1>6
  <2>2. CASE k < position
    <3>1. u >= fields[k].align /\ fields[k].align \in Alignments
      BY <1>1, <1>2, <2>2 DEF UnitCoversUpTo
    <3> HIDE DEF u
    <3> QED
      BY <1>2, <1>3, <1>6, <3>1 DEF Alignments
  <2> QED
    BY <1>1, <2>1, <2>2
<1> QED
  BY <1>1, <1>4, <1>5, <1>7
  DEF LayoutInv, NaturalIsFixed, FieldsAligned, LoopInv, Natural

\* Second loop: all fields have been taken in.
LEMMA UnitDoneStep == LayoutInv /\ UnitDone => LayoutInv'
<1> SUFFICES ASSUME LayoutInv, UnitDone PROVE LayoutInv'
  OBVIOUS
<1>1. /\ loop = "unit" /\ loop' = "place" /\ position = Len(fields) + 1 /\ position' = 1
      /\ fields' = fields /\ given' = given /\ natural' = natural
      /\ Len(fields) \in Nat /\ modifier \in ModifierType
      /\ Natural /\ UnitCoversUpTo(position - 1) /\ CanBeNatural(fields)
  BY TypeFacts DEF LayoutInv, UnitDone, More, LoopInv, LayoutTypeOK, NaturalIsFixed
<1>2. /\ modifier' \in ModifierType /\ modifier'.is_narrow = modifier.is_narrow
      /\ modifier'.struct_unit_size = modifier.struct_unit_size
      /\ modifier'.struct_size = 0
  BY <1>1, WidthFacts DEF UnitDone, ModifierType
<1>3. LayoutTypeOK'
  BY <1>1, <1>2 DEF LayoutInv, LayoutTypeOK
<1>4. UnitCoversUpTo(Len(fields))'
  BY <1>1, <1>2 DEF UnitCoversUpTo
<1>5. FieldsAligned'
  <2>1. \A a \in Alignments : 0 % a = 0
    BY DEF Alignments
  <2>2. /\ modifier'.struct_unit_size \in Alignments
        /\ \A k \in 1..Len(fields) : fields'[k].align \in Alignments
    BY <1>1, <1>2, TypeFacts DEF LayoutInv
  <2> QED
    BY <1>1, <1>2, <2>1, <2>2 DEF FieldsAligned, More
<1> QED
  BY <1>1, <1>2, <1>3, <1>4, <1>5
  DEF LayoutInv, NaturalIsFixed, LoopInv, Natural

\* Third loop: one field is placed, its padding set.
LEMMA PlaceFieldStep == LayoutInv /\ PlaceField => LayoutInv'
<1> SUFFICES ASSUME LayoutInv, PlaceField PROVE LayoutInv'
  OBVIOUS
<1>1. /\ loop = "place" /\ loop' = "place" /\ position \in 1..Len(fields) /\ position \in Nat
      /\ position' = position + 1 /\ given' = given /\ natural' = natural
      /\ Len(fields) \in Nat /\ modifier \in ModifierType
      /\ fields \in Seq(FieldType) /\ Len(fields) = Len(given.fields)
      /\ Natural /\ UnitCoversUpTo(Len(fields)) /\ CanBeNatural(fields)
  BY TypeFacts DEF LayoutInv, PlaceField, More, LoopInv, LayoutTypeOK, NaturalIsFixed
<1> DEFINE unit    == modifier.struct_unit_size
           end     == modifier.struct_size + RealSize(fields[position])
           b       == Boundary(fields, unit, position)
           padding == Padding(b, end)
<1>2. /\ fields' = [fields EXCEPT ![position].pad = Aligned(fields[position].pad, padding)]
      /\ modifier' = [modifier EXCEPT !.struct_size = U32(end + padding)]
  BY DEF PlaceField
<1>3. /\ end \in Nat /\ unit \in Alignments
      /\ \A k \in 1..Len(fields) :
           fields[k] \in FieldType /\ fields[k].align \in Alignments
  <2>1. modifier.struct_size \in Nat /\ unit \in Alignments /\ WellFormed(fields)
    BY TypeFacts DEF LayoutInv
  <2>2. RealSize(fields[position]) \in Nat
    BY <1>1, <2>1, RealSizeIsNat DEF WellFormed
  <2> QED
    BY <2>1, <2>2, TypeFacts DEF LayoutInv
<1>4. b \in Alignments /\ padding \in 0..3
      /\ U32(end + padding) \in U32Limit /\ U32(end + padding) % b = 0
  <2>1. modifier.struct_size \in Nat /\ unit \in Alignments /\ WellFormed(fields)
    BY TypeFacts DEF LayoutInv
  <2> QED
    BY <1>1, <2>1, PlaceFacts
<1> HIDE DEF unit, end, b, padding
<1>5. padding \in 0..3 /\ U32(end + padding) % b = 0
  BY <1>4
<1>6. U32(end + padding) \in 0..MaxOf["uint32"]
  BY <1>4 DEF U32Limit
<1>7. /\ modifier' \in ModifierType /\ modifier'.is_narrow = modifier.is_narrow
      /\ modifier'.struct_unit_size = modifier.struct_unit_size
      /\ modifier'.struct_size = U32(end + padding)
  BY <1>1, <1>2, <1>6 DEF ModifierType
<1>8. Aligned(fields[position].pad, padding)
        \in [use_align : BOOLEAN, padding_size : 0..MaxOf["uint32"]]
  <2>1. fields[position].pad \in [use_align : BOOLEAN, padding_size : 0..MaxOf["uint32"]]
    BY <1>1, <1>3 DEF FieldType
  <2>2. padding \in 0..MaxOf["uint32"]
    BY <1>5, WidthFacts
  <2> QED
    BY <2>1, <2>2 DEF Aligned
<1>9. /\ fields' \in Seq(FieldType) /\ Len(fields') = Len(fields)
      /\ \A k \in 1..Len(fields) : /\ fields'[k].align = fields[k].align
                                   /\ fields'[k].fixed = fields[k].fixed
  <2>1. [fields[position] EXCEPT !.pad = Aligned(fields[position].pad, padding)] \in FieldType
    BY <1>1, <1>3, <1>8 DEF FieldType
  <2>2. fields' = [fields EXCEPT ![position] =
                     [fields[position] EXCEPT !.pad = Aligned(fields[position].pad, padding)]]
    BY <1>2
  <2> DEFINE f == [fields[position] EXCEPT !.pad = Aligned(fields[position].pad, padding)]
  <2>3. f.align = fields[position].align /\ f.fixed = fields[position].fixed
    BY <1>1, <1>3 DEF FieldType
  <2> HIDE DEF f
  <2>4. f \in FieldType /\ fields' = [fields EXCEPT ![position] = f]
    BY <2>1, <2>2 DEF f
  <2> QED
    BY <1>1, <2>3, <2>4
<1>10. LayoutTypeOK'
  BY <1>1, <1>7, <1>9 DEF LayoutInv, LayoutTypeOK
<1>11. FieldsAligned'
  <2>1. CASE position < Len(fields)
    <3>1. b = fields[position + 1].align
      BY <1>1, <2>1 DEF b, Boundary
    <3> QED
      BY <1>1, <1>5, <1>7, <1>9, <2>1, <3>1 DEF FieldsAligned, More
  <2>2. CASE position = Len(fields)
    <3>1. b = modifier.struct_unit_size
      BY <2>2 DEF b, Boundary, unit
    <3> QED
      BY <1>1, <1>5, <1>7, <1>9, <2>2, <3>1 DEF FieldsAligned, More
  <2> QED
    BY <1>1, <2>1, <2>2
<1>12. CanBeNatural(fields)'
  BY <1>1, <1>9 DEF CanBeNatural
<1>13. UnitCoversUpTo(Len(fields))'
  BY <1>1, <1>7, <1>9 DEF UnitCoversUpTo
<1> QED
  BY <1>1, <1>7, <1>10, <1>11, <1>12, <1>13
  DEF LayoutInv, NaturalIsFixed, LoopInv, Natural

\* After the third loop: the size is rounded up to the unit.
LEMMA CorrectSizeStep == LayoutInv /\ CorrectSize => LayoutInv'
<1> SUFFICES ASSUME LayoutInv, CorrectSize PROVE LayoutInv'
  OBVIOUS
<1>1. /\ loop = "place" /\ loop' = "done" /\ ~More
      /\ position' = position /\ fields' = fields /\ given' = given /\ natural' = natural
      /\ modifier \in ModifierType
      /\ Natural /\ UnitCoversUpTo(Len(fields)) /\ CanBeNatural(fields)
      /\ modifier.struct_size % modifier.struct_unit_size = 0
  BY DEF LayoutInv, CorrectSize, LoopInv, LayoutTypeOK, NaturalIsFixed, FieldsAligned
<1>2. /\ modifier' \in ModifierType /\ modifier'.is_narrow = modifier.is_narrow
      /\ modifier'.struct_unit_size = modifier.struct_unit_size
      /\ modifier'.struct_size = IF modifier.struct_size = 0 THEN 1
                                                            ELSE modifier.struct_size
      /\ modifier'.struct_size > 0
  BY <1>1, WidthFacts DEF CorrectSize, Corrected, ModifierType
<1>3. LayoutTypeOK'
  BY <1>1, <1>2 DEF LayoutInv, LayoutTypeOK
<1>4. FieldsAligned'
  BY <1>1, <1>2 DEF FieldsAligned
<1>5. UnitCoversUpTo(Len(fields))'
  BY <1>1, <1>2 DEF UnitCoversUpTo
<1> QED
  BY <1>1, <1>2, <1>3, <1>4, <1>5
  DEF LayoutInv, NaturalIsFixed, LoopInv, Natural

\* Every step of the three loops keeps the invariant.
LEMMA NextLayoutInv == LayoutInv /\ [LayoutNext]_layoutVars => LayoutInv'
<1> SUFFICES ASSUME LayoutInv, [LayoutNext]_layoutVars PROVE LayoutInv'
  OBVIOUS
<1>1. CASE UNCHANGED layoutVars
  BY <1>1 DEF layoutVars, LayoutInv, LayoutTypeOK, NaturalIsFixed, FieldsAligned, LoopInv, Natural,
              More, FixedUpTo, UnitCoversUpTo
<1> QED
  BY <1>1, CheckFieldStep, CheckDoneStep, DecideStep, GrowUnitStep, UnitDoneStep,
     PlaceFieldStep, CorrectSizeStep DEF LayoutNext

\* Through the three loops of bpcsmtv_setup_field_layout the size so far is a
\* uint32_t, the placed fields are aligned and the unit size is a multiple of
\* the alignment of every field it has taken in.
THEOREM LayoutInvariance == LayoutSpec => []LayoutInv
<1>1. LayoutInit => LayoutInv
  BY InitLayoutInv
<1>2. LayoutInv /\ [LayoutNext]_layoutVars => LayoutInv'
  BY NextLayoutInv
<1> QED
  BY <1>1, <1>2, PTL DEF LayoutSpec

\* The layout function never computes a size outside uint32_t, nor the size 0.
THEOREM LayoutTypeCorrect == LayoutSpec => []LayoutTypeOK
BY LayoutInvariance, PTL DEF LayoutInv

\* bpcsmtv_setup_field_layout starts every field of a natural struct at a
\* multiple of its alignment, whatever the sizes and however they wrap around.
THEOREM FieldsAlignedHolds == LayoutSpec => []FieldsAligned
BY LayoutInvariance, PTL DEF LayoutInv

\* No struct laid out naturally has a field without a fixed size.
THEOREM NaturalIsFixedHolds == LayoutSpec => []NaturalIsFixed
BY LayoutInvariance, PTL DEF LayoutInv

\* The unit size computed by the second loop is a multiple of every alignment.
THEOREM UnitCoversFieldsHolds == LayoutSpec => []UnitCoversFields
<1>1. LayoutInv => UnitCoversFields
  <2> SUFFICES ASSUME LayoutInv, loop \in {"place", "done"}, Natural,
                      NEW k \in 1..Len(fields)
               PROVE  modifier.struct_unit_size % fields[k].align = 0
    BY DEF UnitCoversFields
  <2>1. modifier.struct_unit_size >= fields[k].align
    BY DEF LayoutInv, LoopInv, UnitCoversUpTo
  <2>2. modifier.struct_unit_size \in Alignments /\ fields[k].align \in Alignments
    BY TypeFacts DEF LayoutInv
  <2> QED
    BY <2>1, <2>2, LargerCovers
<1> QED
  BY <1>1, LayoutInvariance, PTL
-----------------------------------------------------------------------------
(* The loops against the rules *)

G == given.fields
M == given.modifier

Placed(k) == [G[k] EXCEPT !.pad = Aligned(G[k].pad, PaddingAfter(G, k))]

\* What the loops have computed so far is what the rules say of the arguments
\* of the call, and what they have not come to yet is untouched.
LayoutAgrees ==
  /\ loop \in {"check", "decide", "unit"} => fields = G
  /\ loop \in {"check", "decide"} => modifier = M
  /\ loop = "check" => natural
  /\ loop = "decide" => natural = CanBeNatural(G)
  /\ loop \in {"unit", "place"} => ~IsNarrow(G, M) /\ modifier.has_set_field_layout
  /\ loop = "unit" => modifier.struct_unit_size
                      \in {1} \cup {G[k].align : k \in 1..(position - 1)}
  /\ loop = "place" =>
       /\ modifier.struct_unit_size = UnitSize(G)
       /\ modifier.struct_size = SizeAfter(G)[position - 1]
       /\ \A k \in 1..Len(fields) : fields[k] = IF k < position THEN Placed(k) ELSE G[k]
  /\ LayoutAgreesWithRules

\* The fields a run is given are the ones the rules are applied to.
LEMMA GivenFacts ==
  ASSUME LayoutTypeOK
  PROVE  /\ G \in Seq(FieldType) /\ M \in ModifierType
         /\ Len(G) \in Nat /\ Len(G) = Len(fields)
         /\ DOMAIN G = 1..Len(G) /\ WellFormed(G)
         /\ \A k \in 1..Len(G) : G[k] \in FieldType
<1>1. G \in Seq(FieldType) /\ M \in ModifierType /\ Len(G) = Len(fields)
  BY DEF LayoutTypeOK, G, M
<1>2. /\ Len(G) \in Nat /\ DOMAIN G = 1..Len(G)
      /\ \A k \in 1..Len(G) : G[k] \in FieldType
  BY <1>1
<1>3. \A k \in 1..Len(G) : /\ G[k].align \in Alignments
                           /\ G[k].size \in Nat
                           /\ G[k].array.static_array_len \in Nat
  BY <1>2, WidthFacts DEF FieldType
<1> QED
  BY <1>1, <1>2, <1>3 DEF WellFormed

\* Before the first loop the machine is in step with the rules.
LEMMA InitAgrees == LayoutInit => LayoutAgrees
BY DEF LayoutInit, LayoutAgrees, LayoutAgreesWithRules, G, M

\* First loop: in step with NaturalLegal.
LEMMA CheckAgrees ==
  ASSUME LayoutInv, LayoutAgrees, CheckField \/ CheckDone
  PROVE  LayoutAgrees'
<1>1. LayoutTypeOK /\ LoopInv
  BY DEF LayoutInv
<1>2. /\ loop = "check" /\ fields = G /\ modifier = M /\ natural
      /\ fields' = fields /\ modifier' = modifier /\ G' = G /\ M' = M
  BY DEF LayoutAgrees, CheckField, CheckDone, G, M
<1>3. CASE CheckDone
  <2>1. loop' = "decide" /\ natural' = natural /\ position = Len(G) + 1 /\ FixedUpTo(position - 1)
    BY <1>1, <1>2, <1>3, TypeFacts, GivenFacts DEF CheckDone, More, LoopInv
  <2>2. CanBeNatural(G)
    BY <1>1, <1>2, <2>1, GivenFacts DEF CanBeNatural, FixedUpTo
  <2> QED
    BY <1>2, <2>1, <2>2 DEF LayoutAgrees, LayoutAgreesWithRules
<1>4. CASE CheckField /\ fields[position].fixed
  BY <1>2, <1>4 DEF CheckField, LayoutAgrees, LayoutAgreesWithRules
<1>5. CASE CheckField /\ ~fields[position].fixed
  <2>1. loop' = "decide" /\ natural' = FALSE /\ position \in 1..Len(G)
    BY <1>1, <1>2, <1>5, TypeFacts, GivenFacts DEF CheckField, More
  <2>2. CanBeNatural(G) = FALSE
    BY <1>1, <1>2, <1>5, <2>1, GivenFacts DEF CanBeNatural
  <2> QED
    BY <1>2, <2>1, <2>2 DEF LayoutAgrees, LayoutAgreesWithRules
<1> QED
  BY <1>3, <1>4, <1>5

\* The choice between the layouts is the one the rules make.
LEMMA DecideAgrees ==
  ASSUME LayoutInv, LayoutAgrees, Decide
  PROVE  LayoutAgrees'
<1>1. /\ loop = "decide" /\ fields = G /\ modifier = M /\ natural = CanBeNatural(G)
      /\ fields' = fields /\ G' = G /\ M' = M /\ position' = 1
      /\ loop' = IF ChosenNarrow THEN "done" ELSE "unit"
  BY DEF LayoutAgrees, Decide, G, M
<1>2. M \in ModifierType /\ Len(G) \in Nat /\ G \in Seq(FieldType)
      /\ \A k \in 1..Len(G) : G[k] \in FieldType
  BY GivenFacts DEF LayoutInv
<1>3. ChosenNarrow = IsNarrow(G, M)
  BY <1>1 DEF ChosenNarrow, IsNarrow
<1>4. modifier' = [M EXCEPT !.has_set_field_layout = TRUE,
                            !.is_narrow = ChosenNarrow,
                            !.struct_size = IF ChosenNarrow THEN 1 ELSE M.struct_size,
                            !.struct_unit_size = 1]
  BY <1>1 DEF Decide
<1>5. CASE ~ChosenNarrow
  BY <1>1, <1>2, <1>3, <1>4, <1>5 DEF LayoutAgrees, LayoutAgreesWithRules, ModifierType
<1>6. CASE ChosenNarrow
  <2>1. modifier' = SetupModifier(G, M)
    BY <1>2, <1>3, <1>4, <1>6 DEF SetupModifier, ModifierType
  <2>2. \A k \in 1..Len(G) : G[k] = [G[k] EXCEPT !.pad = SetupPad(G, M, k)]
    BY <1>2, <1>3, <1>6 DEF SetupPad, FieldType
  <2>3. LayoutAgreesWithRules'
    BY <1>1, <2>1, <2>2 DEF LayoutAgreesWithRules, G, M
  <2>4. loop' = "done"
    BY <1>1, <1>6
  <2> QED
    BY <2>3, <2>4 DEF LayoutAgrees
<1> QED
  BY <1>5, <1>6

\* Second loop: in step with the unit size of the rules.
LEMMA GrowUnitAgrees ==
  ASSUME LayoutInv, LayoutAgrees, GrowUnit
  PROVE  LayoutAgrees'
<1>1. /\ loop = "unit" /\ loop' = "unit" /\ fields = G /\ ~IsNarrow(G, M)
      /\ modifier.has_set_field_layout
      /\ fields' = fields /\ G' = G /\ M' = M /\ position' = position + 1
  BY DEF LayoutAgrees, GrowUnit, G, M
<1>2. /\ position \in 1..Len(G) /\ Len(G) \in Nat /\ modifier \in ModifierType
  BY TypeFacts, GivenFacts DEF LayoutInv, GrowUnit, More, LayoutTypeOK
<1> DEFINE u == modifier.struct_unit_size
           above(n) == {1} \cup {G[k].align : k \in 1..n}
<1>3. u \in above(position - 1)
  BY <1>1 DEF LayoutAgrees
<1>4. Larger(u, G[position].align) \in above(position)
  BY <1>2, <1>3 DEF Larger
<1>5. modifier' = [modifier EXCEPT !.struct_unit_size = Larger(u, G[position].align)]
  BY <1>1 DEF GrowUnit
<1>6. /\ modifier'.struct_unit_size \in above(position) /\ position' - 1 = position
      /\ modifier'.has_set_field_layout
  BY <1>1, <1>2, <1>4, <1>5 DEF ModifierType
<1> QED
  BY <1>1, <1>6 DEF LayoutAgrees, LayoutAgreesWithRules

\* Second loop done: the unit size is that of the rules.
LEMMA UnitDoneAgrees ==
  ASSUME LayoutInv, LayoutAgrees, UnitDone
  PROVE  LayoutAgrees'
<1>1. /\ loop = "unit" /\ loop' = "place" /\ fields = G /\ ~IsNarrow(G, M)
      /\ modifier.has_set_field_layout
      /\ fields' = fields /\ G' = G /\ M' = M /\ position' = 1
      /\ modifier' = [modifier EXCEPT !.struct_size = 0]
  BY DEF LayoutAgrees, UnitDone, G, M
<1>2. /\ position = Len(G) + 1 /\ Len(G) \in Nat /\ modifier \in ModifierType
      /\ DOMAIN G = 1..Len(G) /\ WellFormed(G)
  BY TypeFacts, GivenFacts DEF LayoutInv, UnitDone, More, LayoutTypeOK
<1> DEFINE u == modifier.struct_unit_size
           aligns == {1} \cup {G[k].align : k \in DOMAIN G}
<1>3. u \in aligns
  BY <1>1, <1>2 DEF LayoutAgrees
<1>4. UnitCoversUpTo(Len(G)) /\ u \in Alignments
  BY <1>1, <1>2, TypeFacts DEF LayoutInv, LoopInv
<1>5. \A a \in aligns : u >= a
  <2>1. u >= 1
    BY <1>4 DEF Alignments
  <2>2. \A k \in 1..Len(G) : u >= G[k].align
    BY <1>1, <1>4 DEF UnitCoversUpTo
  <2> QED
    BY <1>2, <2>1, <2>2
<1>6. /\ UnitSize(G) \in Alignments /\ UnitSize(G) \in aligns
      /\ \A a \in aligns : a <= UnitSize(G)
  <2>1. /\ UnitSize(G) \in Alignments /\ UnitSize(G) \in aligns
        /\ \A k \in 1..Len(G) : G[k].align <= UnitSize(G)
    BY <1>2, UnitSizeFacts
  <2>2. 1 <= UnitSize(G)
    BY <2>1 DEF Alignments
  <2> QED
    BY <1>2, <2>1, <2>2
<1> HIDE DEF aligns, u
<1>7. u = UnitSize(G)
  <2>1. u >= UnitSize(G) /\ u <= UnitSize(G)
    BY <1>3, <1>5, <1>6
  <2> QED
    BY <1>4, <1>6, <2>1 DEF Alignments
<1>8. /\ modifier'.struct_unit_size = UnitSize(G) /\ modifier'.struct_size = 0
      /\ modifier'.has_set_field_layout
  BY <1>1, <1>2, <1>7 DEF u, ModifierType
<1>9. SizeAfter(G)[0] = 0
  BY <1>2, SizeAfterFacts
<1>10. \A k \in 1..Len(fields') : ~(k < 1) /\ fields'[k] = G[k]
  BY <1>1
<1> QED
  BY <1>1, <1>8, <1>9, <1>10 DEF LayoutAgrees, LayoutAgreesWithRules

\* Third loop: size and padding so far are those of the rules.
LEMMA PlaceFieldAgrees ==
  ASSUME LayoutInv, LayoutAgrees, PlaceField
  PROVE  LayoutAgrees'
<1>1. /\ loop = "place" /\ loop' = "place" /\ ~IsNarrow(G, M)
      /\ modifier.has_set_field_layout
      /\ modifier.struct_unit_size = UnitSize(G)
      /\ modifier.struct_size = SizeAfter(G)[position - 1]
      /\ \A k \in 1..Len(fields) : fields[k] = IF k < position THEN Placed(k) ELSE G[k]
      /\ G' = G /\ M' = M /\ position' = position + 1
  BY DEF LayoutAgrees, PlaceField, G, M
<1>2. /\ position \in 1..Len(G) /\ Len(G) \in Nat /\ Len(fields) = Len(G) /\ position \in Nat
      /\ modifier \in ModifierType /\ fields \in Seq(FieldType)
      /\ DOMAIN G = 1..Len(G) /\ WellFormed(G)
      /\ \A k \in 1..Len(G) : G[k] \in FieldType
  BY TypeFacts, GivenFacts DEF LayoutInv, PlaceField, More, LayoutTypeOK
<1> DEFINE end     == SizeAfter(G)[position - 1] + RealSize(G[position])
           padding == Padding(Boundary(G, UnitSize(G), position), end)
<1>3. fields[position] = G[position] /\ (position < Len(G) => fields[position + 1] = G[position + 1])
  BY <1>1, <1>2
<1>4. Boundary(fields, UnitSize(G), position) = Boundary(G, UnitSize(G), position)
  BY <1>2, <1>3 DEF Boundary
<1>5. /\ fields' = [fields EXCEPT ![position].pad = Aligned(fields[position].pad, padding)]
      /\ modifier' = [modifier EXCEPT !.struct_size = U32(end + padding)]
  BY <1>1, <1>3, <1>4 DEF PlaceField
<1>6. U32(end + padding) = SizeAfter(G)[position]
  BY <1>2, SizeAfterFacts
<1>7. padding = PaddingAfter(G, position)
  BY DEF PaddingAfter
<1> HIDE DEF end, padding
<1>8. fields'[position] = Placed(position)
  BY <1>2, <1>3, <1>5, <1>7 DEF Placed
<1>9. Len(fields') = Len(fields) /\ \A k \in 1..Len(fields) : k # position => fields'[k] = fields[k]
  BY <1>2, <1>5
<1>10. \A k \in 1..Len(fields') : fields'[k] = IF k < position + 1 THEN Placed(k) ELSE G[k]
  <2> SUFFICES ASSUME NEW k \in 1..Len(fields)
               PROVE  fields'[k] = IF k < position + 1 THEN Placed(k) ELSE G[k]
    BY <1>9
  <2>1. CASE k = position
    BY <1>2, <1>8, <2>1
  <2>2. CASE k # position
    BY <1>1, <1>2, <1>9, <2>2
  <2> QED
    BY <2>1, <2>2
<1>11. /\ modifier'.struct_unit_size = UnitSize(G) /\ position' - 1 = position
       /\ modifier'.struct_size = SizeAfter(G)[position]
       /\ modifier'.has_set_field_layout
  BY <1>1, <1>2, <1>5, <1>6 DEF ModifierType
<1>12. \A k : Placed(k)' = Placed(k)
  BY <1>1 DEF Placed
<1> QED
  BY <1>1, <1>10, <1>11, <1>12 DEF LayoutAgrees, LayoutAgreesWithRules

\* The final size is that of the rules.
LEMMA CorrectSizeAgrees ==
  ASSUME LayoutInv, LayoutAgrees, CorrectSize
  PROVE  LayoutAgrees'
<1>1. /\ loop = "place" /\ loop' = "done" /\ ~IsNarrow(G, M) /\ G' = G /\ M' = M
      /\ modifier.has_set_field_layout
      /\ modifier.struct_unit_size = UnitSize(G)
      /\ modifier.struct_size = SizeAfter(G)[position - 1]
      /\ fields' = fields
      /\ modifier' = [modifier EXCEPT !.struct_size = Corrected(modifier.struct_size)]
  BY DEF LayoutAgrees, CorrectSize, G, M
<1>2. /\ position = Len(G) + 1 /\ Len(G) \in Nat /\ Len(fields) = Len(G)
      /\ modifier \in ModifierType /\ M \in ModifierType
      /\ \A k \in 1..Len(G) : G[k] \in FieldType
  BY TypeFacts, GivenFacts DEF LayoutInv, CorrectSize, More, LayoutTypeOK
<1>3. ~modifier.is_narrow
  BY <1>1 DEF LayoutInv, LoopInv, Natural
<1>4. position - 1 = Len(G)
  BY <1>2
<1>5. Corrected(modifier.struct_size) = StructSize(G)
  BY <1>1, <1>4 DEF Corrected, StructSize
<1>6. modifier'.struct_size = StructSize(G) /\ modifier' \in ModifierType
  <2>1. modifier' \in ModifierType
    BY <1>1, <1>2, WidthFacts DEF Corrected, ModifierType
  <2> QED
    BY <1>1, <1>2, <1>5, <2>1 DEF ModifierType
<1>7. modifier' = SetupModifier(G, M)
  <2> DEFINE m == SetupModifier(G, M)
  <2>0. IsNarrow(G, M) = FALSE
    BY <1>1, <1>2 DEF IsNarrow, ModifierType, CanBeNatural
  <2>1. /\ m = [M EXCEPT !.has_set_field_layout = TRUE, !.is_narrow = FALSE,
                         !.struct_size = StructSize(G),
                         !.struct_unit_size = UnitSize(G)]
    BY <2>0 DEF SetupModifier
  <2>2. modifier' = [modifier EXCEPT !.struct_size = StructSize(G)]
    BY <1>1, <1>5
  <2>3. modifier.has_set_field_layout = TRUE /\ modifier.is_narrow = FALSE
    BY <1>1, <1>2, <1>3 DEF ModifierType
  <2> DEFINE full == [has_set_field_layout |-> TRUE, is_narrow |-> FALSE,
                      struct_size |-> StructSize(G),
                      struct_unit_size |-> UnitSize(G)]
  <2>4. modifier' = full
    BY <1>1, <1>2, <2>2, <2>3 DEF ModifierType
  <2> HIDE DEF m
  <2>5. m = full
    BY <1>2, <2>1 DEF ModifierType
  <2> QED
    BY <2>4, <2>5 DEF m
<1>8. \A k \in 1..Len(fields') : fields'[k] = [G[k] EXCEPT !.pad = SetupPad(G, M, k)]
  <2> SUFFICES ASSUME NEW k \in 1..Len(G)
               PROVE  fields[k] = [G[k] EXCEPT !.pad = SetupPad(G, M, k)]
    BY <1>1, <1>2
  <2>1. k < position /\ fields[k] = Placed(k)
    BY <1>1, <1>2 DEF LayoutAgrees
  <2> QED
    BY <1>1, <2>1 DEF Placed, SetupPad
<1>9. LayoutAgreesWithRules'
  BY <1>1, <1>7, <1>8 DEF LayoutAgreesWithRules, G, M
<1> QED
  BY <1>1, <1>9 DEF LayoutAgrees

\* Every step of the loops keeps in step with the rules.
LEMMA NextLayoutAgrees == LayoutInv /\ LayoutAgrees /\ [LayoutNext]_layoutVars => LayoutAgrees'
<1>1. ASSUME LayoutAgrees, UNCHANGED layoutVars PROVE LayoutAgrees'
  BY <1>1 DEF layoutVars, LayoutAgrees, LayoutAgreesWithRules, G, M, Placed
<1> QED
  BY <1>1, CheckAgrees, DecideAgrees, GrowUnitAgrees, UnitDoneAgrees,
     PlaceFieldAgrees, CorrectSizeAgrees DEF LayoutNext

\* bpcsmtv_setup_field_layout leaves the modifier and the padding of every
\* field exactly as the rules say, which are what the parser model uses.
THEOREM LayoutAgreesWithRulesHolds == LayoutSpec => []LayoutAgreesWithRules
<1>1. LayoutAgrees => LayoutAgreesWithRules
  BY DEF LayoutAgrees
<1> QED
  BY <1>1, InitAgrees, NextLayoutAgrees, LayoutInvariance, PTL DEF LayoutSpec
-----------------------------------------------------------------------------
(* The loops against the C rule *)

\* An offset that fits uint32_t was not wrapped on the way to its alignment.
LEMMA AlignUpFacts ==
  ASSUME NEW end \in Nat, NEW a \in Alignments
  PROVE  /\ AlignUp(end, a) \in Nat /\ AlignUp(end, a) >= end
         /\ AlignUp(end, a) <= MaxOf["uint32"] =>
              U32(end + Padding(a, end)) = AlignUp(end, a)
<1>1. /\ AlignUp(end, a) = end + ((a - (end % a)) % a)
      /\ (a - (end % a)) % a \in Nat
  <2>1. CASE a = 1
    BY <2>1 DEF AlignUp
  <2>2. CASE a = 2
    BY <2>2 DEF AlignUp
  <2>3. CASE a = 4
    BY <2>3 DEF AlignUp
  <2> QED
    BY <2>1, <2>2, <2>3 DEF Alignments
<1>2. a \in Nat
  BY DEF Alignments
<1> HIDE DEF AlignUp
<1>3. AlignUp(end, a) \in Nat /\ AlignUp(end, a) >= end
  <2> DEFINE p == (a - (end % a)) % a
  <2>1. AlignUp(end, a) = end + p /\ p \in Nat
    BY <1>1
  <2> HIDE DEF p
  <2> QED
    BY <2>1
<1>4. ASSUME AlignUp(end, a) <= MaxOf["uint32"]
      PROVE  U32(end + Padding(a, end)) = AlignUp(end, a)
  <2>1. \A x \in 0..MaxOf["uint32"] : U32(x) = x
    BY WidthFacts DEF U32, Width
  <2>2. U32(end) = end
    BY <1>3, <1>4, <2>1, WidthFacts
  <2>3. end + Padding(a, end) = AlignUp(end, a)
    BY <1>1, <2>2 DEF Padding
  <2> QED
    BY <1>3, <1>4, <2>1, <2>3, WidthFacts
<1> QED
  BY <1>3, <1>4

\* A field whose size fits uint32_t has C's size.
LEMMA RealSizeIsC ==
  ASSUME NEW f, f.size \in Nat, f.array.static_array_len \in Nat
  PROVE  /\ CSize(f) \in Nat
         /\ CSize(f) <= MaxOf["uint32"] => RealSize(f) = CSize(f)
<1>1. /\ f.size * f.array.static_array_len \in Nat /\ f.size * 1 = f.size
  OBVIOUS
<1>2. \A x \in 0..MaxOf["uint32"] : U32(x) = x
  BY WidthFacts DEF U32, Width
<1>3. CASE f.array.is_array
  <2>1. CSize(f) = f.size * f.array.static_array_len
    BY <1>3 DEF CSize
  <2>2. RealSize(f) = U32(CSize(f))
    BY <1>3, <2>1 DEF RealSize
  <2>3. CSize(f) \in Nat
    BY <1>1, <2>1
  <2> QED
    BY <1>2, <2>2, <2>3, WidthFacts
<1>4. CASE ~f.array.is_array
  BY <1>1, <1>4 DEF CSize, RealSize
<1> QED
  BY <1>3, <1>4

\* What the end of a field must be a multiple of is one of the alignments.
LEMMA BoundaryIsAlignment ==
  ASSUME NEW fs, WellFormed(fs), NEW unit \in Alignments, NEW k \in 1..Len(fs)
  PROVE  Boundary(fs, unit, k) \in Alignments
<1>1. CASE k = Len(fs)
  BY <1>1 DEF Boundary
<1>2. CASE k # Len(fs)
  <2>1. k + 1 \in 1..Len(fs)
    BY <1>2 DEF WellFormed
  <2> QED
    BY <1>2, <2>1 DEF Boundary, WellFormed
<1> QED
  BY <1>1, <1>2

\* COffset starts at 0 and goes on by the C rule.
LEMMA COffsetFacts ==
  ASSUME NEW fs, DOMAIN fs = 1..Len(fs), WellFormed(fs)
  PROVE  /\ COffset(fs)[1] = 0
         /\ \A k \in 1..Len(fs) :
              /\ COffset(fs)[k] \in Nat /\ COffset(fs)[k + 1] \in Nat
              /\ COffset(fs)[k + 1] =
                   AlignUp(COffset(fs)[k] + CSize(fs[k]), Boundary(fs, UnitSize(fs), k))
<1> DEFINE n == Len(fs)
           unit == UnitSize(fs)
           Add(k, x) == AlignUp(x + CSize(fs[k]), Boundary(fs, unit, k))
           step == [k \in 1..n |-> [x \in Nat |-> Add(k, x)]]
           Rec(g) == [k \in 1..(n + 1) |->
                        IF k = 1 THEN 0
                        ELSE AlignUp(g[k - 1] + CSize(fs[k - 1]),
                                     IF k > n THEN unit ELSE fs[k].align)]
<1>1. /\ n \in Nat /\ unit \in Alignments
      /\ \A k \in 1..n : fs[k].align \in Alignments
      /\ \A k \in 1..n : CSize(fs[k]) \in Nat
  BY UnitSizeFacts, RealSizeIsC DEF WellFormed
<1>2. ASSUME NEW k \in 1..n, NEW x \in Nat PROVE Add(k, x) \in Nat
  <2>1. Boundary(fs, unit, k) \in Alignments
    BY <1>1, BoundaryIsAlignment
  <2>2. x + CSize(fs[k]) \in Nat
    BY <1>1
  <2> QED
    BY <2>1, <2>2, AlignUpFacts
<1>3. COffset(fs) = CHOOSE g : g = Rec(g)
  BY DEF COffset
<1>4. \A k \in 1..n : k + 1 \in 2..(n + 1) /\ (k + 1) - 1 = k
  BY <1>1
<1>5. \A g : \A k \in 2..(n + 1) : Rec(g)[k] = Add(k - 1, g[k - 1])
  <2> SUFFICES ASSUME NEW g, NEW k \in 2..(n + 1) PROVE Rec(g)[k] = Add(k - 1, g[k - 1])
    OBVIOUS
  <2>1. k \in 1..(n + 1) /\ k # 1 /\ (k - 1) + 1 = k /\ (k > n <=> k - 1 = n)
    BY <1>1
  <2> QED
    BY <2>1 DEF Boundary
<1> HIDE DEF n, unit, Add
<1>6. step \in [1..n -> [Nat -> Nat]]
  BY <1>2
<1>7. PICK f \in [0..n -> Nat] : Follows(f, n, 0, step)
  <2> HIDE DEF step
  <2> QED
    BY <1>1, <1>6, SegmentRecursion
<1> DEFINE h == [k \in 1..(n + 1) |-> f[k - 1]]
<1>8. h = Rec(h)
  <2> SUFFICES ASSUME NEW k \in 1..(n + 1) PROVE h[k] = Rec(h)[k]
    BY <1>1
  <2>1. CASE k = 1
    BY <1>7, <2>1 DEF Follows
  <2>2. CASE k # 1
    <3>1. k \in 2..(n + 1) /\ k - 1 \in 1..n /\ k - 1 \in 1..(n + 1) /\ (k - 1) - 1 \in 0..n
      BY <1>1, <2>2
    <3>2. f[k - 1] = step[k - 1][f[(k - 1) - 1]] /\ f[(k - 1) - 1] \in Nat
      BY <1>7, <3>1 DEF Follows
    <3>3. f[k - 1] = Add(k - 1, f[(k - 1) - 1])
      BY <3>1, <3>2
    <3>4. h[k] = f[k - 1] /\ h[k - 1] = f[(k - 1) - 1]
      BY <3>1
    <3>5. Rec(h)[k] = Add(k - 1, h[k - 1])
      BY <1>5, <3>1
    <3> QED
      BY <3>3, <3>4, <3>5
  <2> QED
    BY <2>1, <2>2
<1> DEFINE o == COffset(fs)
<1> HIDE DEF h, o
<1>9. o = Rec(o)
  <2> HIDE DEF Rec
  <2> QED
    BY <1>3, <1>8 DEF o
<1>10. o[1] = 0
  <2>1. 1 \in 1..(n + 1)
    BY <1>1
  <2>2. Rec(o)[1] = 0
    BY <2>1
  <2> QED
    BY <1>9, <2>2
<1> HIDE DEF Rec
<1>11. ASSUME NEW k \in 1..n PROVE o[k + 1] = Add(k, o[k])
  <2>1. k + 1 \in 2..(n + 1) /\ (k + 1) - 1 = k
    BY <1>4
  <2>2. Rec(o)[k + 1] = Add(k, o[k])
    BY <1>5, <2>1
  <2> QED
    BY <1>9, <2>2
<1> DEFINE Typed == {k \in 0..n : o[k + 1] \in Nat}
<1>12. 0 \in Typed
  BY <1>1, <1>10
<1>13. \A k \in 1..n : k - 1 \in Typed => k \in Typed
  <2> SUFFICES ASSUME NEW k \in 1..n, k - 1 \in Typed PROVE k \in Typed
    OBVIOUS
  <2>1. (k - 1) + 1 = k /\ k \in 0..n
    BY <1>1
  <2>2. o[k] \in Nat
    BY <2>1
  <2> QED
    BY <1>2, <1>11, <2>1, <2>2
<1> HIDE DEF Typed
<1>14. 0..n \subseteq Typed
  BY <1>1, <1>12, <1>13, SegmentInduction
<1>15. ASSUME NEW k \in 1..n PROVE o[k] \in Nat /\ o[k + 1] \in Nat
  <2>1. k \in 0..n /\ k - 1 \in 0..n /\ (k - 1) + 1 = k
    BY <1>1
  <2> QED
    BY <1>14, <2>1 DEF Typed
<1> QED
  BY <1>10, <1>11, <1>15 DEF o, n, Add, unit

\* As long as no offset exceeds 32 bits, the rules put every field where C does.
LEMMA RulesAsC ==
  ASSUME NEW fs, DOMAIN fs = 1..Len(fs), WellFormed(fs), FitsU32(fs)
  PROVE  \A k \in 0..Len(fs) : SizeAfter(fs)[k] = COffset(fs)[k + 1]
<1> DEFINE n == Len(fs)
           unit == UnitSize(fs)
           s == SizeAfter(fs)
           o == COffset(fs)
           Same == {k \in 0..n : s[k] = o[k + 1]}
<1>1. n \in Nat /\ unit \in Alignments
      /\ \A k \in 1..n : /\ fs[k].align \in Alignments /\ fs[k].size \in Nat
                         /\ fs[k].array.static_array_len \in Nat
  BY UnitSizeFacts DEF WellFormed
<1>2. /\ s[0] = 0
      /\ \A k \in 1..n :
           LET end == s[k - 1] + RealSize(fs[k])
           IN  s[k] = U32(end + Padding(Boundary(fs, unit, k), end))
  BY SizeAfterFacts
<1>3. /\ o[1] = 0
      /\ \A k \in 1..n :
           /\ o[k] \in Nat /\ o[k + 1] \in Nat
           /\ o[k + 1] = AlignUp(o[k] + CSize(fs[k]), Boundary(fs, unit, k))
  BY COffsetFacts
<1>4. \A k \in 1..n : o[k + 1] <= MaxOf["uint32"]
  BY <1>1 DEF FitsU32
<1>5. \A k \in 1..n : Boundary(fs, unit, k) \in Alignments
  BY <1>1, BoundaryIsAlignment
<1> HIDE DEF n, unit, s, o
<1>6. 0 \in Same
  BY <1>1, <1>2, <1>3
<1>7. \A k \in 1..n : k - 1 \in Same => k \in Same
  <2> SUFFICES ASSUME NEW k \in 1..n, k - 1 \in Same PROVE k \in Same
    OBVIOUS
  <2> DEFINE b == Boundary(fs, unit, k)
             end == o[k] + CSize(fs[k])
  <2>1. (k - 1) + 1 = k /\ k \in 0..n
    BY <1>1
  <2>2. s[k - 1] = o[k] /\ o[k] \in Nat
    BY <1>3, <2>1
  <2>3. CSize(fs[k]) \in Nat /\ (CSize(fs[k]) <= MaxOf["uint32"] => RealSize(fs[k]) = CSize(fs[k]))
    BY <1>1, RealSizeIsC
  <2>4. end \in Nat /\ end >= CSize(fs[k])
    BY <2>2, <2>3
  <2>5. b \in Alignments
    BY <1>5
  <2>6. o[k + 1] = AlignUp(end, b)
    BY <1>3
  <2>7. AlignUp(end, b) <= MaxOf["uint32"]
    BY <1>4, <2>6
  <2> HIDE DEF b
  <2>8. s[k] = U32((o[k] + RealSize(fs[k])) + Padding(b, o[k] + RealSize(fs[k])))
    BY <1>2, <2>2 DEF b
  <2>9. CSize(fs[k]) <= MaxOf["uint32"]
    <3>1. AlignUp(end, b) \in Nat /\ AlignUp(end, b) >= end
      BY <2>4, <2>5, AlignUpFacts
    <3> HIDE DEF end
    <3> QED
      BY <2>3, <2>4, <2>7, <3>1, WidthFacts
  <2>10. s[k] = U32(end + Padding(b, end))
    BY <2>3, <2>8, <2>9
  <2> HIDE DEF end
  <2>11. s[k] = o[k + 1]
    BY <2>4, <2>5, <2>6, <2>7, <2>10, AlignUpFacts
  <2> QED
    BY <2>1, <2>11
<1> HIDE DEF Same
<1>8. 0..n \subseteq Same
  BY <1>1, <1>6, <1>7, SegmentInduction
<1> QED
  BY <1>8 DEF Same, s, o, n

\* As long as no size exceeds 32 bits bpcsmtv_setup_field_layout puts every
\* field of a natural struct where a C compiler does, and gives it C's size.
THEOREM SameAsCHolds == LayoutSpec => []SameAsC
<1>1. LayoutInv /\ LayoutAgrees => SameAsC
  <2> SUFFICES ASSUME LayoutInv, LayoutAgrees, FitsU32(G)
               PROVE  /\ loop = "place" => modifier.struct_size = COffset(G)[position]
                      /\ loop = "done" /\ Natural =>
                           modifier.struct_size = IF CEnd(G) = 0 THEN 1 ELSE CEnd(G)
    BY DEF SameAsC, G
  <2>1. /\ DOMAIN G = 1..Len(G) /\ WellFormed(G) /\ Len(G) \in Nat /\ Len(G) = Len(fields)
        /\ M \in ModifierType /\ position \in 1..(Len(G) + 1)
    BY GivenFacts DEF LayoutInv, LayoutTypeOK
  <2>2. \A k \in 0..Len(G) : SizeAfter(G)[k] = COffset(G)[k + 1]
    BY <2>1, RulesAsC
  <2>3. CASE loop = "place"
    <3>1. modifier.struct_size = SizeAfter(G)[position - 1]
      BY <2>3 DEF LayoutAgrees
    <3>2. position - 1 \in 0..Len(G) /\ (position - 1) + 1 = position
      BY <2>1
    <3> QED
      BY <2>2, <2>3, <3>1, <3>2
  <2>4. CASE loop = "done" /\ Natural
    <3>1. modifier = SetupModifier(G, M)
      BY <2>4 DEF LayoutAgrees, LayoutAgreesWithRules, G, M
    <3>2. modifier.struct_size = StructSize(G)
      BY <2>1, <2>4, <3>1 DEF SetupModifier, Natural, ModifierType
    <3>3. SizeAfter(G)[Len(G)] = CEnd(G)
      BY <2>1, <2>2 DEF CEnd
    <3> QED
      BY <2>4, <3>2, <3>3 DEF StructSize
  <2> QED
    BY <2>3, <2>4
<1> QED
  BY <1>1, InitAgrees, NextLayoutAgrees, LayoutInvariance, PTL DEF LayoutSpec

\* A natural struct can be copied as a block of memory
\* (bpc_semantic_values.c:525-583).
THEOREM LayoutSoundHolds == LayoutSpec => []LayoutSound
<1>1. FieldsAligned /\ UnitCoversFields /\ NaturalIsFixed => LayoutSound
  BY DEF LayoutSound
<1> QED
  BY <1>1, FieldsAlignedHolds, UnitCoversFieldsHolds, NaturalIsFixedHolds, PTL
-----------------------------------------------------------------------------
(* The bonding *)

\* The variables from first on that were counted match, and the count stays
\* inside the list.
Counted ==
  /\ first + counter <= Len(types) + 1
  /\ \A i \in first..first + counter - 1 : types[i] \in rules

\* Behind a bonded group the next variable does not match: the inner loop has
\* seen it.
RunEnded ==
  groups # <<>> /\ groups[Len(groups)].is_bonded =>
    first > Len(types) \/ types[first] \notin rules \/ returned

\* What the loops maintain.
BondInv ==
  /\ BondTypeOK
  /\ Counted
  /\ CoversInOrder
  /\ BondedIsMatched
  /\ RunsAreMaximal
  /\ RunEnded
  /\ returned => counter = 0

\* At the start nothing is counted and there is no group.
LEMMA InitBondInv == BondInit => BondInv
<1> SUFFICES ASSUME BondInit PROVE BondInv
  OBVIOUS
<1>1. PICK n \in 0..MaxVariables : types \in [1..n -> VarTypes]
  BY DEF BondInit
<1>2. types \in Seq(VarTypes) /\ Len(types) \in Nat
  BY <1>1, BondAssumption
<1>3. rules \in SUBSET VarTypes
  BY BondAssumption DEF BondInit
<1>4. first = 1 /\ counter = 0 /\ groups = <<>> /\ returned = FALSE
  BY DEF BondInit
<1>5. BondTypeOK
  <2>1. first \in 1..Len(types) + 1 /\ counter \in 0..Len(types)
    BY <1>2, <1>4
  <2>2. groups \in Seq(GroupType) /\ returned \in BOOLEAN
    <3> HIDE DEF GroupType
    <3>1. <<>> \in Seq(GroupType)
      OBVIOUS
    <3> QED
      BY <3>1, <1>4
  <2> QED
    BY <1>2, <1>3, <2>1, <2>2 DEF BondTypeOK
<1> QED
  BY <1>2, <1>4, <1>5
     DEF BondInv, Counted, CoversInOrder, StartOf, BondedIsMatched, RunsAreMaximal, RunEnded

\* Appending the group of len variables from first on, all matching or, for
\* one alone, not, keeps what is known of the groups.
LEMMA AppendGroup ==
  ASSUME BondInv, NEW b \in BOOLEAN, NEW len \in Nat \ {0},
         first + len <= Len(types) + 1,
         \A i \in first..first + len - 1 : b <=> types[i] \in rules,
         b => len = counter,
         ~returned,
         groups' = Append(groups, Group(b, first, len)),
         first' = first + len, counter' = 0,
         first' > Len(types) \/ ~b \/ types[first'] \notin rules,
         types' = types, rules' = rules, returned' = returned
  PROVE  BondInv'
<1> DEFINE g == Group(b, first, len)
<1>0. PICK n \in Nat : n = Len(groups)
  BY DEF BondInv, BondTypeOK
<1>1. /\ types \in Seq(VarTypes) /\ rules \in SUBSET VarTypes
      /\ first \in Nat \ {0} /\ first \in 1..Len(types) + 1
      /\ groups \in Seq(GroupType) /\ returned = FALSE
      /\ Len(types) \in Nat /\ Len(groups) = n
  BY <1>0 DEF BondInv, BondTypeOK
<1>2. g \in GroupType /\ g.is_bonded = b /\ g.first = first /\ g.len = len
  BY <1>1 DEF Group, GroupType
<1>3. \A k \in 1..n : groups[k] \in GroupType
  BY <1>1
<1>4. \A k \in 1..n : groups[k].first \in Nat /\ groups[k].len \in Nat
  BY <1>3 DEF GroupType
<1> HIDE DEF g
<1>5. /\ groups' = Append(groups, g)
      /\ groups' \in Seq(GroupType)
      /\ Len(groups') = n + 1 /\ groups'[n + 1] = g
      /\ \A k \in 1..n : groups'[k] = groups[k]
      /\ DOMAIN groups' = 1..n + 1 /\ DOMAIN groups = 1..n
  BY <1>1, <1>2 DEF g
<1>6. BondTypeOK'
  <2>1. first' \in 1..Len(types) + 1 /\ counter' \in 0..Len(types)
    BY <1>1
  <2> QED
    BY <1>1, <1>5, <2>1 DEF BondTypeOK
<1>7. Counted'
  BY <1>1 DEF Counted
<1>8. CoversInOrder'
  <2>1. /\ \A k \in 1..n : groups[k].first = StartOf(k)
        /\ first = StartOf(n + 1)
    BY <1>5 DEF BondInv, CoversInOrder
  <2>2. \A k \in 1..n + 1 : StartOf(k)' = StartOf(k)
    <3> SUFFICES ASSUME NEW k \in 1..n + 1 PROVE StartOf(k)' = StartOf(k)
      OBVIOUS
    <3>1. CASE k = 1
      BY <3>1 DEF StartOf
    <3>2. CASE k # 1
      <4>1. k - 1 \in 1..n
        BY <3>2, <1>1
      <4> QED
        BY <3>2, <4>1, <1>5 DEF StartOf
    <3> QED
      BY <3>1, <3>2
  <2>3. StartOf(n + 2)' = first + len
    BY <1>1, <1>2, <1>5 DEF StartOf
  <2>4. \A k \in 1..n + 1 : groups'[k].first = StartOf(k)'
    <3> SUFFICES ASSUME NEW k \in 1..n + 1 PROVE groups'[k].first = StartOf(k)'
      OBVIOUS
    <3>1. CASE k = n + 1
      BY <3>1, <2>1, <2>2, <1>2, <1>5
    <3>2. CASE k # n + 1
      <4>1. k \in 1..n
        BY <3>2, <1>1
      <4> QED
        BY <4>1, <2>1, <2>2, <1>5
    <3> QED
      BY <3>1, <3>2
  <2>5. Len(groups') + 1 = n + 2
    BY <1>1, <1>5
  <2> QED
    BY <2>3, <2>4, <2>5, <1>1, <1>5 DEF CoversInOrder
<1>9. BondedIsMatched'
  <2> SUFFICES ASSUME NEW k \in 1..n + 1,
                      NEW i \in groups'[k].first..groups'[k].first + groups'[k].len - 1
               PROVE  groups'[k].is_bonded <=> types[i] \in rules
    BY <1>5 DEF BondedIsMatched
  <2>1. CASE k = n + 1
    BY <2>1, <1>2, <1>5
  <2>2. CASE k # n + 1
    <3>1. k \in 1..n
      BY <2>2, <1>1
    <3> QED
      BY <3>1, <1>5 DEF BondInv, BondedIsMatched
  <2> QED
    BY <2>1, <2>2
<1>10. RunsAreMaximal'
  <2> SUFFICES ASSUME NEW k \in 2..n + 1
               PROVE  ~(groups'[k - 1].is_bonded /\ groups'[k].is_bonded)
    BY <1>5 DEF RunsAreMaximal
  <2>1. CASE k = n + 1
    <3>0. n >= 1 /\ n \in 1..n /\ k - 1 = n
      BY <2>1, <1>0
    <3>1. groups # <<>> /\ groups'[k - 1] = groups[n]
      BY <3>0, <1>1, <1>5
    <3>2. groups[n].is_bonded => types[first] \notin rules
      BY <3>0, <3>1, <1>1 DEF BondInv, RunEnded
    <3>3. b => types[first] \in rules
      BY <1>1
    <3> QED
      BY <2>1, <3>0, <3>1, <3>2, <3>3, <1>2, <1>5
  <2>2. CASE k # n + 1
    <3>1. k \in 2..n /\ k \in 1..n /\ k - 1 \in 1..n
      BY <2>2, <1>1
    <3> QED
      BY <3>1, <1>5 DEF BondInv, RunsAreMaximal
  <2> QED
    BY <2>1, <2>2
<1>11. RunEnded'
  BY <1>2, <1>5 DEF RunEnded
<1> QED
  BY <1>6, <1>7, <1>8, <1>9, <1>10, <1>11 DEF BondInv

\* Each step of the loops keeps it.
LEMMA NextBondInv == BondInv /\ [BondNext]_bondVars => BondInv'
<1> SUFFICES ASSUME BondInv, [BondNext]_bondVars PROVE BondInv'
  OBVIOUS
<1>0. /\ types \in Seq(VarTypes) /\ Len(types) \in Nat
      /\ first \in 1..Len(types) + 1 /\ counter \in 0..Len(types)
      /\ first \in Nat /\ counter \in Nat
  BY DEF BondInv, BondTypeOK
<1>1. CASE Match
  <2>1. /\ first + counter <= Len(types) /\ types[first + counter] \in rules
        /\ counter' = counter + 1
        /\ UNCHANGED <<types, rules, first, groups, returned>>
    BY <1>1 DEF Match, Matches, Cursor
  <2>2. BondTypeOK'
    BY <1>0, <2>1 DEF BondInv, BondTypeOK
  <2>3. Counted'
    <3>1. \A i \in first..first + counter :
            i = first + counter \/ i \in first..first + counter - 1
      BY <1>0
    <3> QED
      BY <3>1, <1>0, <2>1 DEF BondInv, Counted
  <2>4. ~returned
    <3> SUFFICES ASSUME returned PROVE FALSE
      OBVIOUS
    <3>1. first = Len(types) + 1
      BY DEF BondInv, CoversInOrder
    <3> QED
      BY <3>1, <1>0, <2>1
  <2>5. CoversInOrder' /\ RunEnded'
    BY <2>1 DEF BondInv, CoversInOrder, StartOf, RunEnded
  <2>6. BondedIsMatched' /\ RunsAreMaximal'
    BY <2>1 DEF BondInv, BondedIsMatched, RunsAreMaximal
  <2> QED
    BY <2>1, <2>2, <2>3, <2>4, <2>5, <2>6 DEF BondInv
<1>2. CASE TakeSingle
  <2>1. /\ first <= Len(types) /\ counter = 0 /\ types[first] \notin rules
        /\ groups' = Append(groups, Group(FALSE, first, 1))
        /\ first' = first + 1 /\ counter' = 0
        /\ types' = types /\ rules' = rules /\ returned' = returned
    BY <1>0, <1>2 DEF TakeSingle, Matches, Cursor
  <2>2. ~returned
    <3> SUFFICES ASSUME returned PROVE FALSE
      OBVIOUS
    <3>1. first = Len(types) + 1
      BY DEF BondInv, CoversInOrder
    <3> QED
      BY <3>1, <1>0, <2>1
  <2>3. \A i \in first..first + 1 - 1 : i = first
    BY <1>0
  <2>4. /\ 1 \in Nat \ {0} /\ FALSE \in BOOLEAN
        /\ first + 1 <= Len(types) + 1
        /\ \A i \in first..first + 1 - 1 : FALSE <=> types[i] \in rules
    BY <2>1, <2>3, <1>0
  <2> QED
    BY <2>1, <2>2, <2>4, AppendGroup
<1>3. CASE TakeRun
  <2>1. /\ counter > 0
        /\ groups' = Append(groups, Group(TRUE, first, counter))
        /\ first' = first + counter /\ counter' = 0
        /\ types' = types /\ rules' = rules /\ returned' = returned
    BY <1>3 DEF TakeRun, Cursor
  <2>2. first' > Len(types) \/ types[first'] \notin rules
    BY <1>0, <1>3, <2>1 DEF TakeRun, Matches, Cursor
  <2>3. /\ first + counter <= Len(types) + 1
        /\ \A i \in first..first + counter - 1 : types[i] \in rules
    BY DEF BondInv, Counted
  <2>4. ~returned /\ counter \in Nat \ {0}
    BY <1>0, <2>1 DEF BondInv
  <2> QED
    BY <2>1, <2>2, <2>3, <2>4, AppendGroup
<1>4. CASE Return
  <2>1. /\ first > Len(types) /\ counter = 0 /\ returned' = TRUE
        /\ UNCHANGED <<types, rules, first, counter, groups>>
    BY <1>4 DEF Return
  <2>2. first = Len(types) + 1
    BY <1>0, <2>1
  <2>3. BondTypeOK' /\ Counted'
    BY <2>1 DEF BondInv, BondTypeOK, Counted
  <2>4. CoversInOrder' /\ RunEnded'
    BY <2>1, <2>2 DEF BondInv, CoversInOrder, StartOf, RunEnded
  <2>5. BondedIsMatched' /\ RunsAreMaximal'
    BY <2>1 DEF BondInv, BondedIsMatched, RunsAreMaximal
  <2> QED
    BY <2>1, <2>3, <2>4, <2>5 DEF BondInv
<1>5. CASE UNCHANGED bondVars
  BY <1>5 DEF bondVars, BondInv, BondTypeOK, Counted, CoversInOrder, StartOf,
              BondedIsMatched, RunsAreMaximal, RunEnded
<1> QED
  BY <1>1, <1>2, <1>3, <1>4, <1>5 DEF BondNext

\* The strengthened invariant holds in every state of the loops.
THEOREM BondInvariant == BondSpec => []BondInv
BY InitBondInv, NextBondInv, PTL DEF BondSpec

\* Every variable of the bonding loops has the values the code can give it.
THEOREM BondTypeCorrect == BondSpec => []BondTypeOK
<1>1. BondInv => BondTypeOK
  BY DEF BondInv
<1> QED
  BY <1>1, BondInvariant, PTL

\* No variable is skipped or taken twice (bpc_code_gen.c:128, 151).
THEOREM Covers == BondSpec => []CoversInOrder
<1>1. BondInv => CoversInOrder
  BY DEF BondInv
<1> QED
  BY <1>1, BondInvariant, PTL

\* Bonded groups hold exactly the variables that match the rules.
THEOREM BondedMatched == BondSpec => []BondedIsMatched
<1>1. BondInv => BondedIsMatched
  BY DEF BondInv
<1> QED
  BY <1>1, BondInvariant, PTL

\* No run is cut in two.
THEOREM Maximal == BondSpec => []RunsAreMaximal
<1>1. BondInv => RunsAreMaximal
  BY DEF BondInv
<1> QED
  BY <1>1, BondInvariant, PTL

\* A bonded group is a whole run (bpc_code_gen.c:97-127).
THEOREM GroupsAreRunsHolds == BondSpec => []GroupsAreRuns
<1>1. BondedIsMatched /\ RunsAreMaximal => GroupsAreRuns
  BY DEF GroupsAreRuns
<1> QED
  BY <1>1, BondedMatched, Maximal, PTL
-----------------------------------------------------------------------------
(* The loops and the rules *)

\* The groups so far, with those the rules make of the rest, are the list.
OnTheWay ==
  \E from : /\ BondsFrom(types, rules, from)
            /\ BondVars(types, rules) = from[1]
            /\ groups \o from[first] = from[1]

\* When the inner loop stops it has counted the run that starts at first.
LEMMA CountedIsRun ==
  ASSUME BondInv, ~Matches, first <= Len(types)
  PROVE  GroupAt(types, rules, first) =
           IF counter = 0 THEN Group(FALSE, first, 1) ELSE Group(TRUE, first, counter)
<1> DEFINE l == Len(types)
           n == RunLength(types, rules, first)
<1>1. /\ types \in Seq(VarTypes) /\ l \in Nat /\ first \in 1..l /\ first \in Nat
      /\ counter \in Nat /\ first + counter <= l + 1
      /\ \A i \in first..first + counter - 1 : types[i] \in rules
  BY DEF BondInv, BondTypeOK, Counted
<1>2. /\ n \in 0..(l - first + 1)
      /\ \A j \in first..(first + n - 1) : types[j] \in rules
      /\ first + n > l \/ types[first + n] \notin rules
  BY <1>1, RunFacts
<1>3. first + counter > l \/ types[first + counter] \notin rules
  BY <1>1 DEF Matches, Cursor
<1> HIDE DEF l, n
<1>4. ~(n < counter)
  <2> SUFFICES ASSUME n < counter PROVE FALSE
    OBVIOUS
  <2>1. first + n \in first..first + counter - 1 /\ ~(first + n > l)
    BY <1>1, <1>2
  <2> QED
    BY <1>1, <1>2, <2>1
<1>5. ~(counter < n)
  <2> SUFFICES ASSUME counter < n PROVE FALSE
    OBVIOUS
  <2>1. first + counter \in first..(first + n - 1) /\ ~(first + counter > l)
    BY <1>1, <1>2
  <2> QED
    BY <1>2, <1>3, <2>1
<1>6. n = counter
  BY <1>1, <1>2, <1>4, <1>5
<1> QED
  BY <1>6 DEF GroupAt, n

\* A group moves from what is left to what is done.
LEMMA MoveGroup ==
  ASSUME NEW S, NEW s \in Seq(S), NEW g \in S, NEW t \in Seq(S)
  PROVE  Append(s, g) \o t = s \o (<<g>> \o t)
OBVIOUS

\* At the start everything is left to do.
LEMMA InitOnTheWay == BondInit => OnTheWay
<1> SUFFICES ASSUME BondInit PROVE OnTheWay
  OBVIOUS
<1>1. types \in Seq(VarTypes) /\ Len(types) \in Nat /\ first = 1 /\ groups = <<>>
  BY InitBondInv DEF BondInv, BondTypeOK, BondInit
<1>2. PICK from : BondsFrom(types, rules, from) /\ BondVars(types, rules) = from[1]
  BY <1>1, BondVarsRecursion
<1>3. from[1] \in Seq(SoundGroups(types, rules))
  <2>1. 1 \in 1..Len(types) + 1
    BY <1>1
  <2> QED
    BY <1>2, <2>1 DEF BondsFrom
<1>4. <<>> \o from[1] = from[1]
  BY <1>3
<1> QED
  BY <1>1, <1>2, <1>4 DEF OnTheWay

\* Each step does what the rules do next, or only counts.
LEMMA NextOnTheWay == BondInv /\ OnTheWay /\ [BondNext]_bondVars => OnTheWay'
<1> SUFFICES ASSUME BondInv, OnTheWay, [BondNext]_bondVars PROVE OnTheWay'
  OBVIOUS
<1>1. PICK from : /\ BondsFrom(types, rules, from)
                  /\ BondVars(types, rules) = from[1]
                  /\ groups \o from[first] = from[1]
  BY DEF OnTheWay
<1>2. CASE UNCHANGED <<types, rules, first, groups>>
  BY <1>1, <1>2 DEF OnTheWay
<1>3. ASSUME ~Matches, first <= Len(types), UNCHANGED <<types, rules>>,
             NEW g, g = IF counter = 0 THEN Group(FALSE, first, 1)
                                       ELSE Group(TRUE, first, counter),
             groups' = Append(groups, g), first' = first + g.len
      PROVE  OnTheWay'
  <2>1. /\ groups \in Seq(GroupType) /\ Len(types) \in Nat /\ first \in 1..Len(types)
        /\ types \in Seq(VarTypes)
    BY <1>3 DEF BondInv, BondTypeOK
  <2>2. GroupAt(types, rules, first) = g
    BY <1>3, CountedIsRun
  <2> DEFINE S == GroupType \cup SoundGroups(types, rules)
             rest == from[first']
  <2>3. g \in SoundGroups(types, rules)
    BY <2>1, <2>2, GroupAtFacts
  <2>4. first' \in (first + 1)..(Len(types) + 1) /\ from[first] = <<g>> \o rest
    BY <1>1, <1>3, <2>1, <2>2 DEF BondsFrom
  <2>5. rest \in Seq(SoundGroups(types, rules))
    <3>1. first' \in 1..Len(types) + 1
      BY <2>1, <2>4
    <3> QED
      BY <1>1, <3>1 DEF BondsFrom
  <2> HIDE DEF rest
  <2>6. groups \in Seq(S) /\ g \in S /\ rest \in Seq(S)
    BY <2>1, <2>3, <2>5
  <2> HIDE DEF S
  <2>7. groups' \o rest = groups \o from[first]
    <3>1. Append(groups, g) \o rest = groups \o (<<g>> \o rest)
      BY <2>6, MoveGroup
    <3>2. groups' = Append(groups, g)
      BY <1>3
    <3> QED
      BY <2>4, <3>1, <3>2
  <2> QED
    BY <1>1, <1>3, <2>7 DEF OnTheWay, rest
<1>4. CASE Match
  BY <1>2, <1>4 DEF Match
<1>5. CASE TakeSingle
  <2> DEFINE g == Group(FALSE, first, 1)
  <2>1. g.len = 1
    BY DEF Group
  <2> HIDE DEF g
  <2>2. /\ ~Matches /\ first <= Len(types) /\ UNCHANGED <<types, rules>> /\ counter = 0
        /\ groups' = Append(groups, g) /\ first' = first + g.len
    BY <1>5, <2>1 DEF TakeSingle, g
  <2> QED
    BY <1>3, <2>2 DEF g
<1>6. CASE TakeRun
  <2> DEFINE g == Group(TRUE, first, counter)
  <2>1. g.len = counter
    BY DEF Group
  <2> HIDE DEF g
  <2>2. ~Matches /\ UNCHANGED <<types, rules>> /\ counter > 0
    BY <1>6 DEF TakeRun
  <2>3. groups' = Append(groups, g)
    BY <1>6 DEF TakeRun, g
  <2>4. first' = first + g.len
    BY <1>6, <2>1 DEF TakeRun, Cursor
  <2>5. counter # 0 /\ first <= Len(types)
    BY <2>2 DEF BondInv, BondTypeOK, Counted
  <2> QED
    BY <1>3, <2>2, <2>3, <2>4, <2>5 DEF g
<1>7. CASE Return
  BY <1>2, <1>7 DEF Return
<1>8. CASE UNCHANGED bondVars
  BY <1>2, <1>8 DEF bondVars
<1> QED
  BY <1>4, <1>5, <1>6, <1>7, <1>8 DEF BondNext

\* When the loops return, for every list and every rules, their list is the
\* one the models of the back ends work with: what BondAgreesWithRules promises,
\* but for the return itself.
THEOREM ReturnsTheRules == BondSpec => [](returned => groups = BondVars(types, rules))
<1>1. BondInv /\ OnTheWay => (returned => groups = BondVars(types, rules))
  <2> SUFFICES ASSUME BondInv, OnTheWay, returned PROVE groups = BondVars(types, rules)
    OBVIOUS
  <2>1. PICK from : /\ BondsFrom(types, rules, from)
                    /\ BondVars(types, rules) = from[1]
                    /\ groups \o from[first] = from[1]
    BY DEF OnTheWay
  <2>2. first = Len(types) + 1 /\ groups \in Seq(GroupType)
    BY DEF BondInv, BondTypeOK, CoversInOrder
  <2>3. from[first] = <<>>
    BY <2>1, <2>2 DEF BondsFrom
  <2>4. groups \o <<>> = groups
    BY <2>2
  <2> QED
    BY <2>1, <2>3, <2>4
<1> QED
  BY <1>1, InitOnTheWay, NextOnTheWay, BondInvariant, PTL DEF BondSpec
=============================================================================
