---------------------------- MODULE BpcEnumRules ----------------------------
(***************************************************************************)
(* The values of an enum's members: what a specified value must satisfy,   *)
(* what a member without one gets, and what the whole list comes to.       *)
(***************************************************************************)
EXTENDS BpcTypes, Sequences

\* BPCSMTV_ENUM_MEMBER as the parser fills it; a number token always fits
\* one of the 64-bit types.
MemberSpec == [has_specified_value : BOOLEAN,
               specified_value : MinOf["int64"]..MaxOf["uint64"]]

\* Mutant: the lower limit of the signed types is not looked at.
NotTooLarge(v, bt) ==
  IF bt \in UnsignedTypes THEN SuccessUint(v) /\ v <= MaxOf[bt]
                          ELSE SuccessInt(v) /\ v <= MaxOf[bt]

\* Mutant: the greatest value of a type is refused.
BelowLimit(v, bt) ==
  IF bt \in UnsignedTypes THEN SuccessUint(v) /\ v < MaxOf[bt]
                          ELSE SuccessInt(v) /\ MinOf[bt] <= v /\ v < MaxOf[bt]

IsLegalValue(v, bt) ==
  IF bt \in UnsignedTypes THEN SuccessUint(v) /\ v <= MaxOf[bt]
                          ELSE SuccessInt(v) /\ MinOf[bt] <= v /\ v <= MaxOf[bt]

\* One past the previous value, wrapping to the least value of the type.
Successor(v, bt) == IF v >= MaxOf[bt] THEN MinOf[bt] ELSE v + 1

\* The value of every member when no member is refused.
EnumValues(members, bt) ==
  LET value[k \in 1..Len(members)] ==
        IF members[k].has_specified_value THEN members[k].specified_value
        ELSE IF k = 1 THEN 0 ELSE Successor(value[k - 1], bt)
  IN  value

\* Mutant: two members may have one value.
EnumAllLegal(members, bt) ==
  \A k \in 1..Len(members) : members[k].has_specified_value =>
    IsLegalValue(members[k].specified_value, bt)

EnumAccepted(members, bt) ==
  /\ \A k \in 1..Len(members) : members[k].has_specified_value =>
        IsLegalValue(members[k].specified_value, bt)
  /\ \A j, k \in 1..Len(members) :
        j # k => EnumValues(members, bt)[j] # EnumValues(members, bt)[k]
=============================================================================
