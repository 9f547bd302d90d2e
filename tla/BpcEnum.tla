------------------------------- MODULE BpcEnum -------------------------------
(***************************************************************************)
(* bpcsmtv_arrange_enum_body_value: the loop that gives every member of an *)
(* enum its value, with its early returns.                                 *)
(***************************************************************************)
EXTENDS BpcEnumRules

CONSTANT Calls    \* <<members, basic type>> the function is called with

ASSUME CallsAssumption == Calls \subseteq (Seq(MemberSpec) \X IntegerTypes)

VARIABLES outcome,  \* "loop", or what the function returned: "true", "false"
          members,  \* the list of members (their specified values)
          bt,       \* the enum's basic type
          cursor,   \* position of the member looked at
          pending,  \* pending_uint or pending_int
          seen,     \* hashtable_enum_value
          values    \* distributed_value of the members already visited

enumVars == <<outcome, members, bt, cursor, pending, seen, values>>

EnumInit ==
  /\ \E call \in Calls : members = call[1] /\ bt = call[2]
  /\ outcome = "loop" /\ cursor = 1 /\ pending = 0
  /\ seen = {} /\ values = <<>>

\* Mutant: the hash table is filled but its answer is not looked at.
NeverDuplicate(v) == FALSE

Duplicate(v) == v \in seen

\* The value of the member at cursor was settled: it must be new.
Assign(v) ==
  /\ pending' = v
  /\ seen' = seen \cup {v}
  /\ IF Duplicate(v)
       THEN outcome' = "false" /\ UNCHANGED <<cursor, values>>
       ELSE values' = Append(values, v) /\ cursor' = cursor + 1 /\ UNCHANGED outcome
  /\ UNCHANGED <<members, bt>>

AssignSpecified ==
  /\ outcome = "loop" /\ cursor <= Len(members)
  /\ members[cursor].has_specified_value
  /\ IsLegalValue(members[cursor].specified_value, bt)
  /\ Assign(members[cursor].specified_value)

RejectSpecified ==
  /\ outcome = "loop" /\ cursor <= Len(members)
  /\ members[cursor].has_specified_value
  /\ ~IsLegalValue(members[cursor].specified_value, bt)
  /\ outcome' = "false"
  /\ UNCHANGED <<members, bt, cursor, pending, seen, values>>

Distribute ==
  /\ outcome = "loop" /\ cursor <= Len(members)
  /\ ~members[cursor].has_specified_value
  /\ Assign(IF cursor = 1 THEN 0 ELSE Successor(pending, bt))

Finish ==
  /\ outcome = "loop" /\ cursor > Len(members)
  /\ outcome' = "true"
  /\ UNCHANGED <<members, bt, cursor, pending, seen, values>>

EnumNext == AssignSpecified \/ RejectSpecified \/ Distribute \/ Finish

EnumSpec == EnumInit /\ [][EnumNext]_enumVars
-----------------------------------------------------------------------------
(* Properties *)

EnumTypeOK ==
  /\ outcome \in {"loop", "true", "false"}
  /\ members \in Seq(MemberSpec)
  /\ bt \in IntegerTypes
  /\ cursor \in 1..(Len(members) + 1)
  /\ values \in Seq(Int) /\ Len(values) = cursor - 1
  /\ pending \in Int
  /\ seen \subseteq Int

\* Two members of one enum never carry the same value, however the specified
\* values and the wrap-around of the distributed ones fall together.
DistinctValues ==
  \A j, k \in 1..Len(values) : j # k => values[j] # values[k]

\* Every value fits the enum's basic type, so the generated declaration and
\* the serialized field lose nothing.
ValuesInRange ==
  \A k \in 1..Len(values) : values[k] \in MinOf[bt]..MaxOf[bt]

\* The hash table holds exactly the values given out, plus the one whose
\* duplication ends the call.
SeenIsGivenOut ==
  outcome # "false" => seen = {values[k] : k \in 1..Len(values)}

\* The loop decides and computes what the operators of BpcEnumRules say.
EnumAgreesWithRules ==
  /\ outcome = "true"  => EnumAccepted(members, bt) /\ values = EnumValues(members, bt)
  /\ outcome = "false" => ~EnumAccepted(members, bt)

\* What C gives the members: one past the previous value, no wrapping.
CValues ==
  LET v[k \in 1..Len(members)] ==
        IF members[k].has_specified_value THEN members[k].specified_value
        ELSE IF k = 1 THEN 0 ELSE v[k - 1] + 1
  IN  v

\* BpFile.md:130 promises "the same behavior with C language" for specified
\* values.  Where C accepts the enum the values are C's, and the one thing the
\* loop refuses that C does not is two members with one value.
AsInC ==
  (\A k \in 1..Len(members) : CValues[k] \in MinOf[bt]..MaxOf[bt]) =>
    /\ outcome = "true" => values = CValues
    /\ outcome = "false" => \E j, k \in 1..Len(members) : j # k /\ CValues[j] = CValues[k]
=============================================================================
