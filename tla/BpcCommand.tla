----------------------------- MODULE BpcCommand -----------------------------
(***************************************************************************)
(* What the command promises about the disk: a command it does not         *)
(* understand touches nothing; otherwise it first empties the output       *)
(* files, then gives a verdict on the input, and only after a good one     *)
(* fills the files it emptied, all of them, and no other.                  *)
(***************************************************************************)
CONSTANTS Paths, Contents

VARIABLES disk,     \* [Paths -> Contents]
          emptied,  \* the files that were emptied
          verdict   \* "none", "refused", "bad", "good", "done"

vars == <<disk, emptied, verdict>>

Init == disk \in [Paths -> Contents] /\ emptied = {} /\ verdict = "none"

Empty(p) ==
  /\ verdict = "none"
  /\ disk' = [disk EXCEPT ![p] = "empty"] /\ emptied' = emptied \cup {p}
  /\ UNCHANGED verdict

Refuse ==
  /\ verdict = "none" /\ emptied = {} /\ verdict' = "refused"
  /\ UNCHANGED <<disk, emptied>>

Judge ==
  /\ verdict = "none" /\ verdict' \in {"bad", "good"}
  /\ UNCHANGED <<disk, emptied>>

Fill(p) ==
  /\ verdict = "good" /\ p \in emptied
  /\ \E c \in {"code", "partial"} : disk' = [disk EXCEPT ![p] = c]
  /\ UNCHANGED <<emptied, verdict>>

Finish ==
  /\ verdict = "good" /\ \A p \in emptied : disk[p] # "empty"
  /\ verdict' = "done"
  /\ UNCHANGED <<disk, emptied>>

Next ==
  \/ \E p \in Paths : Empty(p) \/ Fill(p)
  \/ Refuse \/ Judge \/ Finish

\* The user gets a verdict, and after a good one the files.
Spec == Init /\ [][Next]_vars /\ WF_vars(Refuse \/ Judge) /\ WF_vars(Finish)
=============================================================================
