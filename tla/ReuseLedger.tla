----------------------------- MODULE ReuseLedger -----------------------------
(***************************************************************************)
(* What proof-aware reuse promises, with no files, modes or receipts.      *)
(*                                                                         *)
(* A fact is an obligation together with its proof key.  Facts become      *)
(* proved when the obligation is selected to run under that key; a fact is *)
(* never un-proved.  A verdict that skips the test is permitted only for a *)
(* fact already proved.  Trusted facts are those certified from outside.   *)
(***************************************************************************)
CONSTANTS Fact, Trusted, NoVerdict

VARIABLES proved, verdict
vars == <<proved, verdict>>

Verdict(action, f) == [action |-> action, fact |-> f]

Init == proved = Trusted /\ verdict = NoVerdict

Select(f) ==
  /\ verdict = NoVerdict
  /\ proved' = proved \union {f}
  /\ verdict' = Verdict("SELECTED", f)

Reuse(f) ==
  /\ verdict = NoVerdict
  /\ f \in proved
  /\ verdict' = Verdict("REUSED", f)
  /\ UNCHANGED proved

Block(f, reason) ==
  /\ verdict = NoVerdict
  /\ verdict' = Verdict(reason, f)
  /\ UNCHANGED proved

Settle ==
  /\ verdict # NoVerdict
  /\ verdict' = NoVerdict
  /\ UNCHANGED proved

Next ==
  \/ \E f \in Fact : \/ Select(f)
                     \/ Reuse(f)
                     \/ \E reason \in {"UNKNOWN", "REFUTED"} : Block(f, reason)
  \/ Settle

Spec == Init /\ [][Next]_vars
=============================================================================
