--------------------------- MODULE FundingPromise ---------------------------
(***************************************************************************)
(* What the two funders together promise about one channel.                *)
(*                                                                         *)
(* Only two things can be seen from outside: the channel cell on the chain *)
(* and what each party's Fund call has answered.  The chain moves forward  *)
(* only; an answer is given once and is never taken back; and an answer    *)
(* binds its party to what the chain holds at that moment:                 *)
(*   - party B answers "ok" only when the channel is funded;               *)
(*   - party A answers "ok" only when its deposit is not left waiting in   *)
(*     an unfunded channel, and "cancelled" only when it has it back.      *)
(* An "error" (or a crash of the process) promises nothing.                *)
(***************************************************************************)

VARIABLES cell,    \* the channel cell: "none", "open", "funded" or "aborted"
          result   \* what the Fund call of each party has answered

vars == <<cell, result>>

Party == {"A", "B"}
CellState == {"none", "open", "funded", "aborted"}
Answer == {"running", "ok", "cancelled", "error", "panic"}

TypeOK == cell \in CellState /\ result \in [Party -> Answer]

Init == cell = "none" /\ result = [p \in Party |-> "running"]

(* The channel is opened, either waiting for party B or, when party B puts *)
(* nothing in, funded from the start.                                      *)
Open  == cell = "none" /\ cell' \in {"open", "funded"} /\ UNCHANGED result
Fund  == cell = "open" /\ cell' = "funded" /\ UNCHANGED result
Abort == cell = "open" /\ cell' = "aborted" /\ UNCHANGED result

(* The answers that fit the cell.                                          *)
Binding(p, r) ==
    CASE r = "ok" /\ p = "A" -> cell \in {"funded", "aborted"}
      [] r = "ok" /\ p = "B" -> cell = "funded"
      [] r = "cancelled"     -> p = "B" \/ cell = "aborted"
      [] OTHER               -> TRUE

Reply(p, r) ==
    /\ result[p] = "running"
    /\ Binding(p, r)
    /\ result' = [result EXCEPT ![p] = r]
    /\ UNCHANGED cell

Next == \/ Open \/ Fund \/ Abort
        \/ \E p \in Party, r \in Answer \ {"running"} : Reply(p, r)

Spec == Init /\ [][Next]_vars
=============================================================================
