-------------------------- MODULE SettlementPromise --------------------------
(***************************************************************************)
(* What the chain shows of a funded channel, whoever calls the adjudicator *)
(* and in whatever order: the registered version only rises, every rise    *)
(* restarts the challenge period, and the channel is paid out once, either *)
(* by a version whose challenge period has run out or by the final state.  *)
(***************************************************************************)
EXTENDS Naturals

CONSTANT FinalVersion

VARIABLES phase,    \* "funded", "disputed" or "closed"
          version,  \* the version in the channel cell
          matured,  \* the challenge period of that version has run out
          paid      \* the version paid out; FinalVersion + 1 before

vars == <<phase, version, matured, paid>>

Unpaid == FinalVersion + 1

Init == phase = "funded" /\ version = 0 /\ matured = FALSE /\ paid = Unpaid

Raise == /\ phase # "closed"
         /\ \E v \in 1..FinalVersion : v > version /\ version' = v
         /\ phase' = "disputed" /\ matured' = FALSE
         /\ UNCHANGED paid

Mature == /\ phase = "disputed" /\ matured' = TRUE
          /\ UNCHANGED <<phase, version, paid>>

PayOut == /\ phase # "closed"
          /\ \/ matured /\ paid' = version
             \/ paid' = FinalVersion
          /\ phase' = "closed"
          /\ UNCHANGED <<version, matured>>

Next == Raise \/ Mature \/ PayOut

Spec == Init /\ [][Next]_vars
=============================================================================
