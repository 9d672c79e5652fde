---------------------------- MODULE ChannelLife -----------------------------
(***************************************************************************)
(* The life of one channel on the chain, as a subscription takes it for    *)
(* granted: opened, perhaps funded later, disputed by rising versions, and *)
(* gone for good.                                                          *)
(***************************************************************************)
EXTENDS Naturals

CONSTANT MaxVersion

VARIABLES stage,    \* "unborn", "open", "funded", "disputed" or "gone"
          version   \* its registered version

vars == <<stage, version>>

Init == stage = "unborn" /\ version = 0

Open == stage = "unborn" /\ stage' \in {"open", "funded"} /\ UNCHANGED version

Fund == stage = "open" /\ stage' = "funded" /\ UNCHANGED version

Register == /\ stage \in {"funded", "disputed"} /\ stage' = "disputed"
            /\ \E v \in 1..MaxVersion : v > version /\ version' = v

Vanish == stage \notin {"unborn", "gone"} /\ stage' = "gone" /\ UNCHANGED version

Next == Open \/ Fund \/ Register \/ Vanish

Spec == Init /\ [][Next]_vars
=============================================================================
