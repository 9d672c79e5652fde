---------------------------- MODULE EventStream -----------------------------
(***************************************************************************)
(* What the reader of an adjudicator subscription may rely on: it is told  *)
(* of registered versions that the chain has really held, each at most     *)
(* once and in rising order; it is told that the channel is concluded only *)
(* when it is; after that nothing more is reported; and nil is the end.    *)
(* The polling, the retries and the buffer behind it are not visible.      *)
(***************************************************************************)
EXTENDS Naturals

CONSTANT MaxVersion

VARIABLES stage,    \* of the channel on the chain
          version,  \* its registered version
          held,     \* history: every version that was ever registered
          seen,     \* the newest registered version the reader was told of
          ended     \* "no", "concluded" or "nil"

vars == <<stage, version, held, seen, ended>>

Life == INSTANCE ChannelLife

Init == Life!Init /\ held = {} /\ seen = 0 /\ ended = "no"

(* The chain goes on by itself: what was registered is history.            *)
Move == /\ Life!Next
        /\ held' = IF version' = version THEN held ELSE held \cup {version'}
        /\ UNCHANGED <<seen, ended>>

(* The reports.                                                            *)
ReportRegistered == /\ ended = "no"
                    /\ \E v \in held : v > seen /\ seen' = v
                    /\ UNCHANGED <<stage, version, held, ended>>

ReportConcluded == /\ ended = "no" /\ stage = "gone" /\ ended' = "concluded"
                   /\ UNCHANGED <<stage, version, held, seen>>

End == /\ ended \in {"no", "concluded"} /\ ended' = "nil"
       /\ UNCHANGED <<stage, version, held, seen>>

Next == Move \/ ReportRegistered \/ ReportConcluded \/ End

Spec == Init /\ [][Next]_vars
=============================================================================
