------------------------------ MODULE Watching ------------------------------
(***************************************************************************)
(* A ledger channel under a watcher: go-perun's local watcher, which       *)
(* client/test/setup.go sets up with the adjudicator, reads a subscription *)
(* of the channel and calls Register with the newest state for every       *)
(* registered event that is older.  It composes the adjudicator's calls    *)
(* (Settlement) with what a subscription promises its reader (EventStream, *)
(* which Subscription is shown to implement).                              *)
(*                                                                         *)
(* In some behaviours the channel is watched, and in time: the challenge   *)
(* period is longer than the watcher takes to hear of a dispute and to     *)
(* answer it.  In the others all callers are alike, as in Settlement.      *)
(***************************************************************************)
EXTENDS Settlement

CONSTANT Watcher   \* the watcher's goroutine, one of the callers

ASSUME WatcherAssumption == Watcher \in Caller

VARIABLES
    watched,       \* the channel has a watcher, in time
    seen, ended,   \* what the watcher was told: see EventStream
    held           \* history: every version that was ever registered

heardVars == <<watched, seen, ended>>
watchVars == <<heardVars, held>>
allVars == <<vars, watchVars>>

(* The watcher starts on a funded channel which its subscription has found.*)
WInit == Init /\ watched \in BOOLEAN /\ seen = 0 /\ ended = "no" /\ held = {}

Stream == INSTANCE EventStream WITH
    MaxVersion <- FinalVersion,
    stage <- IF ~live THEN "gone" ELSE IF disputed THEN "disputed" ELSE "funded"

-----------------------------------------------------------------------------
(* The watcher.                                                            *)

(* A registered event: if the newest signed state is newer, Register it.   *)
(* The watcher reads its next event when Register has returned, and what   *)
(* it returned makes no difference.                                        *)
ReadRegistered ==
    /\ watched /\ UNCHANGED watched
    /\ pc[Watcher] = "idle"
    /\ \/ /\ Call(Watcher) /\ call'[Watcher] = [op |-> "register", v |-> signed]
          /\ Stream!ReportRegistered /\ seen' < signed
       \/ UNCHANGED vars /\ Stream!ReportRegistered /\ seen' >= signed

(* The subscription ends with the channel, and not before it.              *)
ReadEnd ==
    /\ watched /\ UNCHANGED watched
    /\ pc[Watcher] = "idle"
    /\ UNCHANGED vars
    /\ Stream!ReportConcluded \/ (ended = "concluded" /\ Stream!End)

-----------------------------------------------------------------------------
(* The rest of the system, and what does not happen to a watched channel.  *)

(* The watcher was told of the registered version and has answered it.     *)
AtRest == seen = version /\ pc[Watcher] = "idle"

(* Whoever knows of a dispute signs no further state.                      *)
Agree == Update /\ (watched => seen = 0)

(* No challenge period runs out before the watcher has answered.           *)
PeriodEnds == Mature /\ (watched => AtRest)

(* Somebody has spent the cell that the watcher's Register has read.       *)
Overtaken == snap[Watcher] # NoCell /\ (~live \/ snap[Watcher].gen # gen)

(* The watcher's Register fails only because of that: its RPCs get through *)
(* within their attempts, and no node evicts its transaction.              *)
WatcherFails == watched /\ Fails(Watcher) /\ Overtaken

DecideOn(t) ==
    \/ MineDispute(t) \/ MineClosing(t)
    \/ Drop(t) /\ (watched /\ t.by = Watcher => Overtaken)

(* The other callers.  The bound on calls leaves the watcher its own.      *)
Others(c) ==
    \/ Step(c) \/ Fails(c)
    \/ calls + FinalVersion <= MaxCalls /\ (Call(c) \/ WithdrawSecondary(c))

WDecide(c) ==
    /\ \E t \in pool : t.by = c /\ DecideOn(t)
    /\ held' = IF version' = version THEN held ELSE held \cup {version'}
    /\ UNCHANGED heardVars
WStep(c)   == Step(c) /\ UNCHANGED watchVars

WNext ==
    \/ (Agree \/ PeriodEnds \/ WatcherFails) /\ UNCHANGED watchVars
    \/ \E c \in Caller : (watched => c # Watcher) /\ Others(c) /\ UNCHANGED watchVars
    \/ \E c \in Caller : WDecide(c)
    \/ WStep(Watcher) \/ ReadRegistered \/ ReadEnd

WSpec == WInit /\ [][WNext]_allVars

(* As for Settlement; and the watcher is told what is there to be told,    *)
(* which is Subscription's DisputeReported.                                *)
WFairSpec ==
    /\ WSpec
    /\ \A c \in Caller : WF_allVars(WDecide(c)) /\ WF_allVars(WStep(c))
    /\ WF_allVars(ReadRegistered)

-----------------------------------------------------------------------------
(* With a watcher and in time, nobody is cheated: whatever older versions  *)
(* the other callers register and whenever they try to close, the channel  *)
(* is paid out by the newest state that both parties have signed.          *)
NewestWins == watched /\ ~live => paid = signed

(* An outdated dispute is answered, although the watcher never retries a   *)
(* Register that failed: where another caller overtook it, the next event  *)
(* makes it try again.                                                     *)
WatcherCatchesUp ==
    watched /\ disputed /\ version < signed ~> version = signed \/ ~live
=============================================================================
