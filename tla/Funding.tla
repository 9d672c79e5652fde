------------------------------ MODULE Funding -------------------------------
(***************************************************************************)
(* Opening and funding one channel: the polling loops of the two funders   *)
(* (channel/funder/funder.go), the Start, Fund and Abort operations of the *)
(* client they call (client/ckbclient.go) and the chain between them.      *)
(*                                                                         *)
(* The parties share nothing but the channel cell.  Every operation looks  *)
(* the cell up, builds a transaction that spends it, sends it and polls    *)
(* its status; between any two of these steps the other party may spend    *)
(* the same cell, a context may end, or an RPC may fail for good (all      *)
(* attempts of retryRPC) even though the node has accepted the request.    *)
(***************************************************************************)
EXTENDS Naturals

CONSTANTS
    MaxIterations   \* Funder.MaxIterationsUntilAbort

ASSUME MaxIterationsAssumption == MaxIterations \in Nat \ {0}

Party == {"A", "B"}
Kind  == {"open", "fund", "abort"}   \* the transactions of this phase

VARIABLES
    cell,      \* channel cell on the chain: "none", "open", "funded", "aborted"
    tx,        \* per transaction: "unsent", "pending", "committed", "rejected"
    solo,      \* party B puts nothing in: the channel opens as funded
    agreed,    \* the cell party A opens is the one party B's request describes
    pc,        \* where each party's Fund call is
    iter,      \* party A: i of the polling loop
    cleanup,   \* party A: the context Abort runs under; "none" before Abort
    seen,      \* per party: the cell that its transaction is built on
    ctxDone,   \* per party: the context of the Fund call has ended
    freshDone, \* the 30 s context of party A's cleanup has ended
    result     \* per party: what the Fund call has returned

chainVars == <<cell, tx>>
givenVars == <<solo, agreed>>
vars == <<cell, tx, solo, agreed, pc, iter, cleanup, seen, ctxDone, freshDone,
          result>>

PC == {"start", "select", "poll", "lookup", "build", "send", "await", "done"}

TypeOK ==
    /\ cell \in {"none", "open", "funded", "aborted"}
    /\ tx \in [Kind -> {"unsent", "pending", "committed", "rejected"}]
    /\ solo \in BOOLEAN /\ agreed \in BOOLEAN
    /\ pc \in [Party -> PC]
    /\ iter \in 0..MaxIterations
    /\ cleanup \in {"none", "caller", "fresh"}
    /\ seen \in [Party -> {"none", "open", "funded"}]
    /\ ctxDone \in [Party -> BOOLEAN]
    /\ freshDone \in BOOLEAN
    /\ result \in [Party -> {"running", "ok", "cancelled", "error", "panic"}]

Init ==
    /\ cell = "none"
    /\ tx = [k \in Kind |-> "unsent"]
    /\ solo \in BOOLEAN
    /\ agreed \in BOOLEAN
    /\ pc = [p \in Party |-> IF p = "A" THEN "start" ELSE "select"]
    /\ iter = 0
    /\ cleanup = "none"
    /\ seen = [p \in Party |-> "none"]
    /\ ctxDone = [p \in Party |-> FALSE]
    /\ freshDone = FALSE
    /\ result = [p \in Party |-> "running"]

-----------------------------------------------------------------------------
(* The chain.                                                              *)

Live == cell \in {"open", "funded"}

(* The status bit the opening transaction writes into the channel cell.    *)
InitialCell == IF solo THEN "funded" ELSE "open"

(* A pending transaction enters a block.  It must spend the live cell; the *)
(* channel's type script accepts Fund and Abort on an unfunded channel     *)
(* only.                                                                   *)
Commit(k) ==
    /\ tx[k] = "pending"
    /\ \/ k = "open"  /\ cell = "none" /\ cell' = InitialCell
       \/ k = "fund"  /\ cell = "open" /\ seen["B"] = "open" /\ cell' = "funded"
       \/ k = "abort" /\ cell = "open" /\ seen["A"] = "open" /\ cell' = "aborted"
    /\ tx' = [tx EXCEPT ![k] = "committed"]
    /\ UNCHANGED <<givenVars, pc, iter, cleanup, seen, ctxDone, freshDone, result>>

(* The node drops a pending transaction: its input was spent, a script     *)
(* failed, or the pool evicted it.                                         *)
Reject(k) ==
    /\ tx[k] = "pending"
    /\ tx' = [tx EXCEPT ![k] = "rejected"]
    /\ UNCHANGED <<cell, givenVars, pc, iter, cleanup, seen, ctxDone, freshDone, result>>

-----------------------------------------------------------------------------
(* Contexts.                                                               *)

Cancel(p) ==
    /\ ~ctxDone[p]
    /\ ctxDone' = [ctxDone EXCEPT ![p] = TRUE]
    /\ UNCHANGED <<chainVars, givenVars, pc, iter, cleanup, seen, freshDone, result>>

CleanupTimeout ==
    /\ cleanup = "fresh" /\ ~freshDone
    /\ freshDone' = TRUE
    /\ UNCHANGED <<chainVars, givenVars, pc, iter, cleanup, seen, ctxDone, result>>

(* The context of the RPCs that party p makes now.                         *)
Ended(p) == IF p = "A" /\ cleanup = "fresh" THEN freshDone ELSE ctxDone[p]

-----------------------------------------------------------------------------
(* Steps that Start, Fund and Abort have in common.                        *)

JobOf(p) == IF p = "B" THEN "fund"
            ELSE IF cleanup = "none" THEN "open" ELSE "abort"

Goto(p, l) == pc' = [pc EXCEPT ![p] = l] /\ UNCHANGED result

Return(p, r) ==
    /\ pc' = [pc EXCEPT ![p] = "done"]
    /\ result' = [result EXCEPT ![p] = r]

(* An RPC fails for good; every operation returns the error at once.       *)
RPCFails(p) ==
    /\ pc[p] \in {"lookup", "build", "send", "await"}
    /\ Return(p, "error")
    /\ UNCHANGED <<chainVars, givenVars, iter, cleanup, seen, ctxDone, freshDone>>

(* An RPC under a context that has ended fails without being retried, and  *)
(* sendAndAwait stops waiting; the transaction it sent stays where it is.  *)
ContextEnded(p) ==
    /\ pc[p] \in {"lookup", "send", "await"} /\ Ended(p)
    /\ Return(p, "error")
    /\ UNCHANGED <<chainVars, givenVars, iter, cleanup, seen, ctxDone, freshDone>>

(* getExactChannelLiveCell and the other reads before the transaction is   *)
(* built.  Neither Fund nor Abort looks at the Funded bit it has just read.*)
Lookup(p) ==
    /\ pc[p] = "lookup" /\ ~Ended(p)
    /\ IF Live
       THEN seen' = [seen EXCEPT ![p] = cell] /\ Goto(p, "build")
       ELSE UNCHANGED seen /\ Return(p, "error")
    /\ UNCHANGED <<chainVars, givenVars, iter, cleanup, ctxDone, freshDone>>

(* Build resolves every input with GetLiveCell, under no context of the    *)
(* caller, and dereferences the answer.  A spent cell has none: it panics  *)
(* when the channel cell or a cell it has taken from the wallet is gone,   *)
(* and also when only typed cells are left in the wallet and the iterator  *)
(* hands out nil.  So it may panic whatever the channel cell is (which     *)
(* wallets make it do so is the subject of TxBalance), and does for sure   *)
(* when the channel cell is not the one looked up.                         *)
Build(p) ==
    /\ pc[p] = "build"
    /\ \/ cell = seen[p] /\ Goto(p, "send")
       \/ Return(p, "panic")
    /\ UNCHANGED <<chainVars, givenVars, iter, cleanup, seen, ctxDone, freshDone>>

(* SendTransaction is answered, or accepted by the node although all three *)
(* attempts report an error (a lost answer makes the next attempt a        *)
(* duplicate).                                                             *)
Send(p) ==
    /\ pc[p] = "send" /\ ~Ended(p)
    /\ tx' = [tx EXCEPT ![JobOf(p)] = "pending"]
    /\ \/ Goto(p, "await")
       \/ Return(p, "error")
    /\ UNCHANGED <<cell, givenVars, iter, cleanup, seen, ctxDone, freshDone>>

Rejected(p) ==
    /\ pc[p] = "await" /\ ~Ended(p) /\ tx[JobOf(p)] = "rejected"
    /\ Return(p, "error")
    /\ UNCHANGED <<chainVars, givenVars, iter, cleanup, seen, ctxDone, freshDone>>

(* Variant: the answer to SendTransaction is taken for the commitment.     *)
Committed_OnSend(p) == pc[p] = "await" /\ ~Ended(p) /\ tx[JobOf(p)] # "rejected"

Committed(p) == pc[p] = "await" /\ ~Ended(p) /\ tx[JobOf(p)] = "committed"

-----------------------------------------------------------------------------
(* fundPartyA.                                                             *)

StartBuilt ==
    /\ pc["A"] = "start"
    /\ \/ Goto("A", "send")
       \/ Return("A", "error")   \* no token cell, no funds, a failed RPC
       \/ Return("A", "panic")   \* no cell to dereference, as in Build
    /\ UNCHANGED <<chainVars, givenVars, iter, cleanup, seen, ctxDone, freshDone>>

StartReturns ==
    /\ Committed("A") /\ JobOf("A") = "open"
    /\ Goto("A", "select")
    /\ UNCHANGED <<chainVars, givenVars, iter, cleanup, seen, ctxDone, freshDone>>

(* case <-time.After(f.PollingInterval)                                    *)
TimerFires(p) ==
    /\ pc[p] = "select" /\ ~ctxDone[p]
    /\ Goto(p, "poll")
    /\ UNCHANGED <<chainVars, givenVars, iter, cleanup, seen, ctxDone, freshDone>>

(* Variant: a cancelled Fund returns without cleaning up.                  *)
CancelledA_NoAbort ==
    /\ pc["A"] = "select" /\ ctxDone["A"]
    /\ Return("A", "cancelled")
    /\ UNCHANGED <<chainVars, givenVars, iter, cleanup, seen, ctxDone, freshDone>>

(* case <-ctx.Done(): clean up under a context of its own.                 *)
CancelledA ==
    /\ pc["A"] = "select" /\ ctxDone["A"]
    /\ cleanup' = "fresh"
    /\ Goto("A", "lookup")
    /\ UNCHANGED <<chainVars, givenVars, iter, seen, ctxDone, freshDone>>

PollFundedA ==
    /\ pc["A"] = "poll" /\ ~ctxDone["A"] /\ cell = "funded"
    /\ Return("A", "ok")
    /\ UNCHANGED <<chainVars, givenVars, iter, cleanup, seen, ctxDone, freshDone>>

(* Variant: the bound of the loop is off by one.                           *)
PollAgainA_OneMore ==
    /\ pc["A"] = "poll"
    /\ iter' = iter + 1
    /\ IF iter < MaxIterations
       THEN Goto("A", "select") /\ UNCHANGED cleanup
       ELSE Goto("A", "lookup") /\ cleanup' = "caller"
    /\ UNCHANGED <<chainVars, givenVars, seen, ctxDone, freshDone>>

(* The poll fails, or the channel is not funded yet: the next round of the *)
(* loop, or, after the last one, Abort under the caller's context.         *)
PollAgainA ==
    /\ pc["A"] = "poll"
    /\ iter' = iter + 1
    /\ IF iter + 1 < MaxIterations
       THEN Goto("A", "select") /\ UNCHANGED cleanup
       ELSE Goto("A", "lookup") /\ cleanup' = "caller"
    /\ UNCHANGED <<chainVars, givenVars, seen, ctxDone, freshDone>>

(* Abort has succeeded: fundPartyA returns ctx.Err() when it was cancelled *)
(* and what Abort returned, nil, when it ran out of iterations.            *)
AbortReturns ==
    /\ Committed("A") /\ JobOf("A") = "abort"
    /\ Return("A", IF cleanup = "fresh" THEN "cancelled" ELSE "ok")
    /\ UNCHANGED <<chainVars, givenVars, iter, cleanup, seen, ctxDone, freshDone>>

-----------------------------------------------------------------------------
(* fundPartyB.                                                             *)

(* Variant: the loop does not watch its context.                           *)
CancelledB_Ignored ==
    /\ pc["B"] = "select" /\ ctxDone["B"]
    /\ Goto("B", "poll")
    /\ UNCHANGED <<chainVars, givenVars, iter, cleanup, seen, ctxDone, freshDone>>

CancelledB ==
    /\ pc["B"] = "select" /\ ctxDone["B"]
    /\ Return("B", "cancelled")
    /\ UNCHANGED <<chainVars, givenVars, iter, cleanup, seen, ctxDone, freshDone>>

PollFailsB ==
    /\ pc["B"] = "poll"
    /\ Goto("B", "select")
    /\ UNCHANGED <<chainVars, givenVars, iter, cleanup, seen, ctxDone, freshDone>>

(* Variant: the channel found is taken for the one agreed on.              *)
PollFoundB_Unverified ==
    /\ pc["B"] = "poll" /\ ~ctxDone["B"] /\ Live
    /\ \/ cell = "funded" /\ Return("B", "ok")
       \/ cell = "open" /\ Goto("B", "lookup")
    /\ UNCHANGED <<chainVars, givenVars, iter, cleanup, seen, ctxDone, freshDone>>

(* A live channel is found: verifyChannelIntegrity, then the Funded bit.   *)
PollFoundB ==
    /\ pc["B"] = "poll" /\ ~ctxDone["B"] /\ Live
    /\ \/ ~agreed /\ Return("B", "error")
       \/ agreed /\ cell = "funded" /\ Return("B", "ok")
       \/ agreed /\ cell = "open" /\ Goto("B", "lookup")
    /\ UNCHANGED <<chainVars, givenVars, iter, cleanup, seen, ctxDone, freshDone>>

FundReturns ==
    /\ Committed("B")
    /\ Return("B", "ok")
    /\ UNCHANGED <<chainVars, givenVars, iter, cleanup, seen, ctxDone, freshDone>>

-----------------------------------------------------------------------------
StepA == \/ StartBuilt \/ StartReturns \/ TimerFires("A") \/ CancelledA
         \/ PollFundedA \/ PollAgainA \/ AbortReturns
         \/ Lookup("A") \/ Build("A") \/ Send("A") \/ Rejected("A") \/ ContextEnded("A")

StepB == \/ TimerFires("B") \/ CancelledB \/ PollFailsB \/ PollFoundB \/ FundReturns
         \/ Lookup("B") \/ Build("B") \/ Send("B") \/ Rejected("B") \/ ContextEnded("B")

Chain == \E k \in Kind : Commit(k) \/ Reject(k)

Next == \/ StepA \/ StepB \/ Chain
        \/ \E p \in Party : RPCFails(p) \/ Cancel(p)
        \/ CleanupTimeout

Spec == Init /\ [][Next]_vars

(* The two goroutines keep running: their selects and RPCs come back.  The *)
(* node decides about every transaction in its pool, and the cleanup       *)
(* context does time out.  Polling every five seconds, party B does not    *)
(* fail forever to see a channel that stays there.  Nobody has to cancel   *)
(* and no RPC has to fail.                                                 *)
FairSpec == /\ Spec
            /\ WF_vars(StepA) /\ WF_vars(StepB) /\ SF_vars(PollFoundB)
            /\ WF_vars(Chain) /\ WF_vars(CleanupTimeout)

-----------------------------------------------------------------------------
(* Safety.                                                                 *)

(* The funders keep their promise: whatever the interleaving, party B only *)
(* answers "ok" for a funded channel and party A only answers "ok" or      *)
(* "cancelled" when its deposit is not stranded in an open one.            *)
Promise == INSTANCE FundingPromise
KeepsPromise == Promise!Spec

(* A call that answers "ok", or "cancelled" after cleaning up, has no      *)
(* transaction left in the pool that could still change the channel        *)
(* behind its caller's back (sendAndAwait waits for "committed").          *)
NothingInFlight ==
    /\ result["A"] \in {"ok", "cancelled"} =>
          tx["open"] # "pending" /\ tx["abort"] # "pending"
    /\ result["B"] \in {"ok", "cancelled"} => tx["fund"] # "pending"

(* The channel never moves behind the back of a caller that is done with   *)
(* it: it is opened and aborted for party A, and funded for party B, while *)
(* the call that sends the transaction is running, or after the call has   *)
(* answered an error; never after "ok" or "cancelled", and never after a   *)
(* panic, wherever Build was when it happened.  And party B's deposit only *)
(* goes into the cell that party B has agreed to.                          *)
MovesForItsCaller ==
    [][ /\ cell = "none" /\ cell' # "none" => result["A"] \in {"running", "error"}
        /\ cell # "aborted" /\ cell' = "aborted" => result["A"] \in {"running", "error"}
        /\ cell = "open" /\ cell' = "funded" =>
              agreed /\ result["B"] \in {"running", "error"} ]_vars

-----------------------------------------------------------------------------
(* Liveness.                                                               *)

(* Both Fund calls return.  Party A's always does: its loop is bounded and *)
(* sendAndAwait ends with every transaction's fate.  Party B, whose loop   *)
(* has no bound, returns once its context ends, and without that when a    *)
(* channel it can find stays on the chain.                                 *)
PartiesReturn ==
    /\ <>(result["A"] # "running")
    /\ ctxDone["B"] ~> result["B"] # "running"
    /\ Live ~> result["B"] # "running" \/ cell = "aborted"
=============================================================================
