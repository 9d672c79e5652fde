--------------------------- MODULE FundingProofs ----------------------------
(***************************************************************************)
(* Proofs about Funding, for every number of polling iterations.           *)
(*                                                                         *)
(* The inductive invariant Ind says where each transaction can be given    *)
(* the place its sender has reached, and ties the fate of the transactions *)
(* to the channel cell.  With it, every step of Funding is a step of       *)
(* FundingPromise or leaves its variables alone.                           *)
(***************************************************************************)
EXTENDS Funding, TLAPS

(* A call has answered exactly when its party has left its loops.          *)
DoneInv == \A p \in Party : pc[p] = "done" <=> result[p] # "running"

(* A transaction is unsent until its sender gets to it.                    *)
UnsentInv ==
    /\ pc["A"] = "start" => tx["open"] = "unsent"
    /\ pc["A"] \in {"lookup", "build", "send"} =>
          tx[JobOf("A")] = "unsent"
    /\ cleanup = "none" => tx["abort"] = "unsent"
    /\ pc["B"] \in {"select", "poll", "lookup", "build", "send"} =>
          tx["fund"] = "unsent"

(* Party A reaches Abort only by leaving its polling loop, and that loop   *)
(* only after its opening transaction was committed.                       *)
LoopInv ==
    /\ pc["A"] \in {"start", "select", "poll"} => cleanup = "none"
    /\ cleanup = "none" => iter < MaxIterations
    /\ pc["A"] \in {"lookup", "build"} => cleanup # "none"
    /\ pc["A"] \in {"select", "poll"} \/ cleanup # "none" =>
          tx["open"] = "committed"

(* The cell is what the committed transactions have made it.               *)
CellInv ==
    /\ cell = "none" <=> tx["open"] # "committed"
    /\ cell = "aborted" <=> tx["abort"] = "committed"
    /\ tx["fund"] = "committed" => cell = "funded"

(* What the answers given so far say about the chain.                      *)
AnswerInv ==
    /\ result["A"] = "ok" => cell \in {"funded", "aborted"}
    /\ result["A"] = "cancelled" => cell = "aborted"
    /\ result["B"] = "ok" => cell = "funded"
    /\ NothingInFlight

(* A call that has panicked was in Build: what it was building is not sent.*)
CrashInv ==
    /\ result["A"] = "panic" => tx["open"] # "pending" /\ tx["abort"] = "unsent"
    /\ result["B"] = "panic" => tx["fund"] = "unsent"

(* Party B gets past its polling loop only for the cell agreed on, and     *)
(* sends nothing before.                                                   *)
AgreedInv ==
    /\ pc["B"] \in {"lookup", "build", "send", "await"} => agreed
    /\ tx["fund"] # "unsent" => agreed

Ind == TypeOK /\ DoneInv /\ UnsentInv /\ LoopInv /\ CellInv /\ AnswerInv /\ CrashInv /\ AgreedInv

USE MaxIterationsAssumption

(* Before Start and before the first poll nothing is sent and no cell      *)
(* exists.                                                                 *)
LEMMA InitInd == Init => Ind
<1> SUFFICES ASSUME Init PROVE Ind
  OBVIOUS
<1> USE DEF Init, Party, Kind
<1>1. TypeOK
  <2>1. pc \in [Party -> {"start", "select"}]
    OBVIOUS
  <2>2. pc \in [Party -> PC]
    BY <2>1 DEF PC
  <2>3. iter \in 0..MaxIterations
    OBVIOUS
  <2>4. /\ tx \in [Kind -> {"unsent", "pending", "committed", "rejected"}]
        /\ seen \in [Party -> {"none", "open", "funded"}]
        /\ ctxDone \in [Party -> BOOLEAN]
        /\ result \in [Party -> {"running", "ok", "cancelled", "error", "panic"}]
    OBVIOUS
  <2>5. QED
    BY <2>2, <2>3, <2>4 DEF TypeOK
<1>2. DoneInv
  <2>1. \A p \in Party : pc[p] \in {"start", "select"} /\ result[p] = "running"
    OBVIOUS
  <2>2. QED
    BY <2>1 DEF DoneInv
<1>3. UnsentInv /\ LoopInv
  BY DEF UnsentInv, LoopInv, JobOf
<1>4. CellInv /\ AnswerInv
  BY DEF CellInv, AnswerInv, NothingInFlight
<1>5. CrashInv /\ AgreedInv
  BY DEF CrashInv, AgreedInv
<1>6. QED
  BY <1>1, <1>2, <1>3, <1>4, <1>5 DEF Ind

(* Every step preserves the invariant: one step per action.                *)
LEMMA NextInd == Ind /\ [Next]_vars => Ind'
<1> SUFFICES ASSUME Ind, [Next]_vars PROVE Ind'
  OBVIOUS
<1> USE DEF Ind, TypeOK, Party, Kind, PC, DoneInv, UnsentInv, LoopInv, CellInv,
            AnswerInv, NothingInFlight, CrashInv, AgreedInv, JobOf, Ended, Goto, Return, Live,
            Committed, chainVars, givenVars
<1>1. CASE StartBuilt
  <2>1. CASE Goto("A", "send")
    BY <1>1, <2>1 DEF StartBuilt
  <2>2. CASE Return("A", "error")
    BY <1>1, <2>2 DEF StartBuilt
  <2>3. CASE Return("A", "panic")
    BY <1>1, <2>3 DEF StartBuilt
  <2>4. QED
    BY <1>1, <2>1, <2>2, <2>3 DEF StartBuilt
<1>2. CASE StartReturns
  BY <1>2 DEF StartReturns
<1>3. ASSUME NEW p \in Party, TimerFires(p) PROVE Ind'
  BY <1>3 DEF TimerFires
<1>4. CASE CancelledA
  BY <1>4 DEF CancelledA
<1>5. CASE PollFundedA
  BY <1>5 DEF PollFundedA
<1>6. CASE PollAgainA
  BY <1>6 DEF PollAgainA
<1>7. CASE AbortReturns
  BY <1>7 DEF AbortReturns
<1>8. ASSUME NEW p \in Party, Lookup(p) PROVE Ind'
  BY <1>8 DEF Lookup
<1>9. ASSUME NEW p \in Party, Build(p) PROVE Ind'
  BY <1>9 DEF Build
<1>10. ASSUME NEW p \in Party, Send(p) PROVE Ind'
  BY <1>10 DEF Send
<1>11. ASSUME NEW p \in Party, Rejected(p) PROVE Ind'
  BY <1>11 DEF Rejected
<1>12. ASSUME NEW p \in Party, ContextEnded(p) PROVE Ind'
  BY <1>12 DEF ContextEnded
<1>13. ASSUME NEW p \in Party, RPCFails(p) PROVE Ind'
  BY <1>13 DEF RPCFails
<1>14. CASE CancelledB
  BY <1>14 DEF CancelledB
<1>15. CASE PollFailsB
  BY <1>15 DEF PollFailsB
<1>16. CASE PollFoundB
  BY <1>16 DEF PollFoundB
<1>17. CASE FundReturns
  BY <1>17 DEF FundReturns
<1>18. ASSUME NEW k \in Kind, Commit(k) PROVE Ind'
  BY <1>18 DEF Commit, InitialCell
<1>19. ASSUME NEW k \in Kind, Reject(k) PROVE Ind'
  BY <1>19 DEF Reject
<1>20. ASSUME NEW p \in Party, Cancel(p) PROVE Ind'
  BY <1>20 DEF Cancel
<1>21. CASE CleanupTimeout
  BY <1>21 DEF CleanupTimeout
<1>22. CASE UNCHANGED vars
  BY <1>22 DEF vars
<1>23. QED
  BY <1>1, <1>2, <1>3, <1>4, <1>5, <1>6, <1>7, <1>8, <1>9, <1>10, <1>11, <1>12,
     <1>13, <1>14, <1>15, <1>16, <1>17, <1>18, <1>19, <1>20, <1>21, <1>22
     DEF Next, StepA, StepB, Chain

(* The invariant holds in every reachable state.                           *)
LEMMA Invariance == Spec => []Ind
BY InitInd, NextInd, PTL DEF Spec

(* The variables of Funding keep their types.                              *)
THEOREM TypeCorrect == Spec => []TypeOK
<1>1. Ind => TypeOK
  BY DEF Ind
<1>2. QED
  BY <1>1, Invariance, PTL

(* A call that answered "ok" or "cancelled" left nothing of its own in the *)
(* pool: sendAndAwait never reports success for a pending transaction.     *)
THEOREM QuietAnswers == Spec => []NothingInFlight
<1>1. Ind => NothingInFlight
  BY DEF Ind, AnswerInv
<1>2. QED
  BY <1>1, Invariance, PTL

(* No transaction of a call that is over, with "ok", "cancelled" or a      *)
(* panic, ever moves the channel; and no deposit of party B goes into a    *)
(* channel it has not agreed to.                                           *)
THEOREM CallersAreNotOvertaken == Spec => MovesForItsCaller
<1> DEFINE Moves ==
      /\ cell = "none" /\ cell' # "none" => result["A"] \in {"running", "error"}
      /\ cell # "aborted" /\ cell' = "aborted" => result["A"] \in {"running", "error"}
      /\ cell = "open" /\ cell' = "funded" =>
            agreed /\ result["B"] \in {"running", "error"}
<1>1. Ind /\ [Next]_vars => [Moves]_vars
  <2> SUFFICES ASSUME Ind, Next PROVE Moves
    BY DEF vars
  <2>1. CASE UNCHANGED cell
    BY <2>1
  <2>2. ASSUME NEW k \in Kind, Commit(k) PROVE Moves
    <3>1. result["A"] \in {"running", "ok", "cancelled", "error", "panic"}
          /\ result["B"] \in {"running", "ok", "cancelled", "error", "panic"}
      BY DEF Ind, TypeOK, Party
    <3> USE DEF Ind, CrashInv, AgreedInv, AnswerInv, NothingInFlight, CellInv
    <3>2. CASE k = "open"
      BY <2>2, <3>1, <3>2 DEF Commit, InitialCell
    <3>3. CASE k = "fund"
      BY <2>2, <3>1, <3>3 DEF Commit
    <3>4. CASE k = "abort"
      BY <2>2, <3>1, <3>4 DEF Commit
    <3>5. QED
      BY <3>2, <3>3, <3>4 DEF Kind
  <2>3. UNCHANGED cell \/ \E k \in Kind : Commit(k)
    BY DEF Next, StepA, StepB, Chain, StartBuilt, StartReturns, TimerFires, CancelledA,
           PollFundedA, PollAgainA, AbortReturns, Lookup, Build, Send, Rejected,
           ContextEnded, CancelledB, PollFailsB, PollFoundB, FundReturns, Reject,
           RPCFails, Cancel, CleanupTimeout, chainVars
  <2>4. QED
    BY <2>1, <2>2, <2>3
<1>2. QED
  BY <1>1, Invariance, PTL DEF Spec, MovesForItsCaller

-----------------------------------------------------------------------------
(* Returning an answer that the cell allows is a Reply of the promise.     *)
LEMMA ReturnReplies ==
    ASSUME Ind, Ind', NEW p \in Party, pc[p] # "done",
           NEW r \in {"ok", "cancelled", "error", "panic"},
           Return(p, r), UNCHANGED cell
    PROVE  Promise!Next
<1>1. result[p] = "running"
  BY DEF Ind, DoneInv
<1>2. result' = [result EXCEPT ![p] = r] /\ result'[p] = r
  BY DEF Return, Ind, TypeOK
<1>3. Promise!Binding(p, r)
  BY <1>2 DEF Promise!Binding, Ind, AnswerInv, Party
<1>4. Promise!Reply(p, r)
  BY <1>1, <1>2, <1>3 DEF Promise!Reply
<1>5. QED
  BY <1>4 DEF Promise!Next, Promise!Party, Party, Promise!Answer

(* Every step of the funders and of the chain is a step of the promise or  *)
(* leaves the cell and the answers as they are.                            *)
LEMMA StepRefines == Ind /\ Ind' /\ [Next]_vars => [Promise!Next]_Promise!vars
<1> SUFFICES ASSUME Ind, Ind', [Next]_vars PROVE Promise!Next \/ UNCHANGED <<cell, result>>
  BY DEF Promise!vars
<1> DEFINE Quiet == UNCHANGED <<cell, result>>
           Replies(p) == /\ pc[p] # "done" /\ UNCHANGED cell
                         /\ \E r \in {"ok", "cancelled", "error", "panic"} : Return(p, r)
<1>1. ASSUME NEW p \in Party, Replies(p) PROVE Promise!Next
  BY <1>1, ReturnReplies
<1>2. CASE StepA
  <2> USE DEF Party, chainVars
  <2>1. CASE StartBuilt
    BY <2>1, <1>1 DEF StartBuilt, Goto
  <2>2. CASE StartReturns \/ TimerFires("A") \/ CancelledA \/ PollAgainA
    BY <2>2 DEF StartReturns, TimerFires, CancelledA, PollAgainA, Goto
  <2>3. CASE PollFundedA \/ AbortReturns
    BY <2>3, <1>1 DEF PollFundedA, AbortReturns, Committed
  <2>4. CASE Lookup("A") \/ Build("A") \/ Send("A")
    BY <2>4, <1>1 DEF Lookup, Build, Send, Goto
  <2>5. CASE Rejected("A") \/ ContextEnded("A")
    BY <2>5, <1>1 DEF Rejected, ContextEnded
  <2>6. QED
    BY <1>2, <2>1, <2>2, <2>3, <2>4, <2>5 DEF StepA
<1>3. CASE StepB
  <2> USE DEF Party, chainVars
  <2>1. CASE TimerFires("B") \/ PollFailsB
    BY <2>1 DEF TimerFires, PollFailsB, Goto
  <2>2. CASE CancelledB \/ FundReturns
    BY <2>2, <1>1 DEF CancelledB, FundReturns, Committed
  <2>3. CASE PollFoundB
    BY <2>3, <1>1 DEF PollFoundB, Goto
  <2>4. CASE Lookup("B") \/ Build("B") \/ Send("B")
    BY <2>4, <1>1 DEF Lookup, Build, Send, Goto
  <2>5. CASE Rejected("B") \/ ContextEnded("B")
    BY <2>5, <1>1 DEF Rejected, ContextEnded
  <2>6. QED
    BY <1>3, <2>1, <2>2, <2>3, <2>4, <2>5 DEF StepB
<1>4. ASSUME NEW k \in Kind, Commit(k) PROVE Promise!Next
  <2>1. CASE k = "open"
    BY <1>4, <2>1 DEF Commit, InitialCell, Promise!Next, Promise!Open
  <2>2. CASE k = "fund"
    BY <1>4, <2>2 DEF Commit, Promise!Next, Promise!Fund
  <2>3. CASE k = "abort"
    BY <1>4, <2>3 DEF Commit, Promise!Next, Promise!Abort
  <2>4. QED
    BY <2>1, <2>2, <2>3 DEF Kind
<1>5. ASSUME NEW k \in Kind, Reject(k) PROVE Quiet
  BY <1>5 DEF Reject
<1>6. ASSUME NEW p \in Party, RPCFails(p) \/ Cancel(p) PROVE Promise!Next \/ Quiet
  BY <1>6, <1>1 DEF RPCFails, Cancel, chainVars
<1>7. CASE CleanupTimeout \/ UNCHANGED vars
  BY <1>7 DEF CleanupTimeout, chainVars, vars
<1>8. QED
  BY <1>2, <1>3, <1>4, <1>5, <1>6, <1>7 DEF Next, Chain

(* Funding implements FundingPromise: each answer is bound to the chain,   *)
(* and the chain only moves forward, for every interleaving, failure and   *)
(* cancellation and every number of iterations.                            *)
THEOREM Refinement == Spec => KeepsPromise
<1>1. Init => Promise!Init
  BY DEF Init, Promise!Init, Party, Promise!Party
<1>2. Ind /\ Ind' /\ [Next]_vars => [Promise!Next]_Promise!vars
  BY StepRefines
<1>3. QED
  BY <1>1, <1>2, Invariance, PTL DEF Spec, KeepsPromise, Promise!Spec
=============================================================================
