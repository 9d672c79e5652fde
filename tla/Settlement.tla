----------------------------- MODULE Settlement -----------------------------
(***************************************************************************)
(* Disputing and closing one funded ledger channel: Adjudicator.Register   *)
(* and Adjudicator.Withdraw (channel/adjudicator/adjudicator.go) and the   *)
(* client's Dispute, Close and ForceClose (client/ckbclient.go).           *)
(*                                                                         *)
(* Both parties, and several goroutines of one party (the watcher and the  *)
(* user), call the adjudicator at the same time.  A call takes a snapshot  *)
(* of the channel cell, decides on it, builds a transaction that spends    *)
(* exactly that cell and waits for it; meanwhile the cell may be spent by  *)
(* another call, and a call that gave up may leave its transaction behind. *)
(***************************************************************************)
EXTENDS Naturals

CONSTANTS
    Caller,        \* the goroutines that call the adjudicator
    FinalVersion,  \* the version of the final state, if the parties reach it
    MaxCalls       \* bound: how many calls are made altogether

ASSUME FinalVersionAssumption == FinalVersion \in Nat \ {0}
ASSUME MaxCallsAssumption == MaxCalls \in Nat

Version == 0..FinalVersion
Unpaid  == FinalVersion + 1

VARIABLES
    signed,     \* highest version that both parties have signed
    live,       \* the channel cell is on the chain
    gen,        \* how often the cell was replaced: names its out point
    version,    \* version in the cell's status
    disputed,   \* Disputed bit in the cell's status
    matured,    \* the challenge period since the cell's block has run out
    paid,       \* version paid out, Unpaid while the cell is live
    pool,       \* transactions nodes have accepted and not decided on
    pc, call, snap, sent,  \* per caller: place, request, cell read, transaction
    mined,      \* per caller: the transaction it waits for is in a block
    calls,      \* how many calls were made
    told        \* requests that were answered without an error

chainVars == <<live, gen, version, disputed, matured, paid>>
callVars  == <<pc, call, snap, sent, mined>>
vars == <<signed, chainVars, pool, callVars, calls, told>>

Request == [op : {"register", "withdraw"}, v : Version]
Secondary == [op : {"secondary"}, v : Version]   \* Withdraw, req.Secondary set
Cell    == [gen : Nat, version : Version, matured : BOOLEAN]
Tx      == [kind : {"dispute", "close", "force"}, by : Caller, v : Version,
            gen : Nat, matured : BOOLEAN]

NoRequest == [op |-> "none"]
NoCell    == [gen |-> "none"]
NoTx      == [kind |-> "none"]

TypeOK ==
    /\ signed \in Version
    /\ live \in BOOLEAN /\ disputed \in BOOLEAN /\ matured \in BOOLEAN
    /\ gen \in Nat /\ version \in Version /\ paid \in Version \cup {Unpaid}
    /\ pool \subseteq Tx
    /\ pc \in [Caller -> {"idle", "lookup", "decide", "send", "await"}]
    /\ call \in [Caller -> Request \cup {NoRequest}]
    /\ snap \in [Caller -> Cell \cup {NoCell}]
    /\ sent \in [Caller -> Tx \cup {NoTx}]
    /\ mined \in [Caller -> BOOLEAN]
    /\ calls \in 0..MaxCalls
    /\ told \subseteq Request \cup Secondary

Init ==
    /\ signed = 0
    /\ live = TRUE /\ gen = 0 /\ version = 0
    /\ disputed = FALSE /\ matured = FALSE /\ paid = Unpaid
    /\ pool = {}
    /\ pc = [c \in Caller |-> "idle"]
    /\ call = [c \in Caller |-> NoRequest]
    /\ snap = [c \in Caller |-> NoCell]
    /\ sent = [c \in Caller |-> NoTx]
    /\ mined = [c \in Caller |-> FALSE]
    /\ calls = 0
    /\ told = {}

-----------------------------------------------------------------------------
(* The parties agree on a further state off-chain.                         *)
Update ==
    /\ signed < FinalVersion /\ live
    /\ signed' = signed + 1
    /\ UNCHANGED <<chainVars, pool, callVars, calls, told>>

-----------------------------------------------------------------------------
(* The chain.  A transaction spends the cell it was built on.  The version *)
(* of a dispute is not looked at here: that it rises is the client's work. *)

Accepts(t) ==
    /\ live /\ t.gen = gen
    /\ t.kind = "force" => disputed /\ t.matured /\ t.v = version
    /\ t.kind = "close" => t.v = FinalVersion

(* A block includes t.                                                     *)
Included(t) ==
    /\ pool' = pool \ {t}
    /\ mined' = [mined EXCEPT ![t.by] = mined[t.by] \/ sent[t.by] = t]

(* Variant: the version is counted up from the registered state's.         *)
MineDispute_CountsUp(t) ==
    /\ t \in pool /\ Accepts(t) /\ t.kind = "dispute"
    /\ gen' = gen + 1 /\ version' = t.v + 1 /\ disputed' = TRUE /\ matured' = FALSE
    /\ Included(t)
    /\ UNCHANGED <<signed, live, paid, pc, call, snap, sent, calls, told>>

(* DisputeInfo.update: the new state and the Disputed bit, in a new cell.  *)
MineDispute(t) ==
    /\ t \in pool /\ Accepts(t) /\ t.kind = "dispute"
    /\ gen' = gen + 1 /\ version' = t.v /\ disputed' = TRUE /\ matured' = FALSE
    /\ Included(t)
    /\ UNCHANGED <<signed, live, paid, pc, call, snap, sent, calls, told>>

MineClosing(t) ==
    /\ t \in pool /\ Accepts(t) /\ t.kind \in {"close", "force"}
    /\ live' = FALSE /\ paid' = t.v
    /\ Included(t)
    /\ UNCHANGED <<signed, gen, version, disputed, matured, pc, call, snap, sent, calls, told>>

(* A node drops a transaction: its cell is spent, a script failed, or it   *)
(* was evicted.                                                            *)
Drop(t) ==
    /\ t \in pool
    /\ pool' = pool \ {t}
    /\ UNCHANGED <<signed, chainVars, callVars, calls, told>>

(* A block is produced whose timestamp lies beyond the challenge period.   *)
Mature ==
    /\ live /\ disputed /\ ~matured
    /\ matured' = TRUE
    /\ UNCHANGED <<signed, live, gen, version, disputed, paid, pool, callVars, calls, told>>

-----------------------------------------------------------------------------
(* Answers.                                                                *)

Answer(c) ==
    /\ pc' = [pc EXCEPT ![c] = "idle"]
    /\ call' = [call EXCEPT ![c] = NoRequest]
    /\ snap' = [snap EXCEPT ![c] = NoCell]
    /\ sent' = [sent EXCEPT ![c] = NoTx]
    /\ mined' = [mined EXCEPT ![c] = FALSE]
    /\ UNCHANGED calls

AnswerNil(c) == Answer(c) /\ told' = told \cup {call[c]}
AnswerErr(c) == Answer(c) /\ UNCHANGED told

(* An RPC fails for good, the context ends, or building the transaction    *)
(* fails (in particular on a cell that was spent meanwhile).               *)
Fails(c) ==
    /\ pc[c] # "idle"
    /\ AnswerErr(c)
    /\ UNCHANGED <<signed, chainVars, pool>>

-----------------------------------------------------------------------------
(* The calls.                                                              *)

(* Register(req, nil) and Withdraw(req, nil) with any state both parties   *)
(* have signed: a caller may be behind.                                    *)
Call(c) ==
    /\ pc[c] = "idle" /\ calls < MaxCalls
    /\ calls' = calls + 1
    /\ \E r \in Request : r.v <= signed /\ call' = [call EXCEPT ![c] = r]
    /\ pc' = [pc EXCEPT ![c] = "lookup"]
    /\ UNCHANGED <<signed, chainVars, pool, snap, sent, mined, told>>

(* Withdraw with req.Secondary set: "already handled by first withdraw".   *)
(* It answers nil at once, whether there was a first one or not, and does  *)
(* not look at the channel.                                                *)
WithdrawSecondary(c) ==
    /\ pc[c] = "idle" /\ calls < MaxCalls
    /\ calls' = calls + 1
    /\ \E r \in Secondary : r.v <= signed /\ told' = told \cup {r}
    /\ UNCHANGED <<signed, chainVars, pool, callVars>>

(* getChannelLiveCellWithCache: the cell and its status; no cell, an error.*)
Lookup(c) ==
    /\ pc[c] = "lookup"
    /\ \/ /\ live
          /\ snap' = [snap EXCEPT ![c] = [gen |-> gen, version |-> version, matured |-> FALSE]]
          /\ pc' = [pc EXCEPT ![c] = "decide"]
          /\ UNCHANGED <<call, sent, mined, calls, told>>
       \/ ~live /\ AnswerErr(c)
    /\ UNCHANGED <<signed, chainVars, pool>>

(* Variant: an equal version counts as newer.                              *)
checkVersion_Equal(v, s) == v >= s.version

(* Variant: a channel that is disputed already is not disputed again.      *)
checkVersion_OnlyOnce(v, s) == s.version = 0 /\ v > 0

(* checkVersion(state, status, nil, nil)                                   *)
checkVersion(v, s) == v > s.version

(* "Dispute not needed"                                                    *)
NotNeeded(c) ==
    /\ pc[c] = "decide" /\ call[c].op = "register"
    /\ ~checkVersion(call[c].v, snap[c])
    /\ AnswerNil(c)
    /\ UNCHANGED <<signed, chainVars, pool>>

(* GetTipHeader: whether the header that goes into the transaction is late *)
(* enough for the cell of the snapshot.                                    *)
Late(c) == matured /\ gen = snap[c].gen

(* Dispute, or, as Withdraw picks, Close for the final state and otherwise *)
(* ForceClose with the caller's own state.  Neither of the last two looks  *)
(* at the status it has read.                                              *)
Prepare(c) ==
    /\ pc[c] = "decide"
    /\ call[c].op = "register" => checkVersion(call[c].v, snap[c])
    /\ snap' = [snap EXCEPT ![c].matured = Late(c)]
    /\ pc' = [pc EXCEPT ![c] = "send"]
    /\ UNCHANGED <<signed, chainVars, pool, call, sent, mined, calls, told>>

TxOf(c) ==
    [kind |-> IF call[c].op = "register" THEN "dispute"
              ELSE IF call[c].v = FinalVersion THEN "close" ELSE "force",
     by |-> c, v |-> call[c].v, gen |-> snap[c].gen, matured |-> snap[c].matured]

(* sendAndAwait: SendTransaction.  Where its answer is lost for good, the  *)
(* call Fails and leaves the transaction behind.                           *)
Send(c) ==
    /\ pc[c] = "send"
    /\ pool' = pool \cup {TxOf(c)}
    /\ pc' = [pc EXCEPT ![c] = "await"]
    /\ sent' = [sent EXCEPT ![c] = TxOf(c)]
    /\ UNCHANGED <<signed, chainVars, call, snap, mined, calls, told>>

(* Variant: the answer to SendTransaction is taken for the commitment.     *)
Await_OnSend(c) ==
    /\ pc[c] = "await"
    /\ AnswerNil(c)
    /\ UNCHANGED <<signed, chainVars, pool>>

(* Variant: a rejected transaction is polled on like a pending one.        *)
Await_PolledOn(c) ==
    /\ pc[c] = "await" /\ mined[c]
    /\ AnswerNil(c)
    /\ UNCHANGED <<signed, chainVars, pool>>

(* sendAndAwait: the transaction is polled until it is committed, which is *)
(* the only way to return nil, or rejected.                                *)
Await(c) ==
    /\ pc[c] = "await" /\ sent[c] \notin pool
    /\ IF mined[c] THEN AnswerNil(c) ELSE AnswerErr(c)
    /\ UNCHANGED <<signed, chainVars, pool>>

-----------------------------------------------------------------------------
Step(c) == Lookup(c) \/ NotNeeded(c) \/ Prepare(c) \/ Send(c) \/ Await(c)

(* The nodes settle one of the transactions that c has sent.               *)
Decide(c) == \E t \in pool : t.by = c /\ (MineDispute(t) \/ MineClosing(t) \/ Drop(t))

Next == \/ Update \/ Mature
        \/ \E c \in Caller : \/ Decide(c) \/ Call(c) \/ WithdrawSecondary(c)
                            \/ Step(c) \/ Fails(c)

Spec == Init /\ [][Next]_vars

(* A call that was made goes on, and the nodes decide about what they have *)
(* accepted.  Nobody has to call, to sign, or to wait out a period.        *)
FairSpec == Spec /\ \A c \in Caller : WF_vars(Decide(c)) /\ WF_vars(Step(c))

-----------------------------------------------------------------------------
(* Safety.                                                                 *)

(* The registered version only rises and every rise restarts the challenge *)
(* period; the channel is paid out once, by a version whose period has run *)
(* out or by the final one.  The rise is the client's doing: checkVersion  *)
(* on a snapshot, and a transaction that spends exactly that cell.         *)
Promise == INSTANCE SettlementPromise WITH
    phase <- IF ~live THEN "closed" ELSE IF disputed THEN "disputed" ELSE "funded"
KeepsPromise == Promise!Spec

(* A Register that returned nil binds the channel for good, whatever other *)
(* callers do: at least that version is registered or has been paid out.   *)
(* This is what a watcher relies on when it goes back to sleep.            *)
RegisterHonoured ==
    \A r \in told : r.op = "register" /\ r.v > 0 =>
        IF live THEN disputed /\ version >= r.v ELSE paid >= r.v

(* A Withdraw that went to the chain and returned nil has closed the       *)
(* channel, and paid out the very state that the caller asked for.  The    *)
(* nil of a secondary Withdraw says nothing at all about the channel, nor  *)
(* does it disturb what any other caller was told.                         *)
WithdrawHonoured ==
    \A r \in told : r.op = "withdraw" => ~live /\ paid = r.v

(* Every call to the adjudicator returns: no polling loop outlives the     *)
(* transaction it waits for.                                               *)
CallsReturn == \A c \in Caller : pc[c] # "idle" ~> pc[c] = "idle"
=============================================================================
