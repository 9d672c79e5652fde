-------------------------- MODULE SettlementProofs --------------------------
(***************************************************************************)
(* Proofs about Settlement and about Watching, for any callers, any number *)
(* of versions and any number of calls.                                    *)
(*                                                                         *)
(* The argument: the cell of a snapshot is never looked at again, but its  *)
(* out point is, by the transaction that spends it.  While the out point   *)
(* is still the live one the snapshot is still true (SnapInv), so what was *)
(* decided on it still holds when the transaction is included (PoolInv).   *)
(*                                                                         *)
(* With a watcher every step is one of Settlement's or leaves its          *)
(* variables alone, so Settlement's inductive invariant holds here too.    *)
(* On top of it RestInv says that a watcher which rests after a dispute    *)
(* has either seen to it or is going to be told of a newer one: its        *)
(* Register can only have failed because somebody raised the registered    *)
(* version meanwhile.                                                      *)
(***************************************************************************)
EXTENDS Watching, TLAPS

USE FinalVersionAssumption, MaxCallsAssumption

(* Where each caller is, it has what it needs there.                       *)
PlaceInv ==
    \A c \in Caller :
        /\ pc[c] # "idle" => call[c] \in Request
        /\ pc[c] \in {"decide", "send"} => snap[c] \in Cell
        /\ pc[c] = "await" => sent[c] \in Tx /\ sent[c] # NoTx
        /\ pc[c] # "await" => sent[c] = NoTx /\ ~mined[c]

(* A snapshot of the live cell is true.                                    *)
SnapInv ==
    \A c \in Caller : pc[c] \in {"decide", "send"} =>
        /\ snap[c].gen <= gen /\ snap[c].version <= version
        /\ snap[c].gen = gen => snap[c].version = version
        /\ snap[c].gen = gen /\ snap[c].matured => matured
        /\ pc[c] = "send" /\ call[c].op = "register" => call[c].v > snap[c].version

(* A transaction that could be included now is still right.                *)
PoolInv ==
    \A t \in pool :
        /\ t.gen <= gen
        /\ t.gen = gen /\ t.kind = "dispute" => t.v > version
        /\ t.gen = gen /\ t.matured => matured

(* The registered version is that of a dispute.                            *)
ChainInv ==
    /\ version > 0 => disputed
    /\ matured => disputed
    /\ live <=> paid = Unpaid
    /\ ~live => paid >= version

(* What an answered, or an included and not yet answered, request means.   *)
Honoured(r) ==
    /\ r.op = "register" /\ r.v > 0 =>
          IF live THEN disputed /\ version >= r.v ELSE paid >= r.v
    /\ r.op = "withdraw" => ~live /\ paid = r.v

AnswerInv ==
    /\ \A r \in told : Honoured(r)
    /\ \A c \in Caller : pc[c] = "await" =>
          /\ sent[c].by = c /\ sent[c].v = call[c].v
          /\ sent[c].kind = "dispute" <=> call[c].op = "register"
          /\ mined[c] => Honoured(call[c])

Ind == TypeOK /\ PlaceInv /\ SnapInv /\ PoolInv /\ ChainInv /\ AnswerInv

(* A funded channel, an empty pool and idle callers satisfy the invariant. *)
LEMMA InitInd == Init => Ind
<1> SUFFICES ASSUME Init PROVE Ind
  OBVIOUS
<1> USE DEF Init
<1>1. TypeOK
  <2>1. /\ signed \in Version /\ version \in Version /\ gen \in Nat
        /\ paid \in Version \cup {Unpaid} /\ calls \in 0..MaxCalls
    BY DEF Version
  <2>2. /\ call \in [Caller -> Request \cup {NoRequest}]
        /\ snap \in [Caller -> Cell \cup {NoCell}]
        /\ sent \in [Caller -> Tx \cup {NoTx}]
    OBVIOUS
  <2>3. mined \in [Caller -> BOOLEAN]
    OBVIOUS
  <2>4. pc \in [Caller -> {"idle", "lookup", "decide", "send", "await"}]
    OBVIOUS
  <2>5. pool \subseteq Tx /\ told \subseteq Request \cup Secondary
    OBVIOUS
  <2>6. QED
    BY <2>1, <2>2, <2>3, <2>4, <2>5 DEF TypeOK
<1>2. PlaceInv /\ SnapInv /\ PoolInv
  BY DEF PlaceInv, SnapInv, PoolInv
<1>3. ChainInv /\ AnswerInv
  BY DEF ChainInv, AnswerInv, Unpaid
<1>4. QED
  BY <1>1, <1>2, <1>3 DEF Ind

-----------------------------------------------------------------------------
(* The chain's steps.                                                      *)

(* Once the chain bears a request out, no later inclusion takes it back.   *)
LEMMA HonouredStays ==
    ASSUME Ind, NEW t \in pool, MineDispute(t) \/ MineClosing(t),
           NEW r \in Request \cup Secondary, Honoured(r)
    PROVE  Honoured(r)'
<1> USE DEF Ind, TypeOK, PoolInv, ChainInv, Honoured, Accepts, Included,
            Request, Secondary, Tx, Version, Unpaid
<1>1. CASE MineDispute(t)
  BY <1>1 DEF MineDispute
<1>2. CASE MineClosing(t)
  BY <1>2 DEF MineClosing
<1>3. QED
  BY <1>1, <1>2

(* The request whose transaction is included is borne out by that.         *)
LEMMA InclusionHonours ==
    ASSUME Ind, NEW t \in pool, MineDispute(t) \/ MineClosing(t),
           NEW c \in Caller, pc[c] = "await", sent[c] = t
    PROVE  Honoured(call[c])'
<1> USE DEF Ind, TypeOK, PlaceInv, AnswerInv, PoolInv, ChainInv, Honoured,
            Accepts, Included, Request, Tx, Version, Unpaid
<1>1. CASE MineDispute(t)
  BY <1>1 DEF MineDispute
<1>2. CASE MineClosing(t)
  BY <1>2 DEF MineClosing
<1>3. QED
  BY <1>1, <1>2

(* A pending dispute or closing is included: the out point moves on, and   *)
(* the other pending transactions lose their input.                        *)
LEMMA IncludeInd ==
    ASSUME Ind, NEW t \in pool, MineDispute(t) \/ MineClosing(t)
    PROVE  Ind'
<1> USE DEF Ind
<1>1. TypeOK'
  <2>1. mined' \in [Caller -> BOOLEAN]
    BY DEF TypeOK, MineDispute, MineClosing, Included
  <2>2. live' \in BOOLEAN /\ disputed' \in BOOLEAN /\ matured' \in BOOLEAN
    BY Zenon DEF TypeOK, MineDispute, MineClosing
  <2>7. gen' \in Nat
    BY DEF TypeOK, MineDispute, MineClosing
  <2>6. pool' \subseteq Tx
    BY DEF TypeOK, MineDispute, MineClosing, Included
  <2>3. version' \in Version /\ paid' \in Version \cup {Unpaid}
    BY DEF TypeOK, MineDispute, MineClosing, Tx
  <2>4. UNCHANGED <<signed, pc, call, snap, sent, calls, told>>
    BY DEF MineDispute, MineClosing
  <2>5. QED
    BY <2>1, <2>2, <2>3, <2>4, <2>6, <2>7 DEF TypeOK
<1>2. UNCHANGED <<pc, call, snap, sent, told>>
  BY DEF MineDispute, MineClosing
<1>3. mined' = [mined EXCEPT ![t.by] = mined[t.by] \/ sent[t.by] = t]
  BY DEF MineDispute, MineClosing, Included
<1>4. t # NoTx
  BY DEF TypeOK, Tx, NoTx
<1>5. PlaceInv'
  BY <1>2, <1>3, <1>4 DEF PlaceInv, TypeOK
<1>6. SnapInv'
  <2>1. version' \in Version /\ version <= version'
    BY DEF MineDispute, MineClosing, PoolInv, Accepts, TypeOK, Tx, Version
  <2>2. (gen' = gen /\ version' = version /\ matured' = matured) \/ gen' = gen + 1
    BY DEF MineDispute, MineClosing
  <2>3. QED
    BY <1>2, <2>1, <2>2 DEF SnapInv, PlaceInv, TypeOK, Cell, Version
<1>7. PoolInv'
  BY DEF PoolInv, TypeOK, Tx, MineDispute, MineClosing, Included
<1>8. ChainInv'
  BY DEF ChainInv, PoolInv, TypeOK, Tx, Version, Unpaid, MineDispute, MineClosing, Accepts
<1>9. AnswerInv'
  <2>1. \A r \in told : Honoured(r)'
    BY HonouredStays DEF AnswerInv, TypeOK
  <2>2. ASSUME NEW c \in Caller, pc[c] = "await", mined[c]'
        PROVE  Honoured(call[c])'
    <3>1. CASE mined[c]
      <4>1. call[c] \in Request /\ Honoured(call[c])
        BY <2>2, <3>1 DEF AnswerInv, PlaceInv
      <4>2. \A r \in Request : Honoured(r) => Honoured(r)'
        BY HonouredStays
      <4>3. call' = call
        BY <1>2
      <4>4. QED
        BY <4>1, <4>2, <4>3 DEF Honoured
    <3>2. CASE ~mined[c]
      BY <1>3, <2>2, <3>2, InclusionHonours DEF TypeOK
    <3>3. QED
      BY <3>1, <3>2
  <2>3. QED
    BY <1>2, <2>1, <2>2 DEF AnswerInv
<1>10. QED
  BY <1>1, <1>5, <1>6, <1>7, <1>8, <1>9

-----------------------------------------------------------------------------
(* Callers' steps.                                                         *)

(* A call answers: its caller is idle again, and what it was told, if      *)
(* anything, is borne out.                                                 *)
LEMMA AnswerInd ==
    ASSUME Ind, NEW c \in Caller, Answer(c),
           UNCHANGED <<signed, chainVars, pool>>,
           \/ UNCHANGED told
           \/ told' = told \cup {call[c]} /\ call[c] \in Request /\ Honoured(call[c])
    PROVE  Ind'
<1> USE DEF Ind, chainVars
<1>1. TypeOK'
  <2>1. /\ pc' \in [Caller -> {"idle", "lookup", "decide", "send", "await"}]
        /\ call' \in [Caller -> Request \cup {NoRequest}]
        /\ snap' \in [Caller -> Cell \cup {NoCell}]
        /\ sent' \in [Caller -> Tx \cup {NoTx}]
    BY DEF TypeOK, Answer
  <2>2. mined' \in [Caller -> BOOLEAN]
    BY DEF TypeOK, Answer
  <2>3. told' \subseteq Request \cup Secondary
    BY DEF TypeOK
  <2>4. UNCHANGED calls
    BY DEF Answer
  <2>5. QED
    BY <2>1, <2>2, <2>3, <2>4 DEF TypeOK
<1>2. PlaceInv'
  BY DEF TypeOK, PlaceInv, Answer
<1>3. SnapInv'
  BY DEF TypeOK, SnapInv, Answer
<1>4. PoolInv' /\ ChainInv'
  BY DEF PoolInv, ChainInv
<1>5. AnswerInv'
  <2>1. \A r \in told' : Honoured(r)'
    BY DEF AnswerInv, Honoured
  <2>2. ASSUME NEW d \in Caller, pc'[d] = "await"
        PROVE  /\ d # c /\ pc[d] = "await" /\ UNCHANGED <<sent[d], call[d], mined[d]>>
    BY <2>2 DEF TypeOK, Answer
  <2>3. QED
    BY <2>1, <2>2 DEF AnswerInv, Honoured
<1>6. QED
  BY <1>1, <1>2, <1>3, <1>4, <1>5

(* A secondary Withdraw is answered without a look at the channel, and the *)
(* invariant asks nothing of its answer.                                   *)
LEMMA SecondaryInd ==
    ASSUME Ind, NEW c \in Caller, WithdrawSecondary(c)
    PROVE  Ind'
<1> USE DEF Ind, WithdrawSecondary, chainVars, callVars
<1>1. TypeOK'
  <2>1. told' \subseteq Request \cup Secondary /\ calls' \in 0..MaxCalls
    BY DEF TypeOK
  <2>2. QED
    BY <2>1 DEF TypeOK
<1>2. PlaceInv' /\ SnapInv'
  BY DEF PlaceInv, SnapInv
<1>3. PoolInv' /\ ChainInv'
  BY DEF PoolInv, ChainInv
<1>4. AnswerInv'
  <2>1. \A r \in told' : Honoured(r)
    BY DEF AnswerInv, Honoured, Secondary
  <2>2. QED
    BY <2>1 DEF AnswerInv, Honoured
<1>5. QED
  BY <1>1, <1>2, <1>3, <1>4

(* A call that goes on takes no promise back and makes none.               *)
LEMMA CallerInd ==
    ASSUME Ind, NEW c \in Caller, Call(c) \/ Step(c) \/ Fails(c)
    PROVE  Ind'
<1> USE DEF Ind
<1>1. CASE Call(c)
  <2> USE <1>1 DEF Call, chainVars
  <2>1. TypeOK'
    BY DEF TypeOK
  <2>2. PlaceInv' /\ SnapInv'
    BY DEF TypeOK, PlaceInv, SnapInv
  <2>3. PoolInv' /\ ChainInv'
    BY DEF PoolInv, ChainInv
  <2>4. AnswerInv'
    BY DEF TypeOK, AnswerInv, Honoured
  <2>5. QED
    BY <2>1, <2>2, <2>3, <2>4
<1>2. CASE Lookup(c)
  <2>1. CASE AnswerErr(c)
    BY <1>2, <2>1, AnswerInd DEF Lookup, AnswerErr
  <2>2. CASE ~AnswerErr(c)
    <3> USE <1>2, <2>2 DEF Lookup, chainVars
    <3> DEFINE s == [gen |-> gen, version |-> version, matured |-> FALSE]
    <3>1. /\ s \in Cell /\ s.gen = gen /\ s.version = version /\ s.matured = FALSE
          /\ snap' = [snap EXCEPT ![c] = s]
          /\ pc' = [pc EXCEPT ![c] = "decide"]
          /\ UNCHANGED <<call, sent, mined, calls, told>>
      BY DEF TypeOK, Cell
    <3>2. UNCHANGED <<signed, chainVars, pool>>
      OBVIOUS
    <3> HIDE DEF s
    <3>3. TypeOK'
      BY <3>1, <3>2 DEF TypeOK
    <3>4. PlaceInv'
      BY <3>1, <3>2 DEF TypeOK, PlaceInv
    <3>5. SnapInv'
      <4>1. gen <= gen /\ version <= version
        BY DEF TypeOK, Version
      <4>2. QED
        BY <3>1, <3>2, <4>1 DEF TypeOK, SnapInv
    <3>6. PoolInv' /\ ChainInv'
      BY <3>2 DEF PoolInv, ChainInv
    <3>7. AnswerInv'
      BY <3>1, <3>2 DEF TypeOK, AnswerInv, Honoured
    <3>8. QED
      BY <3>3, <3>4, <3>5, <3>6, <3>7
  <2>3. QED
    BY <2>1, <2>2
<1>3. CASE NotNeeded(c)
  <2>1. call[c] \in Request /\ snap[c] \in Cell
    BY <1>3 DEF NotNeeded, PlaceInv
  <2>2. call[c].v <= version
    BY <1>3, <2>1 DEF NotNeeded, checkVersion, SnapInv, Request, Cell, TypeOK, Version
  <2>3. Honoured(call[c])
    BY <1>3, <2>1, <2>2 DEF NotNeeded, Honoured, ChainInv, TypeOK, Request, Version
  <2>4. QED
    BY <1>3, <2>1, <2>3, AnswerInd DEF NotNeeded, AnswerNil
<1>4. CASE Prepare(c)
  <2> USE <1>4 DEF Prepare, chainVars
  <2> DEFINE s == [snap[c] EXCEPT !.matured = Late(c)]
  <2>1. snap[c] \in Cell /\ Late(c) \in BOOLEAN
    BY DEF PlaceInv, Late, TypeOK
  <2>2. /\ s \in Cell /\ s.gen = snap[c].gen /\ s.version = snap[c].version
        /\ s.matured => matured
    BY <2>1 DEF Cell, Late
  <2>3. snap' = [snap EXCEPT ![c] = s]
    OBVIOUS
  <2> HIDE DEF s
  <2>4. TypeOK'
    BY <2>2, <2>3 DEF TypeOK
  <2>5. PlaceInv'
    BY <2>2, <2>3 DEF TypeOK, PlaceInv
  <2>6. SnapInv'
    BY <2>2, <2>3 DEF TypeOK, SnapInv, checkVersion
  <2>7. PoolInv' /\ ChainInv'
    BY DEF PoolInv, ChainInv
  <2>8. AnswerInv'
    BY DEF TypeOK, AnswerInv, Honoured
  <2>9. QED
    BY <2>4, <2>5, <2>6, <2>7, <2>8
<1>5. CASE Send(c)
  <2> USE <1>5 DEF Send, chainVars
  <2> DEFINE t == TxOf(c)
  <2>1. call[c] \in Request /\ snap[c] \in Cell /\ ~mined[c]
    BY DEF PlaceInv
  <2>2. /\ t \in Tx /\ t # NoTx /\ t.by = c /\ t.v = call[c].v
        /\ t.gen = snap[c].gen /\ t.matured = snap[c].matured
        /\ t.kind = "dispute" <=> call[c].op = "register"
    BY <2>1 DEF TxOf, Tx, NoTx, Request, Cell
  <2>3. pool' = pool \cup {t} /\ sent' = [sent EXCEPT ![c] = t]
    OBVIOUS
  <2> HIDE DEF t
  <2>4. TypeOK'
    BY <2>2, <2>3 DEF TypeOK
  <2>5. PlaceInv'
    BY <2>2, <2>3 DEF TypeOK, PlaceInv
  <2>6. SnapInv'
    BY DEF TypeOK, SnapInv
  <2>7. PoolInv'
    BY <2>1, <2>2, <2>3 DEF PoolInv, SnapInv
  <2>8. ChainInv'
    BY DEF ChainInv
  <2>9. AnswerInv'
    BY <2>1, <2>2, <2>3 DEF TypeOK, AnswerInv, Honoured
  <2>10. QED
    BY <2>4, <2>5, <2>6, <2>7, <2>8, <2>9
<1>6. CASE Await(c)
  <2>1. CASE mined[c]
    <3>1. call[c] \in Request /\ Honoured(call[c])
      BY <1>6, <2>1 DEF Await, PlaceInv, AnswerInv
    <3>2. QED
      BY <1>6, <2>1, <3>1, AnswerInd DEF Await, AnswerNil
  <2>2. CASE ~mined[c]
    BY <1>6, <2>2, AnswerInd DEF Await, AnswerErr
  <2>3. QED
    BY <2>1, <2>2
<1>7. CASE Fails(c)
  BY <1>7, AnswerInd DEF Fails, AnswerErr
<1>8. QED
  BY <1>1, <1>2, <1>3, <1>4, <1>5, <1>6, <1>7 DEF Step

-----------------------------------------------------------------------------
(* Every step of a caller or of the chain keeps the invariant.             *)
LEMMA NextInd == Ind /\ [Next]_vars => Ind'
<1> SUFFICES ASSUME Ind, [Next]_vars PROVE Ind'
  OBVIOUS
<1> USE DEF Ind
<1>1. ASSUME NEW c \in Caller, Call(c) \/ WithdrawSecondary(c) \/ Step(c) \/ Fails(c)
      PROVE  Ind'
  BY <1>1, CallerInd, SecondaryInd
<1>2. ASSUME NEW t \in pool, MineDispute(t) \/ MineClosing(t) PROVE Ind'
  BY <1>2, IncludeInd
<1>3. ASSUME NEW t \in pool, Drop(t) PROVE Ind'
  BY <1>3 DEF Drop, chainVars, callVars, TypeOK, PlaceInv, SnapInv, PoolInv,
              ChainInv, AnswerInv, Honoured
<1>4. CASE Update
  BY <1>4 DEF Update, chainVars, callVars, TypeOK, PlaceInv, SnapInv, PoolInv,
              ChainInv, AnswerInv, Honoured, Version
<1>5. CASE Mature
  BY <1>5 DEF Mature, callVars, TypeOK, PlaceInv, SnapInv, PoolInv,
              ChainInv, AnswerInv, Honoured
<1>6. CASE UNCHANGED vars
  BY <1>6 DEF vars, chainVars, callVars, TypeOK, PlaceInv, SnapInv, PoolInv,
              ChainInv, AnswerInv, Honoured
<1>7. QED
  BY <1>1, <1>2, <1>3, <1>4, <1>5, <1>6 DEF Next, Decide

(* The invariant holds in every reachable state.                           *)
LEMMA Invariance == Spec => []Ind
BY InitInd, NextInd, PTL DEF Spec

(* The variables of Settlement keep their types.                           *)
THEOREM TypeCorrect == Spec => []TypeOK
<1>1. Ind => TypeOK
  BY DEF Ind
<1>2. QED
  BY <1>1, Invariance, PTL

(* A Register that returned nil stays honoured, whatever others call.      *)
THEOREM RegisterStands == Spec => []RegisterHonoured
<1>1. Ind => RegisterHonoured
  BY DEF Ind, AnswerInv, Honoured, RegisterHonoured
<1>2. QED
  BY <1>1, Invariance, PTL

(* A Withdraw that returned nil, and was not a secondary one, has paid out *)
(* the state it was called with.                                           *)
THEOREM WithdrawStands == Spec => []WithdrawHonoured
<1>1. Ind => WithdrawHonoured
  BY DEF Ind, AnswerInv, Honoured, WithdrawHonoured
<1>2. QED
  BY <1>1, Invariance, PTL

-----------------------------------------------------------------------------
(* What a block includes is a step of the promise.                         *)
LEMMA InclusionRefines ==
    ASSUME Ind, NEW t \in pool, MineDispute(t) \/ MineClosing(t)
    PROVE  Promise!Next
<1> USE DEF Ind, TypeOK, PoolInv, ChainInv, Accepts, Tx, Version
<1>1. CASE MineDispute(t)
  <2>1. t.v \in 1..FinalVersion /\ t.v > version
    BY <1>1 DEF MineDispute
  <2>2. Promise!Raise
    BY <1>1, <2>1 DEF MineDispute, Promise!Raise
  <2>3. QED
    BY <2>2 DEF Promise!Next
<1>2. CASE MineClosing(t)
  <2>1. (matured /\ paid' = version) \/ paid' = FinalVersion
    BY <1>2 DEF MineClosing
  <2>2. Promise!PayOut
    BY <1>2, <2>1 DEF MineClosing, Promise!PayOut
  <2>3. QED
    BY <2>2 DEF Promise!Next
<1>3. QED
  BY <1>1, <1>2

(* Settlement implements SettlementPromise: the registered version only    *)
(* rises and the channel is paid out once, for all callers and calls.      *)
THEOREM Refinement == Spec => KeepsPromise
<1>1. Init => Promise!Init
  BY DEF Init, Promise!Init, Promise!Unpaid, Unpaid
<1>2. Ind /\ [Next]_vars => [Promise!Next]_Promise!vars
  <2> SUFFICES ASSUME Ind, [Next]_vars PROVE Promise!Next \/ UNCHANGED Promise!vars
    OBVIOUS
  <2>1. ASSUME NEW t \in pool, MineDispute(t) \/ MineClosing(t) PROVE Promise!Next
    BY <2>1, InclusionRefines
  <2>2. CASE Mature
    BY <2>2 DEF Mature, Promise!Next, Promise!Mature
  <2>3. ASSUME UNCHANGED chainVars PROVE UNCHANGED Promise!vars
    BY <2>3 DEF chainVars, Promise!vars
  <2>4. ASSUME NEW c \in Caller, Call(c) \/ WithdrawSecondary(c) \/ Step(c) \/ Fails(c)
        PROVE  UNCHANGED chainVars
    BY <2>4 DEF Call, WithdrawSecondary, Step, Lookup, NotNeeded, Prepare, Send, Await, Fails, chainVars
  <2>5. ASSUME Update \/ (\E t \in pool : Drop(t)) \/ UNCHANGED vars
        PROVE  UNCHANGED chainVars
    BY <2>5 DEF Update, Drop, vars, chainVars
  <2>6. QED
    BY <2>1, <2>2, <2>3, <2>4, <2>5 DEF Next, Decide
<1>3. QED
  BY <1>1, <1>2, Invariance, PTL DEF Spec, KeepsPromise, Promise!Spec

-----------------------------------------------------------------------------
(* With a watcher.                                                         *)

USE WatcherAssumption

(* Nobody asks for, sends or registers what was not signed.                *)
SignedInv ==
    /\ version <= signed
    /\ \A t \in pool : t.v <= signed
    /\ \A c \in Caller : pc[c] # "idle" => call[c].v <= signed

(* The watcher hears of what is there, and acts only when it has heard.    *)
HeardInv ==
    /\ seen \in Nat /\ seen <= version
    /\ disputed => version > 0
    /\ pc[Watcher] # "idle" =>
          seen > 0 /\ call[Watcher].op = "register" /\ call[Watcher].v = signed

(* The cell that Register has read is the live one, or the registered      *)
(* version has risen since.                                                *)
ReadInv ==
    /\ pc[Watcher] \in {"idle", "lookup"} => snap[Watcher] = NoCell
    /\ pc[Watcher] \in {"decide", "send", "await"} => snap[Watcher] \in Cell
    /\ snap[Watcher] # NoCell /\ snap[Watcher].gen # gen => version > seen \/ ~live
    /\ pc[Watcher] = "await" /\ ~mined[Watcher] =>
          sent[Watcher] \in pool \/ version > seen \/ ~live

(* A resting watcher leaves no outdated dispute behind; so the periods     *)
(* that run out, and with them the closings, are those of the newest state.*)
RestInv ==
    /\ seen > 0 /\ pc[Watcher] = "idle" /\ live => version >= signed \/ version > seen
    /\ matured => seen > 0 /\ version >= signed
    /\ NewestWins

(* The history holds versions up to the registered one.                    *)
HistoryInv == held \subseteq 1..version

(* What holds of a watched channel.                                        *)
WatchInv == SignedInv /\ HeardInv /\ ReadInv /\ RestInv

(* A funded, undisputed channel and a watcher that has nothing to do.      *)
LEMMA WInitInd == WInit => Ind /\ HistoryInv /\ (watched => WatchInv)
<1> SUFFICES ASSUME WInit PROVE Ind /\ HistoryInv /\ WatchInv
  OBVIOUS
<1>1. Ind
  BY InitInd DEF WInit
<1>2. WatchInv
  BY DEF WInit, Init, WatchInv, SignedInv, HeardInv, ReadInv, RestInv, NewestWins
<1>3. HistoryInv
  BY DEF WInit, HistoryInv
<1>4. QED
  BY <1>1, <1>2, <1>3

(* Watching does nothing to the variables of Settlement that Settlement    *)
(* does not do.                                                            *)
LEMMA WStepSettles == [WNext]_allVars => [Next]_vars
<1> SUFFICES ASSUME [WNext]_allVars PROVE [Next]_vars
  OBVIOUS
<1>1. CASE Agree \/ PeriodEnds \/ WatcherFails
  BY <1>1 DEF Agree, PeriodEnds, WatcherFails, Next
<1>2. ASSUME NEW c \in Caller, Others(c) PROVE [Next]_vars
  BY <1>2 DEF Others, Next
<1>3. ASSUME NEW c \in Caller, WDecide(c) PROVE [Next]_vars
  BY <1>3 DEF WDecide, DecideOn, Decide, Next
<1>4. CASE WStep(Watcher)
  BY <1>4 DEF WStep, Next
<1>5. CASE ReadRegistered \/ ReadEnd
  BY <1>5 DEF ReadRegistered, ReadEnd, Next
<1>6. CASE UNCHANGED allVars
  BY <1>6 DEF allVars
<1>7. QED
  BY <1>1, <1>2, <1>3, <1>4, <1>5, <1>6 DEF WNext

-----------------------------------------------------------------------------
(* The steps of the chain and of the environment.                          *)

(* Signing stops when the watcher hears of a dispute.                      *)
LEMMA AgreeWatch ==
    ASSUME watched, Ind, WatchInv, Agree, UNCHANGED watchVars
    PROVE  WatchInv'
BY DEF Ind, TypeOK, PlaceInv, WatchInv, SignedInv, HeardInv, ReadInv, RestInv, NewestWins,
       Agree, Update, watchVars, heardVars, chainVars, callVars, Version, Tx, Request

(* A period runs out only when the watcher rests, so for the newest state. *)
LEMMA PeriodWatch ==
    ASSUME watched, Ind, WatchInv, PeriodEnds, UNCHANGED watchVars
    PROVE  WatchInv'
BY DEF Ind, TypeOK, WatchInv, SignedInv, HeardInv, ReadInv, RestInv, NewestWins,
       PeriodEnds, AtRest, Mature, watchVars, heardVars, callVars, Version

(* A block includes a dispute: the version rises.                          *)
LEMMA DisputeWatch ==
    ASSUME watched, Ind, WatchInv, NEW t \in pool, MineDispute(t), UNCHANGED heardVars
    PROVE  WatchInv'
<1> USE DEF Ind, TypeOK, PoolInv, WatchInv, SignedInv, HeardInv, ReadInv, RestInv,
            NewestWins, MineDispute, Accepts, heardVars, Version, Tx
<1>1. version' > version /\ version' <= signed /\ live /\ live'
  OBVIOUS
<1>2. SignedInv'
  BY <1>1 DEF Included
<1>3. HeardInv'
  BY <1>1
<1>4. ReadInv'
  BY <1>1
<1>5. RestInv'
  BY <1>1
<1>6. QED
  BY <1>2, <1>3, <1>4, <1>5

(* A block includes a closing: what it pays out was registered and has     *)
(* matured, or is final.                                                   *)
LEMMA ClosingWatch ==
    ASSUME watched, Ind, WatchInv, NEW t \in pool, MineClosing(t), UNCHANGED heardVars
    PROVE  WatchInv'
<1> USE DEF Ind, TypeOK, PoolInv, WatchInv, SignedInv, HeardInv, ReadInv, RestInv,
            NewestWins, MineClosing, Accepts, heardVars, Version, Tx
<1>1. paid' = signed /\ ~live'
  <2>1. CASE t.kind = "close"
    BY <2>1
  <2>2. CASE t.kind = "force"
    BY <2>2
  <2>3. QED
    BY <2>1, <2>2
<1>2. SignedInv'
  BY DEF Included
<1>3. HeardInv' /\ ReadInv' /\ RestInv'
  BY <1>1
<1>4. QED
  BY <1>2, <1>3

(* A node drops a transaction; the watcher's only when it was overtaken.   *)
LEMMA DropWatch ==
    ASSUME watched, Ind, WatchInv, NEW t \in pool, Drop(t), t.by = Watcher => Overtaken,
           UNCHANGED heardVars
    PROVE  WatchInv'
<1> USE DEF Ind, WatchInv, SignedInv, HeardInv, RestInv, NewestWins, Drop, heardVars,
            chainVars, callVars
<1>1. pc[Watcher] = "await" /\ ~mined[Watcher] =>
          sent[Watcher] \in pool \ {t} \/ version > seen \/ ~live
  BY DEF ReadInv, AnswerInv, Overtaken
<1>2. ReadInv'
  BY <1>1 DEF ReadInv
<1>3. QED
  BY <1>2

-----------------------------------------------------------------------------
(* The steps of the callers.                                               *)

(* Only the watcher's own steps touch its call.                            *)
LEMMA OthersWatch ==
    ASSUME watched, Ind, WatchInv, NEW c \in Caller \ {Watcher}, Others(c), UNCHANGED watchVars
    PROVE  WatchInv'
<1> USE DEF Ind, TypeOK, PlaceInv, callVars, watchVars, heardVars, chainVars, AnswerNil, AnswerErr, Answer
<1>1. UNCHANGED <<signed, chainVars>>
  BY DEF Others, Step, Lookup, NotNeeded, Prepare, Send, Await, Fails, Call, WithdrawSecondary
<1>2. /\ pc'[Watcher] = pc[Watcher] /\ call'[Watcher] = call[Watcher]
      /\ snap'[Watcher] = snap[Watcher] /\ sent'[Watcher] = sent[Watcher]
      /\ mined'[Watcher] = mined[Watcher]
  BY DEF Others, Step, Lookup, NotNeeded, Prepare, Send, Await, Fails, Call, WithdrawSecondary
<1>3. pool \subseteq pool' /\ \A t \in pool' \ pool : t.v <= signed
  BY DEF Others, Step, Lookup, NotNeeded, Prepare, Send, Await, Fails, Call, WithdrawSecondary, TxOf,
         WatchInv, SignedInv
<1>4. \A d \in Caller : pc'[d] # "idle" => call'[d].v <= signed
  BY DEF Others, Step, Lookup, NotNeeded, Prepare, Send, Await, Fails, Call, WithdrawSecondary,
         WatchInv, SignedInv
<1>5. SignedInv'
  BY <1>1, <1>3, <1>4 DEF WatchInv, SignedInv
<1>6. HeardInv' /\ ReadInv' /\ RestInv'
  BY <1>1, <1>2, <1>3 DEF WatchInv, HeardInv, ReadInv, RestInv, NewestWins
<1>7. QED
  BY <1>5, <1>6 DEF WatchInv

(* The watcher's call ends: because the newest state is registered, the    *)
(* channel is gone, or a newer dispute is there to be heard of.            *)
LEMMA WatcherAnswers ==
    ASSUME watched, Ind, WatchInv, Answer(Watcher), UNCHANGED <<signed, chainVars, pool, watchVars>>,
           live => version >= signed \/ version > seen
    PROVE  WatchInv'
<1> USE DEF Ind, TypeOK, watchVars, heardVars, chainVars, Answer
<1>1. SignedInv'
  BY DEF WatchInv, SignedInv
<1>2. HeardInv' /\ ReadInv' /\ RestInv'
  BY DEF WatchInv, HeardInv, ReadInv, RestInv, NewestWins
<1>3. QED
  BY <1>1, <1>2 DEF WatchInv

(* The watcher's Register fails, having been overtaken.                    *)
LEMMA FailsWatch ==
    ASSUME watched, Ind, WatchInv, WatcherFails, UNCHANGED watchVars
    PROVE  WatchInv'
<1>1. live => version > seen
  BY DEF WatcherFails, Overtaken, WatchInv, ReadInv
<1>2. QED
  BY <1>1, WatcherAnswers DEF WatcherFails, Fails, AnswerErr

(* The steps of the watcher's Register.                                    *)
LEMMA WatcherStepWatch ==
    ASSUME watched, Ind, WatchInv, WStep(Watcher)
    PROVE  WatchInv'
<1> USE DEF WStep
<1>1. CASE Lookup(Watcher)
  <2>1. CASE ~live
    BY <1>1, <2>1, WatcherAnswers DEF Lookup, AnswerErr
  <2>2. CASE live
    <3>1. /\ snap'[Watcher] = [gen |-> gen, version |-> version, matured |-> FALSE]
          /\ pc' = [pc EXCEPT ![Watcher] = "decide"] /\ pc[Watcher] = "lookup"
          /\ UNCHANGED <<signed, chainVars, pool, call, sent, mined, watchVars>>
      BY <1>1, <2>2 DEF Lookup, Ind, TypeOK
    <3>2. snap'[Watcher] \in Cell /\ snap'[Watcher].gen = gen'
      BY <3>1 DEF Ind, TypeOK, Cell, chainVars
    <3>3. SignedInv' /\ HeardInv'
      BY <3>1 DEF Ind, TypeOK, WatchInv, SignedInv, HeardInv, watchVars, heardVars, chainVars
    <3>4. ReadInv' /\ RestInv'
      BY <3>1, <3>2 DEF Ind, TypeOK, WatchInv, ReadInv, RestInv, NewestWins, watchVars, heardVars, chainVars
    <3>5. QED
      BY <3>3, <3>4 DEF WatchInv
  <2>3. QED
    BY <2>1, <2>2 DEF Ind, TypeOK
<1>2. CASE NotNeeded(Watcher)
  <2>1. version >= signed
    BY <1>2 DEF NotNeeded, checkVersion, Ind, TypeOK, SnapInv, WatchInv, HeardInv,
       ReadInv, Cell, Version
  <2>2. QED
    BY <1>2, <2>1, WatcherAnswers DEF NotNeeded, AnswerNil
<1>3. CASE Prepare(Watcher)
  <2>1. snap[Watcher] \in Cell /\ snap' = [snap EXCEPT ![Watcher].matured = Late(Watcher)]
    BY <1>3 DEF Prepare, WatchInv, ReadInv
  <2>2. snap'[Watcher] \in Cell /\ snap'[Watcher].gen = snap[Watcher].gen
    BY <2>1 DEF Ind, TypeOK, Cell, Late
  <2>3. snap'[Watcher] # NoCell /\ snap[Watcher] # NoCell
    BY <2>1, <2>2 DEF Cell, NoCell
  <2>4. /\ UNCHANGED <<signed, chainVars, pool, call, sent, mined, watchVars>>
        /\ pc' = [pc EXCEPT ![Watcher] = "send"] /\ pc[Watcher] = "decide"
    BY <1>3 DEF Prepare
  <2>5. QED
    BY <2>2, <2>3, <2>4 DEF Ind, TypeOK, WatchInv, SignedInv, HeardInv, ReadInv,
       RestInv, NewestWins, watchVars, heardVars, chainVars
<1>4. CASE Send(Watcher)
  <2>1. TxOf(Watcher).v = call[Watcher].v
    BY DEF TxOf
  <2>2. SignedInv'
    BY <1>4, <2>1 DEF Send, Ind, TypeOK, WatchInv, SignedInv, chainVars
  <2>3. HeardInv' /\ ReadInv' /\ RestInv'
    BY <1>4 DEF Send, Ind, TypeOK, WatchInv, HeardInv, ReadInv, RestInv, NewestWins,
       watchVars, heardVars, chainVars
  <2>4. QED
    BY <2>2, <2>3 DEF WatchInv
<1>5. CASE Await(Watcher)
  <2>1. CASE mined[Watcher]
    <3>1. Honoured(call[Watcher]) /\ call[Watcher].op = "register" /\ call[Watcher].v = signed
      BY <1>5, <2>1 DEF Await, Ind, AnswerInv, WatchInv, HeardInv
    <3>2. live => version >= signed
      BY <3>1 DEF Honoured, Ind, TypeOK, Version
    <3>3. QED
      BY <1>5, <2>1, <3>2, WatcherAnswers DEF Await, AnswerNil
  <2>2. CASE ~mined[Watcher]
    <3>1. live => version > seen
      BY <1>5, <2>2 DEF Await, WatchInv, ReadInv
    <3>2. QED
      BY <1>5, <2>2, <3>1, WatcherAnswers DEF Await, AnswerErr
  <2>3. QED
    BY <2>1, <2>2
<1>6. QED
  BY <1>1, <1>2, <1>3, <1>4, <1>5 DEF Step

(* The watcher hears of a registered version, and registers the newest or  *)
(* finds that there is no newer one.                                       *)
LEMMA ReadWatch ==
    ASSUME watched, Ind, HistoryInv, WatchInv, ReadRegistered
    PROVE  WatchInv'
<1> USE DEF Ind, TypeOK, WatchInv, SignedInv, HeardInv, ReadInv, RestInv, NewestWins,
            ReadRegistered, Stream!ReportRegistered, Version
<1>1. seen' \in 1..version /\ seen' > seen /\ UNCHANGED <<signed, chainVars, pool, snap>>
  BY DEF HistoryInv, Call, vars, chainVars, callVars
<1>2. CASE Call(Watcher) /\ call'[Watcher] = [op |-> "register", v |-> signed]
  <2>1. pc' = [pc EXCEPT ![Watcher] = "lookup"] /\ UNCHANGED <<sent, mined>>
    BY <1>2 DEF Call
  <2>2. \A c \in Caller : pc'[c] # "idle" => call'[c].v <= signed
    BY <1>2, <2>1 DEF Call, Request
  <2>3. QED
    BY <1>1, <1>2, <2>1, <2>2 DEF chainVars
<1>3. CASE UNCHANGED vars /\ seen' >= signed
  BY <1>1, <1>3 DEF vars, chainVars, callVars
<1>4. QED
  BY <1>2, <1>3

-----------------------------------------------------------------------------
(* Every step preserves the watcher's part of the invariant.               *)
LEMMA WNextInd ==
    Ind /\ HistoryInv /\ (watched => WatchInv) /\ [WNext]_allVars => (watched => WatchInv)'
<1> SUFFICES ASSUME Ind, HistoryInv, watched => WatchInv, [WNext]_allVars, watched'
             PROVE  WatchInv'
  OBVIOUS
<1>0. watched /\ WatchInv
  BY DEF WNext, WDecide, WStep, ReadRegistered, ReadEnd, allVars, watchVars, heardVars
<1>1. CASE (Agree \/ PeriodEnds \/ WatcherFails) /\ UNCHANGED watchVars
  BY <1>0, <1>1, AgreeWatch, PeriodWatch, FailsWatch
<1>2. ASSUME NEW c \in Caller \ {Watcher}, Others(c), UNCHANGED watchVars PROVE WatchInv'
  BY <1>0, <1>2, OthersWatch
<1>3. ASSUME NEW c \in Caller, WDecide(c) PROVE WatchInv'
  BY <1>0, <1>3, DisputeWatch, ClosingWatch, DropWatch DEF WDecide, DecideOn
<1>4. CASE WStep(Watcher)
  BY <1>0, <1>4, WatcherStepWatch
<1>5. CASE ReadRegistered
  BY <1>0, <1>5, ReadWatch
<1>6. CASE ReadEnd
  BY <1>0, <1>6 DEF ReadEnd, Stream!ReportConcluded, Stream!End, vars, chainVars, callVars,
     WatchInv, SignedInv, HeardInv, ReadInv, RestInv, NewestWins
<1>7. CASE UNCHANGED allVars
  BY <1>0, <1>7 DEF allVars, watchVars, heardVars, vars, chainVars, callVars,
     WatchInv, SignedInv, HeardInv, ReadInv, RestInv, NewestWins
<1>8. QED
  BY <1>0, <1>1, <1>2, <1>3, <1>4, <1>5, <1>6, <1>7 DEF WNext

(* Only the inclusion of a dispute changes the registered version.         *)
LEMMA VersionMoves ==
    ASSUME Ind, [Next]_vars
    PROVE  \/ UNCHANGED version
           \/ \E t \in pool : MineDispute(t)
BY DEF Next, Decide, Update, Mature, MineClosing, Drop, Call, WithdrawSecondary, Step,
       Lookup, NotNeeded, Prepare, Send, Await, Fails, vars, chainVars

(* What happens to the history: a changed version enters it.               *)
LEMMA HistoryMoves ==
    ASSUME Ind, [WNext]_allVars
    PROVE  held' = IF version' = version THEN held ELSE held \cup {version'}
<1>1. ASSUME NEW c \in Caller, Others(c) \/ Step(c) PROVE UNCHANGED version
  BY <1>1 DEF Others, Call, WithdrawSecondary, Step, Lookup, NotNeeded, Prepare, Send,
              Await, Fails, chainVars
<1>2. ASSUME Agree \/ PeriodEnds \/ WatcherFails PROVE UNCHANGED version
  BY <1>2 DEF Agree, PeriodEnds, WatcherFails, Update, Mature, Fails, chainVars
<1>3. CASE ReadRegistered \/ ReadEnd
  BY <1>3 DEF ReadRegistered, ReadEnd, Stream!ReportRegistered, Stream!ReportConcluded,
              Stream!End
<1>4. CASE UNCHANGED allVars
  BY <1>4 DEF allVars, vars, chainVars, watchVars
<1>5. QED
  BY <1>1, <1>2, <1>3, <1>4, WatcherAssumption
     DEF WNext, WDecide, WStep, ReadRegistered, ReadEnd, Stream!ReportRegistered,
         Stream!ReportConcluded, Stream!End, watchVars

(* The history stays below the registered version, which only rises.       *)
LEMMA HistoryInd == Ind /\ HistoryInv /\ [WNext]_allVars => HistoryInv'
<1> SUFFICES ASSUME Ind, HistoryInv, [WNext]_allVars PROVE HistoryInv'
  OBVIOUS
<1>1. CASE UNCHANGED version
  BY <1>1, HistoryMoves DEF HistoryInv
<1>2. ASSUME NEW t \in pool, MineDispute(t) PROVE HistoryInv'
  <2>1. version \in Nat /\ version' \in Nat /\ version' > version
    BY <1>2 DEF MineDispute, Accepts, Ind, PoolInv, TypeOK, Tx, Version
  <2>2. held' \subseteq held \cup {version'}
    BY HistoryMoves
  <2>3. QED
    BY <2>1, <2>2 DEF HistoryInv
<1>3. QED
  BY <1>1, <1>2, VersionMoves, WStepSettles

(* All parts hold in every reachable state.                                *)
LEMMA WInvariance == WSpec => [](Ind /\ HistoryInv /\ (watched => WatchInv))
<1>1. Ind /\ HistoryInv /\ (watched => WatchInv) /\ [WNext]_allVars
         => (Ind /\ HistoryInv /\ (watched => WatchInv))'
  BY WStepSettles, NextInd, HistoryInd, WNextInd
<1>2. QED
  BY <1>1, WInitInd, PTL DEF WSpec

(* With a watcher, and periods long enough for it, the channel is paid out *)
(* by the newest state that both parties have signed, whatever the other   *)
(* callers of Register and Withdraw do.                                    *)
THEOREM NewestPaid == WSpec => []NewestWins
<1>1. (watched => WatchInv) => NewestWins
  BY DEF WatchInv, RestInv, NewestWins
<1>2. QED
  BY <1>1, WInvariance, PTL

(* The composition is an execution of Settlement: what was proved of the   *)
(* adjudicator's calls holds for the watcher's.                            *)
THEOREM WatcherSettles == WSpec => Spec
<1>1. WInit => Init
  BY DEF WInit
<1>2. QED
  BY <1>1, WStepSettles, PTL DEF WSpec, Spec

(* A step of the channel is one of a channel's life, or not seen.          *)
LEMMA ChannelLives ==
    ASSUME Ind, [Next]_vars
    PROVE  Stream!Life!Next \/ UNCHANGED Stream!Life!vars
<1>1. ASSUME NEW t \in pool, MineDispute(t) PROVE Stream!Life!Register
  <2>1. live /\ live' /\ disputed' /\ version' = t.v
    BY <1>1 DEF MineDispute, Accepts
  <2>2. version' \in 1..FinalVersion /\ version' > version
    BY <1>1, <2>1 DEF MineDispute, Accepts, Ind, PoolInv, TypeOK, Tx, Version
  <2>3. QED
    BY <2>1, <2>2 DEF Stream!Life!Register
<1>2. ASSUME NEW t \in pool, MineClosing(t) PROVE Stream!Life!Vanish
  BY <1>2 DEF MineClosing, Accepts, Stream!Life!Vanish
<1>3. ASSUME UNCHANGED <<live, disputed, version>> PROVE UNCHANGED Stream!Life!vars
  BY <1>3 DEF Stream!Life!vars
<1>4. CASE Mature
  BY <1>3, <1>4 DEF Mature
<1>5. ASSUME NEW c \in Caller, Call(c) \/ WithdrawSecondary(c) \/ Step(c) \/ Fails(c)
      PROVE  UNCHANGED chainVars
  BY <1>5 DEF Call, WithdrawSecondary, Step, Lookup, NotNeeded, Prepare, Send, Await,
              Fails, chainVars
<1>6. ASSUME Update \/ (\E t \in pool : Drop(t)) \/ UNCHANGED vars PROVE UNCHANGED chainVars
  BY <1>6 DEF Update, Drop, vars, chainVars
<1>7. QED
  BY <1>1, <1>2, <1>3, <1>4, <1>5, <1>6 DEF Next, Decide, Stream!Life!Next, chainVars

(* A watched channel, together with what its watcher is told, is a         *)
(* behaviour of EventStream from the funded stage on: the chain that       *)
(* concurrent and abandoned calls make is the one that Subscription, which *)
(* implements EventStream, takes for granted.                              *)
THEOREM WatchesStream == WSpec => [][Stream!Next]_(Stream!vars)
<1>1. Ind /\ [WNext]_allVars => [Stream!Next]_(Stream!vars)
  <2> SUFFICES ASSUME Ind, [WNext]_allVars PROVE Stream!Next \/ UNCHANGED Stream!vars
    OBVIOUS
  <2>1. Stream!Life!Next \/ UNCHANGED Stream!Life!vars
    BY WStepSettles, ChannelLives
  <2>2. CASE UNCHANGED <<seen, ended>>
    <3>1. CASE Stream!Life!Next
      BY <2>2, <3>1, HistoryMoves DEF Stream!Next, Stream!Move
    <3>2. CASE UNCHANGED Stream!Life!vars
      BY <2>2, <3>2, HistoryMoves DEF Stream!vars, Stream!Life!vars
    <3>3. QED
      BY <2>1, <3>1, <3>2
  <2>3. CASE ReadRegistered \/ ReadEnd
    BY <2>3 DEF ReadRegistered, ReadEnd, Stream!Next
  <2>4. QED
    BY <2>2, <2>3 DEF WNext, WDecide, WStep, allVars, watchVars, heardVars
<1>2. QED
  BY <1>1, WInvariance, PTL DEF WSpec
=============================================================================
