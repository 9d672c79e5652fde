----------------------------- MODULE TxBalance ------------------------------
(***************************************************************************)
(* PerunTransactionBuilder.Build (transaction/transaction.go): given the   *)
(* inputs and outputs of a channel operation, sort the inputs into script  *)
(* groups, take cells from the user's wallet until the transaction pays    *)
(* for its outputs, its fee and its change cells, and prepare witnesses    *)
(* for the signatures.  Before it, an Open takes a cell of the wallet as   *)
(* the channel's token, and the last settlement of a virtual channel takes *)
(* one so that the user signs at all.                                      *)
(*                                                                         *)
(* One UDT beside CKBytes.  Amounts are counted in uint64, here modulo     *)
(* Word, and what the cells really hold is kept beside the count.  The     *)
(* wallet hands out cells in an order of its own: the CKB iterator runs    *)
(* over all cells of the user's lock, as they were when it asked for them, *)
(* and skips those with a type script.  The operation's own cells are      *)
(* live; that a rival spends them is a step of Funding and Settlement.     *)
(***************************************************************************)
EXTENDS Naturals, Sequences, SequencesExt

CONSTANTS
    Word,         \* 2^64
    Fee,          \* feeShannon
    ChangeCap,    \* ckbChangeCellCapacity(): what a CKB change cell occupies
    UdtCap,       \* requiredCapacity(udt): what a UDT change cell occupies
    OutCaps,      \* capacities of the operation's outputs
    InCaps,       \* capacities of the operation's inputs
    UdtOuts,      \* UDT amounts of the operation's outputs
    CkbCells,     \* capacities of cells without a type script
    GoneCells,    \* capacities of those that are spent since they were listed
    UdtCells,     \* UDT amounts of the user's UDT cells
    UdtExtra,     \* CKBytes that a UDT cell holds beyond UdtCap
    MaxCkbCells,  \* bound: cells of the user's lock that the CKB iterator visits
    MaxUdtCells   \* bound: UDT cells of the user

ASSUME BalanceAssumption ==
    /\ Word \in Nat /\ Fee \in Nat \ {0} /\ ChangeCap \in Nat \ {0} /\ UdtCap \in Nat
    /\ Fee < ChangeCap /\ ChangeCap < Word
    /\ MaxCkbCells \in Nat /\ MaxUdtCells \in Nat
    /\ OutCaps \cup InCaps \cup UdtOuts \cup UdtCells \cup UdtExtra \subseteq Nat

(* The chain holds no cell with less than its storage costs, and a cell    *)
(* with the user's lock costs at least what the change cell costs.         *)
ASSUME StorageAssumption == \A c \in CkbCells \cup GoneCells : c \in Nat /\ c >= ChangeCap

VARIABLES
    pc,
    inputs,              \* the transaction's inputs
    witnesses,           \* for each input, which fields of its witness are set
    groups,              \* for each script, the inputs of its group
    ins, outs,           \* what the transaction's cells really hold
    provided, required,  \* alreadyProvidedFunding, requiredFunding
    requested,           \* requestedAmount of addInputsAndChangeForFunding
    needed, fetched,     \* requiredAmount, fundedAmount of addInputsForFunding
    ckbIter, udtIter,    \* the cells the iterators have left
    change               \* capacity of the CKB change cell

body  == <<inputs, witnesses, groups>>
iters == <<ckbIter, udtIter>>
vars  == <<pc, body, ins, outs, provided, required, requested, needed, fetched, iters, change>>

NoChange == 0            \* ckbChangeCellIndex = -1

Goto(l) == pc' = l

(* An input: where it is from, its lock, its UDT, whether it is live.      *)
Input(from, lock, udt, live) == [from |-> from, lock |-> lock, udt |-> udt, live |-> live]

(* A cell of the iterator over the user's lock (mkMyCKBCellIterator);      *)
(* those with a type script are never taken.                               *)
Cell(cap, typed, live) == [nr |-> 0, cap |-> cap, typed |-> typed, live |-> live]

Listed == {Cell(c, FALSE, TRUE) : c \in CkbCells}
     \cup {Cell(c, FALSE, FALSE) : c \in GoneCells}
     \cup {Cell(0, TRUE, TRUE)}

(* A cell of the iterator over the user's UDTs (iteratorsForDeployment).   *)
ListedUdt == {[nr |-> 0, cap |-> UdtCap + x, udt |-> a] : x \in UdtExtra, a \in UdtCells}

(* An iterator: its cells, told apart by their place.                      *)
Numbered(s) == [i \in DOMAIN s |-> [s[i] EXCEPT !.nr = i]]

(* The operation's inputs and outputs.  An Open has no input yet, the last *)
(* settlement (buildSecondForceCloseWithVCTransaction) is to get another   *)
(* one.  An operation brings no UDT of its own (Open, Fund) or all that is *)
(* locked in the channel (Abort, Close, ForceClose).  That may be more     *)
(* than the channel pays out, and UDT although it pays out none, because   *)
(* anybody can send cells to a channel's funds lock and getAssets fetches  *)
(* every cell of it.                                                       *)
Init ==
    /\ pc \in {"token", "min", "groups"}
    /\ \E o \in UdtOuts, c \in OutCaps :
          outs = [ckb |-> c + (IF o = 0 THEN 0 ELSE UdtCap), udt |-> o]
    /\ IF pc = "token" THEN ins = [ckb |-> 0, udt |-> 0] /\ inputs = << >>
       ELSE \E i \in {0, outs.udt, outs.udt + 1}, c \in InCaps :
              /\ ins = [ckb |-> c + (IF i = 0 THEN 0 ELSE UdtCap), udt |-> i]
              /\ inputs = <<Input(<<"channel">>, "pcls", FALSE, TRUE)>> \o
                          (IF i = 0 THEN << >> ELSE <<Input(<<"funds">>, "pfls", TRUE, TRUE)>>)
    /\ witnesses = [i \in DOMAIN inputs |-> IF i = 1 THEN {"inputType"} ELSE {}]
    /\ groups = << >>
    /\ \E s \in SeqOf(Listed, MaxCkbCells) : ckbIter = Numbered(s)
    /\ \E s \in SeqOf(ListedUdt, MaxUdtCells) : udtIter = Numbered(s)
    /\ provided = [ckb |-> 0, udt |-> 0] /\ required = provided
    /\ requested = 0 /\ needed = 0 /\ fetched = 0 /\ change = NoChange

-----------------------------------------------------------------------------
(* The CKB iterator, before and while the transaction is balanced.         *)

(* CKBOnlyIterator.Next skips the cells that have a type script: the place *)
(* of the first cell without one, 0 if there is none.                      *)
NextCell == SelectInSeq(ckbIter, LAMBDA c : ~c.typed)

Advanced == SubSeq(ckbIter, NextCell + 1, Len(ckbIter))

Fetching == pc \in {"token", "min", "fetchCkb", "fetchMore"}

EmptyCkb ==
    /\ Fetching /\ ckbIter = << >>
    /\ Goto("failed")
    /\ UNCHANGED <<body, ins, outs, provided, required, requested, needed, fetched, iters, change>>

(* HasNext says true for the typed cells that are left, Next skips them    *)
(* all and returns nil, which is dereferenced.                             *)
NilCell ==
    /\ Fetching /\ ckbIter # << >> /\ NextCell = 0
    /\ Goto("panic")
    /\ UNCHANGED <<body, ins, outs, provided, required, requested, needed, fetched, iters, change>>

untaken == <<groups, outs, provided, required, requested, needed, fetched, udtIter, change>>

(* AddInput of the operation, with a cell of the wallet.                   *)
AddInput(cell) ==
    /\ inputs' = Append(inputs, Input(<<"ckb", cell.nr>>, "user", FALSE, cell.live))
    /\ witnesses' = Append(witnesses, {})
    /\ ins' = [ins EXCEPT !.ckb = @ + cell.cap]
    /\ Goto("groups")

(* createOrGetChannelToken, a cell that is live; buildOpenTransaction.     *)
TakeToken ==
    /\ pc = "token" /\ NextCell # 0
    /\ ckbIter[NextCell].live
    /\ AddInput(ckbIter[NextCell])
    /\ ckbIter' = Advanced
    /\ UNCHANGED untaken

(* createOrGetChannelToken, a cell that is not, or the node does not       *)
(* answer: "Skipping cell due to error or nil".                            *)
SkipToken ==
    /\ pc = "token" /\ NextCell # 0
    /\ ckbIter' = Advanced
    /\ UNCHANGED <<pc, inputs, witnesses, ins, untaken>>

(* prepareMinCKBInput.                                                     *)
TakeMin ==
    /\ pc = "min" /\ NextCell # 0
    /\ AddInput(ckbIter[NextCell])
    /\ ckbIter' = Advanced
    /\ UNCHANGED untaken

-----------------------------------------------------------------------------
(* Script groups.                                                          *)

Scripts(input) == {input.lock} \cup (IF input.udt THEN {"udt"} ELSE {})

(* Variant: only the script groups of the outputs are filled.              *)
Members_None(script) == << >>

(* The inputs that have a script.                                          *)
Members(script) ==
    LET upTo[n \in 0 .. Len(inputs)] ==
            IF n = 0 THEN << >>
            ELSE IF script \in Scripts(inputs[n]) THEN Append(upTo[n - 1], n)
            ELSE upTo[n - 1]
    IN  upTo[Len(inputs)]

(* resolveInputCell and its like dereference a cell that is not found.     *)
Unresolved == \E i \in DOMAIN inputs : ~inputs[i].live

(* AssetInformation, with 64 bits for every asset.                         *)
Counted(amounts) == [amounts EXCEPT !.udt = @ % Word]

(* accumulateOutputs and accumulateInputs.                                 *)
Accumulate ==
    /\ provided' = Counted(ins)
    /\ required' = Counted([outs EXCEPT !.ckb = @ + Fee])

(* InitializeScriptGroups, for the scripts of all inputs, the UDT outputs  *)
(* and the default lock.                                                   *)
InitializeScriptGroups ==
    /\ pc = "groups"
    /\ IF Unresolved
       THEN Goto("panic") /\ UNCHANGED <<groups, provided, required>>
       ELSE /\ groups' = [s \in {"user"} \cup (IF outs.udt = 0 THEN {} ELSE {"udt"})
                               \cup UNION {Scripts(inputs[i]) : i \in DOMAIN inputs}
                            |-> Members(s)]
            /\ Accumulate
            /\ Goto("balance")
    /\ UNCHANGED <<inputs, witnesses, ins, outs, requested, needed, fetched, iters, change>>

(* addInputsForFunding, for one cell: the groups are those of the user's   *)
(* lock and of the asset.                                                  *)
AppendInput(input) ==
    /\ inputs' = Append(inputs, input)
    /\ witnesses' = Append(witnesses, {})
    /\ groups' = [s \in DOMAIN groups |->
                     IF s \in Scripts(input) THEN Append(groups[s], Len(inputs')) ELSE groups[s]]

-----------------------------------------------------------------------------
(* Subtraction of uint64.                                                  *)
Minus(a, b) == (a + Word - b) % Word

(* EqualAssets: the same amounts of the same assets.                       *)
EqualAssets ==
    /\ provided = required
    /\ (\E i \in DOMAIN inputs : inputs[i].udt) <=> outs.udt # 0

AlreadyBalanced ==
    /\ pc = "balance" /\ EqualAssets
    /\ Goto("process")
    /\ UNCHANGED <<body, ins, outs, provided, required, requested, needed, fetched, iters, change>>

(* addOrUpdateUDTChangeCell                                                *)
WithUdtChange(amount) == [ckb |-> outs.ckb + UdtCap, udt |-> outs.udt + amount]

(* Variant: the change cell's own capacity is not added to what is needed. *)
UdtChange_Unpaid(amount) ==
    /\ outs' = WithUdtChange(amount)
    /\ UNCHANGED required

(* addChangeAndAdjustRequiredFunding for the UDT.                          *)
UdtChange(amount) ==
    /\ outs' = WithUdtChange(amount)
    /\ required' = [required EXCEPT !.ckb = @ + UdtCap]

(* Only the assets of the outputs are gone over: a UDT that the inputs     *)
(* hold and no output needs is left to nobody.                             *)
UdtNotRequired ==
    /\ pc = "balance" /\ ~EqualAssets /\ outs.udt = 0
    /\ Goto("ckb")
    /\ UNCHANGED <<body, ins, outs, provided, required, requested, needed, fetched, iters, change>>

UdtProvided ==
    /\ pc = "balance" /\ ~EqualAssets /\ outs.udt # 0 /\ provided.udt >= required.udt
    /\ IF provided.udt = required.udt
       THEN UNCHANGED <<outs, required>>
       ELSE UdtChange(provided.udt - required.udt)
    /\ Goto("ckb")
    /\ UNCHANGED <<body, ins, provided, requested, needed, fetched, iters, change>>

(* addInputsAndChangeForFunding.  It subtracts what is provided a second   *)
(* time; no operation calls it with a part of the UDT.                     *)
UdtShort ==
    /\ pc = "balance" /\ provided.udt < required.udt
    /\ requested' = required.udt - provided.udt
    /\ IF provided.udt < requested'
       THEN needed' = requested' - provided.udt /\ Goto("fetchUdt")
       ELSE UNCHANGED needed /\ Goto("udtFunded")
    /\ fetched' = 0
    /\ UNCHANGED <<body, ins, outs, provided, required, iters, change>>

(* addInputsForFunding, one turn of the loop.  AddValuesFromOutput reads   *)
(* the low 64 bits of the cell's 128 bit amount.                           *)
TakeUdt ==
    /\ pc = "fetchUdt" /\ udtIter # << >>
    /\ LET c == Head(udtIter) IN
       /\ ins' = [ckb |-> ins.ckb + c.cap, udt |-> ins.udt + c.udt]
       /\ provided' = [ckb |-> provided.ckb + c.cap, udt |-> (provided.udt + c.udt) % Word]
       /\ fetched' = (fetched + c.udt) % Word
       /\ AppendInput(Input(<<"udt", c.nr>>, "user", TRUE, TRUE))
    /\ udtIter' = Tail(udtIter)
    /\ Goto(IF fetched' >= needed \/ udtIter' = << >> THEN "udtFunded" ELSE "fetchUdt")
    /\ UNCHANGED <<outs, required, requested, needed, ckbIter, change>>

EmptyUdt ==
    /\ pc = "fetchUdt" /\ udtIter = << >>
    /\ Goto("failed")
    /\ UNCHANGED <<body, ins, outs, provided, required, requested, needed, fetched, iters, change>>

(* Variant: funds that are just enough are refused.                        *)
NotEnoughUdt_OrEqual == provided.udt <= requested

(* fundedAssetValue < requestedAmount                                      *)
NotEnoughUdt == provided.udt < requested

UdtFunded ==
    /\ pc = "udtFunded"
    /\ IF NotEnoughUdt
       THEN Goto("failed") /\ UNCHANGED <<outs, required>>
       ELSE /\ IF provided.udt = requested
               THEN UNCHANGED <<outs, required>>
               ELSE UdtChange(Minus(provided.udt, requested))
            /\ Goto("ckb")
    /\ UNCHANGED <<body, ins, provided, requested, needed, fetched, iters, change>>

-----------------------------------------------------------------------------
(* completeCKBCapacity and addInputsAndChangeForCKB.                       *)

(* Variant: the storage of the CKB change cell is not accounted for.       *)
ChangePaid_NoStorage == provided.ckb >= required.ckb

ChangePaid == provided.ckb >= required.ckb + ChangeCap

ckbStart == <<body, ins, outs, provided, required, requested, iters, change>>

Complete ==
    /\ pc = "ckb"
    /\ IF ChangePaid
       THEN Goto("change") /\ UNCHANGED <<needed, fetched>>
       ELSE /\ needed' = Minus(required.ckb, provided.ckb) /\ fetched' = 0
            /\ Goto("fetchCkb")
    /\ UNCHANGED ckbStart

TakeCkb ==
    /\ pc \in {"fetchCkb", "fetchMore"}
    /\ NextCell # 0
    /\ LET c == ckbIter[NextCell] IN
       /\ ins' = [ins EXCEPT !.ckb = @ + c.cap]
       /\ provided' = [provided EXCEPT !.ckb = @ + c.cap]
       /\ fetched' = fetched + c.cap
       /\ AppendInput(Input(<<"ckb", c.nr>>, "user", FALSE, c.live))
    /\ ckbIter' = Advanced
    /\ Goto(IF fetched' < needed /\ ckbIter' # << >> THEN pc
            ELSE IF pc = "fetchCkb" THEN "again" ELSE "change")
    /\ UNCHANGED <<outs, required, requested, needed, udtIter, change>>

(* "We need to make sure, that we have enough CKB to pay for the storage   *)
(* required for a CKB change cell."                                        *)
Again ==
    /\ pc = "again"
    /\ IF ChangePaid
       THEN Goto("change") /\ UNCHANGED <<needed, fetched>>
       ELSE /\ needed' = required.ckb + ChangeCap - provided.ckb /\ fetched' = 0
            /\ Goto("fetchMore")
    /\ UNCHANGED ckbStart

(* addOrUpdateCKBChangeCell                                                *)
SetChange ==
    /\ pc = "change"
    /\ change' = Minus(provided.ckb, required.ckb)
    /\ outs' = [outs EXCEPT !.ckb = @ + change']
    /\ Goto("process")
    /\ UNCHANGED <<body, ins, provided, required, requested, needed, fetched, iters>>

-----------------------------------------------------------------------------
(* ProcessOutputs finds no handler that sets anything.  ProcessInputs      *)
(* looks all inputs up again; the handler of the user's lock makes room    *)
(* for a signature in the witness of the first input of its group.         *)
ProcessInputs ==
    /\ pc = "process"
    /\ IF Unresolved
       THEN Goto("panic") /\ UNCHANGED witnesses
       ELSE /\ witnesses' = [i \in DOMAIN witnesses |->
                   IF groups["user"] # << >> /\ i = Head(groups["user"])
                   THEN witnesses[i] \cup {"lock"} ELSE witnesses[i]]
            /\ Goto("fee")
    /\ UNCHANGED <<inputs, groups, ins, outs, provided, required, requested, needed, fetched,
                   iters, change>>

(* The scripts that the chain runs: those of inputs, and types of outputs. *)
ValidScriptGroups == {s \in DOMAIN groups : groups[s] # << >> \/ s = "udt"}

(* HandleCKBFee, BuildTransaction and CopyValidScriptGroups.               *)
HandleCKBFee ==
    /\ pc = "fee"
    /\ IF change # NoChange /\ change <= Fee
       THEN Goto("failed") /\ UNCHANGED groups
       ELSE Goto("built") /\ groups' = [s \in ValidScriptGroups |-> groups[s]]
    /\ UNCHANGED <<inputs, witnesses, ins, outs, provided, required, requested, needed, fetched,
                   iters, change>>

-----------------------------------------------------------------------------
Next == \/ TakeToken \/ SkipToken \/ TakeMin \/ InitializeScriptGroups
        \/ AlreadyBalanced \/ UdtNotRequired \/ UdtProvided \/ UdtShort
        \/ TakeUdt \/ EmptyUdt \/ UdtFunded \/ Complete \/ TakeCkb \/ EmptyCkb \/ NilCell \/ Again
        \/ SetChange \/ ProcessInputs \/ HandleCKBFee

Spec == Init /\ [][Next]_vars

-----------------------------------------------------------------------------
(* Safety.                                                                 *)

(* A transaction that is built pays exactly its fee, by whichever of the   *)
(* paths it was balanced, and neither burns nor mints a UDT that it has an *)
(* output for.  A UDT that it has only inputs for is burnt.                *)
Balanced ==
    pc = "built" => ins.ckb = outs.ckb + Fee /\ (outs.udt # 0 => ins.udt = outs.udt)

(* The wallet has nothing left to give (NextCell: typed cells are never    *)
(* taken), and what it gave does not pay for the UDT, or for the CKBytes   *)
(* including the change cell.  A cell passed over for the token is gone.   *)
Poor == \/ provided.udt < required.udt /\ udtIter = << >>
        \/ provided.ckb < required.ckb + ChangeCap /\ NextCell = 0

(* More was asked for than the wallet can hold: the subtraction of the     *)
(* first round has wrapped around, as only the change cell was unpaid.     *)
Wrapped == needed > Word - ChangeCap /\ NextCell = 0

(* A wallet that holds enough is not refused, whatever the first round of  *)
(* fetching took: building fails only where the wallet is too poor, and    *)
(* the builder panics only there, or on an input that is spent since it    *)
(* was listed, or where Wrapped makes it go through the whole wallet and   *)
(* the cells it finds last have a type script (NilCell): that happens to a *)
(* wallet however much it holds.                                           *)
RefusesOnlyIfPoor ==
    /\ pc = "failed" => Poor
    /\ pc = "panic" => Poor \/ Wrapped \/ Unresolved

(* "We now definitely have enough CKB to pay for the storage of all change *)
(* cells": the chain accepts the change cell of a transaction that is      *)
(* built, although nothing checks it after the second round of fetching,   *)
(* which also ends when the wallet is empty.                               *)
ChangeIsStorable == pc = "built" /\ change # NoChange => change >= ChangeCap

(* The inputs that only the user can unlock.                               *)
Mine == {i \in DOMAIN inputs : inputs[i].lock = "user"}

(* What is handed to the signer can be unlocked and spends every cell      *)
(* once: an Open's token, taken from the iterator before the builder, is   *)
(* an input and is not fetched a second time; the group of the user's lock *)
(* has exactly the user's inputs, in order; there is room for a signature  *)
(* where the chain looks for it, in the witness of the first of them and   *)
(* nowhere else; the channel's own witness is still the channel input's.   *)
SignedOnce ==
    pc = "built" =>
        /\ \A i, j \in DOMAIN inputs : inputs[i].from = inputs[j].from => i = j
        /\ \A i \in DOMAIN inputs : inputs[i].live
        /\ "user" \in DOMAIN groups <=> Mine # {}
        /\ Mine # {} => /\ ToSet(groups["user"]) = Mine
                       /\ \A k \in 1..Len(groups["user"]) - 1 :
                             groups["user"][k] < groups["user"][k + 1]
        /\ Len(witnesses) = Len(inputs)
        /\ \A i \in DOMAIN inputs :
              /\ "lock" \in witnesses[i] <=> i \in Mine /\ \A j \in Mine : i <= j
              /\ "inputType" \in witnesses[i] <=> inputs[i].lock = "pcls"

-----------------------------------------------------------------------------
(* Statements of the code's comments that the code does not meet.          *)

(* transaction.go: "balanceTransaction balances the CKBytes and UDTs cells *)
(* for the given transaction", with cells of any 128 bit amount; here only *)
(* of a transaction that has outputs for the UDT.                          *)
UdtConserved == pc = "built" /\ outs.udt # 0 => ins.udt = outs.udt
=============================================================================
