---------------------------- MODULE ChannelFunds ----------------------------
(***************************************************************************)
(* What the cells of one channel hold from Open to the end, and what the   *)
(* builders of transaction/handler.go pay out of them.  A channel carries  *)
(* CKBytes and, if token, one SUDT.  The parties lock their initial        *)
(* balances in funds cells (Open, Fund), redistribute them off-chain, may  *)
(* move a part into a virtual channel, and settle: Abort, Close,           *)
(* ForceClose, or ForceCloseWithVC as the first or the second of the two   *)
(* parents.  Amounts are small numbers; 64 bit overflow is not modelled.   *)
(*                                                                         *)
(* External, modelled from how the code uses it: go-perun redistributes    *)
(* balances and locks a virtual channel's funds in the parent; the chain   *)
(* refuses an output whose capacity is below what the cell occupies.       *)
(***************************************************************************)
EXTENDS Integers

CONSTANTS
    InitialCkb,   \* initial CKByte balances of a party
    InitialTok,   \* initial SUDT balances of a party
    VcAmounts,    \* balances of a party in the virtual channel
    Crossings,    \* whether parent and virtual channel index the parties crosswise
    PflsMin,      \* deployment.PFLSMinCapacity
    PaymentMin,   \* the occupied capacity of a payment script
    MaxCapacity,  \* the capacity the SUDT asset reserves for its cells
    ChannelCap, VcCap  \* occupied capacity of the two kinds of channel cell

Party == 0 .. 1
Nobody == 2       \* an owner of the virtual channel's cell who is no party
Payee == Party \cup {Nobody}
Straight  == [p \in Party |-> p]
Crossed   == [p \in Party |-> 1 - p]
IndexMaps == {IF c THEN Crossed ELSE Straight : c \in Crossings}

ASSUME FundsAssumption ==
    /\ InitialCkb \cup InitialTok \cup VcAmounts \subseteq Nat
    /\ {PflsMin, PaymentMin, MaxCapacity, ChannelCap, VcCap} \subseteq Nat \ {0}
    /\ Crossings \subseteq BOOLEAN /\ Crossings # {}

VARIABLES
    phase,   \* where the channel is
    token,   \* the allocation has an SUDT besides CKBytes
    ckb, tok,     \* the parties' balances in the channel's state
    vckb, vtok,   \* the balances in the virtual channel's state
    imap,    \* the index map of the sub-allocation
    funds,   \* total capacity and SUDT amount of the funds cells
    owner,   \* whose participant the VirtualChannelStatus names as owner
    first,   \* both parents are still open: FirstForceClose is false
    outs     \* what p's payment script is paid: the capacities of a plain
             \* and of an SUDT output (0 if there is none), and the SUDTs

vars == <<phase, token, ckb, tok, vckb, vtok, imap, funds, owner, first, outs>>

Both(f) == f[0] + f[1]
NoBalance == [p \in Party |-> 0]
Nothing == [payment |-> 0, asset |-> 0, tok |-> 0]
Locked  == {"funded", "virtual"}
Settled == {"aborted", "closed", "forceClosed", "vcClosed"}

TypeOK ==
    /\ phase \in {"new", "open", "refused", "notBuilt"} \cup Locked \cup Settled
    /\ token \in BOOLEAN /\ first \in BOOLEAN
    /\ ckb \in [Party -> Nat] /\ tok \in [Party -> Nat]
    /\ vckb \in [Party -> Nat] /\ vtok \in [Party -> Nat]
    /\ imap \in [Party -> Party] /\ owner \in Payee
    /\ funds \in [cap : Nat, tok : Nat]
    /\ outs \in [Payee -> [payment : Nat, asset : Nat, tok : Nat]]

(* The asset list and the initial balances come from the proposal.         *)
Init ==
    /\ phase = "new" /\ token \in BOOLEAN
    /\ ckb \in [Party -> InitialCkb]
    /\ tok \in [Party -> IF token THEN InitialTok ELSE {0}]
    /\ vckb = NoBalance /\ vtok = NoBalance
    /\ imap = Straight /\ owner = Nobody /\ first = TRUE
    /\ funds = [cap |-> 0, tok |-> 0]
    /\ outs = [p \in Payee |-> Nothing]

-----------------------------------------------------------------------------
(* What one party locks with buildOpen (party 0) or buildFund (party 1): a  *)
(* plain cell with its CKBytes and, by AddAssetsToOutputs, an SUDT cell.   *)
FundsCells(p) ==
    [cap |-> ckb[p] + (IF token THEN MaxCapacity ELSE 0), tok |-> tok[p]]

(* The chain's rule for the plain funds cell.                              *)
Storable(p) == ckb[p] >= PflsMin

(* initialFundedStatus: the channel needs no second deposit.               *)
InitiallyFunded == ~token /\ ckb[1] = 0

(* Both builders refuse a balance they could not lock, and let zero pass.  *)
Deposit(p) ==
    /\ \/ /\ ckb[p] # 0 /\ ckb[p] < PflsMin
          /\ phase' = "notBuilt" /\ UNCHANGED funds
       \/ /\ ckb[p] = 0 /\ ~Storable(p)
          /\ phase' = "refused" /\ UNCHANGED funds
       \/ /\ Storable(p)
          /\ phase' = IF p = 0 /\ ~InitiallyFunded THEN "open" ELSE "funded"
          /\ funds' = [cap |-> funds.cap + FundsCells(p).cap,
                       tok |-> funds.tok + FundsCells(p).tok]
    /\ UNCHANGED <<token, ckb, tok, vckb, vtok, imap, owner, first, outs>>

Open == phase = "new" /\ Deposit(0)
Fund == phase = "open" /\ Deposit(1)

-----------------------------------------------------------------------------
(* External: an update of the channel, or of the virtual channel.          *)
Splits(f) == {[p \in Party |-> IF p = 0 THEN n ELSE Both(f) - n] : n \in 0 .. Both(f)}

Update ==
    /\ phase \in Locked
    /\ ckb' \in Splits(ckb) /\ tok' \in Splits(tok)
    /\ UNCHANGED <<phase, token, vckb, vtok, imap, funds, owner, first, outs>>

UpdateVirtual ==
    /\ phase = "virtual"
    /\ vckb' \in Splits(vckb) /\ vtok' \in Splits(vtok)
    /\ UNCHANGED <<phase, token, ckb, tok, imap, funds, owner, first, outs>>

(* External: the parties lock a virtual channel's initial balances in      *)
(* their channel's state.                                                  *)
OpenVirtual ==
    /\ phase = "funded"
    /\ imap' \in IndexMaps /\ owner' \in Payee /\ first' \in BOOLEAN
    /\ vckb' \in [Party -> VcAmounts]
    /\ vtok' \in [Party -> IF token THEN VcAmounts ELSE {0}]
    /\ \A p \in Party : vckb'[imap'[p]] <= ckb[p] /\ vtok'[imap'[p]] <= tok[p]
    /\ ckb' = [p \in Party |-> ckb[p] - vckb'[imap'[p]]]
    /\ tok' = [p \in Party |-> tok[p] - vtok'[imap'[p]]]
    /\ phase' = "virtual"
    /\ UNCHANGED <<token, funds, outs>>

-----------------------------------------------------------------------------
(* Variant: party 0 pays for the cell.                                     *)
ChannelShare_Taken(p) == IF p = 0 THEN -ChannelCap ELSE 0

(* The capacity of the channel's live cell is added to party 0's balance.  *)
ChannelShare(p) == IF p = 0 THEN ChannelCap ELSE 0

(* mkPaymentOutput, and mkAssetOutput from AddAssetsToOutputs: a balance   *)
(* too small for a cell of its own is added to the SUDT output, if any.    *)
(* With a virtual channel an SUDT output of zero tokens is a plain one.    *)
Outputs(bal, amount) ==
    [payment |-> IF bal >= PaymentMin THEN bal ELSE 0,
     asset   |-> IF ~token THEN 0
                 ELSE MaxCapacity + (IF bal >= PaymentMin THEN 0 ELSE bal),
     tok     |-> amount]

Settle(how, paid) ==
    /\ outs' = [p \in Payee |-> IF p \in DOMAIN paid THEN paid[p] ELSE Nothing]
    /\ funds' = [cap |-> 0, tok |-> 0]
    /\ phase' = how
    /\ UNCHANGED <<token, ckb, tok, vckb, vtok, imap, owner, first>>

PlainPayout(P) == [p \in P |-> Outputs(ckb[p] + ChannelShare(p), tok[p])]

(* Only party 0 has paid in; its Funder aborts if the deposit of party 1   *)
(* does not come, for whatever reason.                                     *)
HalfFunded == phase = "open" \/ (phase \in {"refused", "notBuilt"} /\ funds.cap # 0)

Abort      == HalfFunded       /\ Settle("aborted", PlainPayout({0}))
Close      == phase = "funded" /\ Settle("closed", PlainPayout(Party))
ForceClose == phase = "funded" /\ Settle("forceClosed", PlainPayout(Party))

(* Variant: the index map is ignored.                                      *)
MergedCkb_Unmapped(p) == ckb[p] + vckb[p]

(* GetCKByteBalance and GetCKByteBalanceFromVirtualChannel.                *)
MergedCkb(p) == ckb[p] + vckb[imap[p]]

(* AddAssetsToOutputsWithVirtualChannel indexes the parent's balances with *)
(* the mapped index and the virtual channel's with the party.              *)
MergedTok(p) == tok[imap[p]] + vtok[p]

(* The second parent to settle spends the virtual channel's cell.          *)
VcShare(p) == IF ~first /\ owner = p THEN VcCap ELSE 0

(* Variant: an owner who is no party is not paid.                          *)
OwnerOutput_Dropped(paid) == paid

(* The last output of buildSecondForceCloseWithVC.                         *)
OwnerOutput(paid) ==
    IF first \/ owner \in Party THEN paid
    ELSE [p \in Payee |-> IF p = Nobody THEN [Nothing EXCEPT !.payment = VcCap] ELSE paid[p]]

(* buildFirstForceCloseWithVC and buildSecondForceCloseWithVC.             *)
ForceCloseWithVC ==
    /\ phase = "virtual"
    /\ Settle("vcClosed",
              OwnerOutput([p \in Party |->
                  Outputs(MergedCkb(p) + ChannelShare(p) + VcShare(p), MergedTok(p))]))

Next == \/ Open \/ Fund \/ Update \/ OpenVirtual \/ UpdateVirtual
        \/ Abort \/ Close \/ ForceClose \/ ForceCloseWithVC

Spec == Init /\ [][Next]_vars

-----------------------------------------------------------------------------
Settles == phase \notin Settled /\ phase' \in Settled
Capacity(p) == outs'[p].payment + outs'[p].asset

(* What the last state owes a party.                                       *)
Owed(p) == ckb[p] + vckb[imap[p]] + ChannelShare(p)
           + (IF phase = "virtual" THEN VcShare(p) ELSE 0)
SmallChange(p) == ~token /\ Owed(p) < PaymentMin /\ Owed(p) # 0
InputCap == funds.cap + ChannelCap + (IF phase = "virtual" /\ ~first THEN VcCap ELSE 0)

(* A settlement pays out no more than its own inputs hold, so that the     *)
(* party that submits it adds nothing; it pays all of it unless a party's  *)
(* share is too small for a cell; and all SUDTs that went in come out,     *)
(* without which the SUDT script would refuse the transaction.  (The       *)
(* build* functions of handler.go for Abort, Close, ForceClose and         *)
(* ForceCloseWithVC against those for Open and Fund.)                      *)
Conserved ==
    [][Settles =>
         LET paid == Capacity(0) + Capacity(1) + Capacity(Nobody) IN
         /\ paid <= InputCap
         /\ (\A p \in Party : ~SmallChange(p)) => paid = InputCap
         /\ outs'[0].tok + outs'[1].tok = funds.tok]_vars

(* Each party is paid what the last state owes it: its CKBytes unless they *)
(* are small change, and, as long as the parties have the same indices in  *)
(* both channels, its SUDTs.  An aborted channel pays all to party 0.      *)
PaidAsAgreed ==
    [][Settles => \A p \in (IF HalfFunded THEN {0} ELSE Party) :
         /\ SmallChange(p) \/ Capacity(p) = Owed(p) + (IF token THEN MaxCapacity ELSE 0)
         /\ imap = Straight \/ phase # "virtual" => outs'[p].tok = tok[p] + vtok[imap[p]]]_vars

(* "Add the payout back to the original balance" and "Merge SUDT balances  *)
(* from both parent and virtual channel" (ForceCloseWithVC): a party gets  *)
(* its own balance in the parent and its own in the virtual channel.  Does *)
(* not hold of SUDTs where the parties have crossed indices.               *)
MergesOwnBalances ==
    [][Settles => \A p \in (IF HalfFunded THEN {0} ELSE Party) :
         outs'[p].tok = tok[p] + vtok[imap[p]]]_vars
=============================================================================
