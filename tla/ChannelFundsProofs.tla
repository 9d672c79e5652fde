------------------------- MODULE ChannelFundsProofs -------------------------
(***************************************************************************)
(* ChannelFunds for every choice of amounts and capacities: its types,     *)
(* that every settlement conserves what the channel's cells hold, and that *)
(* it pays each party what it is owed.                                     *)
(***************************************************************************)
EXTENDS ChannelFunds, TLAPS

(* The capacity the SUDT cells of the parties reserve.                     *)
AssetCells(n) == IF token THEN n * MaxCapacity ELSE 0

(* What the channel's state and the virtual channel's together promise is  *)
(* what the funds cells hold, once both parties have paid in.              *)
FundsInv ==
    /\ TypeOK
    /\ imap \in {Straight, Crossed}
    /\ phase # "virtual" /\ phase # "vcClosed" => vckb = NoBalance /\ vtok = NoBalance
    /\ phase = "new" => /\ funds.cap = 0 /\ funds.tok = 0
                        /\ ~token => tok[1] = 0
    /\ HalfFunded => funds.cap = ckb[0] + AssetCells(1) /\ funds.tok = tok[0]
    /\ phase \in Locked => /\ funds.cap = Both(ckb) + Both(vckb) + AssetCells(2)
                           /\ funds.tok = Both(tok) + Both(vtok)

USE FundsAssumption

(* A redistribution keeps the sum.                                         *)
LEMMA SplitKeepsSum ==
    ASSUME NEW f \in [Party -> Nat], NEW g \in Splits(f)
    PROVE  g \in [Party -> Nat] /\ Both(g) = Both(f)
  <1>1. PICK n \in 0 .. Both(f) : g = [p \in Party |-> IF p = 0 THEN n ELSE Both(f) - n]
    BY DEF Splits
  <1>2. Both(f) \in Nat
    BY DEF Both, Party
  <1>3. n \in Nat /\ Both(f) - n \in Nat
    BY <1>1, <1>2
  <1>. QED BY <1>1, <1>2, <1>3 DEF Both, Party

(* No channel is locked before Open, with every balance inside its type.   *)
LEMMA InitInv == Init => FundsInv
  BY DEF Init, FundsInv, TypeOK, Party, Payee, Nobody, NoBalance, Nothing, Straight,
         HalfFunded, Locked

(* A deposit adds the funds cells of one party.                            *)
LEMMA DepositInv ==
    ASSUME FundsInv, Open \/ Fund
    PROVE  FundsInv'
  <1>. USE DEF FundsInv, TypeOK, Party, Payee, Nobody
  <1>1. CASE Open
    <2>1. CASE phase' \in {"notBuilt", "refused"}
      BY <1>1, <2>1 DEF Open, Deposit, HalfFunded, Locked
    <2>2. CASE phase' \in {"open", "funded"} /\ Storable(0)
      <3>1. funds' = [cap |-> ckb[0] + AssetCells(1), tok |-> tok[0]]
        BY <1>1, <2>2 DEF Open, Deposit, FundsCells, AssetCells, Storable
      <3>2. TypeOK'
        BY <1>1, <2>2, <3>1 DEF Open, Deposit, AssetCells, Locked
      <3>3. CASE phase' = "open"
        BY <1>1, <3>1, <3>2, <3>3 DEF Open, Deposit, HalfFunded, Locked, AssetCells
      <3>4. CASE phase' = "funded"
        <4>1. ~token /\ ckb[1] = 0 /\ tok[1] = 0
          BY <1>1, <3>4 DEF Open, Deposit, InitiallyFunded
        <4>. QED
          BY <1>1, <3>1, <3>2, <3>4, <4>1
             DEF Open, Deposit, HalfFunded, Locked, AssetCells, Both, NoBalance
      <3>. QED BY <2>2, <3>3, <3>4
    <2>. QED BY <1>1, <2>1, <2>2 DEF Open, Deposit
  <1>2. CASE Fund
    <2>1. CASE phase' \in {"notBuilt", "refused"}
      BY <1>2, <2>1 DEF Fund, Deposit, HalfFunded, Locked, AssetCells
    <2>2. CASE phase' = "funded" /\ Storable(1)
      <3>1. funds' = [cap |-> ckb[0] + ckb[1] + AssetCells(2), tok |-> tok[0] + tok[1]]
        BY <1>2, <2>2 DEF Fund, Deposit, FundsCells, AssetCells, Storable, HalfFunded
      <3>2. TypeOK'
        BY <1>2, <2>2, <3>1 DEF Fund, Deposit, AssetCells, Locked
      <3>. QED
        BY <1>2, <2>2, <3>1, <3>2
           DEF Fund, Deposit, HalfFunded, Locked, AssetCells, Both, NoBalance
    <2>. QED BY <1>2, <2>1, <2>2 DEF Fund, Deposit
  <1>. QED BY <1>1, <1>2

(* Off-chain steps move promises about without changing their sum.         *)
LEMMA OffChainInv ==
    ASSUME FundsInv, Update \/ UpdateVirtual \/ OpenVirtual
    PROVE  FundsInv'
  <1>. USE DEF FundsInv
  <1>1. CASE Update
    <2>1. ckb' \in [Party -> Nat] /\ Both(ckb') = Both(ckb)
      BY <1>1, SplitKeepsSum DEF Update, TypeOK
    <2>2. tok' \in [Party -> Nat] /\ Both(tok') = Both(tok)
      BY <1>1, SplitKeepsSum DEF Update, TypeOK
    <2>. QED
      BY <1>1, <2>1, <2>2 DEF Update, TypeOK, HalfFunded, Locked, AssetCells, Both
  <1>2. CASE UpdateVirtual
    <2>1. vckb' \in [Party -> Nat] /\ Both(vckb') = Both(vckb)
      BY <1>2, SplitKeepsSum DEF UpdateVirtual, TypeOK
    <2>2. vtok' \in [Party -> Nat] /\ Both(vtok') = Both(vtok)
      BY <1>2, SplitKeepsSum DEF UpdateVirtual, TypeOK
    <2>. QED
      BY <1>2, <2>1, <2>2 DEF UpdateVirtual, TypeOK, HalfFunded, Locked, AssetCells, Both
  <1>3. CASE OpenVirtual
    <2>1. imap' \in {Straight, Crossed}
      BY <1>3 DEF OpenVirtual, IndexMaps
    <2>2. imap'[0] \in Party /\ imap'[1] \in Party /\ imap' \in [Party -> Party]
          /\ {imap'[0], imap'[1]} = {0, 1}
      BY <2>1 DEF Straight, Crossed, Party
    <2>3. vckb' \in [Party -> Nat] /\ vtok' \in [Party -> Nat]
      BY <1>3 DEF OpenVirtual
    <2>4. /\ ckb' \in [Party -> Nat] /\ tok' \in [Party -> Nat]
          /\ \A p \in Party : ckb'[p] + vckb'[imap'[p]] = ckb[p]
          /\ \A p \in Party : tok'[p] + vtok'[imap'[p]] = tok[p]
      BY <1>3, <2>2, <2>3 DEF OpenVirtual, TypeOK, Party
    <2>5. /\ Both(ckb') + Both(vckb') = Both(ckb)
          /\ Both(tok') + Both(vtok') = Both(tok)
      <3>1. CASE imap'[0] = 0 /\ imap'[1] = 1
        BY <2>3, <2>4, <3>1 DEF Both, Party
      <3>2. CASE imap'[0] = 1 /\ imap'[1] = 0
        BY <2>3, <2>4, <3>2 DEF Both, Party
      <3>. QED BY <2>1, <3>1, <3>2 DEF Straight, Crossed, Party
    <2>6. Both(vckb) = 0 /\ Both(vtok) = 0
      BY <1>3 DEF OpenVirtual, Both, NoBalance, Party
    <2>7. funds' = funds /\ funds.cap \in Nat /\ Both(ckb) \in Nat /\ Both(tok) \in Nat
          /\ AssetCells(2) \in Nat /\ AssetCells(2)' = AssetCells(2)
      BY <1>3 DEF OpenVirtual, TypeOK, Both, Party, AssetCells
    <2>8. funds'.cap = Both(ckb') + Both(vckb') + AssetCells(2)'
          /\ funds'.tok = Both(tok') + Both(vtok')
      BY <1>3, <2>5, <2>6, <2>7 DEF OpenVirtual, Locked
    <2>9. phase' = "virtual"
      BY <1>3 DEF OpenVirtual
    <2>10. TypeOK'
      BY <1>3, <2>2, <2>3, <2>4, <2>9 DEF OpenVirtual, TypeOK, Locked
    <2>. QED BY <2>1, <2>8, <2>9, <2>10 DEF HalfFunded, Locked
  <1>. QED BY <1>1, <1>2, <1>3

-----------------------------------------------------------------------------
(* What a party's outputs hold of a balance.                               *)
LEMMA OutputsHold ==
    ASSUME TypeOK, NEW bal \in Nat, NEW amount \in Nat
    PROVE  LET o == Outputs(bal, amount) IN
           /\ o \in [payment : Nat, asset : Nat, tok : Nat]
           /\ o.payment + o.asset <= bal + AssetCells(1)
           /\ token \/ bal >= PaymentMin \/ bal = 0 =>
                 o.payment + o.asset = bal + AssetCells(1)
           /\ o.tok = amount
  BY DEF Outputs, AssetCells, TypeOK

Conservation == Settles =>
    LET paid == Capacity(0) + Capacity(1) + Capacity(Nobody) IN
    /\ paid <= InputCap
    /\ (\A p \in Party : ~SmallChange(p)) => paid = InputCap
    /\ outs'[0].tok + outs'[1].tok = funds.tok

(* An abort pays party 0 all that it locked.                               *)
LEMMA AbortConserves ==
    ASSUME FundsInv, Abort
    PROVE  FundsInv' /\ Conservation
  <1>. DEFINE o == Outputs(ckb[0] + ChannelCap, tok[0])
  <1>1. /\ outs' = [p \in Payee |-> IF p = 0 THEN o ELSE Nothing]
        /\ phase' = "aborted" /\ funds' = [cap |-> 0, tok |-> 0]
        /\ UNCHANGED <<token, ckb, tok, vckb, vtok, imap, owner, first>>
    BY DEF Abort, Settle, PlainPayout, ChannelShare
  <1>2. ckb[0] + ChannelCap \in Nat /\ tok[0] \in Nat
    BY DEF FundsInv, TypeOK, Party
  <1>3. /\ o \in [payment : Nat, asset : Nat, tok : Nat]
        /\ o.payment + o.asset <= ckb[0] + ChannelCap + AssetCells(1)
        /\ token \/ ckb[0] + ChannelCap >= PaymentMin =>
              o.payment + o.asset = ckb[0] + ChannelCap + AssetCells(1)
        /\ o.tok = tok[0]
    BY <1>2, OutputsHold DEF FundsInv
  <1>. HIDE DEF o
  <1>4. AssetCells(1) \in Nat
    BY DEF AssetCells, FundsInv, TypeOK
  <1>5. /\ HalfFunded /\ phase # "virtual" /\ phase # "vcClosed"
        /\ funds.cap = ckb[0] + AssetCells(1) /\ funds.tok = tok[0]
        /\ vckb[imap[0]] = 0
    BY DEF Abort, HalfFunded, FundsInv, TypeOK, Party, NoBalance
  <1>6. FundsInv'
    <2>1. outs' \in [Payee -> [payment : Nat, asset : Nat, tok : Nat]]
      BY <1>1, <1>3 DEF Nothing
    <2>2. TypeOK'
      BY <1>1, <2>1 DEF FundsInv, TypeOK, Settled
    <2>. QED BY <1>1, <1>5, <2>2 DEF FundsInv, HalfFunded, Locked
  <1>7. /\ Capacity(0) = o.payment + o.asset
        /\ Capacity(1) = 0 /\ Capacity(Nobody) = 0
        /\ outs'[0].tok = o.tok /\ outs'[1].tok = 0
    BY <1>1 DEF Capacity, Payee, Party, Nobody, Nothing
  <1>8. InputCap = ckb[0] + ChannelCap + AssetCells(1)
    BY <1>2, <1>4, <1>5 DEF InputCap, FundsInv, TypeOK, Party
  <1>9. ~SmallChange(0) => token \/ ckb[0] + ChannelCap >= PaymentMin
    BY <1>2, <1>5 DEF SmallChange, Owed, ChannelShare, FundsInv, TypeOK, Party
  <1>. QED BY <1>2, <1>3, <1>4, <1>5, <1>6, <1>7, <1>8, <1>9 DEF Conservation, Party

(* A payout of what is owed to both parties, and of the rest, if any, to   *)
(* an owner of the virtual channel who is neither.                         *)
PaysOut ==
    /\ phase \in Locked /\ phase' \in Settled
    /\ phase = "funded" \/ phase' = "vcClosed"
    /\ funds' = [cap |-> 0, tok |-> 0]
    /\ UNCHANGED <<token, ckb, tok, vckb, vtok, imap, owner, first>>
    /\ outs' \in [Payee -> [payment : Nat, asset : Nat, tok : Nat]]
    /\ Owed(0) \in Nat /\ outs'[0] = Outputs(Owed(0), outs'[0].tok)
    /\ Owed(1) \in Nat /\ outs'[1] = Outputs(Owed(1), outs'[1].tok)
    /\ outs'[Nobody].asset = 0
    /\ Owed(0) + Owed(1) + outs'[Nobody].payment + AssetCells(2) = InputCap
    /\ outs'[0].tok + outs'[1].tok = funds.tok

(* Whatever a settlement of the right shape pays and leaves over is what it*)
(* took in: the common part of Close, ForceClose and ForceCloseWithVC.     *)
LEMMA PayoutConserves ==
    ASSUME FundsInv, PaysOut
    PROVE  FundsInv' /\ Conservation
  <1>1. /\ Capacity(0) <= Owed(0) + AssetCells(1)
        /\ token \/ Owed(0) >= PaymentMin \/ Owed(0) = 0 =>
              Capacity(0) = Owed(0) + AssetCells(1)
        /\ Capacity(0) \in Nat
    <2>1. outs'[0].tok \in Nat /\ outs'[0].payment \in Nat /\ outs'[0].asset \in Nat
      BY DEF PaysOut, Payee, Party
    <2>2. Owed(0) \in Nat /\ outs'[0] = Outputs(Owed(0), outs'[0].tok)
      BY DEF PaysOut
    <2>3. TypeOK
      BY DEF FundsInv
    <2>. DEFINE o == Outputs(Owed(0), outs'[0].tok)
    <2>4. /\ o.payment + o.asset <= Owed(0) + AssetCells(1)
          /\ token \/ Owed(0) >= PaymentMin \/ Owed(0) = 0 =>
                o.payment + o.asset = Owed(0) + AssetCells(1)
      BY <2>1, <2>2, <2>3, OutputsHold
    <2>5. Capacity(0) = o.payment + o.asset
      BY <2>2 DEF Capacity
    <2>6. Capacity(0) \in Nat
      BY <2>1 DEF Capacity
    <2>. QED BY <2>4, <2>5, <2>6
  <1>2. /\ Capacity(1) <= Owed(1) + AssetCells(1)
        /\ token \/ Owed(1) >= PaymentMin \/ Owed(1) = 0 =>
              Capacity(1) = Owed(1) + AssetCells(1)
        /\ Capacity(1) \in Nat
    <2>1. outs'[1].tok \in Nat /\ outs'[1].payment \in Nat /\ outs'[1].asset \in Nat
      BY DEF PaysOut, Payee, Party
    <2>2. Owed(1) \in Nat /\ outs'[1] = Outputs(Owed(1), outs'[1].tok)
      BY DEF PaysOut
    <2>3. TypeOK
      BY DEF FundsInv
    <2>. DEFINE o == Outputs(Owed(1), outs'[1].tok)
    <2>4. /\ o.payment + o.asset <= Owed(1) + AssetCells(1)
          /\ token \/ Owed(1) >= PaymentMin \/ Owed(1) = 0 =>
                o.payment + o.asset = Owed(1) + AssetCells(1)
      BY <2>1, <2>2, <2>3, OutputsHold
    <2>5. Capacity(1) = o.payment + o.asset
      BY <2>2 DEF Capacity
    <2>6. Capacity(1) \in Nat
      BY <2>1 DEF Capacity
    <2>. QED BY <2>4, <2>5, <2>6
  <1>3. Capacity(Nobody) = outs'[Nobody].payment /\ Capacity(Nobody) \in Nat
    BY DEF Capacity, PaysOut, Payee
  <1>4. FundsInv'
    <2>1. TypeOK'
      BY DEF PaysOut, FundsInv, TypeOK
    <2>. QED BY <2>1 DEF PaysOut, FundsInv, HalfFunded, Locked, Settled
  <1>5. AssetCells(1) \in Nat /\ AssetCells(2) = AssetCells(1) + AssetCells(1)
    BY DEF AssetCells, FundsInv, TypeOK
  <1>6. /\ Owed(0) \in Nat /\ Owed(1) \in Nat
        /\ Owed(0) + Owed(1) + Capacity(Nobody) + AssetCells(2) = InputCap
    BY <1>3 DEF PaysOut
  <1>7. Capacity(0) + Capacity(1) + Capacity(Nobody) <= InputCap
    BY <1>1, <1>2, <1>3, <1>5, <1>6
  <1>8. (\A p \in Party : ~SmallChange(p)) =>
           Capacity(0) + Capacity(1) + Capacity(Nobody) = InputCap
    <2>1. \A p \in Party : ~SmallChange(p) => token \/ Owed(p) >= PaymentMin \/ Owed(p) = 0
      BY <1>6 DEF SmallChange, Party
    <2>. QED BY <1>1, <1>2, <1>3, <1>5, <1>6, <2>1 DEF Party
  <1>. QED BY <1>4, <1>7, <1>8 DEF Conservation, PaysOut

(* Close and ForceClose pay out the balances of the state, from the channel*)
(* cell and the funds cells.                                               *)
LEMMA CloseConserves ==
    ASSUME FundsInv, Close \/ ForceClose
    PROVE  FundsInv' /\ Conservation
  <1>1. /\ phase = "funded" /\ phase' \in {"closed", "forceClosed"}
        /\ funds' = [cap |-> 0, tok |-> 0]
        /\ UNCHANGED <<token, ckb, tok, vckb, vtok, imap, owner, first>>
        /\ outs' = [p \in Payee |-> IF p \in Party
                                     THEN Outputs(ckb[p] + ChannelShare(p), tok[p]) ELSE Nothing]
    BY DEF Close, ForceClose, Settle, PlainPayout
  <1>2. /\ ckb[0] \in Nat /\ ckb[1] \in Nat /\ tok[0] \in Nat /\ tok[1] \in Nat
        /\ ChannelCap \in Nat /\ funds.cap \in Nat /\ AssetCells(2) \in Nat
        /\ vckb[imap[0]] = 0 /\ vckb[imap[1]] = 0 /\ Both(vckb) = 0 /\ Both(vtok) = 0
    BY <1>1 DEF FundsInv, TypeOK, Party, NoBalance, Both, AssetCells
  <1>3. /\ Owed(0) = ckb[0] + ChannelShare(0) /\ Owed(0) = ckb[0] + ChannelCap
        /\ Owed(1) = ckb[1] + ChannelShare(1) /\ Owed(1) = ckb[1]
    BY <1>1, <1>2 DEF Owed, ChannelShare
  <1>4. /\ outs'[0] = Outputs(Owed(0), tok[0]) /\ outs'[1] = Outputs(Owed(1), tok[1])
        /\ outs'[Nobody] = Nothing /\ outs' = [p \in Payee |-> outs'[p]]
    BY <1>1, <1>3 DEF Payee, Party, Nobody
  <1>5. /\ outs'[0] \in [payment : Nat, asset : Nat, tok : Nat] /\ outs'[0].tok = tok[0]
        /\ outs'[1] \in [payment : Nat, asset : Nat, tok : Nat] /\ outs'[1].tok = tok[1]
    <2>1. Owed(0) \in Nat /\ Owed(1) \in Nat /\ TypeOK
      BY <1>2, <1>3 DEF FundsInv
    <2>2. /\ Outputs(Owed(0), tok[0]) \in [payment : Nat, asset : Nat, tok : Nat]
          /\ Outputs(Owed(0), tok[0]).tok = tok[0]
      BY <1>2, <2>1, OutputsHold
    <2>3. /\ Outputs(Owed(1), tok[1]) \in [payment : Nat, asset : Nat, tok : Nat]
          /\ Outputs(Owed(1), tok[1]).tok = tok[1]
      BY <1>2, <2>1, OutputsHold
    <2>. QED BY <1>4, <2>2, <2>3
  <1>6. outs' \in [Payee -> [payment : Nat, asset : Nat, tok : Nat]]
    <2>1. Nothing \in [payment : Nat, asset : Nat, tok : Nat]
      BY DEF Nothing
    <2>2. \A p \in Payee : outs'[p] \in [payment : Nat, asset : Nat, tok : Nat]
      BY <1>4, <1>5, <2>1 DEF Payee, Party, Nobody
    <2>. QED BY <1>4, <2>2
  <1>7. InputCap = ckb[0] + ChannelCap + ckb[1] + AssetCells(2)
    BY <1>1, <1>2 DEF InputCap, FundsInv, Locked, Both
  <1>8. tok[0] + tok[1] = funds.tok
    BY <1>1, <1>2 DEF FundsInv, Locked, Both
  <1>9. PaysOut
    BY <1>1, <1>2, <1>3, <1>4, <1>5, <1>6, <1>7, <1>8 DEF PaysOut, Locked, Settled, Nothing
  <1>. QED BY <1>9, PayoutConserves

(* The two orders in which the parties may be indexed.                     *)
LEMMA IndexMapKeepsSum ==
    ASSUME FundsInv
    PROVE  /\ vckb[imap[0]] \in Nat /\ vckb[imap[1]] \in Nat
           /\ vckb[imap[0]] + vckb[imap[1]] = Both(vckb)
           /\ tok[imap[0]] \in Nat /\ tok[imap[1]] \in Nat
           /\ tok[imap[0]] + tok[imap[1]] = Both(tok)
  BY DEF FundsInv, TypeOK, Straight, Crossed, Both, Party

(* ForceCloseWithVC pays the parent's and the virtual channel's balances,  *)
(* whichever way the parties are indexed.                                  *)
LEMMA ForceCloseWithVCConserves ==
    ASSUME FundsInv, ForceCloseWithVC
    PROVE  FundsInv' /\ Conservation
  <1>. DEFINE q(p) == Outputs(MergedCkb(p) + ChannelShare(p) + VcShare(p), MergedTok(p))
              paid == [p \in Party |-> q(p)]
              x == IF first \/ owner \in Party THEN 0 ELSE VcCap
  <1>1. /\ phase = "virtual" /\ phase' = "vcClosed"
        /\ funds' = [cap |-> 0, tok |-> 0]
        /\ UNCHANGED <<token, ckb, tok, vckb, vtok, imap, owner, first>>
        /\ outs' = [p \in Payee |-> IF p \in DOMAIN OwnerOutput(paid)
                                     THEN OwnerOutput(paid)[p] ELSE Nothing]
    BY DEF ForceCloseWithVC, Settle
  <1>2. outs'[0] = q(0) /\ outs'[1] = q(1) /\ DOMAIN outs' = Payee
        /\ outs' = [p \in Payee |-> outs'[p]]
        /\ outs'[Nobody] = [payment |-> x, asset |-> 0, tok |-> 0]
    <2>1. paid[0] = q(0) /\ paid[1] = q(1) /\ DOMAIN paid = Party
      BY DEF Party
    <2>2. CASE first \/ owner \in Party
      <3>1. OwnerOutput(paid) = paid
        BY <2>2 DEF OwnerOutput
      <3>2. x = 0
        BY <2>2
      <3>. HIDE DEF q, paid, x
      <3>. QED BY <1>1, <2>1, <3>1, <3>2 DEF Payee, Party, Nobody, Nothing
    <2>3. CASE ~(first \/ owner \in Party)
      <3>1. OwnerOutput(paid) = [p \in Payee |-> IF p = Nobody
                                   THEN [Nothing EXCEPT !.payment = VcCap] ELSE paid[p]]
        BY <2>3 DEF OwnerOutput
      <3>2. x = VcCap
        BY <2>3
      <3>. HIDE DEF q, paid, x
      <3>. QED BY <1>1, <2>1, <3>1, <3>2 DEF Payee, Party, Nobody, Nothing
    <2>. QED BY <2>2, <2>3
  <1>3. /\ ckb[0] \in Nat /\ ckb[1] \in Nat /\ vtok[0] \in Nat /\ vtok[1] \in Nat
        /\ ChannelCap \in Nat /\ VcCap \in Nat /\ AssetCells(2) \in Nat
        /\ first \in BOOLEAN /\ owner \in Payee /\ funds.cap \in Nat
    BY DEF FundsInv, TypeOK, Party, AssetCells
  <1>4. MergedTok(0) \in Nat /\ MergedTok(1) \in Nat
    BY <1>3, IndexMapKeepsSum DEF MergedTok
  <1>5. /\ VcShare(0) \in Nat /\ VcShare(1) \in Nat /\ x \in Nat
        /\ VcShare(0) + VcShare(1) + x = IF first THEN 0 ELSE VcCap
    BY <1>3 DEF VcShare, Payee, Party, Nobody
  <1>6. /\ q(0) = Outputs(Owed(0), MergedTok(0))
        /\ q(1) = Outputs(Owed(1), MergedTok(1))
    BY <1>1 DEF Owed, MergedCkb
  <1>7. /\ Owed(0) = ckb[0] + vckb[imap[0]] + ChannelCap + VcShare(0)
        /\ Owed(1) = ckb[1] + vckb[imap[1]] + VcShare(1)
        /\ Owed(0) \in Nat /\ Owed(1) \in Nat
    BY <1>1, <1>3, <1>5, IndexMapKeepsSum DEF Owed, ChannelShare
  <1>8. funds.cap = ckb[0] + ckb[1] + Both(vckb) + AssetCells(2)
    BY <1>1, <1>3 DEF FundsInv, Locked, Both
  <1>9. InputCap = funds.cap + ChannelCap + (VcShare(0) + VcShare(1) + x)
    BY <1>1, <1>3, <1>5 DEF InputCap
  <1>10. MergedTok(0) + MergedTok(1) = funds.tok
    BY <1>1, <1>3, IndexMapKeepsSum DEF MergedTok, FundsInv, Locked, Both
  <1>. HIDE DEF q, x
  <1>11. Owed(0) + Owed(1) + x + AssetCells(2) = InputCap
    BY <1>3, <1>5, <1>7, <1>8, <1>9, IndexMapKeepsSum
  <1>12. /\ outs'[0] \in [payment : Nat, asset : Nat, tok : Nat] /\ outs'[0].tok = MergedTok(0)
         /\ outs'[1] \in [payment : Nat, asset : Nat, tok : Nat] /\ outs'[1].tok = MergedTok(1)
    BY <1>2, <1>4, <1>6, <1>7, OutputsHold DEF FundsInv
  <1>13. outs' \in [Payee -> [payment : Nat, asset : Nat, tok : Nat]]
    BY <1>2, <1>5, <1>12 DEF Payee, Party, Nobody
  <1>14. PaysOut
    BY <1>1, <1>2, <1>6, <1>7, <1>10, <1>11, <1>12, <1>13 DEF PaysOut, Locked, Settled
  <1>. QED BY <1>14, PayoutConserves

-----------------------------------------------------------------------------
(* Every operation of the client keeps the invariant and, if it settles,   *)
(* conserves.                                                              *)
LEMMA StepInv == FundsInv /\ [Next]_vars => FundsInv' /\ Conservation
  <1>. SUFFICES ASSUME FundsInv, [Next]_vars PROVE FundsInv' /\ Conservation
    OBVIOUS
  <1>1. CASE Open \/ Fund
    <2>1. ~Settles
      BY <1>1 DEF Settles, Open, Fund, Deposit, Settled
    <2>. QED BY <1>1, <2>1, DepositInv DEF Conservation
  <1>2. CASE Update \/ UpdateVirtual \/ OpenVirtual
    <2>1. ~Settles
      BY <1>2 DEF Settles, Update, UpdateVirtual, OpenVirtual, Settled
    <2>. QED BY <1>2, <2>1, OffChainInv DEF Conservation
  <1>3. CASE Abort
    BY <1>3, AbortConserves
  <1>4. CASE Close \/ ForceClose
    BY <1>4, CloseConserves
  <1>5. CASE ForceCloseWithVC
    BY <1>5, ForceCloseWithVCConserves
  <1>6. CASE UNCHANGED vars
    BY <1>6 DEF vars, FundsInv, TypeOK, HalfFunded, Both, AssetCells, Conservation, Settles
  <1>. QED BY <1>1, <1>2, <1>3, <1>4, <1>5, <1>6 DEF Next

(* Every variable keeps to its type, for all amounts and capacities.       *)
THEOREM TypeCorrect == Spec => []TypeOK
  <1>1. FundsInv => TypeOK
    BY DEF FundsInv
  <1>. QED BY <1>1, InitInv, StepInv, PTL DEF Spec

(* Every settlement pays out what its inputs hold and no more, whatever    *)
(* the amounts: the submitter of Abort, Close, ForceClose or               *)
(* ForceCloseWithVC adds nothing of its own, and no SUDT is lost.          *)
THEOREM Conservative == Spec => Conserved
  <1>1. Spec => [][Conservation]_vars
    BY InitInv, StepInv, PTL DEF Spec
  <1>. QED BY <1>1, PTL DEF Conserved, Conservation
-----------------------------------------------------------------------------
(* Whatever a party is owed, an output made out for it holds it, unless it *)
(* is small change.                                                        *)
LEMMA OutputsPayOwed ==
    ASSUME TypeOK, NEW p \in Party, NEW amount \in Nat, Owed(p) \in Nat,
           outs'[p] = Outputs(Owed(p), amount)
    PROVE  /\ SmallChange(p) \/ Capacity(p) = Owed(p) + (IF token THEN MaxCapacity ELSE 0)
           /\ outs'[p].tok = amount
  <1>. DEFINE o == Outputs(Owed(p), amount)
  <1>1. /\ token \/ Owed(p) >= PaymentMin \/ Owed(p) = 0 =>
              o.payment + o.asset = Owed(p) + AssetCells(1)
        /\ o.tok = amount
    BY OutputsHold
  <1>2. Capacity(p) = o.payment + o.asset
    BY DEF Capacity
  <1>3. AssetCells(1) = IF token THEN MaxCapacity ELSE 0
    BY DEF AssetCells
  <1>4. ~SmallChange(p) => token \/ Owed(p) >= PaymentMin \/ Owed(p) = 0
    BY DEF SmallChange
  <1>. QED BY <1>1, <1>2, <1>3, <1>4

Agreement == Settles => \A p \in (IF HalfFunded THEN {0} ELSE Party) :
    /\ SmallChange(p) \/ Capacity(p) = Owed(p) + (IF token THEN MaxCapacity ELSE 0)
    /\ imap = Straight \/ phase # "virtual" => outs'[p].tok = tok[p] + vtok[imap[p]]

(* Without a virtual channel a party is owed its balances in the state and *)
(* party 0 the channel's cell besides: Abort, Close and ForceClose.        *)
LEMMA PlainPayoutAgreed ==
    ASSUME FundsInv, NEW P, P = IF HalfFunded THEN {0} ELSE Party,
           phase # "virtual", phase # "vcClosed",
           NEW how, Settle(how, PlainPayout(P))
    PROVE  Agreement
  <1>1. SUFFICES ASSUME NEW p \in P
                 PROVE  /\ SmallChange(p) \/ Capacity(p) = Owed(p) + (IF token THEN MaxCapacity ELSE 0)
                        /\ outs'[p].tok = tok[p] + vtok[imap[p]]
    BY DEF Agreement
  <1>2. p \in Party /\ p \in Payee
    BY DEF Party, Payee
  <1>3. vckb[imap[p]] = 0 /\ vtok[imap[p]] = 0 /\ ckb[p] \in Nat /\ tok[p] \in Nat
    BY <1>2 DEF FundsInv, TypeOK, NoBalance
  <1>4. ChannelShare(p) \in Nat
    BY DEF ChannelShare
  <1>5. Owed(p) = ckb[p] + ChannelShare(p) /\ Owed(p) \in Nat
    BY <1>3, <1>4 DEF Owed
  <1>6. outs'[p] = Outputs(Owed(p), tok[p])
    BY <1>1, <1>2, <1>5 DEF Settle, PlainPayout
  <1>. QED BY <1>2, <1>3, <1>5, <1>6, OutputsPayOwed DEF FundsInv

(* With one, the parent's and the virtual channel's balances are merged;   *)
(* an owner of its cell who is no party takes nothing from a party.        *)
LEMMA MergedPayoutAgreed ==
    ASSUME FundsInv, ForceCloseWithVC
    PROVE  Agreement
  <1>. DEFINE q(p) == Outputs(MergedCkb(p) + ChannelShare(p) + VcShare(p), MergedTok(p))
              paid == [p \in Party |-> q(p)]
  <1>1. phase = "virtual" /\ ~HalfFunded
    BY DEF ForceCloseWithVC, HalfFunded
  <1>2. SUFFICES ASSUME NEW p \in Party
                 PROVE  /\ SmallChange(p) \/ Capacity(p) = Owed(p) + (IF token THEN MaxCapacity ELSE 0)
                        /\ imap = Straight => outs'[p].tok = tok[p] + vtok[imap[p]]
    BY <1>1 DEF Agreement
  <1>3. /\ ckb[p] \in Nat /\ imap[p] \in Party /\ vckb[imap[p]] \in Nat
        /\ tok[imap[p]] \in Nat /\ vtok[p] \in Nat
        /\ ChannelShare(p) \in Nat /\ VcShare(p) \in Nat
    BY DEF FundsInv, TypeOK, ChannelShare, VcShare
  <1>4. outs'[p] = q(p)
    <2>1. outs' = [x \in Payee |-> IF x \in DOMAIN OwnerOutput(paid)
                                   THEN OwnerOutput(paid)[x] ELSE Nothing]
      BY DEF ForceCloseWithVC, Settle
    <2>2. p \in Payee /\ p # Nobody /\ paid[p] = q(p) /\ DOMAIN paid = Party
      BY DEF Payee, Party, Nobody
    <2>3. p \in DOMAIN OwnerOutput(paid) /\ OwnerOutput(paid)[p] = paid[p]
      <3>. HIDE DEF paid
      <3>. QED BY <2>2 DEF OwnerOutput
    <2>. HIDE DEF q, paid
    <2>. QED BY <2>1, <2>2, <2>3
  <1>5. Owed(p) = MergedCkb(p) + ChannelShare(p) + VcShare(p) /\ Owed(p) \in Nat
    BY <1>1, <1>3 DEF Owed, MergedCkb
  <1>6. MergedTok(p) \in Nat /\ (imap = Straight => MergedTok(p) = tok[p] + vtok[imap[p]])
    BY <1>3 DEF MergedTok, Straight
  <1>7. outs'[p] = Outputs(Owed(p), MergedTok(p))
    BY <1>4, <1>5
  <1>. QED BY <1>5, <1>6, <1>7, OutputsPayOwed DEF FundsInv

(* No other step settles.                                                  *)
LEMMA StepAgreed == FundsInv /\ [Next]_vars => Agreement
  <1>. SUFFICES ASSUME FundsInv, [Next]_vars, Settles PROVE Agreement
    BY DEF Agreement
  <1>1. CASE Abort
    <2>1. HalfFunded /\ phase # "virtual" /\ phase # "vcClosed"
      BY <1>1 DEF Abort, HalfFunded
    <2>. QED BY <1>1, <2>1, PlainPayoutAgreed DEF Abort
  <1>2. CASE Close \/ ForceClose
    <2>1. ~HalfFunded /\ phase # "virtual" /\ phase # "vcClosed"
      BY <1>2 DEF Close, ForceClose, HalfFunded
    <2>. QED BY <1>2, <2>1, PlainPayoutAgreed DEF Close, ForceClose
  <1>3. CASE ForceCloseWithVC
    BY <1>3, MergedPayoutAgreed
  <1>4. CASE Open \/ Fund \/ Update \/ UpdateVirtual \/ OpenVirtual \/ UNCHANGED vars
    BY <1>4 DEF Settles, Settled, Open, Fund, Deposit, Update, UpdateVirtual, OpenVirtual, vars
  <1>. QED BY <1>1, <1>2, <1>3, <1>4 DEF Next

(* Each party is paid what the last state owes it, whatever the amounts;   *)
(* its SUDTs as long as the parties have the same indices in both channels.*)
THEOREM Agreed == Spec => PaidAsAgreed
  <1>1. Spec => [][Agreement]_vars
    BY InitInv, StepInv, StepAgreed, PTL DEF Spec
  <1>. QED BY <1>1, PTL DEF PaidAsAgreed, Agreement
=============================================================================
