---------------------------- MODULE EncodingProofs -----------------------------
(***************************************************************************)
(* StateEncoding and ChannelParams for words of every width, all keys and  *)
(* nonces: one signature fixes what goes on chain, what is on chain fixes  *)
(* every amount, and an id fixes the parameters of its channel.            *)
(* Signatures for bytes and scalars of every width: what the peer accepted *)
(* the contract can read.                                                  *)
(*                                                                         *)
(* A run compares states of at most two assets; the lemmas about the       *)
(* encoders are about states of any size.                                  *)
(***************************************************************************)
EXTENDS Encoding, SequenceTheorems, WellFoundedInduction, TLAPS

(* States of any number of assets and sub-channels, with any amounts.      *)
AnySub == [id : SubId, bals : Seq(Nat), map : Seq(Nat)]

AnyState == [version : Nat, final : BOOLEAN, assets : Seq(Asset),
             bals : Seq(Nat \X Nat), locked : Seq(AnySub)]

(* Every asset has its row, and its amount in every sub-channel.           *)
Rectangular(s) ==
    /\ Len(s.bals) = Len(s.assets)
    /\ \A i \in DOMAIN s.locked : Len(s.locked[i].bals) = Len(s.assets)

Distinct(s) == \A i, j \in DOMAIN s.assets : s.assets[i] = s.assets[j] => i = j

(* States that differ in the index maps of their sub-channels at most.     *)
SameAmounts(s, t) ==
    /\ s.version = t.version /\ s.final = t.final /\ s.assets = t.assets /\ s.bals = t.bals
    /\ DOMAIN s.locked = DOMAIN t.locked
    /\ \A i \in DOMAIN s.locked : /\ s.locked[i].id = t.locked[i].id
                                  /\ s.locked[i].bals = t.locked[i].bals

-----------------------------------------------------------------------------
(* The signed form.                                                        *)

(* The proposer's assets are known to both backends.                       *)
LEMMA NeverPanics ==
    ASSUME NEW a \in Asset
    PROVE  ToChannelAsset(a, "NervosAsset") # Panic
  <1>1. Panic.is = "panic" /\ "is" \in DOMAIN Panic
    BY DEF Panic
  <1>2. ToChannelAsset(a, "NervosAsset") = [chain |-> "ckb", asset |-> a]
        \/ ToChannelAsset(a, "NervosAsset") = [chain |-> "eth", asset |-> a]
    BY DEF ToChannelAsset
  <1>3. \A c : "is" \notin DOMAIN [chain |-> c, asset |-> a]
    OBVIOUS
  <1>. QED BY <1>1, <1>2, <1>3

EthAssets(s) == [i \in DOMAIN s.assets |-> ToChannelAsset(s.assets[i], "NervosAsset")]
EthLocked(s) == [i \in DOMAIN s.locked |->
                    [id |-> s.locked[i].id, balances |-> s.locked[i].bals,
                     map |-> EthIndexMap(s.locked[i].map)]]

(* Equal signatures leave no choice but that of the index maps.            *)
LEMMA SignedTogether ==
    ASSUME NEW s \in AnyState, NEW t \in AnyState,
           SignedForm(s, "NervosAsset") = SignedForm(t, "NervosAsset")
    PROVE  SameAmounts(s, t)
  <1>1. ASSUME NEW u \in AnyState
        PROVE  SignedForm(u, "NervosAsset") =
                  [version |-> u.version, final |-> u.final,
                   outcome |-> [assets |-> EthAssets(u), balances |-> u.bals,
                                locked |-> EthLocked(u)]]
    <2>1. \A i \in DOMAIN u.assets : u.assets[i] \in Asset
      BY DEF AnyState
    <2>2. SignedForm(u, "NervosAsset") = ToEthState(u)
      BY <2>1, NeverPanics DEF SignedForm
    <2>. QED BY <2>2 DEF ToEthState, EthAssets, EthLocked
  <1>2. /\ s.version = t.version /\ s.final = t.final /\ s.bals = t.bals
        /\ EthAssets(s) = EthAssets(t) /\ EthLocked(s) = EthLocked(t)
    BY <1>1
  <1>3. s.assets = t.assets
    <2>1. /\ s.assets \in Seq(Asset) /\ t.assets \in Seq(Asset)
      BY DEF AnyState
    <2>2. DOMAIN s.assets = DOMAIN t.assets
      BY <1>2 DEF EthAssets
    <2>3. \A a \in Asset : ToChannelAsset(a, "NervosAsset").asset = a
      BY DEF ToChannelAsset
    <2>4. ASSUME NEW i \in DOMAIN s.assets PROVE s.assets[i] = t.assets[i]
      <3>1. ToChannelAsset(s.assets[i], "NervosAsset") = ToChannelAsset(t.assets[i], "NervosAsset")
        <4>1. EthAssets(s)[i] = ToChannelAsset(s.assets[i], "NervosAsset")
          BY DEF EthAssets
        <4>2. EthAssets(t)[i] = ToChannelAsset(t.assets[i], "NervosAsset")
          BY <2>2 DEF EthAssets
        <4>. QED BY <1>2, <4>1, <4>2
      <3>2. s.assets[i] \in Asset /\ t.assets[i] \in Asset
        BY <2>1, <2>2
      <3>. QED BY <2>3, <3>1, <3>2
    <2>5. Len(s.assets) = Len(t.assets)
      BY <2>1, <2>2
    <2>. QED BY <2>1, <2>2, <2>4, <2>5
  <1>4. DOMAIN s.locked = DOMAIN t.locked
    BY <1>2 DEF EthLocked
  <1>5. ASSUME NEW i \in DOMAIN s.locked
        PROVE  s.locked[i].id = t.locked[i].id /\ s.locked[i].bals = t.locked[i].bals
    <2>1. EthLocked(s)[i] = [id |-> s.locked[i].id, balances |-> s.locked[i].bals,
                             map |-> EthIndexMap(s.locked[i].map)]
      BY DEF EthLocked
    <2>2. EthLocked(t)[i] = [id |-> t.locked[i].id, balances |-> t.locked[i].bals,
                             map |-> EthIndexMap(t.locked[i].map)]
      BY <1>4 DEF EthLocked
    <2>. QED BY <1>2, <2>1, <2>2
  <1>. QED BY <1>2, <1>3, <1>4, <1>5 DEF SameAmounts

-----------------------------------------------------------------------------
(* The packed form.                                                        *)

SubRows(assets, bals) == [i \in DOMAIN assets |-> PackRow(assets[i], <<bals[i], 0>>)]

(* The rows of asset a.                                                    *)
RowsOf(a, assets, rows) == [j \in {i \in DOMAIN assets : assets[i] = a} |-> rows[j]]

PackedCkbytes(of) ==
    IF DOMAIN of = {} THEN PackCKByteDistribution(<<0, 0>>) ELSE of[Max(DOMAIN of)]

PackedSudts(of) == {of[j] : j \in DOMAIN of}

(* A sub-channel, as it is packed unless that fails.                       *)
PackedSub(id, assets, rows) ==
    IF Error \in ToSet(rows) \/ \E i \in DOMAIN assets : ~IsCompatible(assets[i])
    THEN Error
    ELSE [id |-> id, ckbytes |-> PackedCkbytes(RowsOf("ckbytes", assets, rows)),
          sudts |-> PackedSudts(RowsOf("sudt", assets, rows))]

(* What a sub-channel's packing looks at.                                  *)
LEMMA PackSub ==
    ASSUME NEW sub, NEW s
    PROVE  PackSubAlloc(sub, s) = PackedSub(sub.id, s.assets, SubRows(s.assets, sub.bals))
  BY DEF PackSubAlloc, PackedSub, PackedCkbytes, PackedSudts, RowsOf, SubRows

(* What is packed depends on nothing else.                                 *)
LEMMA PackedTogether ==
    ASSUME NEW s \in AnyState, NEW t \in AnyState, SameAmounts(s, t)
    PROVE  PackChannelState(s) = PackChannelState(t)
  <1>1. /\ s.version = t.version /\ s.final = t.final /\ s.assets = t.assets /\ s.bals = t.bals
        /\ DOMAIN s.locked = DOMAIN t.locked
        /\ \A i \in DOMAIN s.locked : /\ s.locked[i].id = t.locked[i].id
                                      /\ s.locked[i].bals = t.locked[i].bals
    BY DEF SameAmounts
  <1>2. \A i \in DOMAIN s.locked : PackSubAlloc(s.locked[i], s) = PackSubAlloc(t.locked[i], t)
    BY <1>1, PackSub
  <1>3. s.locked = << >> <=> t.locked = << >>
    <2>1. s.locked \in Seq(AnySub) /\ t.locked \in Seq(AnySub)
      BY DEF AnyState
    <2>. QED BY <1>1, <2>1
  <1>4. PackLocked(s) = PackLocked(t)
    BY <1>1, <1>2, <1>3 DEF PackLocked
  <1>5. [i \in DOMAIN s.assets |-> PackRow(s.assets[i], s.bals[i])]
           = [i \in DOMAIN t.assets |-> PackRow(t.assets[i], t.bals[i])]
    BY <1>1
  <1>. QED BY <1>1, <1>4, <1>5, Zenon DEF PackChannelState

(* A row that was packed tells its asset and its amounts.                  *)
LEMMA RowFixesAmounts ==
    ASSUME NEW a \in Asset, NEW b \in Asset, NEW d \in Nat \X Nat, NEW e \in Nat \X Nat,
           PackRow(a, d) # Error, PackRow(a, d) = PackRow(b, e)
    PROVE  a = b /\ d = e
  <1>1. PackRow(a, d) = IF a = "ckbytes" THEN [ckbytes |-> d]
                        ELSE [asset |-> a, distribution |-> d]
    BY Zenon DEF PackRow, PackCKByteDistribution, PackTokenBalances
  <1>2. PackRow(b, e) = IF b = "ckbytes" THEN [ckbytes |-> e]
                        ELSE [asset |-> b, distribution |-> e]
    BY Zenon DEF PackRow, PackCKByteDistribution, PackTokenBalances
  <1>3. /\ [ckbytes |-> d].ckbytes = d /\ [ckbytes |-> e].ckbytes = e
        /\ "asset" \notin DOMAIN [ckbytes |-> d] /\ "asset" \notin DOMAIN [ckbytes |-> e]
        /\ "asset" \in DOMAIN [asset |-> a, distribution |-> d]
        /\ "asset" \in DOMAIN [asset |-> b, distribution |-> e]
        /\ [asset |-> a, distribution |-> d].asset = a
        /\ [asset |-> b, distribution |-> e].asset = b
        /\ [asset |-> a, distribution |-> d].distribution = d
        /\ [asset |-> b, distribution |-> e].distribution = e
    OBVIOUS
  <1>4. a = "ckbytes" <=> b = "ckbytes"
    BY <1>1, <1>2, <1>3
  <1>5. CASE a = "ckbytes"
    BY <1>1, <1>2, <1>3, <1>4, <1>5
  <1>6. CASE a # "ckbytes"
    BY <1>1, <1>2, <1>3, <1>4, <1>6
  <1>. QED BY <1>5, <1>6

(* So does a sub-channel that was packed, of what it locks.                *)
LEMMA SubFixesAmounts ==
    ASSUME NEW m, NEW n, NEW assets \in Seq(Asset), NEW b \in Seq(Nat), NEW c \in Seq(Nat),
           \A i, j \in DOMAIN assets : assets[i] = assets[j] => i = j,
           Len(b) = Len(assets), Len(c) = Len(assets),
           PackedSub(m, assets, SubRows(assets, b)) # Error,
           PackedSub(m, assets, SubRows(assets, b)) = PackedSub(n, assets, SubRows(assets, c))
    PROVE  m = n /\ b = c
  <1>. DEFINE rb == SubRows(assets, b)
              rc == SubRows(assets, c)
  <1>1. /\ Error \notin ToSet(rb) /\ \A i \in DOMAIN assets : IsCompatible(assets[i])
        /\ PackedSub(m, assets, rb) =
              [id |-> m, ckbytes |-> PackedCkbytes(RowsOf("ckbytes", assets, rb)),
               sudts |-> PackedSudts(RowsOf("sudt", assets, rb))]
    BY Zenon DEF PackedSub
  <1>2. PackedSub(n, assets, rc) =
           [id |-> n, ckbytes |-> PackedCkbytes(RowsOf("ckbytes", assets, rc)),
            sudts |-> PackedSudts(RowsOf("sudt", assets, rc))]
    BY Zenon DEF PackedSub
  <1>3. /\ m = n
        /\ PackedCkbytes(RowsOf("ckbytes", assets, rb)) = PackedCkbytes(RowsOf("ckbytes", assets, rc))
        /\ PackedSudts(RowsOf("sudt", assets, rb)) = PackedSudts(RowsOf("sudt", assets, rc))
    <2>. DEFINE x2 == PackedCkbytes(RowsOf("ckbytes", assets, rb))
                x3 == PackedSudts(RowsOf("sudt", assets, rb))
                y2 == PackedCkbytes(RowsOf("ckbytes", assets, rc))
                y3 == PackedSudts(RowsOf("sudt", assets, rc))
    <2>1. [id |-> m, ckbytes |-> x2, sudts |-> x3] = [id |-> n, ckbytes |-> y2, sudts |-> y3]
      BY <1>1, <1>2
    <2>. HIDE DEF x2, x3, y2, y3
    <2>2. m = n /\ x2 = y2 /\ x3 = y3
      BY <2>1
    <2>. QED BY <2>2 DEF x2, x3, y2, y3
  <1>4. ASSUME NEW i \in DOMAIN assets PROVE rb[i] = rc[i]
    <2>1. i \in Nat /\ assets[i] \in {"ckbytes", "sudt"}
      BY <1>1 DEF IsCompatible
    <2>2. ASSUME NEW r
          PROVE  /\ DOMAIN RowsOf(assets[i], assets, r) = {i}
                 /\ RowsOf(assets[i], assets, r)[i] = r[i]
      BY DEF RowsOf
    <2>3. CASE assets[i] = "ckbytes"
      <3>1. Max({i}) = i
        BY <2>1 DEF Max
      <3>2. ASSUME NEW r PROVE PackedCkbytes(RowsOf("ckbytes", assets, r)) = r[i]
        BY <2>2, <2>3, <3>1 DEF PackedCkbytes
      <3>. QED BY <1>3, <3>2
    <2>4. CASE assets[i] = "sudt"
      <3>1. ASSUME NEW r
            PROVE  PackedSudts(RowsOf("sudt", assets, r)) = {r[i]}
        BY <2>2, <2>4 DEF PackedSudts
      <3>2. {rb[i]} = {rc[i]}
        BY <1>3, <3>1
      <3>. QED BY <3>2
    <2>. QED BY <2>1, <2>3, <2>4
  <1>5. ASSUME NEW i \in DOMAIN assets PROVE b[i] = c[i]
    <2>1. /\ i \in DOMAIN b /\ i \in DOMAIN c /\ b[i] \in Nat /\ c[i] \in Nat /\ assets[i] \in Asset
      OBVIOUS
    <2>2. rb[i] = PackRow(assets[i], <<b[i], 0>>) /\ rc[i] = PackRow(assets[i], <<c[i], 0>>)
      BY DEF SubRows
    <2>3. rb[i] # Error
      BY <1>1 DEF ToSet, SubRows
    <2>. HIDE DEF rb, rc
    <2>4. <<b[i], 0>> \in Nat \X Nat /\ <<c[i], 0>> \in Nat \X Nat
      BY <2>1
    <2>5. <<b[i], 0>> = <<c[i], 0>>
      BY <1>4, <2>1, <2>2, <2>3, <2>4, RowFixesAmounts
    <2>. QED BY <2>5
  <1>6. b = c
    BY <1>5
  <1>. QED BY <1>3, <1>6

(* The packed form of a whole state, unless packing it fails.              *)
LEMMA PackState ==
    ASSUME NEW s, PackChannelState(s) # Error
    PROVE  LET rows == [i \in DOMAIN s.assets |-> PackRow(s.assets[i], s.bals[i])] IN
           /\ Error \notin ToSet(rows) /\ Error \notin ToSet(PackLocked(s))
           /\ PackChannelState(s) = [version |-> s.version, final |-> s.final,
                                     assets |-> rows, locked |-> PackLocked(s)]
  BY Zenon DEF PackChannelState

(* A state that was packed tells all its amounts, and what it locks where. *)
LEMMA PackedFixesAmounts ==
    ASSUME NEW s \in AnyState, NEW t \in AnyState,
           Rectangular(s), Rectangular(t), Distinct(s),
           PackChannelState(s) # Error, PackChannelState(s) = PackChannelState(t)
    PROVE  SameAmounts(s, t)
  <1>. DEFINE Rows(u) == [i \in DOMAIN u.assets |-> PackRow(u.assets[i], u.bals[i])]
  <1>1. ASSUME NEW u, PackChannelState(u) # Error
        PROVE  /\ Error \notin ToSet(Rows(u)) /\ Error \notin ToSet(PackLocked(u))
               /\ PackChannelState(u) = [version |-> u.version, final |-> u.final,
                                         assets |-> Rows(u), locked |-> PackLocked(u)]
    BY <1>1, PackState
  <1>2. ASSUME NEW u
        PROVE  /\ DOMAIN Rows(u) = DOMAIN u.assets
               /\ \A i \in DOMAIN u.assets : Rows(u)[i] = PackRow(u.assets[i], u.bals[i])
    OBVIOUS
  <1>. HIDE DEF Rows
  <1>3. /\ s.version = t.version /\ s.final = t.final
        /\ Rows(s) = Rows(t) /\ PackLocked(s) = PackLocked(t)
    <2>1. [version |-> s.version, final |-> s.final, assets |-> Rows(s), locked |-> PackLocked(s)]
             = [version |-> t.version, final |-> t.final, assets |-> Rows(t), locked |-> PackLocked(t)]
      BY <1>1
    <2>. QED BY <2>1
  <1>4. ASSUME NEW u \in AnyState, Rectangular(u)
        PROVE  /\ u.assets \in Seq(Asset) /\ u.bals \in Seq(Nat \X Nat)
               /\ u.locked \in Seq(AnySub) /\ Len(u.bals) = Len(u.assets)
               /\ \A i \in DOMAIN u.locked : /\ u.locked[i].id \in SubId
                                             /\ u.locked[i].bals \in Seq(Nat)
                                             /\ Len(u.locked[i].bals) = Len(u.assets)
    <2>1. u.assets \in Seq(Asset) /\ u.bals \in Seq(Nat \X Nat) /\ u.locked \in Seq(AnySub)
      BY DEF AnyState
    <2>2. \A i \in DOMAIN u.locked : u.locked[i] \in AnySub
      BY <2>1
    <2>3. \A x \in AnySub : x.id \in SubId /\ x.bals \in Seq(Nat)
      BY DEF AnySub
    <2>. QED BY <1>4, <2>1, <2>2, <2>3 DEF Rectangular
  <1>5. DOMAIN s.assets = DOMAIN t.assets
    BY <1>2, <1>3
  <1>6. ASSUME NEW i \in DOMAIN s.assets PROVE s.assets[i] = t.assets[i] /\ s.bals[i] = t.bals[i]
    <2>1. /\ s.assets[i] \in Asset /\ t.assets[i] \in Asset
          /\ s.bals[i] \in Nat \X Nat /\ t.bals[i] \in Nat \X Nat
      BY <1>4, <1>5
    <2>2. Rows(s)[i] = PackRow(s.assets[i], s.bals[i]) /\ Rows(t)[i] = PackRow(t.assets[i], t.bals[i])
      BY <1>2, <1>5
    <2>3. Rows(s)[i] # Error
      BY <1>1, <1>2 DEF ToSet
    <2>. QED BY <1>3, <2>1, <2>2, <2>3, RowFixesAmounts
  <1>7. s.assets = t.assets /\ s.bals = t.bals
    <2>1. Len(s.assets) = Len(t.assets)
      BY <1>4, <1>5
    <2>. QED BY <1>4, <1>6, <2>1
  <1>8. Error \notin ToSet(PackLocked(s)) /\ Error \notin ToSet(PackLocked(t))
    BY <1>1
  <1>9. ASSUME NEW u \in AnyState, Rectangular(u), u.locked = << >>
        PROVE  DOMAIN PackLocked(u) = {1} /\ PackLocked(u)[1].id = DefaultId
    BY <1>9 DEF PackLocked, PackDefaultSubAlloc
  <1>10. ASSUME NEW u \in AnyState, Rectangular(u), u.locked # << >>
         PROVE  /\ DOMAIN PackLocked(u) = DOMAIN u.locked /\ 1 \in DOMAIN u.locked
                /\ \A i \in DOMAIN u.locked :
                      PackLocked(u)[i] = PackedSub(u.locked[i].id, u.assets,
                                                   SubRows(u.assets, u.locked[i].bals))
    <2>1. u.locked \in Seq(AnySub)
      BY <1>4, <1>10
    <2>2. PackLocked(u) = [i \in DOMAIN u.locked |-> PackSubAlloc(u.locked[i], u)]
      BY <1>10 DEF PackLocked
    <2>. QED BY <1>10, <2>1, <2>2, PackSub
  <1>11. ASSUME NEW u \in AnyState, Rectangular(u), u.locked # << >>,
                Error \notin ToSet(PackLocked(u))
         PROVE  PackLocked(u)[1].id \in SubId
    <2>1. /\ 1 \in DOMAIN u.locked /\ 1 \in DOMAIN PackLocked(u)
          /\ PackLocked(u)[1] = PackedSub(u.locked[1].id, u.assets,
                                          SubRows(u.assets, u.locked[1].bals))
      BY <1>10, <1>11
    <2>2. PackLocked(u)[1] # Error
      BY <1>11, <2>1 DEF ToSet
    <2>3. PackLocked(u)[1].id = u.locked[1].id
      BY <2>1, <2>2 DEF PackedSub
    <2>. QED BY <1>4, <1>11, <2>1, <2>3
  <1>12. s.locked = << >> <=> t.locked = << >>
    BY <1>1, <1>3, <1>9, <1>11, SubIdAssumption
  <1>13. DOMAIN s.locked = DOMAIN t.locked
    BY <1>3, <1>10, <1>12
  <1>14. ASSUME NEW i \in DOMAIN s.locked
         PROVE  s.locked[i].id = t.locked[i].id /\ s.locked[i].bals = t.locked[i].bals
    <2>1. s.locked # << >> /\ t.locked # << >> /\ i \in DOMAIN t.locked
      BY <1>12, <1>13
    <2>. DEFINE sub(u) == PackedSub(u.locked[i].id, s.assets, SubRows(s.assets, u.locked[i].bals))
    <2>2. PackLocked(s)[i] = sub(s) /\ PackLocked(t)[i] = sub(t) /\ i \in DOMAIN PackLocked(s)
      BY <1>7, <1>10, <2>1
    <2>3. sub(s) # Error /\ sub(s) = sub(t)
      BY <1>1, <1>3, <2>2 DEF ToSet
    <2>4. /\ s.assets \in Seq(Asset)
          /\ s.locked[i].bals \in Seq(Nat) /\ t.locked[i].bals \in Seq(Nat)
          /\ Len(s.locked[i].bals) = Len(s.assets) /\ Len(t.locked[i].bals) = Len(s.assets)
      BY <1>4, <1>7, <2>1
    <2>5. \A k, l \in DOMAIN s.assets : s.assets[k] = s.assets[l] => k = l
      BY DEF Distinct
    <2>. QED BY <2>3, <2>4, <2>5, SubFixesAmounts
  <1>. QED BY <1>3, <1>7, <1>13, <1>14 DEF SameAmounts

(* The states of a run are such states.                                    *)
LEMMA StateIsAny ==
    ASSUME NEW s \in State
    PROVE  s \in AnyState /\ Rectangular(s) /\ Distinct(s)
  <1>1. PICK assets \in AssetList :
           s \in [version : {0}, final : {FALSE}, assets : {assets}, bals : [1..Len(assets) -> Row],
                  locked : {<<>>} \cup {<<sub>> : sub \in SubAlloc(Len(assets))}]
    BY DEF State
  <1>2. /\ s = [version |-> s.version, final |-> s.final, assets |-> s.assets,
                bals |-> s.bals, locked |-> s.locked]
        /\ s.version = 0 /\ s.final \in {FALSE} /\ s.assets = assets
        /\ s.bals \in [1..Len(assets) -> Row]
        /\ s.locked \in {<<>>} \cup {<<sub>> : sub \in SubAlloc(Len(assets))}
    BY <1>1
  <1>3. /\ assets \in Seq(Asset)
        /\ \A i, j \in DOMAIN assets : assets[i] = assets[j] => i = j
    <2>1. ASSUME NEW a \in Asset, assets = <<a>>
          PROVE  /\ assets \in Seq(Asset)
                 /\ \A i, j \in DOMAIN assets : assets[i] = assets[j] => i = j
      BY <2>1
    <2>2. ASSUME NEW a \in Asset, NEW b \in Asset, a # b, assets = <<a, b>>
          PROVE  /\ assets \in Seq(Asset)
                 /\ \A i, j \in DOMAIN assets : assets[i] = assets[j] => i = j
      BY <2>2
    <2>3. /\ {"ckbytes", "sudt", "eth"} \subseteq Asset
          /\ "ckbytes" # "sudt" /\ "ckbytes" # "eth"
      BY DEF Asset
    <2>4. \/ assets = <<"ckbytes">> \/ assets = <<"ckbytes", "sudt">>
          \/ assets = <<"sudt", "ckbytes">> \/ assets = <<"ckbytes", "eth">>
      BY DEF AssetList
    <2>. QED BY <2>1, <2>2, <2>3, <2>4
  <1>. DEFINE n == Len(assets)
  <1>4. n \in Nat /\ DOMAIN assets = 1 .. n
    BY <1>3
  <1>. HIDE DEF n
  <1>5. s.bals \in Seq(Nat \X Nat) /\ Len(s.bals) = n
    <2>1. Row \subseteq Nat \X Nat
      BY WordAssumption DEF Row
    <2>2. s.bals \in [1 .. n -> Nat \X Nat]
      BY <1>2, <2>1 DEF n
    <2>. QED BY <1>4, <2>2
  <1>6. ASSUME NEW sub \in SubAlloc(n) PROVE sub \in AnySub /\ Len(sub.bals) = n
    <2>1. /\ sub = [id |-> sub.id, bals |-> sub.bals, map |-> sub.map]
          /\ sub.id \in SubId /\ sub.bals \in [1..n -> {1, Word64}] /\ sub.map \in IndexMap
      BY DEF SubAlloc
    <2>2. sub.bals \in [1 .. n -> Nat]
      BY <2>1, WordAssumption
    <2>3. sub.bals \in Seq(Nat) /\ Len(sub.bals) = n
      BY <1>4, <2>2
    <2>4. sub.map \in Seq(Nat)
      <3>1. << >> \in Seq(Nat) /\ <<0, 1>> \in Seq(Nat) /\ <<1, 0>> \in Seq(Nat)
        OBVIOUS
      <3>. QED BY <2>1, <3>1, Zenon DEF IndexMap
    <2>. QED BY <2>1, <2>3, <2>4 DEF AnySub
  <1>7. s.locked \in Seq(AnySub) /\ \A i \in DOMAIN s.locked : Len(s.locked[i].bals) = n
    <2>1. CASE s.locked = << >>
      BY <2>1
    <2>2. CASE s.locked # << >>
      <3>1. PICK sub \in SubAlloc(n) : s.locked = <<sub>>
        BY <1>2, <2>2 DEF n
      <3>2. sub \in AnySub /\ Len(sub.bals) = n
        BY <1>6
      <3>. QED BY <3>1, <3>2
    <2>. QED BY <2>1, <2>2
  <1>8. s \in AnyState
    <2>1. s.version \in Nat /\ s.final \in BOOLEAN /\ s.assets \in Seq(Asset)
      <3>1. \A b \in {FALSE} : b \in BOOLEAN
        BY Zenon
      <3>2. s.final \in BOOLEAN
        BY <1>2, <3>1, Zenon
      <3>3. s.version \in Nat /\ s.assets \in Seq(Asset)
        BY <1>2, <1>3
      <3>. QED BY <3>2, <3>3
    <2>2. s = [version |-> s.version, final |-> s.final, assets |-> s.assets,
               bals |-> s.bals, locked |-> s.locked]
      BY <1>2, Zenon
    <2>3. \A a \in Nat, b \in BOOLEAN, c \in Seq(Asset), d \in Seq(Nat \X Nat), e \in Seq(AnySub) :
             [version |-> a, final |-> b, assets |-> c, bals |-> d, locked |-> e] \in AnyState
      BY DEF AnyState
    <2>. QED BY <1>5, <1>7, <2>1, <2>2, <2>3, Zenon
  <1>9. Rectangular(s) /\ Distinct(s)
    BY <1>2, <1>3, <1>5, <1>7 DEF Rectangular, Distinct, n
  <1>. QED BY <1>8, <1>9

(* A state with all its forms, as PutStateOnChain notes it.                *)
Put(s) == [state |-> s, packed |-> PackChannelState(s),
           signed |-> SignedForm(s, "NervosAsset"), peers |-> SignedForm(s, NewAsset)]

(* Only states that could be packed are on chain.                          *)
StatesInv == \A x \in onChain : \E s \in State : x = Put(s) /\ PackChannelState(s) # Error

LEMMA StatesStep ==
    /\ Init => StatesInv
    /\ StatesInv /\ [Next]_encodings => StatesInv'
  <1>1. Init => StatesInv
    BY DEF Init, StatesInit, StatesInv
  <1>2. ASSUME StatesInv, [Next]_encodings PROVE StatesInv'
    <2>1. CASE onChain' = onChain
      BY <1>2, <2>1 DEF StatesInv
    <2>2. CASE States
      <3>1. PICK s \in State : PutStateOnChain(s) \/ StateRefused(s)
        BY <2>2 DEF States, StatesNext
      <3>2. CASE PutStateOnChain(s)
        <4>1. onChain' = onChain \cup {Put(s)} /\ PackChannelState(s) # Error
          BY <3>2 DEF PutStateOnChain, Put
        <4>. QED BY <1>2, <4>1 DEF StatesInv
      <3>. QED BY <2>1, <3>1, <3>2 DEF StateRefused
    <2>3. States \/ onChain' = onChain
      BY <1>2 DEF Next, Sigs, Parameters, encodings
    <2>. QED BY <2>1, <2>2, <2>3
  <1>. QED BY <1>1, <1>2

(* One signature stands for one on-chain state, for words of every width.  *)
THEOREM SignatureFixes == Spec => []SignatureFixesChainState
  <1>1. StatesInv => SignatureFixesChainState
    <2>1. SUFFICES ASSUME StatesInv, NEW x \in onChain, NEW y \in onChain, x.signed = y.signed
                   PROVE  x.packed = y.packed
      BY DEF SignatureFixesChainState
    <2>2. PICK s \in State : x = Put(s)
      BY <2>1 DEF StatesInv
    <2>3. PICK t \in State : y = Put(t)
      BY <2>1 DEF StatesInv
    <2>4. SignedForm(s, "NervosAsset") = SignedForm(t, "NervosAsset")
      BY <2>1, <2>2, <2>3 DEF Put
    <2>5. PackChannelState(s) = PackChannelState(t)
      BY <2>4, StateIsAny, SignedTogether, PackedTogether
    <2>. QED BY <2>2, <2>3, <2>5 DEF Put
  <1>. QED BY <1>1, StatesStep, PTL DEF Spec

(* The same of any two states, with whatever amounts and sub-channels:     *)
(* ToEthState leaves out nothing that PackChannelState puts on chain.      *)
THEOREM SignedFixesPacked ==
    \A s, t \in AnyState :
        SignedForm(s, "NervosAsset") = SignedForm(t, "NervosAsset") =>
            PackChannelState(s) = PackChannelState(t)
  BY SignedTogether, PackedTogether

(* And of any two states with a row for each of their assets: if packing   *)
(* does not fail, what is on chain tells every amount, locked ones too.    *)
THEOREM PackedFixesState ==
    \A s, t \in AnyState :
        /\ Rectangular(s) /\ Rectangular(t) /\ Distinct(s)
        /\ PackChannelState(s) # Error /\ PackChannelState(s) = PackChannelState(t)
        => SameAmounts(s, t)
  BY PackedFixesAmounts

(* What is on chain commits to every amount of the state, also where an    *)
(* amount does not fit the field it is packed into.                        *)
THEOREM PackedCommits == Spec => []CommitsToAmounts
  <1>1. StatesInv => CommitsToAmounts
    <2>1. SUFFICES ASSUME StatesInv, NEW x \in onChain, NEW y \in onChain, x.packed = y.packed
                   PROVE  Amounts(x.state) = Amounts(y.state)
      BY DEF CommitsToAmounts
    <2>2. PICK s \in State : x = Put(s) /\ PackChannelState(s) # Error
      BY <2>1 DEF StatesInv
    <2>3. PICK t \in State : y = Put(t)
      BY <2>1 DEF StatesInv
    <2>4. PackChannelState(s) = PackChannelState(t)
      BY <2>1, <2>2, <2>3 DEF Put
    <2>5. SameAmounts(s, t)
      BY <2>2, <2>4, StateIsAny, PackedFixesAmounts
    <2>6. Amounts(s) = Amounts(t)
      <3>1. [i \in DOMAIN s.locked |-> <<s.locked[i].id, s.locked[i].bals>>]
               = [i \in DOMAIN t.locked |-> <<t.locked[i].id, t.locked[i].bals>>]
        BY <2>5 DEF SameAmounts
      <3>. QED BY <2>5, <3>1 DEF SameAmounts, Amounts
    <2>. QED BY <2>2, <2>3, <2>6 DEF Put
  <1>. QED BY <1>1, StatesStep, PTL DEF Spec
-----------------------------------------------------------------------------
(* Channel parameters.                                                     *)

(* Parameters of any two parties.                                          *)
AnyParams == [parts : Part \X Part, nonce : Nat, app : BOOLEAN, ledger : BOOLEAN, virtual : BOOLEAN]

(* What OpenChannel notes of a channel.                                    *)
Opened(params) ==
    [params |-> params, packed |-> PackChannelParameters(View(params, 1)),
     id |-> CalcID(View(params, 1)), peersId |-> CalcID(View(params, 2))]

(* The parts of the parties, as party i knows them.                        *)
LEMMA Views ==
    ASSUME NEW params \in AnyParams, NEW i \in {1, 2}
    PROVE  LET p == params.parts
               v == View(params, i)
           IN  /\ p[1] \in Part /\ p[2] \in Part /\ Len(p) = 2 /\ DOMAIN p = 1 .. 2
               /\ v.parts = <<IF i = 1 THEN p[1] ELSE Decoded(p[1]),
                              IF i = 2 THEN p[2] ELSE Decoded(p[2])>>
               /\ v.nonce = params.nonce /\ v.nonce \in Nat
               /\ v.virtual = params.virtual /\ v.ledger = params.ledger /\ v.app = params.app
  <1>. DEFINE p == params.parts
              w(j) == IF j = i THEN p[j] ELSE Decoded(p[j])
              v == View(params, i)
  <1>1. /\ p \in Part \X Part /\ params.nonce \in Nat
        /\ params = [parts |-> p, nonce |-> params.nonce, app |-> params.app,
                     ledger |-> params.ledger, virtual |-> params.virtual]
    BY Zenon DEF AnyParams
  <1>2. p[1] \in Part /\ p[2] \in Part /\ p = <<p[1], p[2]>> /\ Len(p) = 2 /\ DOMAIN p = 1 .. 2
    BY <1>1
  <1>3. v = [parts |-> [j \in DOMAIN p |-> w(j)], nonce |-> params.nonce, app |-> params.app,
             ledger |-> params.ledger, virtual |-> params.virtual]
    BY <1>1 DEF View
  <1>4. [j \in DOMAIN p |-> w(j)] = <<w(1), w(2)>>
    <2>. HIDE DEF w, p
    <2>. QED BY <1>2
  <1>. QED BY <1>1, <1>2, <1>3, <1>4

(* The wire keeps the key and nothing else that is on chain.               *)
LEMMA DecodedPart ==
    ASSUME NEW part \in Part
    PROVE  /\ Decoded(part).ckb = NewDefaultParticipant(part.ckb.key)
           /\ Decoded(part).eth = part.eth
           /\ EthParticipant(part) = EthParticipant(Decoded(part))
                 <=> part.ckb = NewDefaultParticipant(part.ckb.key)
  <1>. DEFINE d == NewDefaultParticipant(part.ckb.key)
  <1>1. part.ckb \in Participant /\ part = [ckb |-> part.ckb, eth |-> part.eth]
    BY DEF Part
  <1>2. /\ part.ckb = [key |-> part.ckb.key, payment |-> part.ckb.payment, unlock |-> part.ckb.unlock]
    BY <1>1 DEF Participant, NewDefaultParticipant, NewCrossChainParticipantFromPublicKeys
  <1>3. Decoded(part) = [ckb |-> d, eth |-> part.eth]
    BY <1>1 DEF Decoded, UnpackOnChainParticipant, PackOnChainParticipant
  <1>4. d = [key |-> part.ckb.key, payment |-> d.payment, unlock |-> d.unlock]
    BY DEF NewDefaultParticipant
  <1>. HIDE DEF d
  <1>5. /\ EthParticipant(part).cc = <<part.ckb.key, part.ckb.payment, part.ckb.unlock>>
        /\ EthParticipant(Decoded(part)).cc = <<part.ckb.key, d.payment, d.unlock>>
        /\ EthParticipant(part).eth = EthParticipant(Decoded(part)).eth
        /\ EthParticipant(part) = [eth |-> EthParticipant(part).eth, cc |-> EthParticipant(part).cc]
        /\ EthParticipant(Decoded(part)) = [eth |-> EthParticipant(Decoded(part)).eth,
                                            cc |-> EthParticipant(Decoded(part)).cc]
    BY <1>3, <1>4 DEF EthParticipant, PackOnChainParticipant
  <1>6. EthParticipant(part) = EthParticipant(Decoded(part))
           <=> part.ckb.payment = d.payment /\ part.ckb.unlock = d.unlock
    BY <1>5
  <1>7. part.ckb = d <=> part.ckb.payment = d.payment /\ part.ckb.unlock = d.unlock
    BY <1>2, <1>4
  <1>. QED BY <1>3, <1>6, <1>7 DEF d

(* What is hashed for the id, of two parties.                              *)
LEMMA IdOf ==
    ASSUME NEW params \in AnyParams, NEW i \in {1, 2}
    PROVE  LET p == params.parts
               w(j) == IF j = i THEN p[j] ELSE Decoded(p[j])
           IN  CalcID(View(params, i)) =
                  [nonce |-> params.nonce % Word256,
                   participants |-> <<EthParticipant(w(1)), EthParticipant(w(2))>>,
                   ledger |-> params.ledger, virtual |-> params.virtual]
  <1>. DEFINE p == params.parts
              w(j) == IF j = i THEN p[j] ELSE Decoded(p[j])
              v == View(params, i)
  <1>1. /\ v.parts = <<w(1), w(2)>> /\ v.nonce = params.nonce
        /\ v.virtual = params.virtual /\ v.ledger = params.ledger
    BY Views
  <1>. HIDE DEF w, p, v
  <1>2. [k \in DOMAIN v.parts |-> EthParticipant(v.parts[k])]
           = <<EthParticipant(w(1)), EthParticipant(w(2))>>
    BY <1>1
  <1>3. CalcID(v) = [nonce |-> params.nonce % Word256,
                     participants |-> <<EthParticipant(w(1)), EthParticipant(w(2))>>,
                     ledger |-> params.ledger, virtual |-> params.virtual]
    BY <1>1, <1>2 DEF CalcID
  <1>. QED BY <1>3 DEF w, p, v

(* What is packed into the constants of a cell, unless that fails.         *)
LEMMA PackedParams ==
    ASSUME NEW params \in AnyParams, PackChannelParameters(View(params, 1)) # Refused
    PROVE  /\ params.nonce < Word256
           /\ PackChannelParameters(View(params, 1)) =
                [nonce |-> params.nonce, virtual |-> params.virtual, ledger |-> ~params.virtual,
                 parties |-> <<PackOnChainParticipant(params.parts[1].ckb),
                               PackOnChainParticipant(Decoded(params.parts[2]).ckb)>>]
  <1>. DEFINE v == View(params, 1)
  <1>1. /\ v.parts = <<params.parts[1], Decoded(params.parts[2])>> /\ v.nonce = params.nonce
        /\ v.virtual = params.virtual
    BY Views
  <1>. HIDE DEF v
  <1>2. PackChannelParameters(v) # Refused
    BY DEF v
  <1>3. NonceFits(v.nonce)
    BY <1>2, Zenon DEF PackChannelParameters
  <1>4. PackChannelParameters(v) =
           [nonce |-> v.nonce, virtual |-> v.virtual, ledger |-> ~v.virtual,
            parties |-> [k \in 1..2 |-> PackOnChainParticipant(v.parts[k].ckb)]]
    BY <1>2, Zenon DEF PackChannelParameters
  <1>5. [k \in 1..2 |-> PackOnChainParticipant(v.parts[k].ckb)]
           = <<PackOnChainParticipant(params.parts[1].ckb),
               PackOnChainParticipant(Decoded(params.parts[2]).ckb)>>
    BY <1>1
  <1>. QED BY <1>1, <1>3, <1>4, <1>5, Zenon DEF NonceFits, v

(* The same id, the same constants of the cell: for any two channels of    *)
(* any parties.                                                            *)
LEMMA IdFixesParams ==
    ASSUME NEW a \in AnyParams, NEW b \in AnyParams,
           PackChannelParameters(View(a, 1)) # Refused,
           PackChannelParameters(View(b, 1)) # Refused,
           CalcID(View(a, 1)) = CalcID(View(b, 1))
    PROVE  PackChannelParameters(View(a, 1)) = PackChannelParameters(View(b, 1))
  <1>. DEFINE first(x) == EthParticipant(x.parts[1])
              second(x) == EthParticipant(Decoded(x.parts[2]))
  <1>1. ASSUME NEW x \in AnyParams
        PROVE  CalcID(View(x, 1)) = [nonce |-> x.nonce % Word256,
                                     participants |-> <<first(x), second(x)>>,
                                     ledger |-> x.ledger, virtual |-> x.virtual]
    BY IdOf
  <1>2. \A x : /\ first(x).cc = PackOnChainParticipant(x.parts[1].ckb)
               /\ second(x).cc = PackOnChainParticipant(Decoded(x.parts[2]).ckb)
    BY DEF EthParticipant
  <1>. HIDE DEF first, second
  <1>3. /\ a.nonce % Word256 = b.nonce % Word256 /\ a.virtual = b.virtual
        /\ first(a) = first(b) /\ second(a) = second(b)
    <2>1. [nonce |-> a.nonce % Word256, participants |-> <<first(a), second(a)>>,
           ledger |-> a.ledger, virtual |-> a.virtual]
             = [nonce |-> b.nonce % Word256, participants |-> <<first(b), second(b)>>,
                ledger |-> b.ledger, virtual |-> b.virtual]
      BY <1>1
    <2>. QED BY <2>1
  <1>4. a.nonce = b.nonce
    <2>1. a.nonce < Word256 /\ b.nonce < Word256
      BY PackedParams
    <2>2. a.nonce \in Nat /\ b.nonce \in Nat
      BY DEF AnyParams
    <2>. QED BY <1>3, <2>1, <2>2, NonceAssumption
  <1>5. /\ PackOnChainParticipant(a.parts[1].ckb) = PackOnChainParticipant(b.parts[1].ckb)
        /\ PackOnChainParticipant(Decoded(a.parts[2]).ckb)
              = PackOnChainParticipant(Decoded(b.parts[2]).ckb)
    BY <1>2, <1>3, Zenon
  <1>. QED BY <1>3, <1>4, <1>5, PackedParams, Zenon

(* Equal ids for both parties, if and only if both have default scripts.   *)
LEMMA SameId ==
    ASSUME NEW a \in AnyParams
    PROVE  CalcID(View(a, 1)) = CalcID(View(a, 2)) <=>
              \A i \in DOMAIN a.parts : a.parts[i].ckb = NewDefaultParticipant(a.parts[i].ckb.key)
  <1>. DEFINE p == a.parts
              e(part) == EthParticipant(part)
  <1>1. p[1] \in Part /\ p[2] \in Part /\ DOMAIN p = 1 .. 2
    BY Views
  <1>2. /\ CalcID(View(a, 1)) = [nonce |-> a.nonce % Word256,
                                 participants |-> <<e(p[1]), e(Decoded(p[2]))>>,
                                 ledger |-> a.ledger, virtual |-> a.virtual]
        /\ CalcID(View(a, 2)) = [nonce |-> a.nonce % Word256,
                                 participants |-> <<e(Decoded(p[1])), e(p[2])>>,
                                 ledger |-> a.ledger, virtual |-> a.virtual]
    BY IdOf
  <1>3. \A i \in {1, 2} : e(p[i]) = e(Decoded(p[i]))
                             <=> p[i].ckb = NewDefaultParticipant(p[i].ckb.key)
    BY <1>1, DecodedPart
  <1>. HIDE DEF e, p
  <1>4. CalcID(View(a, 1)) = CalcID(View(a, 2))
           <=> e(p[1]) = e(Decoded(p[1])) /\ e(p[2]) = e(Decoded(p[2]))
    BY <1>2
  <1>5. CalcID(View(a, 1)) = CalcID(View(a, 2))
           <=> \A i \in DOMAIN p : p[i].ckb = NewDefaultParticipant(p[i].ckb.key)
    BY <1>1, <1>3, <1>4
  <1>. QED BY <1>5 DEF p

(* Only parameters that could be packed are those of a channel.            *)
ParamsInv ==
    \A x \in opened : \E params \in AnyParams :
       x = Opened(params) /\ PackChannelParameters(View(params, 1)) # Refused

LEMMA ParamsStep ==
    ASSUME Params \subseteq AnyParams
    PROVE  /\ Init => ParamsInv
           /\ ParamsInv /\ [Next]_encodings => ParamsInv'
  <1>1. Init => ParamsInv
    BY DEF Init, ParamsInit, ParamsInv
  <1>2. ASSUME ParamsInv, [Next]_encodings PROVE ParamsInv'
    <2>1. CASE opened' = opened
      BY <1>2, <2>1 DEF ParamsInv
    <2>2. CASE Parameters
      <3>1. PICK params \in Params : OpenChannel(params) \/ ParamsRefused(params)
        BY <2>2 DEF Parameters, ParamsNext
      <3>2. CASE OpenChannel(params)
        <4>1. /\ opened' = opened \cup {Opened(params)}
              /\ PackChannelParameters(View(params, 1)) # Refused
          BY <3>2 DEF OpenChannel, Opened
        <4>. QED BY <1>2, <4>1 DEF ParamsInv
      <3>. QED BY <2>1, <3>1, <3>2 DEF ParamsRefused
    <2>3. Parameters \/ opened' = opened
      BY <1>2 DEF Next, Sigs, States, encodings
    <2>. QED BY <2>1, <2>2, <2>3
  <1>. QED BY <1>1, <1>2

(* The channels of a run are such channels.                                *)
LEMMA ParamsAreAny == Params \subseteq AnyParams
  <1>. DEFINE first  == CHOOSE k \in Key : TRUE
              second == CHOOSE k \in Key : k # first
              X == {p \in Part : p.ckb.key = first}
              Y == {[ckb |-> NewDefaultParticipant(second), eth |-> NoKey],
                    [ckb |-> NewCrossChainParticipantFromPublicKeys(second, second), eth |-> second]}
  <1>1. second \in Key
    BY KeyAssumption
  <1>2. Y \subseteq Part
    <2>. HIDE DEF second
    <2>1. NewDefaultParticipant(second) \in Participant
          /\ NewCrossChainParticipantFromPublicKeys(second, second) \in Participant
      BY <1>1 DEF Participant
    <2>. QED BY <1>1, <2>1 DEF Part
  <1>. DEFINE Pairs == {<<x, y>> : x \in X, y \in Y}
  <1>3. Params = [parts : Pairs, nonce : Nonces, app : BOOLEAN, ledger : BOOLEAN,
                  virtual : BOOLEAN]
    BY DEF Params
  <1>. HIDE DEF X, Y
  <1>4. X \subseteq Part
    BY DEF X
  <1>5. Pairs \subseteq Part \X Part
    BY <1>2, <1>4
  <1>. HIDE DEF Pairs
  <1>6. ASSUME NEW P, P \subseteq Part \X Part
        PROVE  [parts : P, nonce : Nonces, app : BOOLEAN, ledger : BOOLEAN, virtual : BOOLEAN]
                  \subseteq AnyParams
    <2>1. Nonces \subseteq Nat
      BY NonceAssumption
    <2>2. ASSUME NEW q \in [parts : P, nonce : Nonces, app : BOOLEAN, ledger : BOOLEAN,
                            virtual : BOOLEAN]
          PROVE  q \in AnyParams
      <3>1. q.parts \in Part \X Part /\ q.nonce \in Nat
        BY <1>6, <2>1
      <3>2. q.app \in BOOLEAN /\ q.ledger \in BOOLEAN /\ q.virtual \in BOOLEAN
        BY Zenon
      <3>. DEFINE r == [parts |-> q.parts, nonce |-> q.nonce, app |-> q.app,
                        ledger |-> q.ledger, virtual |-> q.virtual]
      <3>3. q = r
        BY Zenon
      <3>4. ASSUME NEW x \in BOOLEAN, NEW y \in BOOLEAN, NEW z \in BOOLEAN,
                   NEW p \in Part \X Part, NEW n \in Nat
            PROVE  [parts |-> p, nonce |-> n, app |-> x, ledger |-> y, virtual |-> z] \in AnyParams
        BY DEF AnyParams
      <3>5. r \in AnyParams
        BY <3>1, <3>2, <3>4
      <3>. HIDE DEF r
      <3>. QED BY <3>3, <3>5
    <2>. QED BY <2>2
  <1>7. [parts : Pairs, nonce : Nonces, app : BOOLEAN, ledger : BOOLEAN, virtual : BOOLEAN]
           \subseteq AnyParams
    BY <1>5, <1>6
  <1>. QED BY <1>3, <1>7, Zenon

(* An id fixes the keys and the scripts of its channel, for all keys and   *)
(* nonces: a party that finds a channel by its id has found the one it     *)
(* means.                                                                  *)
THEOREM IdFixes == Spec => []IdFixesChannel
  <1>1. ParamsInv => IdFixesChannel
    <2>1. SUFFICES ASSUME ParamsInv, NEW x \in opened, NEW y \in opened, x.id = y.id
                   PROVE  x.packed = y.packed
      BY DEF IdFixesChannel
    <2>2. PICK a \in AnyParams : x = Opened(a) /\ PackChannelParameters(View(a, 1)) # Refused
      BY <2>1 DEF ParamsInv
    <2>3. PICK b \in AnyParams : y = Opened(b) /\ PackChannelParameters(View(b, 1)) # Refused
      BY <2>1 DEF ParamsInv
    <2>4. CalcID(View(a, 1)) = CalcID(View(b, 1))
      BY <2>1, <2>2, <2>3 DEF Opened
    <2>5. PackChannelParameters(View(a, 1)) = PackChannelParameters(View(b, 1))
      BY <2>2, <2>3, <2>4, IdFixesParams
    <2>. QED BY <2>2, <2>3, <2>5 DEF Opened
  <1>. QED BY <1>1, ParamsStep, ParamsAreAny, PTL DEF Spec

(* The two parties compute the same id for the channels whose participants *)
(* both have the default scripts, and for no other.                        *)
THEOREM IdsAgree == Spec => []PeersAgree
  <1>1. ParamsInv => PeersAgree
    <2>1. SUFFICES ASSUME ParamsInv, NEW x \in opened
                   PROVE  x.id = x.peersId <=>
                             \A i \in DOMAIN x.params.parts :
                                x.params.parts[i].ckb =
                                   NewDefaultParticipant(x.params.parts[i].ckb.key)
      BY DEF PeersAgree
    <2>2. PICK a \in AnyParams : x = Opened(a)
      BY <2>1 DEF ParamsInv
    <2>3. x.id = CalcID(View(a, 1)) /\ x.peersId = CalcID(View(a, 2)) /\ x.params = a
      BY <2>2 DEF Opened
    <2>. QED BY <2>3, SameId, Zenon
  <1>. QED BY <1>1, ParamsStep, ParamsAreAny, PTL DEF Spec
-----------------------------------------------------------------------------
(* Signatures: numbers as bytes, and bytes as numbers.                     *)

(* A set of natural numbers has a least one.                               *)
LEMMA Least ==
    ASSUME NEW S \in SUBSET Nat, S # {}
    PROVE  \E x \in S : \A y \in S : x <= y
  <1>1. \A x, y \in Nat : x < y => <<x, y>> \in OpToRel(<, Nat)
    BY Zenon DEF OpToRel
  <1>2. PICK x \in S : \A y \in S : <<y, x>> \notin OpToRel(<, Nat)
    BY NatLessThanWellFounded, WFMin, Zenon
  <1>3. \A y \in S : ~(y < x)
    BY <1>1, <1>2, Zenon
  <1>. QED BY <1>3

(* Induction on natural numbers, for a set in the place of a predicate.    *)
LEMMA SetInduction ==
    ASSUME NEW S, 0 \in S, \A n \in Nat : n \in S => n + 1 \in S
    PROVE  Nat \subseteq S
  <1>. DEFINE T == {n \in Nat : n \notin S}
  <1>1. SUFFICES ASSUME T # {} PROVE FALSE
    OBVIOUS
  <1>2. PICK n \in T : \A m \in T : n <= m
    BY <1>1, Least
  <1>3. n - 1 \in Nat /\ n - 1 \notin T /\ n = (n - 1) + 1
    BY <1>2
  <1>. QED BY <1>2, <1>3

(* The value of k digits that are added to a leading one.                  *)
Upto(f, lead, digits, k) == IF k = 0 THEN lead ELSE f[k - 1] * Base + digits[k]

(* Functions with this recursion exist, with natural numbers as values.    *)
LEMMA Recursion ==
    ASSUME NEW n \in Nat, NEW lead \in Nat, NEW digits \in [1..n -> Nat]
    PROVE  \E f \in [0..n -> Nat] : f = [k \in 0..n |-> Upto(f, lead, digits, k)]
  <1>. DEFINE Good(m) == \E f \in [0..m -> Nat] : f = [k \in 0..m |-> Upto(f, lead, digits, k)]
              S == {m \in Nat : m <= n => Good(m)}
  <1>1. 0 \in S
    <2>. DEFINE g == [k \in {0} |-> lead]
    <2>1. g \in [0..0 -> Nat] /\ g = [k \in 0..0 |-> Upto(g, lead, digits, k)]
      BY DEF Upto
    <2>. HIDE DEF g
    <2>2. Good(0)
      BY <2>1
    <2>. QED BY <2>2
  <1>2. ASSUME NEW m \in Nat, m \in S PROVE m + 1 \in S
    <2>1. SUFFICES ASSUME m + 1 <= n PROVE Good(m + 1)
      OBVIOUS
    <2>2. PICK g \in [0..m -> Nat] : g = [k \in 0..m |-> Upto(g, lead, digits, k)]
      BY <1>2, <2>1
    <2>. DEFINE h == [k \in 0..(m + 1) |-> IF k = m + 1 THEN Upto(g, lead, digits, k) ELSE g[k]]
    <2>3. Upto(g, lead, digits, m + 1) \in Nat
      <3>1. g[m] \in Nat /\ digits[m + 1] \in Nat /\ Base \in Nat
        BY <2>1, <2>2, BaseAssumption
      <3>2. \A x, y, b \in Nat : x * b + y \in Nat
        OBVIOUS
      <3>3. m + 1 # 0 /\ (m + 1) - 1 = m
        OBVIOUS
      <3>. QED BY <3>1, <3>2, <3>3 DEF Upto
    <2>4. \A k \in 0..(m + 1) : h[k] = Upto(h, lead, digits, k) /\ h[k] \in Nat
      <3>1. SUFFICES ASSUME NEW k \in 0..(m + 1)
                     PROVE  h[k] = Upto(h, lead, digits, k) /\ h[k] \in Nat
        OBVIOUS
      <3>2. k # 0 => k - 1 \in 0..m /\ h[k - 1] = g[k - 1]
        OBVIOUS
      <3>3. Upto(g, lead, digits, k) = Upto(h, lead, digits, k)
        BY <3>2 DEF Upto
      <3>4. k # m + 1 => k \in 0..m /\ h[k] = g[k] /\ g[k] = Upto(g, lead, digits, k)
        BY <2>2
      <3>5. k = m + 1 => h[k] = Upto(g, lead, digits, k)
        OBVIOUS
      <3>. HIDE DEF h
      <3>. QED BY <2>2, <2>3, <3>3, <3>4, <3>5
    <2>5. h = [k \in 0..(m + 1) |-> h[k]]
      OBVIOUS
    <2>. HIDE DEF h
    <2>6. h = [k \in 0..(m + 1) |-> Upto(h, lead, digits, k)] /\ h \in [0..(m + 1) -> Nat]
      BY <2>4, <2>5
    <2>. QED BY <2>6
  <1>. HIDE DEF S
  <1>3. n \in S
    BY <1>1, <1>2, SetInduction
  <1>. QED BY <1>3 DEF S

(* The weight of a byte.                                                   *)
LEMMA Weights ==
    /\ Weight \in [0..(Width + 1) -> Nat]
    /\ Weight[0] = 1
    /\ \A k \in 1..(Width + 1) : Weight[k] = Base * Weight[k - 1]
    /\ \A k \in 0..(Width + 1) : Weight[k] > 0
  <1>. DEFINE n == Width + 1
              zeros == [k \in 1..n |-> 0]
              Rec(f) == f = [k \in 0..n |-> IF k = 0 THEN 1 ELSE Base * f[k - 1]]
  <1>1. n \in Nat /\ Base \in Nat /\ Base > 0
    BY BaseAssumption
  <1>2. Weight = CHOOSE w : Rec(w)
    BY DEF Weight
  <1>. HIDE DEF n
  <1>3. zeros \in [1..n -> Nat] /\ \A k \in 1..n : zeros[k] = 0
    OBVIOUS
  <1>. HIDE DEF zeros, Rec
  <1>4. PICK f \in [0..n -> Nat] : f = [k \in 0..n |-> Upto(f, 1, zeros, k)]
    <2>1. 1 \in Nat
      OBVIOUS
    <2>. QED BY <1>1, <1>3, <2>1, Recursion, Zenon
  <1>5. ASSUME NEW k \in 0..n
        PROVE  Upto(f, 1, zeros, k) = IF k = 0 THEN 1 ELSE Base * f[k - 1]
    <2>1. CASE k = 0
      BY <2>1 DEF Upto
    <2>2. CASE k # 0
      <3>1. k \in 1..n /\ f[k - 1] \in Nat /\ zeros[k] = 0
        BY <1>1, <1>3, <1>4, <2>2
      <3>2. \A x, b \in Nat : x * b + 0 = b * x
        OBVIOUS
      <3>3. f[k - 1] * Base + 0 = Base * f[k - 1]
        BY <1>1, <3>1, <3>2
      <3>. QED BY <2>2, <3>1, <3>3 DEF Upto
    <2>. QED BY <2>1, <2>2
  <1>6. Rec(Weight)
    <2>1. Rec(f)
      BY <1>4, <1>5 DEF Rec
    <2>. QED BY <1>2, <2>1
  <1>7. \A k \in 0..n : Weight[k] = IF k = 0 THEN 1 ELSE Base * Weight[k - 1]
    BY <1>6 DEF Rec
  <1>8. \A k \in 0..n : Weight[k] \in Nat /\ Weight[k] > 0
    <2>. DEFINE S == {k \in Nat : k \in 0..n => Weight[k] \in Nat /\ Weight[k] > 0}
    <2>1. 0 \in S
      BY <1>7
    <2>2. ASSUME NEW k \in Nat, k \in S PROVE k + 1 \in S
      <3>1. SUFFICES ASSUME k + 1 \in 0..n PROVE Weight[k + 1] \in Nat /\ Weight[k + 1] > 0
        OBVIOUS
      <3>2. k \in 0..n /\ Weight[k + 1] = Base * Weight[k]
        BY <1>1, <1>7, <3>1
      <3>3. Weight[k] \in Nat /\ Weight[k] > 0
        BY <2>2, <3>2
      <3>4. \A b, w \in Nat : b > 0 /\ w > 0 => b * w \in Nat /\ b * w > 0
        OBVIOUS
      <3>. QED BY <1>1, <3>2, <3>3, <3>4
    <2>. HIDE DEF S
    <2>3. Nat \subseteq S
      BY <2>1, <2>2, SetInduction
    <2>. QED BY <1>1, <2>3 DEF S
  <1>9. DOMAIN Weight = 0..n /\ Weight = [k \in 0..n |-> Weight[k]]
    BY <1>6 DEF Rec
  <1>12. Weight \in [0..n -> Nat]
    <2>. DEFINE w == Weight
    <2>1. w = [k \in 0..n |-> w[k]] /\ \A k \in 0..n : w[k] \in Nat
      BY <1>8, <1>9
    <2>. HIDE DEF w
    <2>2. w \in [0..n -> Nat]
      BY <2>1
    <2>. QED BY <2>2 DEF w
  <1>. QED BY <1>1, <1>7, <1>8, <1>12 DEF n

(* Division.                                                               *)
LEMMA Division ==
    ASSUME NEW x \in Nat, NEW p \in Nat, p > 0
    PROVE  x \div p \in Nat /\ (x \div p) * p <= x /\ x < (x \div p + 1) * p
  OBVIOUS

LEMMA Quotient ==
    ASSUME NEW x \in Nat, NEW p \in Nat, p > 0, NEW q \in Nat, q * p <= x, x < (q + 1) * p
    PROVE  x \div p = q
  OBVIOUS

LEMMA Remainder ==
    ASSUME NEW x \in Nat, NEW p \in Nat, p > 0
    PROVE  /\ x % p \in Nat /\ x % p < p
           /\ ((x \div p) * p) + (x % p) = x
           /\ x < p => x % p = x
  OBVIOUS

LEMMA DivTwice ==
    ASSUME NEW x \in Nat, NEW p \in Nat, p > 0, NEW b \in Nat, b > 0
    PROVE  (x \div p) \div b = x \div (b * p)
  <1>. DEFINE y == x \div p
              q == y \div b
  <1>1. y \in Nat /\ y * p <= x /\ x < (y + 1) * p
    BY Division
  <1>. HIDE DEF y
  <1>2. q \in Nat /\ q * b <= y /\ y < (q + 1) * b
    BY <1>1, Division
  <1>. HIDE DEF q
  <1>3. b * p \in Nat /\ b * p > 0
    OBVIOUS
  <1>4. q * (b * p) <= x
    <2>1. \A m \in Nat : m <= y => m * p <= y * p
      BY <1>1
    <2>2. (q * b) * p <= y * p
      BY <1>2, <2>1
    <2>3. (q * b) * p = q * (b * p)
      BY <1>2
    <2>. QED BY <1>1, <1>2, <1>3, <2>2, <2>3
  <1>5. x < (q + 1) * (b * p)
    <2>1. \A m \in Nat : y < m => (y + 1) * p <= m * p
      BY <1>1
    <2>2. (y + 1) * p <= ((q + 1) * b) * p
      BY <1>2, <2>1
    <2>3. ((q + 1) * b) * p = (q + 1) * (b * p)
      BY <1>2
    <2>. QED BY <1>1, <1>2, <1>3, <2>2, <2>3
  <1>6. x \div (b * p) = q
    <2>. DEFINE bp == b * p
    <2>. HIDE DEF bp
    <2>1. bp \in Nat /\ bp > 0 /\ q * bp <= x /\ x < (q + 1) * bp
      BY <1>3, <1>4, <1>5 DEF bp
    <2>2. x \div bp = q
      BY <1>2, <2>1, Quotient
    <2>. QED BY <2>2 DEF bp
  <1>. QED BY <1>6 DEF q, y

(* Reading bytes gives the number that was written as bytes.               *)
LEMMA ReadBack ==
    ASSUME NEW n \in 0..(Width + 1), NEW x \in Nat, x < Weight[n]
    PROVE  /\ BigEndian(x, n) \in Seq(Nat) /\ Len(BigEndian(x, n)) = n
           /\ Number(BigEndian(x, n)) = x
  <1>. DEFINE bytes == BigEndian(x, n)
              Rec(f) == f = [k \in 0..Len(bytes) |-> IF k = 0 THEN 0 ELSE f[k - 1] * Base + bytes[k]]
              upTo == CHOOSE f : Rec(f)
  <1>1. n \in Nat /\ Base \in Nat /\ Base > 0 /\ Width \in Nat
    BY BaseAssumption
  <1>2. bytes = [i \in 1..n |-> (x \div Weight[n - i]) % Base]
    BY DEF BigEndian
  <1>3. ASSUME NEW i \in 1..n
        PROVE  Weight[n - i] \in Nat /\ Weight[n - i] > 0 /\ n - i \in 0..(Width + 1)
    <2>1. n - i \in 0..(Width + 1)
      BY <1>1
    <2>. QED BY <2>1, Weights
  <1>4. ASSUME NEW i \in 1..n PROVE (x \div Weight[n - i]) % Base \in Nat
    BY <1>1, <1>3, Division, Remainder
  <1>5. bytes \in [1..n -> Nat]
    BY <1>2, <1>4
  <1>6. bytes \in Seq(Nat) /\ Len(bytes) = n
    BY <1>1, <1>5
  <1>7. Number(bytes) = upTo[n]
    BY <1>6 DEF Number
  <1>. HIDE DEF bytes
  <1>8. upTo = [k \in 0..n |-> Upto(upTo, 0, bytes, k)]
    <2>1. 0 \in Nat
      OBVIOUS
    <2>2. PICK f \in [0..n -> Nat] : f = [k \in 0..n |-> Upto(f, 0, bytes, k)]
      BY <1>1, <1>5, <2>1, Recursion, Zenon
    <2>3. \A g : Rec(g) <=> g = [k \in 0..n |-> Upto(g, 0, bytes, k)]
      BY <1>6 DEF Upto
    <2>. HIDE DEF Rec
    <2>4. Rec(f)
      BY <2>2, <2>3
    <2>5. Rec(upTo)
      BY <2>4
    <2>. HIDE DEF upTo
    <2>. QED BY <2>3, <2>5
  <1>. HIDE DEF upTo
  <1>. DEFINE S == {k \in Nat : k <= n => upTo[k] = x \div Weight[n - k]}
  <1>9. 0 \in S
    <2>1. upTo[0] = 0
      BY <1>1, <1>8 DEF Upto
    <2>2. Weight[n] \in Nat /\ Weight[n] > 0
      BY Weights
    <2>3. x \div Weight[n] = 0
      <3>1. \A w \in Nat : w > 0 /\ x < w => x \div w = 0
        OBVIOUS
      <3>. QED BY <2>2, <3>1
    <2>4. n - 0 = n
      BY <1>1
    <2>. QED BY <2>1, <2>3, <2>4
  <1>10. ASSUME NEW k \in Nat, k \in S PROVE k + 1 \in S
    <2>1. SUFFICES ASSUME k + 1 <= n PROVE upTo[k + 1] = x \div Weight[n - (k + 1)]
      OBVIOUS
    <2>. DEFINE i == k + 1
                w == Weight[n - i]
                y == x \div w
    <2>2. i \in 1..n /\ i \in 0..n /\ i # 0 /\ i - 1 = k
      BY <1>1, <2>1
    <2>3. upTo[k] = x \div Weight[n - k]
      BY <1>1, <1>10, <2>1
    <2>4. n - k \in 1..(Width + 1) /\ (n - k) - 1 = n - i
      BY <1>1, <2>1
    <2>5. Weight[n - k] = Base * w
      BY <2>4, Weights
    <2>6. w \in Nat /\ w > 0
      BY <1>3, <2>2
    <2>7. upTo[i] = upTo[i - 1] * Base + bytes[i]
      BY <1>8, <2>2 DEF Upto
    <2>8. bytes[i] = y % Base
      BY <1>2, <2>2
    <2>. HIDE DEF w
    <2>9. y \div Base = upTo[k]
      BY <1>1, <2>3, <2>5, <2>6, DivTwice
    <2>10. y \in Nat
      BY <2>6, Division
    <2>. HIDE DEF y
    <2>11. ((y \div Base) * Base) + (y % Base) = y
      BY <1>1, <2>10, Remainder
    <2>12. upTo[i] = y
      BY <2>2, <2>7, <2>8, <2>9, <2>11
    <2>. QED BY <2>12 DEF y, w
  <1>. HIDE DEF S
  <1>11. n \in S
    BY <1>1, <1>9, <1>10, SetInduction
  <1>12. upTo[n] = x \div Weight[0]
    BY <1>1, <1>11 DEF S
  <1>13. x \div 1 = x
    OBVIOUS
  <1>. QED BY <1>6, <1>7, <1>12, <1>13, Weights DEF bytes

(* A part of a sequence, known by its elements.                            *)
LEMMA PartIs ==
    ASSUME NEW a \in Seq(Nat), NEW d, NEW m \in Nat, NEW n \in Int, n = m + Len(a) - 1,
           \A i \in 1..Len(a) : d[m + i - 1] = a[i]
    PROVE  SubSeq(d, m, n) = a
  <1>1. Len(a) \in Nat /\ \A i \in 1..Len(a) : a[i] \in Nat
    OBVIOUS
  <1>2. ASSUME NEW j \in m..n PROVE d[j] \in Nat
    <2>. DEFINE i == j - m + 1
    <2>1. i \in 1..Len(a) /\ j = m + i - 1
      BY <1>1
    <2>. HIDE DEF i
    <2>. QED BY <1>1, <2>1
  <1>3. /\ SubSeq(d, m, n) \in Seq(Nat)
        /\ Len(SubSeq(d, m, n)) = IF m <= n THEN n - m + 1 ELSE 0
        /\ \A i \in 1..(n - m + 1) : SubSeq(d, m, n)[i] = d[m + i - 1]
    BY <1>2, SubSeqProperties
  <1>4. n - m + 1 = Len(a)
    BY <1>1
  <1>5. Len(SubSeq(d, m, n)) = Len(a) /\ \A i \in 1..Len(a) : SubSeq(d, m, n)[i] = a[i]
    BY <1>1, <1>3, <1>4
  <1>. QED BY <1>3, <1>5, SeqEqual

(* r and s are less than the order of the curve, and so are their doubles, *)
(* with one byte more: a number of bytes is found.                         *)
LEMMA Fewest ==
    ASSUME NEW x \in Nat, x < Order
    PROVE  /\ FewestBytes(x) \in Seq(Nat) /\ Len(FewestBytes(x)) \in Nat \ {0}
           /\ Number(FewestBytes(x)) = x
           /\ 2 * FewestBytes(x)[1] < Base
  <1>. DEFINE K == {k \in 1..(Width + 1) : 2 * x < Weight[k]}
              Right(k) == 2 * x < Weight[k] /\ (k > 1 => 2 * x >= Weight[k - 1])
              n == CHOOSE k \in 1..(Width + 1) : Right(k)
  <1>1. Base \in Nat /\ Base > 28 /\ Width \in Nat /\ Order \in Nat /\ Order <= Weight[Width]
    BY BaseAssumption, OrderAssumption
  <1>2. Width + 1 \in K
    <2>1. Weight[Width + 1] = Base * Weight[Width] /\ Weight[Width] \in Nat
      <3>1. Width + 1 \in 1..(Width + 1) /\ Width \in 0..(Width + 1) /\ (Width + 1) - 1 = Width
        BY <1>1
      <3>. QED BY <3>1, Weights
    <2>2. \A w \in Nat : x < w => 2 * x < Base * w
      <3>1. \A b, w \in Nat : b > 1 /\ x < w => 2 * x < b * w
        <4>1. SUFFICES ASSUME NEW b \in Nat, NEW w \in Nat, b > 1, x < w PROVE 2 * x < b * w
          OBVIOUS
        <4>2. \A c \in Nat : (c + 2) * w = c * w + 2 * w /\ c * w \in Nat
          BY <4>1
        <4>3. b - 2 \in Nat /\ (b - 2) + 2 = b
          BY <4>1
        <4>. QED BY <4>1, <4>2, <4>3
      <3>. QED BY <1>1, <3>1
    <2>3. 2 * x < Weight[Width + 1]
      BY <1>1, <2>1, <2>2
    <2>. QED BY <1>1, <2>3
  <1>3. PICK k \in K : \A j \in K : k <= j
    <2>1. K \in SUBSET Nat /\ K # {}
      BY <1>2
    <2>. HIDE DEF K
    <2>. QED BY <2>1, Least
  <1>4. Right(k)
    <2>1. SUFFICES ASSUME k > 1 PROVE 2 * x >= Weight[k - 1]
      BY <1>3
    <2>2. k - 1 \in 1..(Width + 1) /\ k - 1 \notin K
      BY <1>1, <1>3, <2>1
    <2>3. Weight[k - 1] \in Nat
      BY <1>1, <2>2, Weights
    <2>. QED BY <2>2, <2>3
  <1>5. n \in 1..(Width + 1) /\ Right(n)
    <2>1. k \in 1..(Width + 1)
      OBVIOUS
    <2>. HIDE DEF Right
    <2>. QED BY <1>4, <2>1
  <1>6. FewestBytes(x) = BigEndian(x, n)
    BY DEF FewestBytes
  <1>7. n \in 1..(Width + 1) /\ 2 * x < Weight[n]
    BY <1>5
  <1>. HIDE DEF n, K, Right
  <1>8. Weight[n] \in Nat /\ n \in 0..(Width + 1) /\ x < Weight[n]
    <2>1. n \in 0..(Width + 1)
      BY <1>1, <1>7
    <2>2. Weight[n] \in Nat
      BY <2>1, Weights
    <2>. QED BY <1>7, <2>1, <2>2
  <1>9. /\ BigEndian(x, n) \in Seq(Nat) /\ Len(BigEndian(x, n)) = n
        /\ Number(BigEndian(x, n)) = x
    BY <1>8, ReadBack
  <1>10. 2 * BigEndian(x, n)[1] < Base
    <2>. DEFINE w == Weight[n - 1]
                q == x \div w
    <2>1. BigEndian(x, n)[1] = q % Base
      <3>1. 1 \in 1..n
        BY <1>1, <1>7
      <3>. QED BY <3>1 DEF BigEndian
    <2>2. w \in Nat /\ w > 0 /\ Weight[n] = Base * w
      <3>1. n - 1 \in 0..(Width + 1)
        BY <1>1, <1>7
      <3>. QED BY <1>7, <3>1, Weights
    <2>. HIDE DEF w
    <2>3. q \in Nat /\ q * w <= x
      BY <2>2, Division
    <2>. HIDE DEF q
    <2>4. 2 * q < Base
      <3>1. SUFFICES ASSUME Base <= 2 * q PROVE FALSE
        BY <1>1, <2>3
      <3>2. \A a, b \in Nat : a <= b => a * w <= b * w
        BY <2>2
      <3>3. Base * w <= (2 * q) * w
        BY <1>1, <2>3, <3>1, <3>2
      <3>4. (2 * q) * w = 2 * (q * w) /\ q * w \in Nat /\ Base * w \in Nat
        BY <1>1, <2>2, <2>3
      <3>. DEFINE qw == q * w
                  bw == Base * w
      <3>5. qw \in Nat /\ bw \in Nat /\ bw <= 2 * qw /\ qw <= x /\ 2 * x < bw
        BY <1>7, <2>2, <2>3, <3>3, <3>4
      <3>. HIDE DEF qw, bw
      <3>. QED BY <3>5
    <2>5. q % Base = q
      BY <1>1, <2>3, <2>4, Remainder
    <2>. QED BY <2>1, <2>4, <2>5
  <1>. QED BY <1>1, <1>6, <1>7, <1>9, <1>10

(* Two sequences behind each other.                                        *)
LEMMA Joined ==
    ASSUME NEW a \in Seq(Nat), NEW b \in Seq(Nat)
    PROVE  /\ a \o b \in Seq(Nat) /\ Len(a \o b) = Len(a) + Len(b)
           /\ \A i \in 1..Len(a) : (a \o b)[i] = a[i]
           /\ \A i \in 1..Len(b) : (a \o b)[Len(a) + i] = b[i]
  <1>1. Len(a) \in Nat /\ Len(b) \in Nat
    OBVIOUS
  <1>2. /\ a \o b \in Seq(Nat) /\ Len(a \o b) = Len(a) + Len(b)
        /\ \A i \in 1..(Len(a) + Len(b)) :
              (a \o b)[i] = IF i <= Len(a) THEN a[i] ELSE b[i - Len(a)]
    BY ConcatProperties
  <1>3. ASSUME NEW i \in 1..Len(b) PROVE (a \o b)[Len(a) + i] = b[i]
    <2>1. Len(a) + i \in 1..(Len(a) + Len(b)) /\ ~(Len(a) + i <= Len(a)) /\ (Len(a) + i) - Len(a) = i
      BY <1>1
    <2>. QED BY <1>2, <2>1
  <1>4. ASSUME NEW i \in 1..Len(a) PROVE (a \o b)[i] = a[i]
    BY <1>1, <1>2
  <1>. QED BY <1>2, <1>3, <1>4

(* Behind two bytes.                                                       *)
LEMMA Headed ==
    ASSUME NEW x \in Nat, NEW y \in Nat, NEW b \in Seq(Nat)
    PROVE  /\ <<x, y>> \o b \in Seq(Nat) /\ Len(<<x, y>> \o b) = 2 + Len(b)
           /\ (<<x, y>> \o b)[1] = x /\ (<<x, y>> \o b)[2] = y
           /\ \A i \in 1..Len(b) : (<<x, y>> \o b)[2 + i] = b[i]
  <1>. DEFINE a == <<x, y>>
  <1>1. a \in Seq(Nat) /\ Len(a) = 2 /\ a[1] = x /\ a[2] = y
    OBVIOUS
  <1>. HIDE DEF a
  <1>2. /\ a \o b \in Seq(Nat) /\ Len(a \o b) = Len(a) + Len(b)
        /\ \A i \in 1..Len(a) : (a \o b)[i] = a[i]
        /\ \A i \in 1..Len(b) : (a \o b)[Len(a) + i] = b[i]
    BY <1>1, Joined
  <1>3. (a \o b)[1] = x /\ (a \o b)[2] = y
    BY <1>1, <1>2
  <1>. QED BY <1>1, <1>2, <1>3 DEF a

(* What Marshal writes and where.                                          *)
LEMMA Layout ==
    ASSUME NEW r \in Nat, r < Order, NEW s \in Nat, s < Order
    PROVE  \E R, S \in Seq(Nat) :
              LET d == Marshal(r, s) IN
              /\ Len(R) \in Nat \ {0} /\ Number(R) = r /\ 2 * R[1] < Base
              /\ Len(S) \in Nat \ {0} /\ Number(S) = s /\ 2 * S[1] < Base
              /\ Len(d) = 6 + Len(R) + Len(S) /\ d[1] = Tag /\ d[2] = 4 + Len(R) + Len(S)
              /\ d[3] = 2 /\ d[4] = Len(R)
              /\ \A i \in 1..Len(R) : d[4 + i] = R[i]
              /\ d[5 + Len(R)] = 2 /\ d[6 + Len(R)] = Len(S)
              /\ \A i \in 1..Len(S) : d[6 + Len(R) + i] = S[i]
  <1>. DEFINE R == FewestBytes(r)
              S == FewestBytes(s)
              n == Len(R)
              m == Len(S)
              a == <<2, n>> \o R
              b == <<2, m>> \o S
              body == a \o b
              d == <<Tag, Len(body)>> \o body
  <1>1. /\ R \in Seq(Nat) /\ n \in Nat \ {0} /\ Number(R) = r /\ 2 * R[1] < Base
        /\ S \in Seq(Nat) /\ m \in Nat \ {0} /\ Number(S) = s /\ 2 * S[1] < Base
    BY Fewest
  <1>2. Marshal(r, s) = d
    BY DEF Marshal, DerInteger
  <1>. HIDE DEF R, S
  <1>3. Tag \in Nat
    BY BaseAssumption
  <1>. HIDE DEF n, m
  <1>4. /\ a \in Seq(Nat) /\ Len(a) = 2 + n /\ a[1] = 2 /\ a[2] = n
        /\ \A i \in 1..n : a[2 + i] = R[i]
    BY <1>1, Headed DEF n
  <1>5. /\ b \in Seq(Nat) /\ Len(b) = 2 + m /\ b[1] = 2 /\ b[2] = m
        /\ \A i \in 1..m : b[2 + i] = S[i]
    BY <1>1, Headed DEF m
  <1>. HIDE DEF a, b
  <1>6. /\ body \in Seq(Nat) /\ Len(body) = 4 + n + m
        /\ \A i \in 1..(2 + n) : body[i] = a[i]
        /\ \A i \in 1..(2 + m) : body[2 + n + i] = b[i]
    <2>1. /\ body \in Seq(Nat) /\ Len(body) = Len(a) + Len(b)
          /\ \A i \in 1..Len(a) : body[i] = a[i]
          /\ \A i \in 1..Len(b) : body[Len(a) + i] = b[i]
      BY <1>4, <1>5, Joined
    <2>. HIDE DEF body
    <2>. QED BY <1>1, <1>4, <1>5, <2>1
  <1>. HIDE DEF body
  <1>7. /\ Len(d) = 6 + n + m /\ d[1] = Tag /\ d[2] = 4 + n + m
        /\ \A i \in 1..(4 + n + m) : d[2 + i] = body[i]
    <2>1. Len(body) \in Nat
      BY <1>1, <1>6
    <2>2. /\ Len(d) = 2 + Len(body) /\ d[1] = Tag /\ d[2] = Len(body)
          /\ \A i \in 1..Len(body) : d[2 + i] = body[i]
      BY <1>3, <1>6, <2>1, Headed
    <2>. HIDE DEF d
    <2>. QED BY <1>1, <1>6, <2>2
  <1>. HIDE DEF d
  <1>8. ASSUME NEW i \in 1..(2 + n) PROVE d[2 + i] = a[i]
    <2>1. i \in 1..(4 + n + m)
      BY <1>1
    <2>. QED BY <1>6, <1>7, <2>1
  <1>9. ASSUME NEW i \in 1..(2 + m) PROVE d[4 + n + i] = b[i]
    <2>. DEFINE j == 2 + n + i
    <2>1. j \in 1..(4 + n + m) /\ 2 + j = 4 + n + i
      BY <1>1
    <2>2. d[2 + j] = body[j]
      BY <1>7, <2>1
    <2>. QED BY <1>6, <2>1, <2>2
  <1>10. d[3] = 2 /\ d[4] = n
    <2>1. 1 \in 1..(2 + n) /\ 2 \in 1..(2 + n)
      BY <1>1
    <2>2. d[2 + 1] = 2 /\ d[2 + 2] = n
      BY <1>4, <1>8, <2>1
    <2>. QED BY <2>2
  <1>11. ASSUME NEW i \in 1..n PROVE d[4 + i] = R[i]
    <2>1. 2 + i \in 1..(2 + n) /\ 2 + (2 + i) = 4 + i
      BY <1>1
    <2>. QED BY <1>4, <1>8, <2>1
  <1>12. d[5 + n] = 2 /\ d[6 + n] = m
    <2>1. 1 \in 1..(2 + m) /\ 2 \in 1..(2 + m) /\ 4 + n + 1 = 5 + n /\ 4 + n + 2 = 6 + n
      BY <1>1
    <2>. QED BY <1>5, <1>9, <2>1
  <1>13. ASSUME NEW i \in 1..m PROVE d[6 + n + i] = S[i]
    <2>1. 2 + i \in 1..(2 + m) /\ 4 + n + (2 + i) = 6 + n + i
      BY <1>1
    <2>. QED BY <1>5, <1>9, <2>1
  <1>. QED BY <1>1, <1>2, <1>7, <1>10, <1>11, <1>12, <1>13 DEF n, m

(* The contract reads what Marshal writes.                                 *)
LEMMA ContractReads ==
    ASSUME NEW r \in Nat, r < Order, NEW s \in Nat, s < Order, Low(s)
    PROVE  ReadByContract(Marshal(r, s)) = <<r, s>>
  <1>. DEFINE d == Marshal(r, s)
  <1>1. PICK R \in Seq(Nat), S \in Seq(Nat) :
              /\ Len(R) \in Nat \ {0} /\ Number(R) = r /\ 2 * R[1] < Base
              /\ Len(S) \in Nat \ {0} /\ Number(S) = s /\ 2 * S[1] < Base
              /\ Len(d) = 6 + Len(R) + Len(S) /\ d[1] = Tag /\ d[2] = 4 + Len(R) + Len(S)
              /\ d[3] = 2 /\ d[4] = Len(R)
              /\ \A i \in 1..Len(R) : d[4 + i] = R[i]
              /\ d[5 + Len(R)] = 2 /\ d[6 + Len(R)] = Len(S)
              /\ \A i \in 1..Len(S) : d[6 + Len(R) + i] = S[i]
    BY Layout
  <1>. HIDE DEF d
  <1>. DEFINE n == Len(R)
              m == Len(S)
  <1>2. n \in Nat \ {0} /\ m \in Nat \ {0}
    BY <1>1
  <1>3. SubSeq(d, 5, 4 + n) = R
    <2>1. 4 + n = 5 + Len(R) - 1
      BY <1>2
    <2>2. \A i \in 1..Len(R) : 5 + i - 1 = 4 + i
      BY <1>2
    <2>3. \A i \in 1..Len(R) : d[5 + i - 1] = R[i]
      BY <1>1, <2>2
    <2>4. 4 + n \in Int
      BY <1>2
    <2>. QED BY <2>1, <2>3, <2>4, PartIs
  <1>4. SubSeq(d, 7 + n, 6 + n + m) = S
    <2>1. 6 + n + m = (7 + n) + Len(S) - 1 /\ 7 + n \in Nat /\ 6 + n + m \in Int
      BY <1>2
    <2>2. \A i \in 1..Len(S) : (7 + n) + i - 1 = 6 + n + i
      BY <1>2
    <2>3. \A i \in 1..Len(S) : d[(7 + n) + i - 1] = S[i]
      BY <1>1, <2>2
    <2>. DEFINE k == 7 + n
                l == 6 + n + m
    <2>4. l = k + Len(S) - 1 /\ k \in Nat /\ l \in Int /\ \A i \in 1..Len(S) : d[k + i - 1] = S[i]
      BY <2>1, <2>3
    <2>. HIDE DEF k, l, n, m
    <2>5. SubSeq(d, k, l) = S
      BY <2>4, PartIs
    <2>. QED BY <2>5 DEF k, l
  <1>5. DerInt(d, 3) = R
    <2>1. 3 + 2 = 5 /\ 3 + 1 + d[3 + 1] = 4 + n
      BY <1>1, <1>2
    <2>. QED BY <1>3, <2>1 DEF DerInt
  <1>6. DerInt(d, 5 + d[4]) = S
    <2>1. d[4] = n /\ d[6 + n] = m
      BY <1>1
    <2>2. (5 + n) + 2 = 7 + n /\ (5 + n) + 1 = 6 + n /\ (5 + n) + 1 + m = 6 + n + m
      BY <1>2
    <2>. HIDE DEF n, m
    <2>3. DerInt(d, 5 + n) = SubSeq(d, 7 + n, 6 + n + m)
      BY <2>1, <2>2 DEF DerInt
    <2>. QED BY <1>4, <2>1, <2>3
  <1>7. IsDer(d)
    <2>1. /\ Len(d) = 6 + n + m /\ d[1] = Tag /\ d[2] = 4 + n + m /\ d[3] = 2 /\ d[4] = n
          /\ d[5 + n] = 2 /\ d[6 + n] = m
      BY <1>1
    <2>. HIDE DEF n, m
    <2>2. (5 + n) + 1 = 6 + n /\ m = Len(d) - (5 + n) - 1 /\ Len(d) - 2 = 4 + n + m
      BY <1>2, <2>1
    <2>3. Len(d) >= 8 /\ n \in 1..(Len(d) - 7)
      BY <1>2, <2>1
    <2>. QED BY <2>1, <2>2, <2>3 DEF IsDer
  <1>8. S # <<>>
    BY <1>1
  <1>. QED BY <1>1, <1>5, <1>6, <1>7, <1>8 DEF ReadByContract, d

(* The 65 bytes of a signature.                                            *)
Wire(x) == BigEndian(x.r, Width) \o BigEndian(x.s, Width) \o <<x.v>>

(* What r, s and v are.                                                    *)
LEMMA Numbers ==
    ASSUME NEW x \in Signature
    PROVE  /\ x.r \in Nat /\ x.r < Order
           /\ x.s \in Nat /\ x.s > 0 /\ x.s < Order
           /\ x.v \in Nat
  <1>1. x.r \in Scalar /\ x.s \in Scalar /\ x.v \in Nat
    BY DEF Signature
  <1>2. Scalar \subseteq 1..(Order - 1) /\ Order \in Nat
    BY OrderAssumption, ScalarAssumption
  <1>3. \A y \in Scalar : y \in Nat /\ y > 0 /\ y < Order
    BY <1>2
  <1>. QED BY <1>1, <1>3

(* Reading them gives r and s.                                             *)
LEMMA WireParts ==
    ASSUME NEW x \in Signature
    PROVE  /\ Len(Wire(x)) = 2 * Width + 1
           /\ Number(SubSeq(Wire(x), 1, Width)) = x.r
           /\ Number(SubSeq(Wire(x), Width + 1, 2 * Width)) = x.s
  <1>. DEFINE R == BigEndian(x.r, Width)
              S == BigEndian(x.s, Width)
              V == <<x.v>>
              RS == R \o S
              w == RS \o V
  <1>1. Width \in Nat \ {0} /\ Order \in Nat /\ Order <= Weight[Width] /\ Weight[Width] \in Nat
    <2>1. Width \in Nat \ {0} /\ Width \in 0..(Width + 1)
      BY BaseAssumption
    <2>. QED BY <2>1, OrderAssumption, Weights
  <1>2. /\ x.r \in Nat /\ x.r < Order /\ x.s \in Nat /\ x.s < Order /\ x.v \in Nat
    BY Numbers
  <1>3. /\ R \in Seq(Nat) /\ Len(R) = Width /\ Number(R) = x.r
        /\ S \in Seq(Nat) /\ Len(S) = Width /\ Number(S) = x.s
    <2>1. Width \in 0..(Width + 1) /\ x.r < Weight[Width] /\ x.s < Weight[Width]
      BY <1>1, <1>2
    <2>. QED BY <1>2, <2>1, ReadBack
  <1>4. V \in Seq(Nat) /\ Len(V) = 1
    BY <1>2
  <1>5. Wire(x) = w
    BY DEF Wire
  <1>. HIDE DEF R, S, V
  <1>6. /\ RS \in Seq(Nat) /\ Len(RS) = 2 * Width
        /\ \A i \in 1..Width : RS[i] = R[i]
        /\ \A i \in 1..Width : RS[Width + i] = S[i]
    <2>1. /\ RS \in Seq(Nat) /\ Len(RS) = Len(R) + Len(S)
          /\ \A i \in 1..Len(R) : RS[i] = R[i]
          /\ \A i \in 1..Len(S) : RS[Len(R) + i] = S[i]
      BY <1>3, Joined
    <2>. HIDE DEF RS
    <2>. QED BY <1>1, <1>3, <2>1
  <1>. HIDE DEF RS
  <1>7. Len(w) = 2 * Width + 1 /\ \A i \in 1..(2 * Width) : w[i] = RS[i]
    <2>1. /\ Len(w) = Len(RS) + Len(V)
          /\ \A i \in 1..Len(RS) : w[i] = RS[i]
      BY <1>4, <1>6, Joined
    <2>. HIDE DEF w
    <2>. QED BY <1>4, <1>6, <2>1
  <1>. HIDE DEF w
  <1>8. SubSeq(w, 1, Width) = R
    <2>1. Width = 1 + Len(R) - 1 /\ Width \in Int
      BY <1>1, <1>3
    <2>2. ASSUME NEW i \in 1..Len(R) PROVE w[1 + i - 1] = R[i]
      <3>1. 1 + i - 1 = i /\ i \in 1..Width /\ i \in 1..(2 * Width)
        BY <1>1, <1>3
      <3>. QED BY <1>6, <1>7, <3>1
    <2>. QED BY <1>3, <2>1, <2>2, PartIs
  <1>9. SubSeq(w, Width + 1, 2 * Width) = S
    <2>. DEFINE k == Width + 1
                l == 2 * Width
    <2>1. k \in Nat /\ l \in Int /\ l = k + Len(S) - 1
      BY <1>1, <1>3
    <2>2. ASSUME NEW i \in 1..Len(S) PROVE w[k + i - 1] = S[i]
      <3>1. k + i - 1 = Width + i /\ i \in 1..Width /\ Width + i \in 1..(2 * Width)
        BY <1>1, <1>3
      <3>. QED BY <1>6, <1>7, <3>1
    <2>. HIDE DEF k, l
    <2>3. SubSeq(w, k, l) = S
      BY <1>3, <2>1, <2>2, PartIs
    <2>. QED BY <2>3 DEF k, l
  <1>. QED BY <1>3, <1>5, <1>7, <1>8, <1>9

(* What a verified signature becomes, unless it looks like DER.            *)
LEMMA Converted ==
    ASSUME NEW x \in Signature, Wire(x)[1] # Tag
    PROVE  ReadByContract(NewMoleculeSignature(Wire(x)))
              = <<x.r, IF Low(x.s) THEN x.s ELSE Order - x.s>>
  <1>1. Order \in Nat /\ Order % 2 = 1
    BY OrderAssumption
  <1>2. x.r \in Nat /\ x.r < Order /\ x.s \in Nat /\ x.s > 0 /\ x.s < Order
    BY Numbers
  <1>. DEFINE s == toLowS(x.s)
  <1>3. /\ s \in Nat /\ s < Order /\ Low(s)
        /\ s = IF Low(x.s) THEN x.s ELSE Order - x.s
    <2>1. \A n, y \in Nat : n % 2 = 1 /\ y < n /\ ~(y <= n \div 2) => n - y <= n \div 2
      OBVIOUS
    <2>2. Order \div 2 \in Nat
      BY <1>1
    <2>3. CASE Low(x.s)
      BY <1>1, <1>2, <2>2, <2>3 DEF Low, toLowS
    <2>4. CASE ~Low(x.s)
      <3>1. x.s > Order \div 2
        BY <1>2, <2>2, <2>4 DEF Low
      <3>2. Order - x.s <= Order \div 2
        BY <1>1, <1>2, <2>1, <2>4 DEF Low
      <3>. QED BY <1>1, <1>2, <2>4, <3>1, <3>2 DEF Low, toLowS
    <2>. QED BY <2>3, <2>4
  <1>4. NewMoleculeSignature(Wire(x)) = Marshal(x.r, s)
    BY WireParts DEF NewMoleculeSignature
  <1>. HIDE DEF s
  <1>. QED BY <1>2, <1>3, <1>4, ContractReads

(* The bytes are those of the signature, and what is on chain is what they *)
(* were converted to.                                                      *)
SigsInv ==
    /\ sig \in Signature
    /\ phase # "signed" => wire = Wire(sig)
    /\ phase \in {"onchain", "failed"} => der = NewMoleculeSignature(wire)

LEMMA SigsStep ==
    /\ SigInit => SigsInv
    /\ SigsInv /\ [SigNext]_sigVars => SigsInv'
  <1>1. SigInit => SigsInv
    BY DEF SigInit, SigsInv
  <1>2. ASSUME SigsInv, [SigNext]_sigVars PROVE SigsInv'
    <2>1. CASE Send
      BY <1>2, <2>1 DEF SigsInv, Send, Wire
    <2>2. CASE Verify
      <3>1. phase' = "accepted" \/ phase' = "refused"
        BY <2>2 DEF Verify
      <3>. QED BY <1>2, <2>2, <3>1 DEF SigsInv, Verify
    <2>3. CASE PutSigOnChain
      BY <1>2, <2>3 DEF SigsInv, PutSigOnChain
    <2>4. CASE UNCHANGED sigVars
      BY <1>2, <2>4 DEF SigsInv, sigVars
    <2>. QED BY <1>2, <2>1, <2>2, <2>3, <2>4 DEF SigNext
  <1>. QED BY <1>1, <1>2

(* Whatever r, s and v a wallet signs with, if the peer accepts it the     *)
(* contract reads r and the lower s out of what the client makes of it;    *)
(* for bytes and numbers of any width.                                     *)
THEOREM Readable == Spec => []AcceptedIsReadable
  <1>1. Init => SigsInv
    BY SigsStep DEF Init
  <1>2. [Next]_encodings => [SigNext]_sigVars
    BY DEF Next, States, Sigs, Parameters, encodings, sigVars
  <1>3. SigsInv => AcceptedIsReadable
    BY Converted DEF SigsInv, AcceptedIsReadable
  <1>. QED BY <1>1, <1>2, <1>3, SigsStep, PTL DEF Spec
=============================================================================
