---------------------------- MODULE StateEncoding ----------------------------
(***************************************************************************)
(* A channel state is encoded twice.  The parties sign its Ethereum form   *)
(* (ToEthState and EncodeEthState, channel/ethbackend.go); a dispute or a  *)
(* closing transaction puts its molecule form on the chain                 *)
(* (PackChannelState, encoding/channel_state.go).  The two encoders know   *)
(* nothing of each other, and what holds the money is the second one.      *)
(*                                                                         *)
(* abi.encode and molecule builders are injective on the structures they   *)
(* are given; a structure stands for its bytes.                            *)
(***************************************************************************)
EXTENDS Naturals, Sequences, FiniteSets, SequencesExt

CONSTANTS
    Word64,   \* 2^64, the first value that is no uint64
    Word128,  \* 2^128
    SubId,    \* ids of sub-channels
    DefaultId \* Byte32Default, the id of nothing

ASSUME WordAssumption == Word64 \in Nat /\ Word128 \in Nat /\ 1 < Word64 /\ Word64 < Word128
ASSUME SubIdAssumption == DefaultId \notin SubId

(* Assets: CKBytes, an SUDT, an asset on an Ethereum ledger.               *)
Asset == {"ckbytes", "sudt", "eth"}
IsCompatible(a) == a \in {"ckbytes", "sudt"}

(* Bounds: which assets a channel holds, and which amounts.                *)
AssetList == {<<"ckbytes">>, <<"ckbytes", "sudt">>, <<"sudt", "ckbytes">>, <<"ckbytes", "eth">>}
Row       == {<<0, 0>>, <<1, 0>>, <<0, 1>>, <<0, Word64>>, <<0, Word128>>}
IndexMap  == {<<>>, <<0, 1>>, <<1, 0>>}

SubAlloc(n) == [id : SubId, bals : [1..n -> {1, Word64}], map : IndexMap]

State ==
    UNION {[version : {0}, final : {FALSE}, assets : {assets},
            bals : [1..Len(assets) -> Row],
            locked : {<<>>} \cup {<<sub>> : sub \in SubAlloc(Len(assets))}] : assets \in AssetList}

Error == [is |-> "error"]
Panic == [is |-> "panic"]

-----------------------------------------------------------------------------
(* The form that is signed.                                                *)

(* An empty index map means that the parties keep their order.             *)
EthIndexMap(map) == IF map = <<>> THEN <<0, 1>> ELSE map

(* Variant: the amounts of sub-channels are left out.                      *)
ToEthState_LockedIdsOnly(s) ==
    [version |-> s.version, final |-> s.final,
     outcome |-> [assets |-> s.assets, balances |-> s.bals,
                  locked |-> [i \in DOMAIN s.locked |-> s.locked[i].id]]]

(* NewAsset: the Go type that a peer decodes an asset into.  The parties   *)
(* make their assets of this chain with the type NervosAsset.              *)
NewAsset == "Asset"

(* assetToCKBAsset and assetToEthAsset, as the asset's backend goes.       *)
ToChannelAsset(a, type) ==
    IF IsCompatible(a)
    THEN IF type = "NervosAsset" THEN [chain |-> "ckb", asset |-> a] ELSE Panic
    ELSE [chain |-> "eth", asset |-> a]

(* ToEthState: the balances of all assets, all sub-channels with their     *)
(* amounts and index maps.                                                 *)
ToEthState(s) ==
    [version |-> s.version, final |-> s.final,
     outcome |->
        [assets |-> [i \in DOMAIN s.assets |-> ToChannelAsset(s.assets[i], "NervosAsset")],
         balances |-> s.bals,
         locked |-> [i \in DOMAIN s.locked |->
                       [id |-> s.locked[i].id, balances |-> s.locked[i].bals,
                        map |-> EthIndexMap(s.locked[i].map)]]]]

(* EncodeEthState: what Sign and Verify work on, for whom the assets have  *)
(* that type.                                                              *)
SignedForm(s, type) ==
    IF \E i \in DOMAIN s.assets : ToChannelAsset(s.assets[i], type) = Panic
    THEN Panic ELSE ToEthState(s)

-----------------------------------------------------------------------------
(* The form that goes on chain.  Integers have a fixed width there, and    *)
(* every builder refuses what does not fit.                                *)

PackCKByteDistribution(d) ==
    IF d[1] < Word64 /\ d[2] < Word64 THEN [ckbytes |-> d] ELSE Error

(* PackSUDTBalances and PackEthBalances; ToUint128 refuses 2^128 and more. *)
PackTokenBalances(a, d) ==
    IF d[1] < Word128 /\ d[2] < Word128 THEN [asset |-> a, distribution |-> d] ELSE Error

PackRow(a, d) == IF a = "ckbytes" THEN PackCKByteDistribution(d) ELSE PackTokenBalances(a, d)

(* Variant: the channel's own balances are packed as the sub-channel's.    *)
PackSubAlloc_ParentBalances(sub, s) ==
    IF \E i \in DOMAIN s.assets : ~IsCompatible(s.assets[i])
    THEN Error
    ELSE [id |-> sub.id, balances |-> s.bals]

(* PackSubAlloc: what is locked of an asset, as party 0's.  CKBytes and    *)
(* SUDTs go to separate fields; the index map is not packed.               *)
PackSubAlloc(sub, s) ==
    LET rows    == [i \in DOMAIN s.assets |-> PackRow(s.assets[i], <<sub.bals[i], 0>>)]
        of(a)   == [j \in {i \in DOMAIN s.assets : s.assets[i] = a} |-> rows[j]]
        ckbytes == of("ckbytes")
    IN  IF Error \in ToSet(rows) \/ \E i \in DOMAIN s.assets : ~IsCompatible(s.assets[i])
        THEN Error   \* too large, or "locked eth assets are not supported"
        ELSE [id |-> sub.id,
              ckbytes |-> IF DOMAIN ckbytes = {} THEN PackCKByteDistribution(<<0, 0>>)
                          ELSE ckbytes[Max(DOMAIN ckbytes)],
              sudts |-> {of("sudt")[j] : j \in DOMAIN of("sudt")}]

(* PackDefaultSubAlloc, the entry of a state that locks nothing.           *)
PackDefaultSubAlloc ==
    [id |-> DefaultId, ckbytes |-> PackCKByteDistribution(<<0, 0>>), sudts |-> {}]

(* The locked part of PackBalances.                                        *)
PackLocked(s) ==
    IF s.locked = <<>> THEN <<PackDefaultSubAlloc>>
    ELSE [i \in DOMAIN s.locked |-> PackSubAlloc(s.locked[i], s)]

(* PackBalances and PackChannelState: the first error is the result.       *)
PackChannelState(s) ==
    LET rows   == [i \in DOMAIN s.assets |-> PackRow(s.assets[i], s.bals[i])]
        locked == PackLocked(s)
    IN  IF Error \in ToSet(rows) \cup ToSet(locked) THEN Error
        ELSE [version |-> s.version, final |-> s.final, assets |-> rows, locked |-> locked]

-----------------------------------------------------------------------------
(* States are signed and put on chain one after another; two are enough to *)
(* compare any with any.                                                   *)

VARIABLE onChain   \* the states that were put on chain, with all their forms

MaxOnChain == 2    \* bound: how many states are compared

StatesInit == onChain = {}

(* A state that one party has signed, and its peer has decoded and should  *)
(* verify and sign, is packed into a witness and sent.                     *)
PutStateOnChain(s) ==
    /\ PackChannelState(s) # Error
    /\ onChain' = onChain \cup
          {[state |-> s, packed |-> PackChannelState(s),
            signed |-> SignedForm(s, "NervosAsset"), peers |-> SignedForm(s, NewAsset)]}

(* Building the transaction fails.                                         *)
StateRefused(s) ==
    /\ PackChannelState(s) = Error
    /\ UNCHANGED onChain

StatesNext == /\ Cardinality(onChain) < MaxOnChain
              /\ \E s \in State : PutStateOnChain(s) \/ StateRefused(s)

StatesSpec == StatesInit /\ [][StatesNext]_onChain

-----------------------------------------------------------------------------
(* One signature stands for one on-chain state: two states that are signed *)
(* alike are packed alike, so what a dispute puts on chain is what both    *)
(* parties put their signature to.                                         *)
SignatureFixesChainState ==
    \A x, y \in onChain : x.signed = y.signed => x.packed = y.packed

(* Which amounts a state assigns to whom, and to which sub-channels.       *)
Amounts(s) == [version |-> s.version, final |-> s.final, assets |-> s.assets, bals |-> s.bals,
               locked |-> [i \in DOMAIN s.locked |-> <<s.locked[i].id, s.locked[i].bals>>]]

(* The packed form commits to every amount, those locked in sub-channels   *)
(* too, as PackSubAlloc's comment demands: states with different amounts   *)
(* look different on chain, also where an amount does not fit its field.   *)
CommitsToAmounts ==
    \A x, y \in onChain : x.packed = y.packed => Amounts(x.state) = Amounts(y.state)

(* NewAsset "returns an empty (and thus invalid) asset for unmarshalling   *)
(* into": does not hold of the peer that has to verify or sign, ToEthState *)
(* panics on the asset that was unmarshalled.                              *)
DecodedIsSignable == \A x \in onChain : x.peers = x.signed
=============================================================================
