---------------------------- MODULE ChannelParams ----------------------------
(***************************************************************************)
(* The parameters of a channel, in three forms: the channel id is the hash *)
(* of their Ethereum form (CalcID, ToEthParams), the channel's cell holds  *)
(* their molecule form (PackChannelParameters), and the two parties learn  *)
(* each other's part from the wire (UnmarshalBinary of a participant).     *)
(*                                                                         *)
(* Hashes are taken to be injective: a script stands for its hash, a       *)
(* public key for its Ethereum address, and the form that is hashed for    *)
(* the id.                                                                 *)
(***************************************************************************)
EXTENDS Naturals, Sequences, FiniteSets

CONSTANTS
    Key,     \* public keys; the Ethereum address of a key is the key
    NoKey,   \* no explicit Ethereum address
    Nonces,  \* bound: nonces of channels
    Word256  \* 2^256, the first nonce that does not fit

ASSUME KeyAssumption == NoKey \notin Key /\ \E k, l \in Key : k # l
ASSUME NonceAssumption == Word256 \in Nat \ {0} /\ Nonces \subseteq Nat

-----------------------------------------------------------------------------
(* The participants of a channel on this chain.                            *)
NewDefaultParticipant(key) ==
    LET script == <<"secp256k1", key>> IN [key |-> key, payment |-> script, unlock |-> script]

(* NewEthereumParticipantFromPublicKey has the same key twice.             *)
NewCrossChainParticipantFromPublicKeys(key, ethKey) ==
    LET script == <<"omnilock", ethKey>> IN [key |-> key, payment |-> script, unlock |-> script]

Participant == {NewDefaultParticipant(k) : k \in Key} \cup
               {NewCrossChainParticipantFromPublicKeys(k, e) : k \in Key, e \in Key}

(* The address map of a party: its participant, and maybe an Ethereum      *)
(* address.                                                                *)
Part == [ckb : Participant, eth : Key \cup {NoKey}]

(* The on-chain form: the key and the hashes of both scripts.              *)
PackOnChainParticipant(p) == <<p.key, p.payment, p.unlock>>

(* Variant: the unlock script is forgotten.                                *)
UnpackOnChainParticipant_PaymentOnly(bytes) ==
    [NewDefaultParticipant(bytes[1]) EXCEPT !.unlock = <<>>]

(* UnpackOnChainParticipant, for UnmarshalBinary: the hashes in the        *)
(* message are not looked at, both scripts are the default one.            *)
UnpackOnChainParticipant(bytes) == NewDefaultParticipant(bytes[1])

(* MarshalBinary, the wire, and UnmarshalBinary at the peer.               *)
Decoded(part) == [part EXCEPT !.ckb = UnpackOnChainParticipant(PackOnChainParticipant(@))]

(* The parameters that party i makes of a proposal and its acceptance: its *)
(* own part as it is, its peer's as it was decoded.                        *)
View(params, i) ==
    [params EXCEPT !.parts = [j \in DOMAIN @ |-> IF j = i THEN @[j] ELSE Decoded(@[j])]]

-----------------------------------------------------------------------------
(* Variant: the on-chain form is for parties without an Ethereum address.  *)
EthParticipant_NoCcAddress(part) ==
    IF part.eth # NoKey THEN [eth |-> part.eth, cc |-> <<>>]
    ELSE [eth |-> part.ckb.key, cc |-> PackOnChainParticipant(part.ckb)]

(* A participant of ToEthParams: an explicit Ethereum address is not       *)
(* overwritten by the one derived from the key.                            *)
EthParticipant(part) ==
    [eth |-> IF part.eth # NoKey THEN part.eth ELSE part.ckb.key,
     cc  |-> PackOnChainParticipant(part.ckb)]

(* CalcID: the nonce is a uint256, every app has the zero address.         *)
CalcID(params) ==
    [nonce |-> params.nonce % Word256,
     participants |-> [i \in DOMAIN params.parts |-> EthParticipant(params.parts[i])],
     ledger |-> params.ledger, virtual |-> params.virtual]

-----------------------------------------------------------------------------
Refused == [is |-> "error"]

(* PackNonce takes 32 bytes.                                               *)
NonceFits(nonce) == nonce < Word256

(* PackChannelParameters: two parties, no app; whether it is a ledger      *)
(* channel is decided by the flag for virtual channels.                    *)
PackChannelParameters(params) ==
    IF Len(params.parts) # 2 \/ params.app \/ ~NonceFits(params.nonce) THEN Refused
    ELSE [nonce |-> params.nonce, virtual |-> params.virtual, ledger |-> ~params.virtual,
          parties |-> [i \in 1..2 |-> PackOnChainParticipant(params.parts[i].ckb)]]

-----------------------------------------------------------------------------
(* Channels are opened one after another; two are enough to compare any    *)
(* with any.                                                               *)

VARIABLE opened   \* parameters of channels, with the ids both parties compute

MaxOpened == 2    \* bound

(* Bound: all parts of one key for party 1, two parts for party 2; ledger, *)
(* virtual and sub-channels.                                               *)
Params ==
    LET first  == CHOOSE k \in Key : TRUE
        second == CHOOSE k \in Key : k # first
    IN  [parts : {<<x, y>> : x \in {p \in Part : p.ckb.key = first},
                             y \in {[ckb |-> NewDefaultParticipant(second), eth |-> NoKey],
                                    [ckb |-> NewCrossChainParticipantFromPublicKeys(second, second),
                                     eth |-> second]}},
         nonce : Nonces, app : BOOLEAN, ledger : BOOLEAN, virtual : BOOLEAN]

ParamsInit == opened = {}

(* Party 1 proposes, party 2 accepts, and the channel that party 1 made of *)
(* it is packed into the constants of a cell.                              *)
OpenChannel(params) ==
    LET view == View(params, 1)
    IN  /\ ~(params.ledger /\ params.virtual)
        /\ PackChannelParameters(view) # Refused
        /\ opened' = opened \cup
              {[params |-> params, packed |-> PackChannelParameters(view),
                id |-> CalcID(view), peersId |-> CalcID(View(params, 2))]}

(* Start ends with an error.                                               *)
ParamsRefused(params) ==
    /\ PackChannelParameters(View(params, 1)) = Refused
    /\ UNCHANGED opened

ParamsNext == /\ Cardinality(opened) < MaxOpened
              /\ \E params \in Params : OpenChannel(params) \/ ParamsRefused(params)

ParamsSpec == ParamsInit /\ [][ParamsNext]_opened

-----------------------------------------------------------------------------
(* "The Params are already implicitly verified" (verifyChannelIntegrity):  *)
(* a party that found a channel by its id has found the parameters it      *)
(* means, the keys and the scripts that are paid among them.               *)
IdFixesChannel == \A x, y \in opened : x.id = y.id => x.packed = y.packed

(* Both parties compute the same id, so that party B's poll can find what  *)
(* party A opened, if and only if both participants have default scripts:  *)
(* the wire replaces every other script.                                   *)
PeersAgree ==
    \A x \in opened :
        x.id = x.peersId <=>
            \A i \in DOMAIN x.params.parts :
                LET p == x.params.parts[i].ckb IN p = NewDefaultParticipant(p.key)
=============================================================================
