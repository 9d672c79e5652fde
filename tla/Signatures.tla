----------------------------- MODULE Signatures ------------------------------
(***************************************************************************)
(* The way of a signature: a wallet signs a state, the peer reads 65 bytes *)
(* from the wire and verifies them (wallet/backend.go), and a dispute or a *)
(* closing transaction converts them to DER for the contract               *)
(* (NewMoleculeSignature, encoding/signature.go).                          *)
(*                                                                         *)
(* Numbers are sequences of digits, "bytes", with a small base.  The       *)
(* recovery id of a signature (r, s) is taken to be 0 for low s and 1 for  *)
(* high s: of the two signatures (r, s) and (r, Order - s) over one        *)
(* message each verifies with its own recovery id.                         *)
(***************************************************************************)
EXTENDS Naturals, Sequences

CONSTANTS
    Base,    \* how many values a byte has, instead of 256
    Width,   \* bytes of r and of s, instead of 32
    Tag,     \* the SEQUENCE tag that DER begins with, instead of 0x30
    Order,   \* of the curve
    Scalar   \* bound: the values of r and s

ASSUME BaseAssumption == /\ Base \in Nat /\ Base > 28 /\ Width \in Nat \ {0}
                         /\ Tag \in 0..(Base - 1) /\ Tag # 2

(* The weight of a byte with k bytes after it: Base^k.                     *)
Weight[k \in 0..(Width + 1)] == IF k = 0 THEN 1 ELSE Base * Weight[k - 1]

ASSUME OrderAssumption == Order \in Nat /\ Order % 2 = 1 /\ Order <= Weight[Width]
ASSUME ScalarAssumption == Scalar \subseteq 1..(Order - 1)

Byte == 0..(Base - 1)
None == <<>>

VARIABLES phase,   \* "signed", "sent", "accepted", "refused", "onchain", "failed"
          sig,     \* the signature: r, s and v
          wire,    \* its bytes
          der      \* what the witness holds

sigVars == <<phase, sig, wire, der>>

Low(s) == s <= Order \div 2
RecoveryId(s) == IF Low(s) THEN 0 ELSE 1

Signature == [r : Scalar, s : Scalar, v : {0, 1, 27, 28}]

(* SignData adds 27 to v and has a low s; a wallet of another make may do  *)
(* neither.                                                                *)
SigInit ==
    /\ phase = "signed"
    /\ sig \in Signature
    /\ wire = <<>> /\ der = <<>>

-----------------------------------------------------------------------------
(* The number x as n bytes, the highest first.                             *)
BigEndian(x, n) == [i \in 1..n |-> (x \div Weight[n - i]) % Base]

Number(bytes) ==
    LET upTo[n \in 0..Len(bytes)] == IF n = 0 THEN 0 ELSE upTo[n - 1] * Base + bytes[n]
    IN  upTo[Len(bytes)]

(* R||S||V, written by the signer and read by DecodeSig.                   *)
Send ==
    /\ phase = "signed"
    /\ wire' = BigEndian(sig.r, Width) \o BigEndian(sig.s, Width) \o <<sig.v>>
    /\ phase' = "sent"
    /\ UNCHANGED <<sig, der>>

(* VerifySignature: v with or without 27; SigToPub recovers the signer's   *)
(* key from r, s and the recovery id, whether s is low or high.            *)
Verify ==
    /\ phase = "sent"
    /\ LET v == wire[2 * Width + 1]
           s == Number(SubSeq(wire, Width + 1, 2 * Width))
       IN  phase' = IF (IF v >= 27 THEN v - 27 ELSE v) = RecoveryId(s)
                    THEN "accepted" ELSE "refused"
    /\ UNCHANGED <<sig, wire, der>>

-----------------------------------------------------------------------------
(* asn1.Marshal: integers with the fewest bytes, and a zero in front of a  *)
(* highest bit, which would be a sign.                                     *)
FewestBytes(x) ==
    LET n == CHOOSE k \in 1..(Width + 1) : /\ 2 * x < Weight[k]
                                           /\ k > 1 => 2 * x >= Weight[k - 1]
    IN  BigEndian(x, n)

DerInteger(x) == <<2, Len(FewestBytes(x))>> \o FewestBytes(x)

Marshal(r, s) ==
    LET body == DerInteger(r) \o DerInteger(s)
    IN  <<Tag, Len(body)>> \o body

(* Variant: s is packed as it came.                                        *)
toLowS_Identity(s) == s

(* toLowS: the contract's library accepts only the lower of s and -s.      *)
toLowS(s) == IF s > Order \div 2 THEN Order - s ELSE s

(* NewMoleculeSignature.  What begins with the tag is taken for DER.  An   *)
(* empty result is the error "unexpected signature length".                *)
NewMoleculeSignature(bytes) ==
    IF Len(bytes) > 0 /\ bytes[1] = Tag THEN bytes
    ELSE IF Len(bytes) \in {2 * Width, 2 * Width + 1}
    THEN Marshal(Number(SubSeq(bytes, 1, Width)), toLowS(Number(SubSeq(bytes, Width + 1, 2 * Width))))
    ELSE <<>>

(* Dispute, DisputeVC or Close with a verified signature.                  *)
PutSigOnChain ==
    /\ phase = "accepted"
    /\ der' = NewMoleculeSignature(wire)
    /\ phase' = IF NewMoleculeSignature(wire) = <<>> THEN "failed" ELSE "onchain"
    /\ UNCHANGED <<sig, wire>>

SigNext == Send \/ Verify \/ PutSigOnChain

SigSpec == SigInit /\ [][SigNext]_sigVars

-----------------------------------------------------------------------------
(* The contract's reading of a DER signature: what two integers it holds,  *)
(* None if it is no DER with a low s.                                      *)
DerInt(d, at) == SubSeq(d, at + 2, at + 1 + d[at + 1])

IsDer(d) ==
    /\ Len(d) >= 8 /\ d[1] = Tag /\ d[2] = Len(d) - 2
    /\ d[3] = 2 /\ d[4] \in 1..(Len(d) - 7)
    /\ LET second == 5 + d[4]
       IN  d[second] = 2 /\ d[second + 1] = Len(d) - second - 1

ReadByContract(d) ==
    IF ~IsDer(d) THEN None
    ELSE LET r == DerInt(d, 3)
             s == DerInt(d, 5 + d[4])
         IN  IF 2 * r[1] < Base /\ s # <<>> /\ 2 * s[1] < Base /\ Low(Number(s))
             THEN <<Number(r), Number(s)>> ELSE None

(* A signature that the peer accepted, from whatever wallet, is one that   *)
(* the contract reads as the same r and the lower of the two s: a state    *)
(* that was countersigned can be disputed.  Not so, see RawIsConverted,    *)
(* for those whose r begins with the byte of the tag.                      *)
AcceptedIsReadable ==
    phase \in {"onchain", "failed"} /\ wire[1] # Tag =>
        ReadByContract(der) = <<sig.r, IF Low(sig.s) THEN sig.s ELSE Order - sig.s>>

(* NewMoleculeSignature "converts an incoming signature to DER (R,S)" and  *)
(* accepts "65 bytes: Ethereum R||S||V": does not hold, as R may begin     *)
(* with the byte that DER begins with.                                     *)
RawIsConverted ==
    phase \in {"onchain", "failed"} => ReadByContract(der) # None
=============================================================================
