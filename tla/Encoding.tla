------------------------------ MODULE Encoding -------------------------------
(***************************************************************************)
(* What the parties sign, hash and exchange, and what of it reaches the    *)
(* chain: states, signatures and channel parameters.  The three do not     *)
(* share state; a behaviour is about one of them, and one signature is     *)
(* enough for those that are not about signatures.                         *)
(***************************************************************************)
EXTENDS StateEncoding, Signatures, ChannelParams

encodings == <<onChain, phase, sig, wire, der, opened>>

NoSigYet == phase = "signed" /\ sig = CHOOSE x \in Signature : TRUE

States     == NoSigYet /\ opened = {} /\ StatesNext /\ UNCHANGED <<sigVars, opened>>
Sigs       == onChain = {} /\ opened = {} /\ SigNext /\ UNCHANGED <<onChain, opened>>
Parameters == NoSigYet /\ onChain = {} /\ ParamsNext /\ UNCHANGED <<onChain, sigVars>>

Init == StatesInit /\ SigInit /\ ParamsInit
Next == States \/ Sigs \/ Parameters

Spec == Init /\ [][Next]_encodings
=============================================================================
