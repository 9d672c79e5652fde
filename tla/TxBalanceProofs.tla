---------------------------- MODULE TxBalanceProofs ----------------------------
(***************************************************************************)
(* TxBalance for every fee, cell size and wallet: a transaction that is    *)
(* built pays its fee and conserves a UDT it has outputs for, its change   *)
(* cell can be stored, building fails or panics for the reasons that       *)
(* RefusesOnlyIfPoor names and no other, and what is handed to the signer  *)
(* can be unlocked and spends each cell once.                              *)
(***************************************************************************)
EXTENDS TxBalance, SequenceTheorems, WellFoundedInduction, TLAPS

(* The bounds that the amounts of an operation and a wallet keep to: ckb,  *)
(* cap and udt for the CKBytes of a plain cell and the CKBytes and UDT of  *)
(* a UDT cell.  All CKBytes there are number less than 2^64 shannons; that *)
(* a wallet's UDT does so too is an assumption, without which Balanced is  *)
(* false (UdtConserved).                                                   *)
FitWord(ckb, cap, udt) ==
    /\ \A c \in CkbCells \cup GoneCells : c <= ckb
    /\ \A x \in UdtExtra : UdtCap + x <= cap
    /\ \A a \in UdtCells : a <= udt
    /\ \A c \in InCaps \cup {0} : c + UdtCap + MaxCkbCells * ckb + MaxUdtCells * cap < Word
    /\ \A c \in OutCaps : c + UdtCap + UdtCap + Fee + ChangeCap < Word
    /\ \A o \in UdtOuts : o + 1 + MaxUdtCells * udt < Word

AmountsFit == \E ckb, cap, udt \in Nat : FitWord(ckb, cap, udt)

Amounts == [ckb : Nat, udt : Nat]
CkbCell == [nr : Nat, cap : Nat, typed : BOOLEAN, live : BOOLEAN]
UdtCell == [nr : Nat, cap : Nat, udt : Nat]
Source  == {<<"channel">>, <<"funds">>} \cup ({"ckb", "udt"} \X Nat)
FromCkb(n) == <<"ckb", n>>
FromUdt(n) == <<"udt", n>>
TxInput == [from : Source, lock : {"pcls", "pfls", "user"}, udt : BOOLEAN, live : BOOLEAN]

Early    == {"token", "min", "groups"}
UdtPhase == {"balance", "fetchUdt", "udtFunded"}
CkbPhase == {"ckb", "fetchCkb", "again", "fetchMore", "change"}
Paid     == {"process", "fee", "built"}

AmountTypes ==
    /\ pc \in Early \cup UdtPhase \cup CkbPhase \cup Paid \cup {"failed", "panic"}
    /\ ins \in Amounts /\ outs \in Amounts
    /\ provided \in Amounts /\ required \in Amounts
    /\ requested \in Nat /\ needed \in Nat /\ fetched \in Nat /\ change \in Nat

IterTypes == ckbIter \in Seq(CkbCell) /\ udtIter \in Seq(UdtCell)

(* What the wallet has left fits, with what is taken already, into 64 bits;*)
(* and a plain cell pays for its own storage.                              *)
WalletInv(ckb, cap, udt) ==
    /\ \A k \in DOMAIN ckbIter : /\ ckbIter[k].cap <= ckb
                                 /\ ~ckbIter[k].typed => ckbIter[k].cap >= ChangeCap
    /\ \A k \in DOMAIN udtIter : udtIter[k].cap <= cap /\ udtIter[k].udt <= udt
    /\ ins.ckb + Len(ckbIter) * ckb + Len(udtIter) * cap < Word
    /\ ins.udt + Len(udtIter) * udt < Word

(* The room that the outputs leave for both change cells.                  *)
EarlyInv == pc \in Early =>
    /\ provided = [ckb |-> 0, udt |-> 0] /\ required = provided /\ change = NoChange
    /\ outs.ckb + UdtCap + Fee + ChangeCap < Word /\ outs.udt < Word
    /\ ins.udt = 0 \/ ins.udt >= outs.udt

UdtInv ==
    /\ pc \in UdtPhase =>
          /\ provided = ins /\ required = [ckb |-> outs.ckb + Fee, udt |-> outs.udt]
          /\ outs.ckb + UdtCap + Fee + ChangeCap < Word
          /\ change = NoChange
    /\ pc = "balance" => provided.udt = 0 \/ provided.udt >= required.udt
    /\ pc = "fetchUdt" => /\ requested = required.udt /\ needed = required.udt
                          /\ fetched = provided.udt /\ provided.udt < required.udt
    /\ pc = "udtFunded" => /\ requested = required.udt
                           /\ provided.udt >= required.udt \/ udtIter = << >>

(* A round of fetching ends with what is required, or with an empty wallet;*)
(* the second round then adds a cell that pays for the change cell.        *)
CkbInv ==
    /\ pc \in CkbPhase =>
          /\ provided.ckb = ins.ckb /\ required.ckb = outs.ckb + Fee
          /\ outs.udt # 0 => ins.udt = outs.udt
          /\ required.ckb + ChangeCap < Word
          /\ change = NoChange
    /\ pc = "fetchCkb" => provided.ckb + needed >= required.ckb + fetched
    /\ pc \in {"again", "fetchMore"} => provided.ckb >= required.ckb \/ ckbIter = << >>
    /\ pc \in {"fetchCkb", "fetchMore"} /\ ckbIter = << >> => ~ChangePaid
    /\ pc = "change" => ChangePaid

PaidInv == pc \in Paid =>
    /\ ins.ckb = outs.ckb + Fee
    /\ outs.udt # 0 => ins.udt = outs.udt
    /\ change = NoChange \/ change >= ChangeCap

PoorInv == pc = "failed" => Poor

(* While cells are fetched, the change cell is unpaid and the target is    *)
(* what is missing, or it has wrapped around; so a panic finds the wallet  *)
(* too poor, the target wrapped around, or a spent cell among the inputs.  *)
RoundInv ==
    /\ pc = "fetchCkb" =>
          \/ needed > Word - ChangeCap
          \/ ~ChangePaid /\ provided.ckb + needed = required.ckb + fetched
    /\ pc = "fetchMore" => ~ChangePaid /\ (needed <= ChangeCap \/ ckbIter = << >>)
    /\ pc = "panic" => Poor \/ Wrapped \/ Unresolved

AmountInv(ckb, cap, udt) ==
    /\ AmountTypes /\ IterTypes /\ WalletInv(ckb, cap, udt)
    /\ EarlyInv /\ UdtInv /\ CkbInv /\ PaidInv /\ PoorInv

(* Nothing that the wallet has left is an input yet.                       *)
SourceInv ==
    /\ \A i, j \in DOMAIN inputs : inputs[i].from = inputs[j].from => i = j
    /\ \A i \in DOMAIN inputs, k \in DOMAIN ckbIter : inputs[i].from # FromCkb(ckbIter[k].nr)
    /\ \A i \in DOMAIN inputs, k \in DOMAIN udtIter : inputs[i].from # FromUdt(udtIter[k].nr)
    /\ \A k, l \in DOMAIN ckbIter : ckbIter[k].nr = ckbIter[l].nr => k = l
    /\ \A k, l \in DOMAIN udtIter : udtIter[k].nr = udtIter[l].nr => k = l

Ascending(g) == \A k, l \in DOMAIN g : k < l => g[k] < g[l]

(* g lists the inputs of the user in order.                                *)
ListsMine(g) == g \in Seq(Nat) /\ ToSet(g) = Mine /\ Ascending(g)

GroupInv ==
    /\ pc \in UdtPhase \cup CkbPhase \cup {"process", "fee"} =>
          "user" \in DOMAIN groups /\ ListsMine(groups["user"])
    /\ pc = "built" => /\ "user" \in DOMAIN groups <=> Mine # {}
                       /\ Mine # {} => ListsMine(groups["user"])

WitnessInv ==
    /\ witnesses \in Seq(SUBSET {"inputType", "lock"}) /\ Len(witnesses) = Len(inputs)
    /\ \A i \in DOMAIN inputs : "inputType" \in witnesses[i] <=> inputs[i].lock = "pcls"
    /\ pc \in Early \cup UdtPhase \cup CkbPhase \cup {"process"} =>
          \A i \in DOMAIN inputs : "lock" \notin witnesses[i]
    /\ pc \in {"fee", "built"} =>
          \A i \in DOMAIN inputs :
             inputs[i].live /\ ("lock" \in witnesses[i] <=> i \in Mine /\ \A j \in Mine : i <= j)

SignInv ==
    IterTypes /\ inputs \in Seq(TxInput) /\ SourceInv /\ GroupInv /\ WitnessInv

USE BalanceAssumption

-----------------------------------------------------------------------------
(* Numbers and sequences.                                                  *)

(* A set of natural numbers that is not empty has a least element.         *)
LEMMA Least ==
    ASSUME NEW S \in SUBSET Nat, S # {}
    PROVE  \E x \in S : \A y \in S : x <= y
  <1>1. \A x, y \in Nat : x < y => <<x, y>> \in OpToRel(<, Nat)
    BY Zenon DEF OpToRel
  <1>2. PICK x \in S : \A y \in S : <<y, x>> \notin OpToRel(<, Nat)
    BY NatLessThanWellFounded, WFMin, Zenon
  <1>3. \A y \in S : ~(y < x)
    BY <1>1, <1>2, Zenon
  <1>. QED BY <1>3

(* Induction on natural numbers, for a set in the place of a predicate.    *)
LEMMA SetInduction ==
    ASSUME NEW S, 0 \in S, \A n \in Nat : n \in S => n + 1 \in S
    PROVE  Nat \subseteq S
  <1>. DEFINE T == {n \in Nat : n \notin S}
  <1>1. SUFFICES ASSUME T # {} PROVE FALSE
    OBVIOUS
  <1>2. PICK n \in T : \A m \in T : n <= m
    BY <1>1, Least
  <1>3. n - 1 \in Nat /\ n - 1 \notin T /\ n = (n - 1) + 1
    BY <1>2
  <1>. QED BY <1>2, <1>3

(* The least of the places picked out of a sequence.                       *)
LEMMA LeastIsMin ==
    ASSUME NEW S \in SUBSET Nat, S # {}
    PROVE  Min(S) \in S /\ \A y \in S : Min(S) <= y
  BY Least DEF Min

(* Products of unknown numbers.                                            *)
LEMMA Fewer ==
    ASSUME NEW n \in Nat, NEW m \in Nat, NEW k \in Nat
    PROVE  /\ n * k \in Nat
           /\ m < n => m * k + k <= n * k
           /\ m <= n => m * k <= n * k
  OBVIOUS

(* What is left after a subtraction that does not wrap around.             *)
LEMMA MinusIsExact ==
    ASSUME NEW a \in Nat, NEW b \in Nat
    PROVE  /\ b <= a /\ a < b + Word => Minus(a, b) = a - b
           /\ Minus(a, b) \in Nat
  BY DEF Minus
-----------------------------------------------------------------------------
(* The cells of the wallet.                                                *)

(* CKBOnlyIterator.Next stops at a cell without a type script.             *)
LEMMA NextIsPlain ==
    ASSUME ckbIter \in Seq(CkbCell), NextCell # 0
    PROVE  NextCell \in 1 .. Len(ckbIter) /\ ~ckbIter[NextCell].typed
  <1>. DEFINE I == {i \in 1 .. Len(ckbIter) : ~ckbIter[i].typed}
  <1>1. NextCell = IF I # {} THEN Min(I) ELSE 0
    BY DEF NextCell, SelectInSeq
  <1>2. I \in SUBSET Nat
    OBVIOUS
  <1>3. Min(I) \in I
    <2>. HIDE DEF I
    <2>. QED BY <1>1, <1>2, LeastIsMin
  <1>4. I # {}
    BY <1>1
  <1>5. NextCell \in I
    <2>. HIDE DEF I
    <2>. QED BY <1>1, <1>3, <1>4
  <1>. QED BY <1>5

(* What the iterator has left after it.                                    *)
LEMMA AdvancedHas ==
    ASSUME ckbIter \in Seq(CkbCell), NextCell # 0
    PROVE  /\ Advanced \in Seq(CkbCell)
           /\ Len(Advanced) = Len(ckbIter) - NextCell
           /\ Len(Advanced) \in Nat /\ Len(Advanced) < Len(ckbIter)
           /\ \A k \in DOMAIN Advanced : /\ k + NextCell \in DOMAIN ckbIter
                                         /\ Advanced[k] = ckbIter[k + NextCell]
  <1>. DEFINE n == NextCell + 1
  <1>1. NextCell \in 1 .. Len(ckbIter) /\ Len(ckbIter) \in Nat
    BY NextIsPlain
  <1>2. n \in 1 .. Len(ckbIter) + 1 /\ Len(ckbIter) \in n - 1 .. Len(ckbIter)
    BY <1>1
  <1>3. /\ SubSeq(ckbIter, n, Len(ckbIter)) \in Seq(CkbCell)
        /\ Len(SubSeq(ckbIter, n, Len(ckbIter))) =
              IF n <= Len(ckbIter) THEN Len(ckbIter) - n + 1 ELSE 0
        /\ \A i \in 1 .. Len(ckbIter) - n + 1 :
              SubSeq(ckbIter, n, Len(ckbIter))[i] = ckbIter[n + i - 1]
    BY <1>2, SubSeqProperties
  <1>4. Advanced = SubSeq(ckbIter, n, Len(ckbIter))
    BY DEF Advanced
  <1>. HIDE DEF n
  <1>5. n = NextCell + 1
    BY DEF n
  <1>6. Advanced \in Seq(CkbCell) /\ Len(Advanced) = Len(ckbIter) - NextCell
    BY <1>1, <1>3, <1>4, <1>5
  <1>7. DOMAIN Advanced = 1 .. Len(ckbIter) - NextCell
    BY <1>6
  <1>8. \A k \in DOMAIN Advanced : Advanced[k] = ckbIter[k + NextCell]
    <2>1. SUFFICES ASSUME NEW k \in DOMAIN Advanced PROVE Advanced[k] = ckbIter[k + NextCell]
      OBVIOUS
    <2>2. k \in 1 .. Len(ckbIter) - n + 1 /\ n + k - 1 = k + NextCell
      BY <1>1, <1>5, <1>7
    <2>. QED BY <1>3, <1>4, <2>2
  <1>9. \A k \in DOMAIN Advanced : k + NextCell \in DOMAIN ckbIter
    BY <1>1, <1>7
  <1>. QED BY <1>1, <1>6, <1>8, <1>9

(* An empty wallet has no cell to give.                                    *)
LEMMA NothingLeft == ckbIter = << >> => NextCell = 0
  <1>. SUFFICES ASSUME ckbIter = << >> PROVE NextCell = 0
    OBVIOUS
  <1>. DEFINE I == {i \in 1 .. Len(ckbIter) : ~ckbIter[i].typed}
  <1>1. NextCell = IF I # {} THEN Min(I) ELSE 0
    BY DEF NextCell, SelectInSeq
  <1>2. I = {}
    OBVIOUS
  <1>. QED BY <1>1, <1>2

-----------------------------------------------------------------------------
(* Script groups.                                                          *)

(* Appending what is larger keeps a sequence ascending.                    *)
LEMMA AppendAscends ==
    ASSUME NEW g \in Seq(Nat), Ascending(g), NEW n \in Nat, \A x \in ToSet(g) : x < n
    PROVE  /\ Append(g, n) \in Seq(Nat) /\ Ascending(Append(g, n))
           /\ ToSet(Append(g, n)) = ToSet(g) \cup {n}
  <1>. DEFINE h == Append(g, n)
  <1>1. /\ h \in Seq(Nat) /\ Len(h) = Len(g) + 1 /\ h[Len(g) + 1] = n
        /\ \A i \in 1 .. Len(g) : h[i] = g[i]
    BY AppendProperties
  <1>2. Len(g) \in Nat /\ DOMAIN g = 1 .. Len(g) /\ DOMAIN h = 1 .. Len(g) + 1
    BY <1>1
  <1>. HIDE DEF h
  <1>3. \A i \in DOMAIN g : g[i] \in Nat /\ g[i] < n
    BY <1>2 DEF ToSet
  <1>4. Ascending(h)
    <2>1. SUFFICES ASSUME NEW k \in DOMAIN h, NEW l \in DOMAIN h, k < l PROVE h[k] < h[l]
      BY DEF Ascending
    <2>2. k \in DOMAIN g /\ h[k] = g[k]
      BY <1>1, <1>2, <2>1
    <2>3. CASE l = Len(g) + 1
      BY <1>1, <1>3, <2>2, <2>3
    <2>4. CASE l # Len(g) + 1
      <3>1. l \in DOMAIN g /\ h[l] = g[l]
        BY <1>1, <1>2, <2>4
      <3>. QED BY <2>1, <2>2, <3>1 DEF Ascending
    <2>. QED BY <2>3, <2>4
  <1>5. ToSet(h) = ToSet(g) \cup {n}
    <2>1. \A i \in DOMAIN g : i \in DOMAIN h /\ h[i] = g[i]
      BY <1>1, <1>2
    <2>2. Len(g) + 1 \in DOMAIN h
      BY <1>2
    <2>3. \A i \in DOMAIN h : i \in DOMAIN g \/ i = Len(g) + 1
      BY <1>2
    <2>. QED BY <1>1, <2>1, <2>2, <2>3 DEF ToSet
  <1>. QED BY <1>1, <1>4, <1>5 DEF h

(* The inputs up to n that have a script.                                  *)
Having(script, n) == {i \in 1 .. n : script \in Scripts(inputs[i])}

(* One turn of the loop of Members.                                        *)
Turn(script, g, n) ==
    IF n = 0 THEN << >>
    ELSE IF script \in Scripts(inputs[n]) THEN Append(g[n - 1], n) ELSE g[n - 1]

(* The loop ends: there is a function of its turns.                        *)
LEMMA LoopEnds ==
    ASSUME NEW script, NEW m \in Nat
    PROVE  \E g : g = [n \in 0 .. m |-> Turn(script, g, n)]
  <1>. DEFINE S == {k \in Nat : \E g : g = [n \in 0 .. k |-> Turn(script, g, n)]}
  <1>1. 0 \in S
    <2>. DEFINE g == [n \in {0} |-> << >>]
    <2>1. g = [n \in 0 .. 0 |-> Turn(script, g, n)]
      BY DEF Turn
    <2>. QED BY <2>1
  <1>2. ASSUME NEW k \in Nat, k \in S PROVE k + 1 \in S
    <2>1. PICK g : g = [n \in 0 .. k |-> Turn(script, g, n)]
      BY <1>2
    <2>. DEFINE h == [n \in 0 .. k + 1 |-> IF n = k + 1 THEN Turn(script, g, n) ELSE g[n]]
    <2>2. \A n \in 0 .. k + 1 : h[n] = Turn(script, h, n)
      <3>1. SUFFICES ASSUME NEW n \in 0 .. k + 1 PROVE h[n] = Turn(script, h, n)
        OBVIOUS
      <3>2. n # 0 => n - 1 \in 0 .. k /\ h[n - 1] = g[n - 1]
        OBVIOUS
      <3>3. Turn(script, g, n) = Turn(script, h, n)
        BY <3>2 DEF Turn
      <3>4. n # k + 1 => n \in 0 .. k /\ h[n] = g[n] /\ g[n] = Turn(script, g, n)
        BY <2>1
      <3>5. n = k + 1 => h[n] = Turn(script, g, n)
        OBVIOUS
      <3>. HIDE DEF h
      <3>. QED BY <3>3, <3>4, <3>5
    <2>3. h = [n \in 0 .. k + 1 |-> h[n]]
      OBVIOUS
    <2>. HIDE DEF h
    <2>4. h = [n \in 0 .. k + 1 |-> Turn(script, h, n)]
      BY <2>2, <2>3
    <2>. QED BY <2>4
  <1>. HIDE DEF S
  <1>3. m \in S
    BY <1>1, <1>2, SetInduction
  <1>. QED BY <1>3 DEF S

(* Members lists the inputs that have a script, each once and in order.    *)
LEMMA MembersListed ==
    ASSUME inputs \in Seq(TxInput), NEW script
    PROVE  /\ Members(script) \in Seq(Nat) /\ Ascending(Members(script))
           /\ ToSet(Members(script)) = Having(script, Len(inputs))
  <1>. DEFINE m == Len(inputs)
              upTo == CHOOSE upTo : upTo = [n \in 0 .. m |-> Turn(script, upTo, n)]
  <1>1. m \in Nat
    OBVIOUS
  <1>2. Members(script) = upTo[m]
    BY DEF Members, Turn
  <1>3. upTo = [n \in 0 .. m |-> Turn(script, upTo, n)]
    BY <1>1, LoopEnds
  <1>. HIDE DEF upTo, m
  <1>. DEFINE Right(g, n) == g \in Seq(Nat) /\ Ascending(g) /\ ToSet(g) = Having(script, n)
              S == {n \in Nat : n <= m => Right(upTo[n], n)}
  <1>4. 0 \in S
    <2>1. upTo[0] = << >>
      BY <1>1, <1>3 DEF Turn
    <2>2. Having(script, 0) = {} /\ << >> \in Seq(Nat) /\ DOMAIN << >> = {}
      BY DEF Having
    <2>3. ToSet(<< >>) = {} /\ Ascending(<< >>)
      BY <2>2 DEF ToSet, Ascending
    <2>. QED BY <2>1, <2>2, <2>3
  <1>5. ASSUME NEW k \in Nat, k \in S PROVE k + 1 \in S
    <2>1. SUFFICES ASSUME k + 1 <= m PROVE Right(upTo[k + 1], k + 1)
      OBVIOUS
    <2>. DEFINE n == k + 1
    <2>2. n \in 0 .. m /\ k \in 0 .. m /\ n # 0 /\ n - 1 = k
      BY <1>1, <2>1
    <2>3. Right(upTo[k], k)
      BY <1>1, <1>5, <2>1
    <2>4. upTo[n] = IF script \in Scripts(inputs[n]) THEN Append(upTo[k], n) ELSE upTo[k]
      BY <1>3, <2>2 DEF Turn
    <2>5. Having(script, n) =
             Having(script, k) \cup (IF script \in Scripts(inputs[n]) THEN {n} ELSE {})
      <3>1. 1 .. n = (1 .. k) \cup {n}
        OBVIOUS
      <3>. HIDE DEF n
      <3>. QED BY <3>1 DEF Having
    <2>6. \A x \in ToSet(upTo[k]) : x < n
      BY <2>3 DEF Having
    <2>7. n \in Nat
      OBVIOUS
    <2>. HIDE DEF n
    <2>8. script \in Scripts(inputs[n]) => Right(upTo[n], n)
      BY <2>3, <2>4, <2>5, <2>6, <2>7, AppendAscends
    <2>9. script \notin Scripts(inputs[n]) => Right(upTo[n], n)
      BY <2>3, <2>4, <2>5
    <2>10. Right(upTo[n], n)
      BY <2>8, <2>9
    <2>. QED BY <2>10 DEF n
  <1>. HIDE DEF S
  <1>6. m \in S
    BY <1>1, <1>4, <1>5, SetInduction
  <1>7. Right(upTo[m], m)
    BY <1>1, <1>6 DEF S
  <1>. QED BY <1>2, <1>7 DEF m
-----------------------------------------------------------------------------
(* Where the cells of the wallet come from.                                *)
LEMMA ListedCells ==
    ASSUME NEW s \in SeqOf(Listed, MaxCkbCells)
    PROVE  /\ Numbered(s) \in Seq(CkbCell) /\ Len(Numbered(s)) \in 0 .. MaxCkbCells
           /\ \A k \in DOMAIN Numbered(s) :
                 LET c == Numbered(s)[k] IN
                 /\ c.nr = k /\ c.cap \in CkbCells \cup GoneCells \cup {0}
                 /\ ~c.typed => c.cap \in CkbCells \cup GoneCells
  <1>1. PICK m \in 0 .. MaxCkbCells : s \in [1 .. m -> Listed]
    BY DEF SeqOf
  <1>. DEFINE t == Numbered(s)
  <1>2. \A c \in CkbCells \cup GoneCells : c \in Nat
    BY StorageAssumption
  <1>3. ASSUME NEW k \in 1 .. m
        PROVE  /\ t[k] \in CkbCell /\ t[k].nr = k
               /\ t[k].cap \in CkbCells \cup GoneCells \cup {0}
               /\ ~t[k].typed => t[k].cap \in CkbCells \cup GoneCells
    <2>1. s[k] \in Listed /\ t[k] = [s[k] EXCEPT !.nr = k]
      BY <1>1 DEF Numbered
    <2>. HIDE DEF t
    <2>2. /\ s[k] \in CkbCell /\ s[k].cap \in CkbCells \cup GoneCells \cup {0}
          /\ s[k].typed \/ s[k].cap \in CkbCells \cup GoneCells
      <3>1. PICK c \in CkbCells \cup GoneCells \cup {0}, b \in BOOLEAN, l \in BOOLEAN :
               s[k] = Cell(c, b, l) /\ (b = TRUE \/ c \in CkbCells \cup GoneCells)
        BY <2>1, Zenon DEF Listed
      <3>2. c \in Nat
        BY <1>2
      <3>3. s[k] \in CkbCell /\ s[k].cap = c /\ s[k].typed = b
        BY <3>1, <3>2 DEF CkbCell, Cell
      <3>. QED BY <3>1, <3>3, Zenon
    <2>3. t[k].nr = k /\ t[k].cap = s[k].cap /\ t[k].typed = s[k].typed /\ t[k] \in CkbCell
      BY <2>1, <2>2 DEF CkbCell
    <2>. QED BY <2>2, <2>3, Zenon
  <1>4. t = [k \in 1 .. m |-> t[k]]
    BY <1>1 DEF Numbered
  <1>. HIDE DEF t
  <1>5. t \in [1 .. m -> CkbCell]
    BY <1>3, <1>4
  <1>6. t \in Seq(CkbCell) /\ Len(t) = m /\ DOMAIN t = 1 .. m
    BY <1>1, <1>5
  <1>. QED BY <1>1, <1>3, <1>6 DEF t

(* The same for the UDT cells.                                             *)
LEMMA ListedUdts ==
    ASSUME NEW s \in SeqOf(ListedUdt, MaxUdtCells)
    PROVE  /\ Numbered(s) \in Seq(UdtCell) /\ Len(Numbered(s)) \in 0 .. MaxUdtCells
           /\ \A k \in DOMAIN Numbered(s) :
                 /\ Numbered(s)[k].nr = k /\ Numbered(s)[k].udt \in UdtCells
                 /\ \E x \in UdtExtra : Numbered(s)[k].cap = UdtCap + x
  <1>1. PICK m \in 0 .. MaxUdtCells : s \in [1 .. m -> ListedUdt]
    BY DEF SeqOf
  <1>. DEFINE t == Numbered(s)
  <1>2. ASSUME NEW k \in 1 .. m
        PROVE  /\ t[k] \in UdtCell /\ t[k].nr = k /\ t[k].udt \in UdtCells
               /\ \E x \in UdtExtra : t[k].cap = UdtCap + x
    <2>1. s[k] \in ListedUdt /\ t[k] = [s[k] EXCEPT !.nr = k]
      BY <1>1 DEF Numbered
    <2>2. PICK x \in UdtExtra, a \in UdtCells : s[k] = [nr |-> 0, cap |-> UdtCap + x, udt |-> a]
      BY <2>1 DEF ListedUdt
    <2>3. t[k] = [nr |-> k, cap |-> UdtCap + x, udt |-> a]
      BY <2>1, <2>2
    <2>4. UdtCap + x \in Nat /\ a \in Nat /\ k \in Nat
      OBVIOUS
    <2>. HIDE DEF t
    <2>. QED BY <2>3, <2>4 DEF UdtCell
  <1>3. t = [k \in 1 .. m |-> t[k]]
    BY <1>1 DEF Numbered
  <1>. HIDE DEF t
  <1>4. t \in [1 .. m -> UdtCell]
    BY <1>2, <1>3
  <1>5. t \in Seq(UdtCell) /\ Len(t) = m /\ DOMAIN t = 1 .. m
    BY <1>1, <1>4
  <1>. QED BY <1>1, <1>2, <1>5 DEF t

(* An operation begins with nothing counted and a wallet that fits.        *)
LEMMA InitAmounts ==
    ASSUME NEW ckb \in Nat, NEW cap \in Nat, NEW udt \in Nat, FitWord(ckb, cap, udt), Init
    PROVE  AmountInv(ckb, cap, udt)
  <1>1. PICK o \in UdtOuts, c \in OutCaps :
           outs = [ckb |-> c + (IF o = 0 THEN 0 ELSE UdtCap), udt |-> o]
    BY DEF Init
  <1>2. /\ outs \in Amounts /\ outs.ckb <= c + UdtCap /\ outs.udt = o
        /\ o \in Nat /\ c \in Nat
    BY <1>1 DEF Amounts
  <1>3. \E i \in {0, o, o + 1}, d \in InCaps \cup {0} :
           ins = [ckb |-> d + (IF i = 0 THEN 0 ELSE UdtCap), udt |-> i]
    <2>1. CASE pc = "token"
      <3>1. ins = [ckb |-> 0 + (IF 0 = 0 THEN 0 ELSE UdtCap), udt |-> 0]
        BY <2>1 DEF Init
      <3>. QED BY <3>1
    <2>2. CASE pc # "token"
      <3>1. PICK i \in {0, outs.udt, outs.udt + 1}, d \in InCaps :
               ins = [ckb |-> d + (IF i = 0 THEN 0 ELSE UdtCap), udt |-> i]
        BY <2>2 DEF Init
      <3>2. i \in {0, o, o + 1}
        BY <1>2, <3>1
      <3>. QED BY <3>1, <3>2
    <2>. QED BY <2>1, <2>2
  <1>4. PICK i \in {0, o, o + 1}, d \in InCaps \cup {0} :
           ins = [ckb |-> d + (IF i = 0 THEN 0 ELSE UdtCap), udt |-> i]
    BY <1>3
  <1>5. ins \in Amounts /\ ins.ckb <= d + UdtCap /\ ins.udt = i /\ ins.udt <= o + 1
    BY <1>2, <1>4 DEF Amounts
  <1>6. PICK s \in SeqOf(Listed, MaxCkbCells) : ckbIter = Numbered(s)
    BY DEF Init
  <1>7. PICK r \in SeqOf(ListedUdt, MaxUdtCells) : udtIter = Numbered(r)
    BY DEF Init
  <1>8. /\ ckbIter \in Seq(CkbCell) /\ Len(ckbIter) \in Nat /\ Len(ckbIter) <= MaxCkbCells
        /\ \A k \in DOMAIN ckbIter : /\ ckbIter[k].cap \in CkbCells \cup GoneCells \cup {0}
                                     /\ ~ckbIter[k].typed => ckbIter[k].cap \in CkbCells \cup GoneCells
    BY <1>6, ListedCells
  <1>9. /\ udtIter \in Seq(UdtCell) /\ Len(udtIter) \in Nat /\ Len(udtIter) <= MaxUdtCells
        /\ \A k \in DOMAIN udtIter : /\ udtIter[k].udt \in UdtCells
                                     /\ \E x \in UdtExtra : udtIter[k].cap = UdtCap + x
    BY <1>7, ListedUdts
  <1>10. /\ Len(ckbIter) * ckb <= MaxCkbCells * ckb /\ Len(ckbIter) * ckb \in Nat
         /\ Len(udtIter) * cap <= MaxUdtCells * cap /\ Len(udtIter) * cap \in Nat
         /\ Len(udtIter) * udt <= MaxUdtCells * udt /\ Len(udtIter) * udt \in Nat
         /\ MaxCkbCells * ckb \in Nat /\ MaxUdtCells * cap \in Nat /\ MaxUdtCells * udt \in Nat
    BY <1>8, <1>9, Fewer
  <1>11. /\ d + UdtCap + MaxCkbCells * ckb + MaxUdtCells * cap < Word
         /\ c + UdtCap + UdtCap + Fee + ChangeCap < Word
         /\ o + 1 + MaxUdtCells * udt < Word
    BY DEF FitWord
  <1>12. WalletInv(ckb, cap, udt)
    <2>1. \A k \in DOMAIN ckbIter : /\ ckbIter[k].cap <= ckb
                                    /\ ~ckbIter[k].typed => ckbIter[k].cap >= ChangeCap
      <3>1. \A x \in CkbCells \cup GoneCells \cup {0} : x <= ckb
        BY StorageAssumption DEF FitWord
      <3>2. \A k \in DOMAIN ckbIter : ckbIter[k].cap <= ckb
        BY <1>8, <3>1, Zenon
      <3>3. \A k \in DOMAIN ckbIter : ~ckbIter[k].typed => ckbIter[k].cap >= ChangeCap
        BY <1>8, StorageAssumption, Zenon
      <3>. QED BY <3>2, <3>3
    <2>2. \A k \in DOMAIN udtIter : udtIter[k].cap <= cap /\ udtIter[k].udt <= udt
      BY <1>9 DEF FitWord
    <2>3. d \in Nat /\ ins.ckb \in Nat /\ ins.udt \in Nat
      BY <1>5 DEF Amounts
    <2>4. ins.ckb + Len(ckbIter) * ckb + Len(udtIter) * cap < Word
      <3>. DEFINE x == Len(ckbIter) * ckb
                  y == Len(udtIter) * cap
                  z == MaxCkbCells * ckb
                  w == MaxUdtCells * cap
      <3>1. x \in Nat /\ y \in Nat /\ z \in Nat /\ w \in Nat /\ x <= z /\ y <= w
        BY <1>10
      <3>2. d + UdtCap + z + w < Word
        BY <1>11
      <3>. HIDE DEF x, y, z, w
      <3>3. ins.ckb + x + y < Word
        BY <1>5, <2>3, <3>1, <3>2
      <3>. QED BY <3>3 DEF x, y
    <2>5. ins.udt + Len(udtIter) * udt < Word
      <3>. DEFINE y == Len(udtIter) * udt
                  w == MaxUdtCells * udt
      <3>1. y \in Nat /\ w \in Nat /\ y <= w /\ o + 1 + w < Word
        BY <1>10, <1>11
      <3>. HIDE DEF y, w
      <3>2. ins.udt + y < Word
        BY <1>2, <1>5, <2>3, <3>1
      <3>. QED BY <3>2 DEF y
    <2>. QED BY <2>1, <2>2, <2>4, <2>5 DEF WalletInv
  <1>13. /\ pc \in Early /\ provided = [ckb |-> 0, udt |-> 0] /\ required = provided
         /\ requested = 0 /\ needed = 0 /\ fetched = 0 /\ change = 0
    BY DEF Init, Early, NoChange
  <1>14. AmountTypes
    BY <1>2, <1>5, <1>13 DEF AmountTypes, Amounts
  <1>15. outs.ckb + UdtCap + Fee + ChangeCap < Word /\ outs.udt < Word
    <2>. DEFINE w == MaxUdtCells * udt
    <2>1. w \in Nat /\ o + 1 + w < Word
      BY <1>10, <1>11
    <2>. HIDE DEF w
    <2>2. outs.udt < Word
      BY <1>2, <2>1
    <2>3. outs.ckb + UdtCap + Fee + ChangeCap < Word
      BY <1>2, <1>11 DEF Amounts
    <2>. QED BY <2>2, <2>3
  <1>16. ins.udt = 0 \/ ins.udt >= outs.udt
    BY <1>2, <1>4, <1>5
  <1>17. pc \notin UdtPhase \cup CkbPhase \cup Paid \cup {"failed"}
    BY <1>13 DEF Early, UdtPhase, CkbPhase, Paid
  <1>. QED BY <1>8, <1>9, <1>12, <1>13, <1>14, <1>15, <1>16, <1>17
           DEF AmountInv, IterTypes, EarlyInv, UdtInv, CkbInv, PaidInv, PoorInv, NoChange,
               UdtPhase, CkbPhase, Paid
-----------------------------------------------------------------------------
(* What each step does to the amounts.                                     *)

(* The counts do not wrap around.                                          *)
LEMMA NoWrap ==
    ASSUME NEW ckb \in Nat, NEW cap \in Nat, NEW udt \in Nat,
           ins \in Amounts, IterTypes, WalletInv(ckb, cap, udt)
    PROVE  ins.ckb < Word /\ ins.udt < Word
  <1>1. ins.ckb \in Nat /\ ins.udt \in Nat /\ Len(ckbIter) \in Nat /\ Len(udtIter) \in Nat
    BY DEF Amounts, IterTypes
  <1>2. /\ Len(ckbIter) * ckb \in Nat /\ Len(udtIter) * cap \in Nat
        /\ Len(udtIter) * udt \in Nat
    BY <1>1, Fewer
  <1>3. /\ ins.ckb + Len(ckbIter) * ckb + Len(udtIter) * cap < Word
        /\ ins.udt + Len(udtIter) * udt < Word
    BY DEF WalletInv
  <1>. DEFINE x == Len(ckbIter) * ckb
              y == Len(udtIter) * cap
              z == Len(udtIter) * udt
  <1>4. /\ x \in Nat /\ y \in Nat /\ z \in Nat
        /\ ins.ckb + x + y < Word /\ ins.udt + z < Word
    BY <1>2, <1>3
  <1>. HIDE DEF x, y, z
  <1>. QED BY <1>1, <1>4

(* uint64 holds it.                                                        *)
LEMMA ModWord == ASSUME NEW n \in Nat, n < Word PROVE n % Word = n
  OBVIOUS

(* A cell taken from the wallet.                                           *)
LEMMA TakenCkb ==
    ASSUME NEW ckb \in Nat, NEW cap \in Nat, NEW udt \in Nat,
           ins \in Amounts, IterTypes, WalletInv(ckb, cap, udt),
           NextCell # 0, ckbIter' = Advanced, udtIter' = udtIter,
           ins' = [ins EXCEPT !.ckb = @ + ckbIter[NextCell].cap]
    PROVE  /\ ckbIter[NextCell].cap \in Nat /\ ckbIter[NextCell].cap >= ChangeCap
           /\ ins' \in Amounts /\ ins'.udt = ins.udt
           /\ ins'.ckb = ins.ckb + ckbIter[NextCell].cap
           /\ IterTypes' /\ WalletInv(ckb, cap, udt)'
  <1>. DEFINE c == ckbIter[NextCell].cap
  <1>1. ckbIter \in Seq(CkbCell) /\ udtIter \in Seq(UdtCell)
    BY DEF IterTypes
  <1>2. NextCell \in DOMAIN ckbIter /\ ~ckbIter[NextCell].typed
    BY <1>1, NextIsPlain
  <1>3. c \in Nat
    <2>1. ckbIter[NextCell] \in CkbCell
      BY <1>1, <1>2
    <2>. QED BY <2>1 DEF CkbCell
  <1>4. c <= ckb /\ c >= ChangeCap
    <2>1. c <= ckb
      BY <1>2 DEF WalletInv
    <2>2. c >= ChangeCap
      BY <1>2, Zenon DEF WalletInv
    <2>. QED BY <2>1, <2>2
  <1>5. /\ Advanced \in Seq(CkbCell) /\ Len(Advanced) \in Nat /\ Len(Advanced) < Len(ckbIter)
        /\ \A k \in DOMAIN Advanced : /\ k + NextCell \in DOMAIN ckbIter
                                      /\ Advanced[k] = ckbIter[k + NextCell]
    BY <1>1, AdvancedHas
  <1>6. ins' \in Amounts /\ ins'.udt = ins.udt /\ ins'.ckb = ins.ckb + c
    BY <1>3 DEF Amounts
  <1>7. IterTypes'
    BY <1>1, <1>5 DEF IterTypes
  <1>8. \A k \in DOMAIN Advanced : /\ Advanced[k].cap <= ckb
                                   /\ ~Advanced[k].typed => Advanced[k].cap >= ChangeCap
    <2>1. \A k \in DOMAIN ckbIter : /\ ckbIter[k].cap <= ckb
                                    /\ ~ckbIter[k].typed => ckbIter[k].cap >= ChangeCap
      BY DEF WalletInv
    <2>. QED BY <1>5, <2>1, Zenon
  <1>9. ins.ckb + c + Len(Advanced) * ckb + Len(udtIter) * cap < Word
    <2>1. Len(Advanced) * ckb + ckb <= Len(ckbIter) * ckb
      <3>1. Len(ckbIter) \in Nat
        BY <1>1
      <3>. QED BY <1>5, <3>1, Fewer
    <2>2. /\ Len(ckbIter) * ckb \in Nat /\ Len(Advanced) * ckb \in Nat
          /\ Len(udtIter) * cap \in Nat
      BY <1>1, <1>5, Fewer
    <2>3. ins.ckb + Len(ckbIter) * ckb + Len(udtIter) * cap < Word
      BY DEF WalletInv
    <2>. DEFINE x == Len(Advanced) * ckb
                y == Len(ckbIter) * ckb
                z == Len(udtIter) * cap
    <2>4. x + ckb <= y /\ x \in Nat /\ y \in Nat /\ z \in Nat /\ ins.ckb + y + z < Word
      BY <2>1, <2>2, <2>3
    <2>5. ins.ckb \in Nat
      BY DEF Amounts
    <2>. HIDE DEF x, y, z, c
    <2>6. ins.ckb + c + x + z < Word
      BY <1>3, <1>4, <2>4, <2>5, SMTT(30)
    <2>. QED BY <2>6 DEF x, z
  <1>. HIDE DEF c
  <1>10. WalletInv(ckb, cap, udt)'
    BY <1>6, <1>8, <1>9 DEF WalletInv
  <1>. QED BY <1>3, <1>4, <1>6, <1>7, <1>10 DEF c
(* A cell passed over.                                                     *)
LEMMA SkippedCkb ==
    ASSUME NEW ckb \in Nat, NEW cap \in Nat, NEW udt \in Nat,
           ins \in Amounts, IterTypes, WalletInv(ckb, cap, udt),
           NextCell # 0, ckbIter' = Advanced, udtIter' = udtIter, ins' = ins
    PROVE  IterTypes' /\ WalletInv(ckb, cap, udt)'
  <1>1. ckbIter \in Seq(CkbCell) /\ udtIter \in Seq(UdtCell)
    BY DEF IterTypes
  <1>2. /\ Advanced \in Seq(CkbCell) /\ Len(Advanced) \in Nat /\ Len(Advanced) < Len(ckbIter)
        /\ \A k \in DOMAIN Advanced : /\ k + NextCell \in DOMAIN ckbIter
                                      /\ Advanced[k] = ckbIter[k + NextCell]
    BY <1>1, AdvancedHas
  <1>3. IterTypes'
    BY <1>1, <1>2 DEF IterTypes
  <1>4. \A k \in DOMAIN Advanced : /\ Advanced[k].cap <= ckb
                                   /\ ~Advanced[k].typed => Advanced[k].cap >= ChangeCap
    <2>1. \A k \in DOMAIN ckbIter : /\ ckbIter[k].cap <= ckb
                                    /\ ~ckbIter[k].typed => ckbIter[k].cap >= ChangeCap
      BY DEF WalletInv
    <2>. QED BY <1>2, <2>1, Zenon
  <1>5. ins.ckb + Len(Advanced) * ckb + Len(udtIter) * cap < Word
    <2>. DEFINE x == Len(Advanced) * ckb
                y == Len(ckbIter) * ckb
                z == Len(udtIter) * cap
    <2>1. Len(ckbIter) \in Nat /\ Len(udtIter) \in Nat
      BY <1>1
    <2>2. x <= y /\ x \in Nat /\ y \in Nat /\ z \in Nat
      <3>1. Len(Advanced) <= Len(ckbIter)
        BY <1>2, <2>1
      <3>2. x <= y
        BY <1>2, <2>1, <3>1, Fewer
      <3>3. x \in Nat /\ y \in Nat /\ z \in Nat
        BY <1>2, <2>1, Fewer
      <3>. QED BY <3>2, <3>3
    <2>3. ins.ckb \in Nat /\ ins.ckb + y + z < Word
      BY DEF Amounts, WalletInv
    <2>. HIDE DEF x, y, z
    <2>4. ins.ckb + x + z < Word
      BY <2>2, <2>3
    <2>. QED BY <2>4 DEF x, z
  <1>. QED BY <1>3, <1>4, <1>5 DEF WalletInv

(* The wallet and the inputs left alone.                                   *)
LEMMA WalletKept ==
    ASSUME NEW ckb \in Nat, NEW cap \in Nat, NEW udt \in Nat,
           IterTypes, WalletInv(ckb, cap, udt), UNCHANGED <<ins, ckbIter, udtIter>>
    PROVE  IterTypes' /\ WalletInv(ckb, cap, udt)'
  BY DEF IterTypes, WalletInv

(* A wallet is as poor as before, and the target as it was.                *)
LEMMA PoorKept ==
    ASSUME UNCHANGED <<provided, required, ckbIter, udtIter>>
    PROVE  /\ NextCell' = NextCell /\ Poor' = Poor
           /\ needed' = needed => Wrapped' = Wrapped
  <1>1. NextCell' = NextCell
    BY DEF NextCell, SelectInSeq
  <1>. QED BY <1>1 DEF Poor, Wrapped

(* An answer that ends building, or a cell that is passed over.            *)
LEMMA EndAmounts ==
    ASSUME NEW ckb \in Nat, NEW cap \in Nat, NEW udt \in Nat, AmountInv(ckb, cap, udt),
           EmptyCkb \/ NilCell \/ EmptyUdt
    PROVE  AmountInv(ckb, cap, udt)'
  <1>1. /\ pc' \in {"failed", "panic"}
        /\ UNCHANGED <<ins, outs, provided, required, requested, needed, fetched, ckbIter, udtIter,
                       change>>
    BY DEF EmptyCkb, NilCell, EmptyUdt, Goto, iters
  <1>2. AmountTypes' /\ IterTypes' /\ WalletInv(ckb, cap, udt)'
    BY <1>1 DEF AmountInv, AmountTypes, IterTypes, WalletInv
  <1>3. pc' = "failed" => Poor
    <2>1. CASE NilCell
      BY <2>1 DEF NilCell, Goto
    <2>2. CASE EmptyUdt
      BY <2>2 DEF EmptyUdt, AmountInv, UdtInv, Poor
    <2>3. CASE EmptyCkb /\ pc \in {"token", "min"}
      <3>1. provided.ckb = 0 /\ required.ckb = 0 /\ NextCell = 0
        BY <2>3, NothingLeft DEF EmptyCkb, AmountInv, EarlyInv, Early
      <3>. QED BY <3>1 DEF Poor
    <2>4. CASE EmptyCkb /\ pc \in {"fetchCkb", "fetchMore"}
      <3>1. ~(provided.ckb >= required.ckb + ChangeCap)
        BY <2>4 DEF EmptyCkb, AmountInv, CkbInv, ChangePaid
      <3>2. provided.ckb \in Nat /\ required.ckb \in Nat
        BY DEF AmountInv, AmountTypes, Amounts
      <3>3. NextCell = 0
        BY <2>4, NothingLeft DEF EmptyCkb
      <3>. QED BY <3>1, <3>2, <3>3 DEF Poor
    <2>. QED BY <2>1, <2>2, <2>3, <2>4 DEF EmptyCkb, Fetching
  <1>4. PoorInv'
    BY <1>1, <1>3, PoorKept DEF PoorInv
  <1>5. EarlyInv' /\ UdtInv' /\ CkbInv' /\ PaidInv'
    BY <1>1 DEF EarlyInv, UdtInv, CkbInv, PaidInv, Early, UdtPhase, CkbPhase, Paid
  <1>. QED BY <1>2, <1>4, <1>5 DEF AmountInv

(* The token of an Open, the wallet cell of a last settlement.             *)
LEMMA TokenAmounts ==
    ASSUME NEW ckb \in Nat, NEW cap \in Nat, NEW udt \in Nat, AmountInv(ckb, cap, udt),
           TakeToken \/ SkipToken \/ TakeMin
    PROVE  AmountInv(ckb, cap, udt)'
  <1>1. /\ NextCell # 0 /\ ckbIter' = Advanced /\ udtIter' = udtIter
        /\ pc \in Early /\ pc' \in Early
        /\ UNCHANGED <<outs, provided, required, requested, needed, fetched, change>>
        /\ \/ ins' = ins
           \/ ins' = [ins EXCEPT !.ckb = @ + ckbIter[NextCell].cap]
    BY DEF TakeToken, SkipToken, TakeMin, AddInput, Goto, untaken, Early
  <1>2. /\ ins \in Amounts /\ ins' \in Amounts /\ ins'.udt = ins.udt
        /\ IterTypes' /\ WalletInv(ckb, cap, udt)'
    <2>1. CASE ins' = [ins EXCEPT !.ckb = @ + ckbIter[NextCell].cap]
      BY <1>1, <2>1, TakenCkb DEF AmountInv, AmountTypes
    <2>2. CASE ins' = ins
      BY <1>1, <2>2, SkippedCkb DEF AmountInv, AmountTypes
    <2>. QED BY <1>1, <2>1, <2>2
  <1>3. AmountTypes'
    BY <1>1, <1>2 DEF AmountInv, AmountTypes
  <1>4. EarlyInv'
    BY <1>1, <1>2 DEF AmountInv, EarlyInv
  <1>5. UdtInv' /\ CkbInv' /\ PaidInv' /\ PoorInv'
    BY <1>1 DEF UdtInv, CkbInv, PaidInv, PoorInv, Early, UdtPhase, CkbPhase, Paid
  <1>. QED BY <1>2, <1>3, <1>4, <1>5 DEF AmountInv

(* The first count of what the operation has and needs.                    *)
LEMMA GroupAmounts ==
    ASSUME NEW ckb \in Nat, NEW cap \in Nat, NEW udt \in Nat, AmountInv(ckb, cap, udt),
           InitializeScriptGroups
    PROVE  AmountInv(ckb, cap, udt)'
  <1>1. /\ pc = "groups" /\ pc \in Early
        /\ UNCHANGED <<ins, outs, requested, needed, fetched, ckbIter, udtIter, change>>
        /\ \/ pc' = "panic" /\ UNCHANGED <<provided, required>>
           \/ pc' = "balance" /\ Accumulate
    BY DEF InitializeScriptGroups, Goto, iters, Early
  <1>2. ins \in Amounts /\ outs \in Amounts /\ ins.udt < Word
    BY NoWrap DEF AmountInv, AmountTypes
  <1>3. outs.udt < Word /\ outs.ckb + UdtCap + Fee + ChangeCap < Word /\ change = NoChange
        /\ (ins.udt = 0 \/ ins.udt >= outs.udt)
    BY <1>1 DEF AmountInv, EarlyInv
  <1>4. CASE pc' = "panic"
    <2>1. AmountTypes' /\ IterTypes' /\ WalletInv(ckb, cap, udt)'
      BY <1>1, <1>4 DEF AmountInv, AmountTypes, IterTypes, WalletInv
    <2>2. EarlyInv' /\ UdtInv' /\ CkbInv' /\ PaidInv' /\ PoorInv'
      BY <1>4 DEF EarlyInv, UdtInv, CkbInv, PaidInv, PoorInv, Early, UdtPhase, CkbPhase, Paid
    <2>. QED BY <2>1, <2>2 DEF AmountInv
  <1>5. CASE pc' = "balance"
    <2>1. Accumulate
      BY <1>1, <1>5
    <2>2. provided' = ins
      <3>1. ins.udt % Word = ins.udt
        BY <1>2, ModWord DEF Amounts
      <3>2. provided' = [ins EXCEPT !.udt = ins.udt]
        BY <1>2, <2>1, <3>1 DEF Accumulate, Counted, Amounts
      <3>. QED BY <1>2, <3>2 DEF Amounts
    <2>3. required' = [ckb |-> outs.ckb + Fee, udt |-> outs.udt]
      <3>1. outs.udt % Word = outs.udt
        BY <1>2, <1>3, ModWord DEF Amounts
      <3>2. [outs EXCEPT !.ckb = @ + Fee] = [ckb |-> outs.ckb + Fee, udt |-> outs.udt]
        BY <1>2 DEF Amounts
      <3>. QED BY <2>1, <3>1, <3>2 DEF Accumulate, Counted
    <2>4. AmountTypes' /\ IterTypes' /\ WalletInv(ckb, cap, udt)'
      <3>1. provided' \in Amounts /\ required' \in Amounts
        BY <1>2, <2>2, <2>3 DEF Amounts
      <3>2. AmountTypes'
        BY <1>1, <1>5, <3>1 DEF AmountInv, AmountTypes, UdtPhase
      <3>. QED BY <1>1, <3>2, WalletKept DEF AmountInv
    <2>5. UdtInv'
      BY <1>1, <1>2, <1>3, <1>5, <2>2, <2>3 DEF UdtInv, UdtPhase, Amounts
    <2>6. EarlyInv' /\ CkbInv' /\ PaidInv' /\ PoorInv'
      BY <1>5 DEF EarlyInv, CkbInv, PaidInv, PoorInv, Early, CkbPhase, Paid
    <2>. QED BY <2>4, <2>5, <2>6 DEF AmountInv
  <1>. QED BY <1>1, <1>4, <1>5
(* The UDT change cell takes what the inputs hold beyond the outputs.      *)
LEMMA UdtChangeAmounts ==
    ASSUME NEW amount \in Nat, outs \in Amounts, required \in Amounts, UdtChange(amount)
    PROVE  /\ outs' \in Amounts /\ required' \in Amounts
           /\ outs'.ckb = outs.ckb + UdtCap /\ outs'.udt = outs.udt + amount
           /\ required'.ckb = required.ckb + UdtCap
  BY DEF UdtChange, WithUdtChange, Amounts

(* completeCKBCapacity begins with the UDT in balance, and with room left  *)
(* for the change cell.                                                    *)
LEMMA ToCkb ==
    ASSUME NEW ckb \in Nat, NEW cap \in Nat, NEW udt \in Nat, AmountInv(ckb, cap, udt),
           pc \in UdtPhase, pc' = "ckb", ins.udt \in Nat, outs.udt <= ins.udt,
           UNCHANGED <<ins, provided, requested, needed, fetched, ckbIter, udtIter, change>>,
           \/ ins.udt = outs.udt /\ UNCHANGED <<outs, required>>
           \/ UdtChange(ins.udt - outs.udt)
    PROVE  AmountInv(ckb, cap, udt)'
  <1>1. /\ ins \in Amounts /\ outs \in Amounts /\ provided \in Amounts /\ required \in Amounts
        /\ provided = ins /\ required.ckb = outs.ckb + Fee
        /\ outs.ckb + UdtCap + Fee + ChangeCap < Word /\ change = NoChange
    BY DEF AmountInv, AmountTypes, UdtInv
  <1>2. ins.udt - outs.udt \in Nat /\ outs.udt \in Nat /\ outs.ckb \in Nat
    BY <1>1 DEF Amounts
  <1>3. /\ outs' \in Amounts /\ required' \in Amounts
        /\ ins.udt = outs'.udt /\ required'.ckb = outs'.ckb + Fee
        /\ required'.ckb + ChangeCap < Word
    <2>1. CASE ins.udt = outs.udt /\ UNCHANGED <<outs, required>>
      BY <1>1, <1>2, <2>1
    <2>2. CASE UdtChange(ins.udt - outs.udt)
      BY <1>1, <1>2, <2>2, UdtChangeAmounts
    <2>. QED BY <2>1, <2>2
  <1>4. IterTypes' /\ WalletInv(ckb, cap, udt)'
    BY WalletKept DEF AmountInv
  <1>5. AmountTypes'
    BY <1>1, <1>3 DEF AmountInv, AmountTypes, CkbPhase
  <1>6. CkbInv'
    BY <1>1, <1>3 DEF CkbInv, CkbPhase, NoChange
  <1>7. EarlyInv' /\ UdtInv' /\ PaidInv' /\ PoorInv'
    BY DEF EarlyInv, UdtInv, PaidInv, PoorInv, Early, UdtPhase, Paid
  <1>. QED BY <1>4, <1>5, <1>6, <1>7 DEF AmountInv

(* A transaction that needs nothing, UDT that is provided or is to be      *)
(* fetched.                                                                *)
LEMMA BalanceAmounts ==
    ASSUME NEW ckb \in Nat, NEW cap \in Nat, NEW udt \in Nat, AmountInv(ckb, cap, udt),
           AlreadyBalanced \/ UdtNotRequired \/ UdtProvided \/ UdtShort
    PROVE  AmountInv(ckb, cap, udt)'
  <1>1. /\ pc = "balance" /\ pc \in UdtPhase
        /\ UNCHANGED <<ins, provided, ckbIter, udtIter, change>>
    BY DEF AlreadyBalanced, UdtNotRequired, UdtProvided, UdtShort, iters, UdtPhase
  <1>2. /\ ins \in Amounts /\ outs \in Amounts /\ required \in Amounts
        /\ requested \in Nat /\ needed \in Nat /\ fetched \in Nat /\ change \in Nat
        /\ provided = ins /\ required = [ckb |-> outs.ckb + Fee, udt |-> outs.udt]
        /\ outs.ckb + UdtCap + Fee + ChangeCap < Word /\ change = NoChange
        /\ provided.udt = 0 \/ provided.udt >= required.udt
    BY <1>1 DEF AmountInv, AmountTypes, UdtInv
  <1>3. required.udt = outs.udt /\ outs.udt \in Nat /\ ins.udt \in Nat
    BY <1>2 DEF Amounts
  <1>4. CASE AlreadyBalanced
    <2>1. /\ pc' = "process"
          /\ UNCHANGED <<outs, required, requested, needed, fetched>>
      BY <1>4 DEF AlreadyBalanced, Goto
    <2>2. ins.ckb = outs.ckb + Fee /\ ins.udt = outs.udt
      BY <1>2, <1>4 DEF AlreadyBalanced, EqualAssets
    <2>3. AmountTypes' /\ IterTypes' /\ WalletInv(ckb, cap, udt)'
      BY <1>1, <2>1, WalletKept DEF AmountInv, AmountTypes, Paid
    <2>4. PaidInv'
      BY <1>1, <1>2, <2>1, <2>2 DEF PaidInv, NoChange
    <2>5. EarlyInv' /\ UdtInv' /\ CkbInv' /\ PoorInv'
      BY <2>1 DEF EarlyInv, UdtInv, CkbInv, PoorInv, Early, UdtPhase, CkbPhase
    <2>. QED BY <2>3, <2>4, <2>5 DEF AmountInv
  <1>5. CASE UdtProvided
    <2>1. /\ pc' = "ckb" /\ UNCHANGED <<requested, needed, fetched>> /\ outs.udt <= ins.udt
          /\ IF ins.udt = outs.udt THEN UNCHANGED <<outs, required>>
             ELSE UdtChange(ins.udt - outs.udt)
      BY <1>2, <1>3, <1>5 DEF UdtProvided, Goto
    <2>. QED BY <1>1, <1>3, <2>1, ToCkb
  <1>6. CASE UdtShort
    <2>1. /\ UNCHANGED <<outs, required>> /\ requested' = required.udt - provided.udt
          /\ fetched' = 0 /\ provided.udt < required.udt
          /\ IF provided.udt < requested'
             THEN needed' = requested' - provided.udt /\ pc' = "fetchUdt"
             ELSE UNCHANGED needed /\ pc' = "udtFunded"
      BY <1>6 DEF UdtShort, Goto
    <2>2. provided.udt = 0
      BY <1>2, <1>3, <2>1
    <2>3. requested' = required.udt /\ needed' = required.udt /\ pc' = "fetchUdt"
      BY <1>3, <2>1, <2>2
    <2>4. IterTypes' /\ WalletInv(ckb, cap, udt)'
      BY <1>1, WalletKept DEF AmountInv
    <2>5. AmountTypes'
      BY <1>1, <1>2, <1>3, <2>1, <2>3 DEF AmountTypes, UdtPhase
    <2>6. UdtInv'
      BY <1>1, <1>2, <2>1, <2>2, <2>3 DEF UdtInv, NoChange
    <2>7. EarlyInv' /\ CkbInv' /\ PaidInv' /\ PoorInv'
      BY <2>3 DEF EarlyInv, CkbInv, PaidInv, PoorInv, Early, CkbPhase, Paid
    <2>. QED BY <2>4, <2>5, <2>6, <2>7 DEF AmountInv
  <1>7. CASE UdtNotRequired
    <2>1. /\ pc' = "ckb" /\ outs.udt = 0
          /\ UNCHANGED <<outs, required, requested, needed, fetched>>
      BY <1>7 DEF UdtNotRequired, Goto
    <2>2. AmountTypes' /\ IterTypes' /\ WalletInv(ckb, cap, udt)'
      BY <1>1, <2>1, WalletKept DEF AmountInv, AmountTypes, CkbPhase
    <2>3. required.ckb = outs.ckb + Fee /\ required.ckb + ChangeCap < Word
      BY <1>2 DEF Amounts
    <2>4. CkbInv'
      BY <1>1, <1>2, <2>1, <2>3 DEF CkbInv, NoChange
    <2>5. EarlyInv' /\ UdtInv' /\ PaidInv' /\ PoorInv'
      BY <2>1 DEF EarlyInv, UdtInv, PaidInv, PoorInv, Early, UdtPhase, Paid
    <2>. QED BY <2>2, <2>4, <2>5 DEF AmountInv
  <1>. QED BY <1>4, <1>5, <1>6, <1>7

(* A UDT cell is taken, and counted without wrapping around.               *)
LEMMA TakeUdtAmounts ==
    ASSUME NEW ckb \in Nat, NEW cap \in Nat, NEW udt \in Nat, AmountInv(ckb, cap, udt), TakeUdt
    PROVE  AmountInv(ckb, cap, udt)'
  <1>. DEFINE c == Head(udtIter)
  <1>1. /\ pc = "fetchUdt" /\ udtIter # << >> /\ pc \in UdtPhase
        /\ ins' = [ckb |-> ins.ckb + c.cap, udt |-> ins.udt + c.udt]
        /\ provided' = [ckb |-> provided.ckb + c.cap, udt |-> (provided.udt + c.udt) % Word]
        /\ fetched' = (fetched + c.udt) % Word
        /\ udtIter' = Tail(udtIter)
        /\ pc' = (IF fetched' >= needed \/ udtIter' = << >> THEN "udtFunded" ELSE "fetchUdt")
        /\ UNCHANGED <<outs, required, requested, needed, ckbIter, change>>
    BY DEF TakeUdt, Goto, UdtPhase
  <1>2. /\ ins \in Amounts /\ outs \in Amounts /\ required \in Amounts
        /\ requested \in Nat /\ needed \in Nat /\ change = NoChange
        /\ provided = ins /\ required = [ckb |-> outs.ckb + Fee, udt |-> outs.udt]
        /\ outs.ckb + UdtCap + Fee + ChangeCap < Word
        /\ requested = required.udt /\ needed = required.udt /\ fetched = provided.udt
    BY <1>1 DEF AmountInv, AmountTypes, UdtInv
  <1>3. ckbIter \in Seq(CkbCell) /\ udtIter \in Seq(UdtCell)
    BY DEF AmountInv, IterTypes
  <1>4. /\ 1 \in DOMAIN udtIter /\ c = udtIter[1] /\ Tail(udtIter) \in Seq(UdtCell)
        /\ Len(udtIter) \in Nat /\ Len(Tail(udtIter)) = Len(udtIter) - 1
        /\ \A k \in DOMAIN Tail(udtIter) : /\ k + 1 \in DOMAIN udtIter
                                           /\ Tail(udtIter)[k] = udtIter[k + 1]
    BY <1>1, <1>3
  <1>5. c.cap \in Nat /\ c.udt \in Nat
    <2>1. c \in UdtCell
      BY <1>3, <1>4
    <2>. QED BY <2>1 DEF UdtCell
  <1>6. c.cap <= cap /\ c.udt <= udt
    BY <1>4 DEF AmountInv, WalletInv
  <1>. HIDE DEF c
  <1>7. /\ ins.ckb \in Nat /\ ins.udt \in Nat
        /\ ins' \in Amounts /\ ins'.ckb = ins.ckb + c.cap /\ ins'.udt = ins.udt + c.udt
    <2>1. ins \in Amounts /\ ins' = [ckb |-> ins.ckb + c.cap, udt |-> ins.udt + c.udt]
      BY <1>1, <1>2
    <2>2. ins.ckb \in Nat /\ ins.udt \in Nat
      BY <2>1 DEF Amounts
    <2>. QED BY <1>5, <2>1, <2>2 DEF Amounts
  <1>. DEFINE L == Len(udtIter)
              T == Len(Tail(udtIter))
  <1>8. T \in Nat /\ L \in Nat /\ T < L
    BY <1>1, <1>3, <1>4
  <1>9. ins'.ckb + Len(ckbIter) * ckb + T * cap < Word
    <2>. DEFINE x == Len(ckbIter) * ckb
                y == T * cap
                z == L * cap
    <2>1. Len(ckbIter) \in Nat
      BY <1>3
    <2>2. y + cap <= z
      BY <1>8, Fewer
    <2>3. x \in Nat /\ y \in Nat /\ z \in Nat
      BY <1>8, <2>1, Fewer
    <2>4. ins.ckb + x + z < Word
      BY DEF AmountInv, WalletInv
    <2>. HIDE DEF x, y, z, T, L
    <2>5. ins'.ckb + x + y < Word
      BY <1>5, <1>6, <1>7, <2>2, <2>3, <2>4
    <2>. QED BY <2>5 DEF x, y
  <1>10. ins'.udt + T * udt < Word /\ ins'.udt < Word
    <2>. DEFINE y == T * udt
                z == L * udt
    <2>1. y + udt <= z
      BY <1>8, Fewer
    <2>2. y \in Nat /\ z \in Nat
      BY <1>8, Fewer
    <2>3. ins.udt + z < Word
      BY DEF AmountInv, WalletInv
    <2>. HIDE DEF y, z, T, L
    <2>4. ins'.udt + y < Word /\ ins'.udt < Word
      BY <1>5, <1>6, <1>7, <2>1, <2>2, <2>3
    <2>. QED BY <2>4 DEF y
  <1>. HIDE DEF L
  <1>11. \A k \in DOMAIN Tail(udtIter) : /\ Tail(udtIter)[k].cap <= cap
                                         /\ Tail(udtIter)[k].udt <= udt
    <2>1. \A k \in DOMAIN udtIter : udtIter[k].cap <= cap /\ udtIter[k].udt <= udt
      BY DEF AmountInv, WalletInv
    <2>. QED BY <1>4, <2>1, Zenon
  <1>12. WalletInv(ckb, cap, udt)'
    <2>1. udtIter' = Tail(udtIter) /\ ckbIter' = ckbIter
      BY <1>1
    <2>2. \A k \in DOMAIN ckbIter : /\ ckbIter[k].cap <= ckb
                                    /\ ~ckbIter[k].typed => ckbIter[k].cap >= ChangeCap
      BY DEF AmountInv, WalletInv
    <2>. QED BY <1>9, <1>10, <1>11, <2>1, <2>2 DEF WalletInv
  <1>. HIDE DEF T
  <1>13. ins'.udt % Word = ins'.udt
    BY <1>7, <1>10, ModWord DEF Amounts
  <1>14. provided' = ins' /\ fetched' = ins'.udt /\ fetched' \in Nat
    BY <1>1, <1>2, <1>7, <1>13 DEF Amounts
  <1>15. IterTypes'
    BY <1>1, <1>3, <1>4 DEF IterTypes
  <1>16. AmountTypes'
    <2>1. pc' \in UdtPhase
      BY <1>1 DEF UdtPhase
    <2>. QED BY <1>1, <1>7, <1>14, <2>1 DEF AmountInv, AmountTypes
  <1>17. UdtInv'
    <2>1. pc' = "fetchUdt" => provided'.udt < required.udt
      BY <1>1, <1>2, <1>7, <1>14 DEF Amounts
    <2>2. pc' = "udtFunded" => provided'.udt >= required.udt \/ udtIter' = << >>
      BY <1>1, <1>2, <1>14
    <2>3. pc' \in {"fetchUdt", "udtFunded"}
      BY <1>1
    <2>. QED BY <1>1, <1>2, <1>14, <2>1, <2>2, <2>3 DEF UdtInv, NoChange
  <1>18. EarlyInv' /\ CkbInv' /\ PaidInv' /\ PoorInv'
    BY <1>1 DEF EarlyInv, CkbInv, PaidInv, PoorInv, Early, CkbPhase, Paid
  <1>. QED BY <1>12, <1>15, <1>16, <1>17, <1>18 DEF AmountInv

(* Enough UDT was fetched, or all that there is.                           *)
LEMMA UdtFundedAmounts ==
    ASSUME NEW ckb \in Nat, NEW cap \in Nat, NEW udt \in Nat, AmountInv(ckb, cap, udt), UdtFunded
    PROVE  AmountInv(ckb, cap, udt)'
  <1>1. /\ pc = "udtFunded" /\ pc \in UdtPhase
        /\ UNCHANGED <<ins, provided, requested, needed, fetched, ckbIter, udtIter, change>>
    BY DEF UdtFunded, iters, UdtPhase
  <1>2. /\ ins \in Amounts /\ outs \in Amounts /\ provided = ins
        /\ required = [ckb |-> outs.ckb + Fee, udt |-> outs.udt]
        /\ requested = required.udt
        /\ provided.udt >= required.udt \/ udtIter = << >>
    BY <1>1 DEF AmountInv, AmountTypes, UdtInv
  <1>3. /\ requested = outs.udt /\ required.udt = outs.udt /\ outs.udt \in Nat
        /\ ins.udt \in Nat /\ ins.udt < Word
    <2>1. ins.udt < Word
      BY <1>2, NoWrap DEF AmountInv
    <2>. QED BY <1>2, <2>1 DEF Amounts
  <1>4. CASE NotEnoughUdt
    <2>1. pc' = "failed" /\ UNCHANGED <<outs, required>>
      BY <1>4 DEF UdtFunded, Goto
    <2>2. provided.udt < required.udt /\ udtIter = << >>
      BY <1>2, <1>3, <1>4 DEF NotEnoughUdt
    <2>3. Poor
      BY <2>2 DEF Poor
    <2>6. PoorInv'
      BY <1>1, <2>1, <2>3, PoorKept DEF PoorInv
    <2>4. AmountTypes' /\ IterTypes' /\ WalletInv(ckb, cap, udt)'
      BY <1>1, <2>1, WalletKept DEF AmountInv, AmountTypes
    <2>5. EarlyInv' /\ UdtInv' /\ CkbInv' /\ PaidInv'
      BY <2>1 DEF EarlyInv, UdtInv, CkbInv, PaidInv, Early, UdtPhase, CkbPhase, Paid
    <2>. QED BY <2>4, <2>5, <2>6 DEF AmountInv
  <1>5. CASE ~NotEnoughUdt
    <2>1. outs.udt <= ins.udt
      BY <1>2, <1>3, <1>5 DEF NotEnoughUdt
    <2>2. Minus(ins.udt, outs.udt) = ins.udt - outs.udt
      <3>1. ins.udt < outs.udt + Word
        BY <1>3
      <3>. QED BY <1>3, <2>1, <3>1, MinusIsExact
    <2>3. /\ pc' = "ckb"
          /\ IF ins.udt = outs.udt THEN UNCHANGED <<outs, required>>
             ELSE UdtChange(ins.udt - outs.udt)
      BY <1>2, <1>3, <1>5, <2>2 DEF UdtFunded, Goto
    <2>. QED BY <1>1, <1>3, <2>1, <2>3, ToCkb
  <1>. QED BY <1>4, <1>5
(* completeCKBCapacity: done, or a first round of fetching, whose target is*)
(* what is missing, or wraps around if only the change cell is unpaid.     *)
LEMMA CompleteAmounts ==
    ASSUME NEW ckb \in Nat, NEW cap \in Nat, NEW udt \in Nat, AmountInv(ckb, cap, udt),
           Complete \/ Again
    PROVE  AmountInv(ckb, cap, udt)'
  <1>1. /\ pc \in {"ckb", "again"} /\ pc \in CkbPhase
        /\ UNCHANGED <<ins, outs, provided, required, requested, ckbIter, udtIter, change>>
    BY DEF Complete, Again, ckbStart, iters, CkbPhase
  <1>2. /\ provided \in Amounts /\ required \in Amounts /\ needed \in Nat /\ fetched \in Nat
        /\ provided.ckb = ins.ckb /\ required.ckb = outs.ckb + Fee
        /\ (outs.udt # 0 => ins.udt = outs.udt)
        /\ required.ckb + ChangeCap < Word /\ change = NoChange
    BY <1>1 DEF AmountInv, AmountTypes, CkbInv
  <1>3. provided.ckb \in Nat /\ required.ckb \in Nat
    BY <1>2 DEF Amounts
  <1>4. IterTypes' /\ WalletInv(ckb, cap, udt)'
    BY <1>1, WalletKept DEF AmountInv
  <1>5. /\ pc' \in {"change", "fetchCkb", "fetchMore"} /\ needed' \in Nat /\ fetched' \in Nat
        /\ pc' = "change" => ChangePaid
        /\ pc' # "change" => ~ChangePaid
        /\ pc' = "fetchCkb" => provided.ckb + needed' >= required.ckb + fetched'
        /\ pc' = "fetchMore" => provided.ckb >= required.ckb \/ ckbIter = << >>
    <2>1. CASE ChangePaid
      <3>1. pc' = "change" /\ UNCHANGED <<needed, fetched>>
        BY <2>1 DEF Complete, Again, Goto
      <3>. QED BY <1>2, <2>1, <3>1
    <2>2. CASE ~ChangePaid /\ Complete
      <3>1. pc' = "fetchCkb" /\ needed' = Minus(required.ckb, provided.ckb) /\ fetched' = 0
        BY <2>2 DEF Complete, Goto
      <3>2. needed' \in Nat
        BY <1>3, <3>1, MinusIsExact
      <3>3. provided.ckb + needed' >= required.ckb
        <4>1. CASE provided.ckb <= required.ckb
          <5>1. required.ckb < provided.ckb + Word
            BY <1>2, <1>3
          <5>2. needed' = required.ckb - provided.ckb
            BY <1>3, <3>1, <4>1, <5>1, MinusIsExact
          <5>. QED BY <1>3, <5>2
        <4>2. CASE ~(provided.ckb <= required.ckb)
          BY <1>3, <3>2, <4>2
        <4>. QED BY <4>1, <4>2
      <3>. QED BY <1>3, <2>2, <3>1, <3>2, <3>3
    <2>3. CASE ~ChangePaid /\ Again
      <3>1. /\ pc = "again" /\ pc' = "fetchMore" /\ fetched' = 0
            /\ needed' = required.ckb + ChangeCap - provided.ckb
        BY <2>3 DEF Again, Goto
      <3>2. needed' \in Nat
        BY <1>3, <2>3, <3>1 DEF ChangePaid
      <3>3. provided.ckb >= required.ckb \/ ckbIter = << >>
        BY <3>1 DEF AmountInv, CkbInv
      <3>. QED BY <2>3, <3>1, <3>2, <3>3
    <2>. QED BY <2>1, <2>2, <2>3
  <1>6. ChangePaid' = ChangePaid
    BY <1>1 DEF ChangePaid
  <1>7. AmountTypes'
    BY <1>1, <1>5 DEF AmountInv, AmountTypes, CkbPhase
  <1>8. CkbInv'
    BY <1>1, <1>2, <1>5, <1>6 DEF CkbInv, NoChange
  <1>9. EarlyInv' /\ UdtInv' /\ PaidInv' /\ PoorInv'
    BY <1>5 DEF EarlyInv, UdtInv, PaidInv, PoorInv, Early, UdtPhase, Paid
  <1>. QED BY <1>4, <1>7, <1>8, <1>9 DEF AmountInv

(* A plain cell is taken: the first round ends with what is required, and  *)
(* the second with its first cell, for it pays for the change cell.        *)
LEMMA TakeCkbAmounts ==
    ASSUME NEW ckb \in Nat, NEW cap \in Nat, NEW udt \in Nat, AmountInv(ckb, cap, udt), TakeCkb
    PROVE  AmountInv(ckb, cap, udt)'
  <1>. DEFINE c == ckbIter[NextCell].cap
  <1>1. /\ pc \in {"fetchCkb", "fetchMore"} /\ pc \in CkbPhase /\ NextCell # 0
        /\ ins' = [ins EXCEPT !.ckb = @ + c]
        /\ provided' = [provided EXCEPT !.ckb = @ + c]
        /\ fetched' = fetched + c
        /\ ckbIter' = Advanced /\ udtIter' = udtIter
        /\ pc' = (IF fetched' < needed /\ ckbIter' # << >> THEN pc
                  ELSE IF pc = "fetchCkb" THEN "again" ELSE "change")
        /\ UNCHANGED <<outs, required, requested, needed, change>>
    BY DEF TakeCkb, Goto, CkbPhase
  <1>2. /\ ins \in Amounts /\ outs \in Amounts /\ provided \in Amounts /\ required \in Amounts
        /\ requested \in Nat /\ needed \in Nat /\ fetched \in Nat /\ change \in Nat
        /\ provided.ckb = ins.ckb /\ required.ckb = outs.ckb + Fee
        /\ (outs.udt # 0 => ins.udt = outs.udt)
        /\ required.ckb + ChangeCap < Word /\ change = NoChange
        /\ pc = "fetchCkb" => provided.ckb + needed >= required.ckb + fetched
        /\ pc = "fetchMore" => provided.ckb >= required.ckb \/ ckbIter = << >>
    BY <1>1 DEF AmountInv, AmountTypes, CkbInv
  <1>3. /\ c \in Nat /\ c >= ChangeCap
        /\ ins' \in Amounts /\ ins'.udt = ins.udt /\ ins'.ckb = ins.ckb + c
        /\ IterTypes' /\ WalletInv(ckb, cap, udt)'
    BY <1>1, <1>2, TakenCkb DEF AmountInv
  <1>. HIDE DEF c
  <1>4. /\ provided.ckb \in Nat /\ required.ckb \in Nat
        /\ provided' \in Amounts /\ provided'.ckb = provided.ckb + c
    <2>1. provided \in Amounts /\ required \in Amounts /\ provided' = [provided EXCEPT !.ckb = @ + c]
      BY <1>1, <1>2
    <2>2. provided.ckb \in Nat /\ required.ckb \in Nat
      BY <2>1 DEF Amounts
    <2>. QED BY <1>3, <2>1, <2>2 DEF Amounts
  <1>5. pc' \in {"fetchCkb", "fetchMore", "again", "change"}
    BY <1>1
  <1>6. ckbIter # << >>
    <2>1. NextCell \in 1 .. Len(ckbIter)
      BY <1>1, NextIsPlain DEF AmountInv, IterTypes
    <2>. QED BY <2>1
  <1>7. AmountTypes'
    <2>1. /\ outs' = outs /\ required' = required /\ requested' = requested
          /\ needed' = needed /\ change' = change /\ fetched' = fetched + c
      BY <1>1
    <2>2. fetched' \in Nat
      BY <1>2, <1>3, <2>1
    <2>3. pc' \in CkbPhase
      BY <1>5 DEF CkbPhase
    <2>4. /\ outs' \in Amounts /\ required' \in Amounts /\ requested' \in Nat
          /\ needed' \in Nat /\ change' \in Nat
      BY <1>2, <2>1
    <2>. QED BY <1>3, <1>4, <2>2, <2>3, <2>4 DEF AmountTypes
  <1>8. pc' \in {"fetchCkb", "again"} => pc = "fetchCkb"
    BY <1>1
  <1>9. pc = "fetchCkb" => provided'.ckb + needed >= required.ckb + fetched'
    <2>1. fetched' = fetched + c /\ fetched \in Nat /\ needed \in Nat
      BY <1>1, <1>2
    <2>2. pc = "fetchCkb" => provided.ckb + needed >= required.ckb + fetched
      BY <1>2
    <2>. QED BY <1>3, <1>4, <2>1, <2>2
  <1>10. pc' = "again" => provided'.ckb >= required.ckb \/ ckbIter' = << >>
    <2>1. SUFFICES ASSUME pc' = "again", ckbIter' # << >> PROVE provided'.ckb >= required.ckb
      OBVIOUS
    <2>2. fetched' \in Nat /\ needed \in Nat /\ ~(fetched' < needed) /\ provided'.ckb \in Nat
      <3>1. ~(fetched' < needed)
        BY <1>1, <2>1
      <3>2. fetched' \in Nat /\ needed \in Nat
        BY <1>2, <1>7 DEF AmountTypes
      <3>3. provided'.ckb \in Nat
        BY <1>3, <1>4
      <3>. QED BY <3>1, <3>2, <3>3
    <2>3. provided'.ckb + needed >= required.ckb + fetched'
      BY <1>8, <1>9, <2>1
    <2>. QED BY <1>4, <2>2, <2>3
  <1>11. pc = "fetchMore" => provided'.ckb >= required.ckb + ChangeCap
    BY <1>2, <1>3, <1>4, <1>6
  <1>12. pc' \in {"fetchMore", "change"} => pc = "fetchMore"
    BY <1>1
  <1>13. pc' \in {"fetchCkb", "fetchMore"} => ckbIter' # << >>
    BY <1>1
  <1>14. required' = required /\ needed' = needed /\ outs' = outs
    BY <1>1
  <1>15. CkbInv'
    <2>1. pc' = "change" => ChangePaid'
      BY <1>11, <1>12, <1>14 DEF ChangePaid
    <2>2. pc' = "fetchMore" => provided'.ckb >= required.ckb
      <3>1. required.ckb \in Nat /\ provided'.ckb \in Nat
        BY <1>3, <1>4
      <3>. QED BY <1>11, <1>12, <3>1
    <2>3. /\ provided'.ckb = ins'.ckb /\ required'.ckb = outs'.ckb + Fee
          /\ (outs'.udt # 0 => ins'.udt = outs'.udt)
          /\ required'.ckb + ChangeCap < Word /\ change' = NoChange
      BY <1>1, <1>2, <1>3, <1>4
    <2>. QED BY <1>5, <1>8, <1>9, <1>10, <1>13, <1>14, <2>1, <2>2, <2>3 DEF CkbInv, NoChange
  <1>16. EarlyInv' /\ UdtInv' /\ PaidInv' /\ PoorInv'
    BY <1>5 DEF EarlyInv, UdtInv, PaidInv, PoorInv, Early, UdtPhase, Paid
  <1>. QED BY <1>3, <1>7, <1>15, <1>16 DEF AmountInv

(* The change cell takes what is left.                                     *)
LEMMA ChangeAmounts ==
    ASSUME NEW ckb \in Nat, NEW cap \in Nat, NEW udt \in Nat, AmountInv(ckb, cap, udt), SetChange
    PROVE  AmountInv(ckb, cap, udt)'
  <1>1. /\ pc = "change" /\ pc \in CkbPhase /\ pc' = "process"
        /\ change' = Minus(provided.ckb, required.ckb)
        /\ outs' = [outs EXCEPT !.ckb = @ + change']
        /\ UNCHANGED <<ins, provided, required, requested, needed, fetched, ckbIter, udtIter>>
    BY DEF SetChange, Goto, iters, CkbPhase
  <1>2. /\ ins \in Amounts /\ outs \in Amounts /\ provided \in Amounts /\ required \in Amounts
        /\ provided.ckb = ins.ckb /\ required.ckb = outs.ckb + Fee
        /\ (outs.udt # 0 => ins.udt = outs.udt)
        /\ provided.ckb >= required.ckb + ChangeCap
    BY <1>1 DEF AmountInv, AmountTypes, CkbInv, ChangePaid
  <1>3. ins.ckb < Word
    BY <1>2, NoWrap DEF AmountInv
  <1>4. provided.ckb \in Nat /\ required.ckb \in Nat /\ outs.ckb \in Nat /\ outs.udt \in Nat
    BY <1>2 DEF Amounts
  <1>5. change' = provided.ckb - required.ckb
    <2>1. required.ckb <= provided.ckb /\ provided.ckb < required.ckb + Word
      BY <1>2, <1>3, <1>4
    <2>. QED BY <1>1, <1>4, <2>1, MinusIsExact
  <1>6. change' \in Nat /\ change' >= ChangeCap
    BY <1>2, <1>4, <1>5
  <1>7. outs' \in Amounts /\ outs'.ckb = outs.ckb + change' /\ outs'.udt = outs.udt
    BY <1>1, <1>2, <1>4, <1>6 DEF Amounts
  <1>8. ins.ckb = outs'.ckb + Fee
    BY <1>2, <1>4, <1>5, <1>7
  <1>9. AmountTypes' /\ IterTypes' /\ WalletInv(ckb, cap, udt)'
    BY <1>1, <1>6, <1>7, WalletKept DEF AmountInv, AmountTypes, Paid
  <1>10. PaidInv'
    BY <1>1, <1>2, <1>6, <1>7, <1>8 DEF PaidInv
  <1>11. EarlyInv' /\ UdtInv' /\ CkbInv' /\ PoorInv'
    BY <1>1 DEF EarlyInv, UdtInv, CkbInv, PoorInv, Early, UdtPhase, CkbPhase
  <1>. QED BY <1>9, <1>10, <1>11 DEF AmountInv

(* Witnesses and the fee: the change cell pays it.                         *)
LEMMA FinishAmounts ==
    ASSUME NEW ckb \in Nat, NEW cap \in Nat, NEW udt \in Nat, AmountInv(ckb, cap, udt),
           ProcessInputs \/ HandleCKBFee
    PROVE  AmountInv(ckb, cap, udt)'
  <1>1. /\ pc \in Paid
        /\ UNCHANGED <<ins, outs, provided, required, requested, needed, fetched, ckbIter, udtIter,
                       change>>
    BY DEF ProcessInputs, HandleCKBFee, iters, Paid
  <1>2. /\ ins.ckb = outs.ckb + Fee /\ (outs.udt # 0 => ins.udt = outs.udt)
        /\ change = NoChange \/ change >= ChangeCap
        /\ change \in Nat
    BY <1>1 DEF AmountInv, PaidInv, AmountTypes
  <1>3. ~(change # NoChange /\ change <= Fee)
    BY <1>2
  <1>4. pc' \in {"fee", "panic", "built"}
    BY <1>3 DEF ProcessInputs, HandleCKBFee, Goto
  <1>5. AmountTypes' /\ IterTypes' /\ WalletInv(ckb, cap, udt)'
    BY <1>1, <1>4, WalletKept DEF AmountInv, AmountTypes, Paid
  <1>6. PaidInv'
    BY <1>1, <1>2 DEF PaidInv, NoChange
  <1>7. EarlyInv' /\ UdtInv' /\ CkbInv' /\ PoorInv'
    BY <1>4 DEF EarlyInv, UdtInv, CkbInv, PoorInv, Early, UdtPhase, CkbPhase
  <1>. QED BY <1>5, <1>6, <1>7 DEF AmountInv

(* Every step of building keeps the accounts.                              *)
LEMMA StepAmounts ==
    ASSUME NEW ckb \in Nat, NEW cap \in Nat, NEW udt \in Nat
    PROVE  AmountInv(ckb, cap, udt) /\ [Next]_vars => AmountInv(ckb, cap, udt)'
  <1>1. SUFFICES ASSUME AmountInv(ckb, cap, udt), [Next]_vars PROVE AmountInv(ckb, cap, udt)'
    OBVIOUS
  <1>2. CASE UNCHANGED vars
    <2> USE <1>1, <1>2 DEF vars, body, iters, AmountInv
    <2>1. AmountTypes' /\ IterTypes' /\ WalletInv(ckb, cap, udt)'
      BY DEF AmountTypes, IterTypes, WalletInv
    <2>2. EarlyInv' /\ UdtInv' /\ PaidInv'
      BY DEF EarlyInv, UdtInv, PaidInv
    <2>3. CkbInv'
      BY DEF CkbInv, ChangePaid
    <2>4. PoorInv'
      BY DEF PoorInv, Poor, NextCell, SelectInSeq
    <2>. QED BY <2>1, <2>2, <2>3, <2>4
  <1>3. CASE EmptyCkb \/ NilCell \/ EmptyUdt
    BY <1>1, <1>3, EndAmounts
  <1>4. CASE TakeToken \/ SkipToken \/ TakeMin
    BY <1>1, <1>4, TokenAmounts
  <1>5. CASE InitializeScriptGroups
    BY <1>1, <1>5, GroupAmounts
  <1>6. CASE AlreadyBalanced \/ UdtNotRequired \/ UdtProvided \/ UdtShort
    BY <1>1, <1>6, BalanceAmounts
  <1>7. CASE TakeUdt
    BY <1>1, <1>7, TakeUdtAmounts
  <1>8. CASE UdtFunded
    BY <1>1, <1>8, UdtFundedAmounts
  <1>9. CASE Complete \/ Again
    BY <1>1, <1>9, CompleteAmounts
  <1>10. CASE TakeCkb
    BY <1>1, <1>10, TakeCkbAmounts
  <1>11. CASE SetChange
    BY <1>1, <1>11, ChangeAmounts
  <1>12. CASE ProcessInputs \/ HandleCKBFee
    BY <1>1, <1>12, FinishAmounts
  <1>. QED BY <1>1, <1>2, <1>3, <1>4, <1>5, <1>6, <1>7, <1>8, <1>9, <1>10, <1>11, <1>12 DEF Next

(* A transaction that is built pays exactly its fee and conserves a UDT it *)
(* has an output for, by whichever path Build balanced it.                 *)
THEOREM BuiltInBalance == ASSUME AmountsFit PROVE Spec => []Balanced
  <1>1. PICK ckb \in Nat, cap \in Nat, udt \in Nat : FitWord(ckb, cap, udt)
    BY DEF AmountsFit
  <1>2. Init => AmountInv(ckb, cap, udt)
    BY <1>1, InitAmounts
  <1>3. AmountInv(ckb, cap, udt) /\ [Next]_vars => AmountInv(ckb, cap, udt)'
    BY StepAmounts
  <1>4. AmountInv(ckb, cap, udt) => Balanced
    BY DEF AmountInv, PaidInv, Paid, Balanced
  <1>. QED BY <1>2, <1>3, <1>4, PTL DEF Spec

(* The change cell of a transaction that is built pays for its storage,    *)
(* though the second round of fetching may end with an empty wallet.       *)
THEOREM ChangeStored == ASSUME AmountsFit PROVE Spec => []ChangeIsStorable
  <1>1. PICK ckb \in Nat, cap \in Nat, udt \in Nat : FitWord(ckb, cap, udt)
    BY DEF AmountsFit
  <1>2. Init => AmountInv(ckb, cap, udt)
    BY <1>1, InitAmounts
  <1>3. AmountInv(ckb, cap, udt) /\ [Next]_vars => AmountInv(ckb, cap, udt)'
    BY StepAmounts
  <1>4. AmountInv(ckb, cap, udt) => ChangeIsStorable
    BY DEF AmountInv, PaidInv, Paid, ChangeIsStorable
  <1>. QED BY <1>2, <1>3, <1>4, PTL DEF Spec

(* A cell is taken: in the first round what is counted grows as the target *)
(* is approached, so the change cell stays unpaid while fetching goes on;  *)
(* the second round takes one cell.                                        *)
LEMMA TakeCkbRound ==
    ASSUME NEW ckb \in Nat, NEW cap \in Nat, NEW udt \in Nat, AmountInv(ckb, cap, udt),
           RoundInv, TakeCkb
    PROVE  RoundInv'
  <1>. DEFINE c == ckbIter[NextCell].cap
  <1>1. /\ pc \in {"fetchCkb", "fetchMore"} /\ pc \in CkbPhase /\ NextCell # 0
        /\ ins' = [ins EXCEPT !.ckb = @ + c]
        /\ provided' = [provided EXCEPT !.ckb = @ + c]
        /\ fetched' = fetched + c
        /\ ckbIter' = Advanced /\ udtIter' = udtIter
        /\ pc' = (IF fetched' < needed /\ ckbIter' # << >> THEN pc
                  ELSE IF pc = "fetchCkb" THEN "again" ELSE "change")
        /\ UNCHANGED <<required, needed>>
    BY DEF TakeCkb, Goto, CkbPhase
  <1>2. /\ provided \in Amounts /\ required \in Amounts /\ ins \in Amounts
        /\ needed \in Nat /\ fetched \in Nat
    BY DEF AmountInv, AmountTypes
  <1>3. c \in Nat /\ c >= ChangeCap
    BY <1>1, <1>2, TakenCkb DEF AmountInv
  <1>. HIDE DEF c
  <1>4. /\ provided.ckb \in Nat /\ required.ckb \in Nat
        /\ provided'.ckb = provided.ckb + c /\ provided'.ckb \in Nat
    <2>1. provided \in Amounts /\ required \in Amounts /\ provided' = [provided EXCEPT !.ckb = @ + c]
      BY <1>1, <1>2
    <2>. QED BY <1>3, <2>1 DEF Amounts
  <1>5. pc' # "panic"
    BY <1>1
  <1>6. CASE pc' = "fetchCkb"
    <2>1. pc = "fetchCkb" /\ fetched' < needed
      BY <1>1, <1>6
    <2>2. CASE needed > Word - ChangeCap
      BY <1>1, <1>6, <2>2 DEF RoundInv
    <2>3. CASE provided.ckb + needed = required.ckb + fetched
      <3>1. provided'.ckb + needed = required.ckb + fetched'
        <4>. DEFINE p == provided.ckb
                    r == required.ckb
        <4>1. /\ p \in Nat /\ r \in Nat /\ fetched \in Nat /\ needed \in Nat
              /\ p + needed = r + fetched
          BY <1>2, <1>4, <2>3
        <4>. HIDE DEF p, r
        <4>2. (p + c) + needed = r + (fetched + c)
          BY <1>3, <4>1
        <4>3. provided'.ckb = p + c /\ fetched' = fetched + c
          BY <1>1, <1>4 DEF p
        <4>. QED BY <4>2, <4>3 DEF r
      <3>2. provided'.ckb < required.ckb
        <4>1. fetched' \in Nat /\ needed \in Nat
          BY <1>1, <1>2, <1>3
        <4>. QED BY <1>4, <2>1, <3>1, <4>1
      <3>3. ~(provided'.ckb >= required.ckb + ChangeCap)
        BY <1>4, <3>2
      <3>. QED BY <1>1, <1>6, <3>1, <3>3 DEF RoundInv, ChangePaid
    <2>. QED BY <2>1, <2>2, <2>3 DEF RoundInv
  <1>7. pc' # "fetchMore"
    <2>1. SUFFICES ASSUME pc = "fetchMore" PROVE ~(fetched' < needed)
      BY <1>1
    <2>2. needed <= ChangeCap
      BY <1>1, <2>1, NothingLeft DEF RoundInv
    <2>. QED BY <1>1, <1>2, <1>3, <2>2
  <1>. QED BY <1>5, <1>6, <1>7 DEF RoundInv

(* A round begins with the change cell unpaid.                             *)
LEMMA StartRound ==
    ASSUME NEW ckb \in Nat, NEW cap \in Nat, NEW udt \in Nat, AmountInv(ckb, cap, udt),
           Complete \/ Again
    PROVE  RoundInv'
  <1>1. /\ pc \in {"ckb", "again"} /\ pc \in CkbPhase
        /\ UNCHANGED <<ins, outs, provided, required, ckbIter, udtIter>>
    BY DEF Complete, Again, ckbStart, iters, CkbPhase
  <1>2. /\ provided.ckb \in Nat /\ required.ckb \in Nat /\ required.ckb + ChangeCap < Word
    BY <1>1 DEF AmountInv, AmountTypes, CkbInv, Amounts
  <1>3. ChangePaid' = ChangePaid
    BY <1>1 DEF ChangePaid
  <1>4. CASE ChangePaid
    <2>1. pc' = "change"
      BY <1>4 DEF Complete, Again, Goto
    <2>. QED BY <2>1 DEF RoundInv
  <1>5. CASE ~ChangePaid /\ Complete
    <2>1. pc' = "fetchCkb" /\ needed' = Minus(required.ckb, provided.ckb) /\ fetched' = 0
      BY <1>5 DEF Complete, Goto
    <2>2. CASE provided.ckb <= required.ckb
      <3>1. needed' = required.ckb - provided.ckb
        <4>1. required.ckb < provided.ckb + Word
          BY <1>2
        <4>. QED BY <1>2, <2>1, <2>2, <4>1, MinusIsExact
      <3>2. provided'.ckb + needed' = required'.ckb + fetched'
        BY <1>1, <1>2, <2>1, <3>1
      <3>. QED BY <1>3, <1>5, <2>1, <3>2 DEF RoundInv
    <2>3. CASE provided.ckb > required.ckb
      <3>1. provided.ckb < required.ckb + ChangeCap
        BY <1>2, <1>5 DEF ChangePaid
      <3>2. needed' = required.ckb + Word - provided.ckb
        <4>. DEFINE d == required.ckb + Word - provided.ckb
        <4>1. d \in Nat /\ d < Word
          BY <1>2, <2>3, <3>1
        <4>2. needed' = d % Word
          BY <2>1 DEF Minus
        <4>. HIDE DEF d
        <4>3. needed' = d
          BY <4>1, <4>2, ModWord
        <4>. QED BY <4>3 DEF d
      <3>3. needed' > Word - ChangeCap
        BY <1>2, <3>1, <3>2
      <3>. QED BY <2>1, <3>3 DEF RoundInv
    <2>. QED BY <1>2, <2>2, <2>3
  <1>6. CASE ~ChangePaid /\ Again
    <2>1. /\ pc = "again" /\ pc' = "fetchMore"
          /\ needed' = required.ckb + ChangeCap - provided.ckb
      BY <1>6 DEF Again, Goto
    <2>2. provided.ckb >= required.ckb \/ ckbIter' = << >>
      BY <1>1, <2>1 DEF AmountInv, CkbInv
    <2>3. needed' <= ChangeCap \/ ckbIter' = << >>
      BY <1>2, <2>1, <2>2
    <2>. QED BY <1>3, <1>6, <2>1, <2>3 DEF RoundInv
  <1>. QED BY <1>4, <1>5, <1>6

(* No cell without a type script is left: a panic.                         *)
LEMMA NilRound ==
    ASSUME NEW ckb \in Nat, NEW cap \in Nat, NEW udt \in Nat, AmountInv(ckb, cap, udt),
           RoundInv, NilCell
    PROVE  RoundInv'
  <1>1. /\ pc \in {"token", "min", "fetchCkb", "fetchMore"} /\ pc' = "panic" /\ NextCell = 0
        /\ UNCHANGED <<provided, required, needed, ckbIter, udtIter>>
    BY DEF NilCell, Fetching, Goto, iters
  <1>2. provided.ckb \in Nat /\ required.ckb \in Nat
    BY DEF AmountInv, AmountTypes, Amounts
  <1>3. CASE pc \in {"token", "min"}
    <2>1. provided.ckb = 0 /\ required.ckb = 0
      BY <1>3 DEF AmountInv, EarlyInv, Early
    <2>2. Poor
      BY <1>1, <2>1 DEF Poor
    <2>. QED BY <1>1, <2>2, PoorKept DEF RoundInv
  <1>4. CASE ~ChangePaid
    <2>1. Poor
      BY <1>1, <1>2, <1>4 DEF Poor, ChangePaid
    <2>. QED BY <1>1, <2>1, PoorKept DEF RoundInv
  <1>5. CASE needed > Word - ChangeCap
    <2>1. Wrapped
      BY <1>1, <1>5 DEF Wrapped
    <2>. QED BY <1>1, <2>1, PoorKept DEF RoundInv
  <1>. QED BY <1>1, <1>3, <1>4, <1>5 DEF RoundInv

(* Every step of building.                                                 *)
LEMMA StepRound ==
    ASSUME NEW ckb \in Nat, NEW cap \in Nat, NEW udt \in Nat
    PROVE  AmountInv(ckb, cap, udt) /\ RoundInv /\ [Next]_vars => RoundInv'
  <1>1. SUFFICES ASSUME AmountInv(ckb, cap, udt), RoundInv, [Next]_vars PROVE RoundInv'
    OBVIOUS
  <1>2. CASE UNCHANGED vars
    <2>1. UNCHANGED <<pc, inputs, provided, required, needed, fetched, ckbIter, udtIter>>
      BY <1>2 DEF vars, body, iters
    <2>2. ChangePaid' = ChangePaid /\ Unresolved' = Unresolved
      BY <2>1 DEF ChangePaid, Unresolved
    <2>. QED BY <1>1, <2>1, <2>2, PoorKept DEF RoundInv
  <1>3. CASE TakeCkb
    BY <1>1, <1>3, TakeCkbRound
  <1>4. CASE Complete \/ Again
    BY <1>1, <1>4, StartRound
  <1>5. CASE NilCell
    BY <1>1, <1>5, NilRound
  <1>6. CASE InitializeScriptGroups \/ ProcessInputs
    <2>1. inputs' = inputs /\ (Unresolved => pc' = "panic")
          /\ (~Unresolved => pc' \in {"balance", "fee"})
      BY <1>6 DEF InitializeScriptGroups, ProcessInputs, Goto
    <2>2. Unresolved' = Unresolved
      BY <2>1 DEF Unresolved
    <2>. QED BY <2>1, <2>2 DEF RoundInv
  <1>7. CASE \/ EmptyCkb \/ EmptyUdt \/ TakeToken \/ SkipToken \/ TakeMin
             \/ AlreadyBalanced \/ UdtNotRequired \/ UdtProvided \/ UdtShort
             \/ TakeUdt \/ UdtFunded \/ SetChange \/ HandleCKBFee
    <2>1. pc' \notin {"fetchCkb", "fetchMore", "panic"}
      BY <1>7 DEF EmptyCkb, EmptyUdt, TakeToken, SkipToken, TakeMin, AddInput,
         AlreadyBalanced, UdtNotRequired, UdtProvided, UdtShort, TakeUdt, UdtFunded,
         SetChange, HandleCKBFee, Goto
    <2>. QED BY <2>1 DEF RoundInv
  <1>. QED BY <1>1, <1>2, <1>3, <1>4, <1>5, <1>6, <1>7 DEF Next

(* Why Build may fail or panic, whatever it has fetched: the wallet is too *)
(* poor, a listed cell is spent, or the target of the first round has      *)
(* wrapped around and it has gone through the whole wallet.                *)
THEOREM RefusedIfPoor == ASSUME AmountsFit PROVE Spec => []RefusesOnlyIfPoor
  <1>1. PICK ckb \in Nat, cap \in Nat, udt \in Nat : FitWord(ckb, cap, udt)
    BY DEF AmountsFit
  <1>2. Init => AmountInv(ckb, cap, udt) /\ RoundInv
    BY <1>1, InitAmounts DEF Init, RoundInv
  <1>3. AmountInv(ckb, cap, udt) /\ RoundInv /\ [Next]_vars
           => (AmountInv(ckb, cap, udt) /\ RoundInv)'
    BY StepAmounts, StepRound
  <1>4. AmountInv(ckb, cap, udt) /\ RoundInv => RefusesOnlyIfPoor
    BY DEF AmountInv, PoorInv, RoundInv, RefusesOnlyIfPoor
  <1>. QED BY <1>2, <1>3, <1>4, PTL DEF Spec

-----------------------------------------------------------------------------
(* What is handed to the signer.                                           *)

Unsigned == UdtPhase \cup CkbPhase \cup {"process"}

(* Scripts of an input whose lock is the user's.                           *)
LEMMA MineHaveUser ==
    ASSUME inputs \in Seq(TxInput)
    PROVE  Having("user", Len(inputs)) = Mine
  <1>1. \A i \in DOMAIN inputs : "user" \in Scripts(inputs[i]) <=> inputs[i].lock = "user"
    BY DEF Scripts
  <1>2. DOMAIN inputs = 1 .. Len(inputs)
    OBVIOUS
  <1>. QED BY <1>1, <1>2 DEF Having, Mine

(* Steps that leave the inputs, their groups and the wallet alone.         *)
LEMMA KeptSign ==
    ASSUME SignInv, UNCHANGED <<inputs, witnesses, groups, ckbIter, udtIter>>,
           pc' \in {"failed", "panic"} \/ (pc' \in Unsigned /\ pc \in UdtPhase \cup CkbPhase)
    PROVE  SignInv'
  <1>1. IterTypes' /\ inputs' \in Seq(TxInput) /\ SourceInv' /\ Mine' = Mine
    BY DEF SignInv, IterTypes, SourceInv, Mine
  <1>2. GroupInv'
    BY <1>1 DEF SignInv, GroupInv, ListsMine, Unsigned, UdtPhase, CkbPhase
  <1>3. WitnessInv'
    BY <1>1 DEF SignInv, WitnessInv, Unsigned, UdtPhase, CkbPhase, Early
  <1>. QED BY <1>1, <1>2, <1>3 DEF SignInv

(* An input of the user with an empty witness is appended, from a cell that*)
(* the wallet no longer lists.                                             *)
LEMMA AppendedSign ==
    ASSUME SignInv, NEW x \in TxInput, x.lock = "user",
           inputs' = Append(inputs, x), witnesses' = Append(witnesses, {}),
           \A i \in DOMAIN inputs : inputs[i].from # x.from
    PROVE  /\ inputs' \in Seq(TxInput) /\ Len(inputs') = Len(inputs) + 1
           /\ \A i \in DOMAIN inputs : i \in DOMAIN inputs' /\ inputs'[i] = inputs[i]
           /\ \A i \in DOMAIN inputs' : i \in DOMAIN inputs \/ inputs'[i] = x
           /\ \A i, j \in DOMAIN inputs' : inputs'[i].from = inputs'[j].from => i = j
           /\ Mine' = Mine \cup {Len(inputs')}
           /\ witnesses' \in Seq(SUBSET {"inputType", "lock"}) /\ Len(witnesses') = Len(inputs')
           /\ \A i \in DOMAIN inputs' : "inputType" \in witnesses'[i] <=> inputs'[i].lock = "pcls"
           /\ (\A i \in DOMAIN inputs : "lock" \notin witnesses[i]) =>
                 \A i \in DOMAIN inputs' : "lock" \notin witnesses'[i]
  <1>. DEFINE n == Len(inputs)
  <1>1. /\ inputs \in Seq(TxInput) /\ n \in Nat /\ DOMAIN inputs = 1 .. n
        /\ witnesses \in Seq(SUBSET {"inputType", "lock"}) /\ Len(witnesses) = n
    BY DEF SignInv, WitnessInv
  <1>2. /\ inputs' \in Seq(TxInput) /\ Len(inputs') = n + 1 /\ inputs'[n + 1] = x
        /\ \A i \in 1 .. n : inputs'[i] = inputs[i]
    BY <1>1, AppendProperties
  <1>3. /\ witnesses' \in Seq(SUBSET {"inputType", "lock"}) /\ Len(witnesses') = n + 1
        /\ witnesses'[n + 1] = {}
        /\ \A i \in 1 .. n : witnesses'[i] = witnesses[i]
    BY <1>1, AppendProperties
  <1>. HIDE DEF n
  <1>4. /\ DOMAIN inputs' = 1 .. n + 1
        /\ \A i \in DOMAIN inputs' : i \in DOMAIN inputs \/ i = n + 1
        /\ \A i \in DOMAIN inputs : i # n + 1 /\ i \in DOMAIN inputs'
    BY <1>1, <1>2
  <1>5. \A i, j \in DOMAIN inputs' : inputs'[i].from = inputs'[j].from => i = j
    <2>1. \A i, j \in DOMAIN inputs : inputs[i].from = inputs[j].from => i = j
      BY DEF SignInv, SourceInv
    <2>2. SUFFICES ASSUME NEW i \in DOMAIN inputs', NEW j \in DOMAIN inputs',
                          inputs'[i].from = inputs'[j].from
                   PROVE  i = j
      OBVIOUS
    <2>3. CASE i \in DOMAIN inputs /\ j \in DOMAIN inputs
      BY <1>1, <1>2, <2>1, <2>2, <2>3
    <2>4. CASE i \in DOMAIN inputs /\ j = n + 1
      BY <1>1, <1>2, <2>2, <2>4
    <2>5. CASE i = n + 1 /\ j \in DOMAIN inputs
      BY <1>1, <1>2, <2>2, <2>5
    <2>. QED BY <1>4, <2>3, <2>4, <2>5
  <1>6. Mine' = Mine \cup {n + 1}
    BY <1>1, <1>2, <1>4 DEF Mine
  <1>7. \A i \in DOMAIN inputs' : "inputType" \in witnesses'[i] <=> inputs'[i].lock = "pcls"
    <2>1. \A i \in DOMAIN inputs : "inputType" \in witnesses[i] <=> inputs[i].lock = "pcls"
      BY DEF SignInv, WitnessInv
    <2>. QED BY <1>1, <1>2, <1>3, <1>4, <2>1
  <1>8. (\A i \in DOMAIN inputs : "lock" \notin witnesses[i]) =>
           \A i \in DOMAIN inputs' : "lock" \notin witnesses'[i]
    BY <1>1, <1>3, <1>4
  <1>. QED BY <1>1, <1>2, <1>3, <1>4, <1>5, <1>6, <1>7, <1>8 DEF n

(* Cells of different iterators, and of one at different places.           *)
LEMMA SourcesDiffer ==
    ASSUME NEW m, NEW n
    PROVE  /\ FromCkb(m) # FromUdt(n) /\ (FromCkb(m) = FromCkb(n) => m = n)
           /\ (FromUdt(m) = FromUdt(n) => m = n)
  BY DEF FromCkb, FromUdt

(* A plain cell leaves the iterator and becomes an input.                  *)
LEMMA TakenCkbSource ==
    ASSUME SignInv, NextCell # 0, NEW c, c = ckbIter[NextCell],
           ckbIter' = Advanced, udtIter' = udtIter,
           inputs' = Append(inputs, Input(FromCkb(c.nr), "user", FALSE, c.live)),
           witnesses' = Append(witnesses, {})
    PROVE  /\ IterTypes' /\ SourceInv'
           /\ Input(FromCkb(c.nr), "user", FALSE, c.live) \in TxInput
           /\ \A i \in DOMAIN inputs : inputs[i].from # FromCkb(c.nr)
  <1>. DEFINE x == Input(FromCkb(c.nr), "user", FALSE, c.live)
  <1>1. /\ ckbIter \in Seq(CkbCell) /\ udtIter \in Seq(UdtCell)
        /\ NextCell \in DOMAIN ckbIter /\ NextCell \in Nat
    BY NextIsPlain DEF SignInv, IterTypes
  <1>2. c \in CkbCell
    BY <1>1
  <1>3. c.nr \in Nat /\ c.live \in BOOLEAN
    BY <1>2 DEF CkbCell
  <1>4. /\ x.from = FromCkb(c.nr) /\ x.lock = "user" /\ x \in TxInput
    <2>1. FromCkb(c.nr) \in Source
      BY <1>3 DEF Source, FromCkb
    <2>. QED BY <1>3, <2>1 DEF TxInput, Input
  <1>5. /\ Advanced \in Seq(CkbCell)
        /\ \A k \in DOMAIN Advanced : /\ k + NextCell \in DOMAIN ckbIter
                                      /\ k + NextCell # NextCell
                                      /\ Advanced[k] = ckbIter[k + NextCell]
    BY <1>1, AdvancedHas
  <1>6. \A i \in DOMAIN inputs : inputs[i].from # FromCkb(c.nr)
    BY <1>1 DEF SignInv, SourceInv
  <1>. HIDE DEF x
  <1>7. /\ \A i \in DOMAIN inputs : i \in DOMAIN inputs' /\ inputs'[i] = inputs[i]
        /\ \A i \in DOMAIN inputs' : i \in DOMAIN inputs \/ inputs'[i] = x
        /\ \A i, j \in DOMAIN inputs' : inputs'[i].from = inputs'[j].from => i = j
    <2>1. inputs' = Append(inputs, x) /\ \A i \in DOMAIN inputs : inputs[i].from # x.from
      BY <1>4, <1>6 DEF x
    <2>. QED BY <1>4, <2>1, AppendedSign
  <1>8. \A k, l \in DOMAIN ckbIter : ckbIter[k].nr = ckbIter[l].nr => k = l
    BY DEF SignInv, SourceInv
  <1>9. ASSUME NEW i \in DOMAIN inputs', NEW k \in DOMAIN Advanced
        PROVE  inputs'[i].from # FromCkb(Advanced[k].nr)
    <2>1. k + NextCell \in DOMAIN ckbIter /\ Advanced[k] = ckbIter[k + NextCell]
          /\ k + NextCell # NextCell
      BY <1>5
    <2>2. CASE i \in DOMAIN inputs
      <3>1. inputs[i].from # FromCkb(ckbIter[k + NextCell].nr)
        BY <2>1, <2>2 DEF SignInv, SourceInv
      <3>. QED BY <1>7, <2>1, <2>2, <3>1
    <2>3. CASE inputs'[i] = x
      <3>1. c.nr # Advanced[k].nr
        BY <1>1, <1>8, <2>1
      <3>. QED BY <1>4, <2>3, <3>1, SourcesDiffer
    <2>. QED BY <1>7, <2>2, <2>3
  <1>10. ASSUME NEW i \in DOMAIN inputs', NEW k \in DOMAIN udtIter
         PROVE  inputs'[i].from # FromUdt(udtIter[k].nr)
    <2>1. CASE i \in DOMAIN inputs
      <3>1. inputs[i].from # FromUdt(udtIter[k].nr)
        BY <2>1 DEF SignInv, SourceInv
      <3>. QED BY <1>7, <2>1, <3>1
    <2>2. CASE inputs'[i] = x
      BY <1>4, <2>2, SourcesDiffer
    <2>. QED BY <1>7, <2>1, <2>2
  <1>11. \A k, l \in DOMAIN Advanced : Advanced[k].nr = Advanced[l].nr => k = l
    <2>1. SUFFICES ASSUME NEW k \in DOMAIN Advanced, NEW l \in DOMAIN Advanced,
                          Advanced[k].nr = Advanced[l].nr
                   PROVE  k = l
      OBVIOUS
    <2>2. k + NextCell = l + NextCell
      BY <1>5, <1>8, <2>1
    <2>3. k \in Nat /\ l \in Nat
      BY <1>5
    <2>. QED BY <1>1, <2>2, <2>3
  <1>12. SourceInv'
    <2>1. ckbIter' = Advanced /\ udtIter' = udtIter
      OBVIOUS
    <2>2. \A k, l \in DOMAIN udtIter : udtIter[k].nr = udtIter[l].nr => k = l
      BY DEF SignInv, SourceInv
    <2>3. ASSUME NEW i \in DOMAIN inputs', NEW k \in DOMAIN ckbIter'
          PROVE  inputs'[i].from # FromCkb(ckbIter'[k].nr)
      <3>1. k \in DOMAIN Advanced /\ ckbIter'[k] = Advanced[k]
        BY <2>1
      <3>2. inputs'[i].from # FromCkb(Advanced[k].nr)
        BY <1>9, <3>1
      <3>. QED BY <3>1, <3>2
    <2>4. ASSUME NEW i \in DOMAIN inputs', NEW k \in DOMAIN udtIter'
          PROVE  inputs'[i].from # FromUdt(udtIter'[k].nr)
      <3>1. k \in DOMAIN udtIter /\ udtIter'[k] = udtIter[k]
        BY <2>1
      <3>2. inputs'[i].from # FromUdt(udtIter[k].nr)
        BY <1>10, <3>1
      <3>. QED BY <3>1, <3>2
    <2>5. /\ \A k, l \in DOMAIN ckbIter' : ckbIter'[k].nr = ckbIter'[l].nr => k = l
          /\ \A k, l \in DOMAIN udtIter' : udtIter'[k].nr = udtIter'[l].nr => k = l
      BY <1>11, <2>1, <2>2
    <2>6. \A i, j \in DOMAIN inputs' : inputs'[i].from = inputs'[j].from => i = j
      BY <1>7
    <2>. QED BY <2>3, <2>4, <2>5, <2>6 DEF SourceInv
  <1>. QED BY <1>1, <1>4, <1>5, <1>6, <1>12 DEF IterTypes, x

(* The first UDT cell leaves its iterator and becomes an input.            *)
LEMMA TakenUdtSource ==
    ASSUME SignInv, udtIter # << >>, NEW c, c = Head(udtIter),
           udtIter' = Tail(udtIter), ckbIter' = ckbIter,
           inputs' = Append(inputs, Input(FromUdt(c.nr), "user", TRUE, TRUE)),
           witnesses' = Append(witnesses, {})
    PROVE  /\ IterTypes' /\ SourceInv'
           /\ Input(FromUdt(c.nr), "user", TRUE, TRUE) \in TxInput
           /\ \A i \in DOMAIN inputs : inputs[i].from # FromUdt(c.nr)
  <1>. DEFINE x == Input(FromUdt(c.nr), "user", TRUE, TRUE)
              rest == Tail(udtIter)
  <1>1. ckbIter \in Seq(CkbCell) /\ udtIter \in Seq(UdtCell)
    BY DEF SignInv, IterTypes
  <1>2. /\ 1 \in DOMAIN udtIter /\ c = udtIter[1] /\ rest \in Seq(UdtCell)
        /\ \A k \in DOMAIN rest : /\ k + 1 \in DOMAIN udtIter /\ k \in Nat /\ k + 1 # 1
                                  /\ rest[k] = udtIter[k + 1]
    BY <1>1
  <1>3. c.nr \in Nat
    <2>1. c \in UdtCell
      BY <1>1, <1>2
    <2>. QED BY <2>1 DEF UdtCell
  <1>4. /\ x.from = FromUdt(c.nr) /\ x.lock = "user" /\ x \in TxInput
    <2>1. FromUdt(c.nr) \in Source
      BY <1>3 DEF Source, FromUdt
    <2>. QED BY <2>1 DEF TxInput, Input
  <1>5. \A i \in DOMAIN inputs : inputs[i].from # FromUdt(c.nr)
    BY <1>2 DEF SignInv, SourceInv
  <1>. HIDE DEF x, rest
  <1>6. /\ \A i \in DOMAIN inputs : i \in DOMAIN inputs' /\ inputs'[i] = inputs[i]
        /\ \A i \in DOMAIN inputs' : i \in DOMAIN inputs \/ inputs'[i] = x
        /\ \A i, j \in DOMAIN inputs' : inputs'[i].from = inputs'[j].from => i = j
    <2>1. inputs' = Append(inputs, x) /\ \A i \in DOMAIN inputs : inputs[i].from # x.from
      BY <1>4, <1>5 DEF x
    <2>. QED BY <1>4, <2>1, AppendedSign
  <1>7. \A k, l \in DOMAIN udtIter : udtIter[k].nr = udtIter[l].nr => k = l
    BY DEF SignInv, SourceInv
  <1>8. udtIter' = rest /\ ckbIter' = ckbIter
    BY DEF rest
  <1>9. ASSUME NEW i \in DOMAIN inputs', NEW k \in DOMAIN udtIter'
        PROVE  inputs'[i].from # FromUdt(udtIter'[k].nr)
    <2>1. k + 1 \in DOMAIN udtIter /\ udtIter'[k] = udtIter[k + 1] /\ k + 1 # 1
      BY <1>2, <1>8
    <2>2. CASE i \in DOMAIN inputs
      <3>1. inputs[i].from # FromUdt(udtIter[k + 1].nr)
        BY <2>1, <2>2 DEF SignInv, SourceInv
      <3>. QED BY <1>6, <2>1, <2>2, <3>1
    <2>3. CASE inputs'[i] = x
      <3>1. c.nr # udtIter'[k].nr
        BY <1>2, <1>7, <2>1
      <3>. QED BY <1>4, <2>3, <3>1, SourcesDiffer
    <2>. QED BY <1>6, <2>2, <2>3
  <1>10. ASSUME NEW i \in DOMAIN inputs', NEW k \in DOMAIN ckbIter'
         PROVE  inputs'[i].from # FromCkb(ckbIter'[k].nr)
    <2>1. k \in DOMAIN ckbIter /\ ckbIter'[k] = ckbIter[k]
      BY <1>8
    <2>2. CASE i \in DOMAIN inputs
      <3>1. inputs[i].from # FromCkb(ckbIter[k].nr)
        BY <2>1, <2>2 DEF SignInv, SourceInv
      <3>. QED BY <1>6, <2>1, <2>2, <3>1
    <2>3. CASE inputs'[i] = x
      BY <1>4, <2>3, SourcesDiffer
    <2>. QED BY <1>6, <2>2, <2>3
  <1>11. ASSUME NEW k \in DOMAIN udtIter', NEW l \in DOMAIN udtIter',
                udtIter'[k].nr = udtIter'[l].nr
         PROVE  k = l
    <2>1. k + 1 = l + 1 /\ k \in Nat /\ l \in Nat
      BY <1>2, <1>7, <1>8, <1>11
    <2>. QED BY <2>1
  <1>12. \A k, l \in DOMAIN ckbIter' : ckbIter'[k].nr = ckbIter'[l].nr => k = l
    BY <1>8 DEF SignInv, SourceInv
  <1>13. SourceInv'
    BY <1>6, <1>9, <1>10, <1>11, <1>12 DEF SourceInv
  <1>. QED BY <1>1, <1>2, <1>4, <1>5, <1>8, <1>13 DEF IterTypes, x

(* A cell that is passed over for the token becomes no input.              *)
LEMMA SkippedSource ==
    ASSUME SignInv, NextCell # 0, ckbIter' = Advanced, UNCHANGED <<inputs, udtIter>>
    PROVE  IterTypes' /\ SourceInv'
  <1>1. ckbIter \in Seq(CkbCell) /\ udtIter \in Seq(UdtCell) /\ NextCell \in Nat
    BY NextIsPlain DEF SignInv, IterTypes
  <1>2. /\ Advanced \in Seq(CkbCell)
        /\ \A k \in DOMAIN Advanced : /\ k + NextCell \in DOMAIN ckbIter /\ k \in Nat
                                      /\ Advanced[k] = ckbIter[k + NextCell]
    BY <1>1, AdvancedHas
  <1>3. ASSUME NEW i \in DOMAIN inputs', NEW k \in DOMAIN ckbIter'
        PROVE  inputs'[i].from # FromCkb(ckbIter'[k].nr)
    <2>1. k + NextCell \in DOMAIN ckbIter /\ ckbIter'[k] = ckbIter[k + NextCell]
      BY <1>2
    <2>2. inputs[i].from # FromCkb(ckbIter[k + NextCell].nr)
      BY <2>1 DEF SignInv, SourceInv
    <2>. QED BY <2>1, <2>2
  <1>4. ASSUME NEW k \in DOMAIN ckbIter', NEW l \in DOMAIN ckbIter',
               ckbIter'[k].nr = ckbIter'[l].nr
        PROVE  k = l
    <2>1. k + NextCell = l + NextCell
      BY <1>2, <1>4 DEF SignInv, SourceInv
    <2>2. k \in Nat /\ l \in Nat
      BY <1>2
    <2>. QED BY <1>1, <2>1, <2>2
  <1>5. /\ \A i, j \in DOMAIN inputs' : inputs'[i].from = inputs'[j].from => i = j
        /\ \A k, l \in DOMAIN udtIter' : udtIter'[k].nr = udtIter'[l].nr => k = l
    BY DEF SignInv, SourceInv
  <1>6. ASSUME NEW i \in DOMAIN inputs', NEW k \in DOMAIN udtIter'
        PROVE  inputs'[i].from # FromUdt(udtIter'[k].nr)
    BY DEF SignInv, SourceInv
  <1>7. SourceInv'
    BY <1>3, <1>4, <1>5, <1>6 DEF SourceInv
  <1>. QED BY <1>1, <1>2, <1>7 DEF IterTypes

(* The operation's own inputs come from elsewhere than the wallet, whose   *)
(* cells are told apart by their places.                                   *)
LEMMA InitSign == ASSUME Init PROVE SignInv
  <1>1. PICK s \in SeqOf(Listed, MaxCkbCells) : ckbIter = Numbered(s)
    BY DEF Init
  <1>2. PICK r \in SeqOf(ListedUdt, MaxUdtCells) : udtIter = Numbered(r)
    BY DEF Init
  <1>3. ckbIter \in Seq(CkbCell) /\ \A k \in DOMAIN ckbIter : ckbIter[k].nr = k
    BY <1>1, ListedCells
  <1>4. udtIter \in Seq(UdtCell) /\ \A k \in DOMAIN udtIter : udtIter[k].nr = k
    BY <1>2, ListedUdts
  <1>. DEFINE pcls == Input(<<"channel">>, "pcls", FALSE, TRUE)
              pfls == Input(<<"funds">>, "pfls", TRUE, TRUE)
  <1>5. inputs = << >> \/ inputs = <<pcls>> \o << >> \/ inputs = <<pcls>> \o <<pfls>>
    <2>1. CASE pc = "token"
      BY <2>1 DEF Init
    <2>2. CASE pc # "token"
      <3>1. PICK i \in {0, outs.udt, outs.udt + 1} :
               inputs = <<pcls>> \o (IF i = 0 THEN << >> ELSE <<pfls>>)
        BY <2>2 DEF Init
      <3>. HIDE DEF pcls, pfls
      <3>. QED BY <3>1, Zenon
    <2>. QED BY <2>1, <2>2
  <1>6. /\ pcls \in TxInput /\ pcls.lock = "pcls" /\ pcls.from = <<"channel">>
        /\ pfls \in TxInput /\ pfls.lock = "pfls" /\ pfls.from = <<"funds">>
        /\ <<"channel">> # <<"funds">>
    BY DEF Input, TxInput, Source
  <1>7. \A n : FromCkb(n) \notin {<<"channel">>, <<"funds">>}
               /\ FromUdt(n) \notin {<<"channel">>, <<"funds">>}
    BY DEF FromCkb, FromUdt
  <1>8. witnesses = [i \in DOMAIN inputs |-> IF i = 1 THEN {"inputType"} ELSE {}]
    BY DEF Init
  <1>. HIDE DEF pcls, pfls
  <1>9. /\ inputs \in Seq(TxInput) /\ DOMAIN inputs = 1 .. Len(inputs) /\ Len(inputs) \in Nat
        /\ \A i \in DOMAIN inputs : \/ i = 1 /\ inputs[i] = pcls
                                    \/ i = 2 /\ inputs[i] = pfls
    <2>1. ASSUME NEW t \in Seq({pfls}), Len(t) <= 1, inputs = <<pcls>> \o t
          PROVE  /\ inputs \in Seq(TxInput)
                 /\ \A i \in DOMAIN inputs : \/ i = 1 /\ inputs[i] = pcls
                                             \/ i = 2 /\ inputs[i] = pfls
      <3>1. <<pcls>> \in Seq(TxInput) /\ t \in Seq(TxInput) /\ Len(<<pcls>>) = 1
        BY <1>6
      <3>2. /\ inputs \in Seq(TxInput) /\ Len(inputs) = 1 + Len(t)
            /\ \A i \in 1 .. 1 + Len(t) : inputs[i] = IF i <= 1 THEN <<pcls>>[i] ELSE t[i - 1]
        BY <2>1, <3>1, ConcatProperties
      <3>3. DOMAIN inputs = 1 .. 1 + Len(t) /\ Len(t) \in {0, 1}
        BY <2>1, <3>2
      <3>4. inputs[1] = pcls /\ (2 \in DOMAIN inputs => inputs[2] = pfls)
        BY <2>1, <3>2, <3>3
      <3>. QED BY <3>2, <3>3, <3>4
    <2>2. inputs = << >> => inputs \in Seq(TxInput) /\ DOMAIN inputs = {}
      OBVIOUS
    <2>3. /\ << >> \in Seq({pfls}) /\ Len(<< >>) <= 1
          /\ <<pfls>> \in Seq({pfls}) /\ Len(<<pfls>>) <= 1
      OBVIOUS
    <2>4. /\ inputs \in Seq(TxInput)
          /\ \A i \in DOMAIN inputs : \/ i = 1 /\ inputs[i] = pcls
                                      \/ i = 2 /\ inputs[i] = pfls
      <3>1. CASE inputs = << >>
        BY <2>2, <3>1
      <3>2. CASE inputs = <<pcls>> \o << >>
        BY <2>1, <2>3, <3>2
      <3>3. CASE inputs = <<pcls>> \o <<pfls>>
        BY <2>1, <2>3, <3>3
      <3>. QED BY <1>5, <3>1, <3>2, <3>3
    <2>. QED BY <2>4
  <1>10. IterTypes
    BY <1>3, <1>4 DEF IterTypes
  <1>11. SourceInv
    <2>1. \A i, j \in DOMAIN inputs : inputs[i].from = inputs[j].from => i = j
      BY <1>6, <1>9
    <2>2. \A i \in DOMAIN inputs : inputs[i].from \in {<<"channel">>, <<"funds">>}
      <3>. DEFINE own == {<<"channel">>, <<"funds">>}
      <3>1. pcls.from \in own /\ pfls.from \in own
        BY <1>6
      <3>. HIDE DEF own
      <3>2. \A i \in DOMAIN inputs : inputs[i].from \in own
        BY <1>9, <3>1
      <3>. QED BY <3>2 DEF own
    <2>3. /\ \A i \in DOMAIN inputs, k \in DOMAIN ckbIter :
                inputs[i].from # FromCkb(ckbIter[k].nr)
          /\ \A i \in DOMAIN inputs, k \in DOMAIN udtIter :
                inputs[i].from # FromUdt(udtIter[k].nr)
      BY <1>7, <2>2, Zenon
    <2>4. /\ \A k, l \in DOMAIN ckbIter : ckbIter[k].nr = ckbIter[l].nr => k = l
          /\ \A k, l \in DOMAIN udtIter : udtIter[k].nr = udtIter[l].nr => k = l
      BY <1>3, <1>4
    <2>. QED BY <2>1, <2>3, <2>4 DEF SourceInv
  <1>12. pc \in Early
    BY DEF Init, Early
  <1>13. GroupInv
    BY <1>12 DEF GroupInv, Early, UdtPhase, CkbPhase
  <1>14. WitnessInv
    <2>1. witnesses \in Seq(SUBSET {"inputType", "lock"}) /\ Len(witnesses) = Len(inputs)
      <3>1. witnesses \in [1 .. Len(inputs) -> SUBSET {"inputType", "lock"}]
        BY <1>8, <1>9
      <3>. QED BY <1>9, <3>1
    <2>2. \A i \in DOMAIN inputs : /\ "inputType" \in witnesses[i] <=> inputs[i].lock = "pcls"
                                   /\ "lock" \notin witnesses[i]
      BY <1>6, <1>8, <1>9
    <2>. QED BY <1>12, <2>1, <2>2 DEF WitnessInv, Early
  <1>. QED BY <1>9, <1>10, <1>11, <1>13, <1>14 DEF SignInv

(* The first of the inputs that the group of the user's lock lists.        *)
LEMMA FirstOfMine ==
    ASSUME NEW g, ListsMine(g), NEW i
    PROVE  (g # << >> /\ i = Head(g)) <=> (i \in Mine /\ \A j \in Mine : i <= j)
  <1>1. g \in Seq(Nat) /\ ToSet(g) = Mine /\ Ascending(g)
    BY DEF ListsMine
  <1>2. /\ \A k \in DOMAIN g : g[k] \in Mine /\ g[k] \in Nat /\ k \in Nat /\ k >= 1
        /\ \A j \in Mine : \E k \in DOMAIN g : g[k] = j
        /\ g # << >> => 1 \in DOMAIN g /\ Head(g) = g[1]
        /\ g = << >> => DOMAIN g = {}
    BY <1>1 DEF ToSet
  <1>3. \A k \in DOMAIN g : 1 \in DOMAIN g /\ g[1] <= g[k]
    BY <1>1, <1>2 DEF Ascending
  <1>4. ASSUME g # << >>, i = Head(g) PROVE i \in Mine /\ \A j \in Mine : i <= j
    BY <1>2, <1>3, <1>4
  <1>5. ASSUME i \in Mine, \A j \in Mine : i <= j PROVE g # << >> /\ i = Head(g)
    <2>1. PICK k \in DOMAIN g : g[k] = i
      BY <1>2, <1>5
    <2>2. g # << >> /\ g[1] <= i /\ g[1] \in Mine /\ g[1] \in Nat /\ i \in Nat /\ Head(g) = g[1]
      BY <1>2, <1>3, <2>1
    <2>3. i <= g[1]
      BY <1>5, <2>2
    <2>. QED BY <2>2, <2>3
  <1>. QED BY <1>4, <1>5

(* Building stops with nothing handed out, or goes on without an input.    *)
LEMMA KeptSigns ==
    ASSUME SignInv,
           \/ EmptyCkb \/ NilCell \/ EmptyUdt
           \/ AlreadyBalanced \/ UdtNotRequired \/ UdtProvided \/ UdtShort
           \/ UdtFunded \/ Complete \/ Again \/ SetChange
    PROVE  SignInv'
  <1>1. UNCHANGED <<inputs, witnesses, groups, ckbIter, udtIter>>
    BY DEF EmptyCkb, NilCell, EmptyUdt, AlreadyBalanced, UdtNotRequired, UdtProvided,
           UdtShort, UdtFunded, Complete, Again, SetChange, ckbStart, body, iters
  <1>2. pc' \in {"failed", "panic"} \/ (pc' \in Unsigned /\ pc \in UdtPhase \cup CkbPhase)
    BY DEF EmptyCkb, NilCell, EmptyUdt, AlreadyBalanced, UdtNotRequired, UdtProvided,
           UdtShort, UdtFunded, Complete, Again, SetChange, Goto, Unsigned, UdtPhase, CkbPhase
  <1>. QED BY <1>1, <1>2, KeptSign

(* An Open's token is an input, or a cell is passed over.                  *)
LEMMA TokenSign ==
    ASSUME SignInv, TakeToken \/ SkipToken \/ TakeMin
    PROVE  SignInv'
  <1>. DEFINE c == ckbIter[NextCell]
  <1>1. NextCell # 0 /\ ckbIter' = Advanced /\ udtIter' = udtIter /\ pc \in Early /\ pc' \in Early
    BY DEF TakeToken, SkipToken, TakeMin, AddInput, Goto, untaken, Early
  <1>2. GroupInv'
    BY <1>1 DEF GroupInv, Early, UdtPhase, CkbPhase
  <1>3. CASE TakeToken \/ TakeMin
    <2>. DEFINE x == Input(FromCkb(c.nr), "user", FALSE, c.live)
    <2>1. inputs' = Append(inputs, x) /\ witnesses' = Append(witnesses, {})
      BY <1>3 DEF TakeToken, TakeMin, AddInput, FromCkb
    <2>2. /\ IterTypes' /\ SourceInv' /\ x \in TxInput
          /\ \A i \in DOMAIN inputs : inputs[i].from # FromCkb(c.nr)
      BY <1>1, <2>1, TakenCkbSource
    <2>3. x.lock = "user" /\ x.from = FromCkb(c.nr)
      BY DEF Input
    <2>. HIDE DEF x, c
    <2>4. /\ inputs' \in Seq(TxInput)
          /\ witnesses' \in Seq(SUBSET {"inputType", "lock"}) /\ Len(witnesses') = Len(inputs')
          /\ \A i \in DOMAIN inputs' : "inputType" \in witnesses'[i] <=> inputs'[i].lock = "pcls"
          /\ (\A i \in DOMAIN inputs : "lock" \notin witnesses[i]) =>
                \A i \in DOMAIN inputs' : "lock" \notin witnesses'[i]
      BY <2>1, <2>2, <2>3, AppendedSign
    <2>5. \A i \in DOMAIN inputs : "lock" \notin witnesses[i]
      BY <1>1 DEF SignInv, WitnessInv
    <2>6. WitnessInv'
      BY <1>1, <2>4, <2>5 DEF WitnessInv, Early
    <2>. QED BY <1>2, <2>2, <2>4, <2>6 DEF SignInv
  <1>4. CASE SkipToken
    <2>1. UNCHANGED <<inputs, witnesses, pc>>
      BY <1>4 DEF SkipToken
    <2>2. IterTypes' /\ SourceInv'
      BY <1>1, <2>1, SkippedSource
    <2>3. WitnessInv' /\ inputs' \in Seq(TxInput)
      BY <1>1, <2>1 DEF SignInv, WitnessInv, Mine
    <2>. QED BY <1>2, <2>2, <2>3 DEF SignInv
  <1>. QED BY <1>3, <1>4

(* The group of the user's lock begins with the inputs the user has.       *)
LEMMA GroupSign ==
    ASSUME SignInv, InitializeScriptGroups
    PROVE  SignInv'
  <1>1. /\ pc = "groups" /\ pc \in Early /\ UNCHANGED <<inputs, witnesses, ckbIter, udtIter>>
        /\ pc' = "panic" \/ pc' = "balance"
    BY DEF InitializeScriptGroups, Goto, iters, Early
  <1>2. IterTypes' /\ inputs' \in Seq(TxInput) /\ SourceInv' /\ Mine' = Mine
    BY <1>1 DEF SignInv, IterTypes, SourceInv, Mine
  <1>3. WitnessInv'
    BY <1>1, <1>2 DEF SignInv, WitnessInv, UdtPhase
  <1>4. pc' = "balance" => "user" \in DOMAIN groups' /\ ListsMine(groups["user"])'
    <2>1. SUFFICES ASSUME pc' = "balance"
                   PROVE  "user" \in DOMAIN groups' /\ ListsMine(groups["user"])'
      OBVIOUS
    <2>2. "user" \in DOMAIN groups' /\ groups'["user"] = Members("user")
      BY <2>1 DEF InitializeScriptGroups, Goto
    <2>3. inputs \in Seq(TxInput)
      BY DEF SignInv
    <2>4. /\ Members("user") \in Seq(Nat) /\ Ascending(Members("user"))
          /\ ToSet(Members("user")) = Mine
      BY <2>3, MembersListed, MineHaveUser
    <2>. QED BY <1>2, <2>2, <2>4 DEF ListsMine, Ascending, ToSet
  <1>5. GroupInv'
    BY <1>1, <1>4 DEF GroupInv, UdtPhase, CkbPhase
  <1>. QED BY <1>2, <1>3, <1>5 DEF SignInv

(* A fetched cell is the last input, and the last of the user's group.     *)
LEMMA FetchedSign ==
    ASSUME SignInv, pc \in UdtPhase \cup CkbPhase, pc' \in UdtPhase \cup CkbPhase,
           NEW x \in TxInput, x.lock = "user", AppendInput(x),
           \A i \in DOMAIN inputs : inputs[i].from # x.from,
           IterTypes', SourceInv'
    PROVE  SignInv'
  <1>1. /\ inputs' = Append(inputs, x) /\ witnesses' = Append(witnesses, {})
        /\ groups' = [s \in DOMAIN groups |->
                        IF s \in Scripts(x) THEN Append(groups[s], Len(inputs')) ELSE groups[s]]
    BY DEF AppendInput
  <1>2. /\ inputs' \in Seq(TxInput) /\ Len(inputs') = Len(inputs) + 1
        /\ Mine' = Mine \cup {Len(inputs')}
        /\ witnesses' \in Seq(SUBSET {"inputType", "lock"}) /\ Len(witnesses') = Len(inputs')
        /\ \A i \in DOMAIN inputs' : "inputType" \in witnesses'[i] <=> inputs'[i].lock = "pcls"
        /\ (\A i \in DOMAIN inputs : "lock" \notin witnesses[i]) =>
              \A i \in DOMAIN inputs' : "lock" \notin witnesses'[i]
    BY <1>1, AppendedSign
  <1>3. \A i \in DOMAIN inputs : "lock" \notin witnesses[i]
    BY DEF SignInv, WitnessInv
  <1>4. WitnessInv'
    BY <1>2, <1>3 DEF WitnessInv, UdtPhase, CkbPhase
  <1>. DEFINE g == groups["user"]
              n == Len(inputs')
  <1>5. "user" \in DOMAIN groups /\ ListsMine(g)
    BY DEF SignInv, GroupInv
  <1>6. "user" \in DOMAIN groups' /\ groups'["user"] = Append(g, n)
    <2>1. "user" \in Scripts(x)
      BY DEF Scripts
    <2>. QED BY <1>1, <1>5, <2>1
  <1>7. n \in Nat /\ \A i \in Mine : i < n
    <2>1. inputs \in Seq(TxInput)
      BY DEF SignInv
    <2>. QED BY <1>2, <2>1 DEF Mine
  <1>. HIDE DEF g, n
  <1>8. /\ Append(g, n) \in Seq(Nat) /\ Ascending(Append(g, n))
        /\ ToSet(Append(g, n)) = Mine \cup {n}
    <2>1. g \in Seq(Nat) /\ ToSet(g) = Mine /\ Ascending(g)
      BY <1>5 DEF ListsMine
    <2>. QED BY <1>7, <2>1, AppendAscends
  <1>9. Mine' = Mine \cup {n}
    BY <1>2 DEF n
  <1>10. ListsMine(groups["user"])'
    BY <1>6, <1>8, <1>9 DEF ListsMine, Ascending, ToSet
  <1>11. GroupInv'
    BY <1>6, <1>10 DEF GroupInv, UdtPhase, CkbPhase
  <1>. QED BY <1>2, <1>4, <1>11 DEF SignInv

(* Fetching UDT and CKBytes.                                               *)
LEMMA TakeSign ==
    ASSUME SignInv, TakeUdt \/ TakeCkb
    PROVE  SignInv'
  <1>1. CASE TakeUdt
    <2>. DEFINE c == Head(udtIter)
                x == Input(FromUdt(c.nr), "user", TRUE, TRUE)
    <2>1. /\ udtIter # << >> /\ AppendInput(x) /\ udtIter' = Tail(udtIter) /\ ckbIter' = ckbIter
          /\ pc \in UdtPhase \cup CkbPhase /\ pc' \in UdtPhase \cup CkbPhase
      BY <1>1 DEF TakeUdt, FromUdt, Goto, UdtPhase, CkbPhase
    <2>2. inputs' = Append(inputs, x) /\ witnesses' = Append(witnesses, {})
      BY <2>1 DEF AppendInput
    <2>3. /\ IterTypes' /\ SourceInv' /\ x \in TxInput
          /\ \A i \in DOMAIN inputs : inputs[i].from # FromUdt(c.nr)
      BY <2>1, <2>2, TakenUdtSource
    <2>4. x.lock = "user" /\ x.from = FromUdt(c.nr)
      BY DEF Input
    <2>. HIDE DEF x, c
    <2>. QED BY <2>1, <2>3, <2>4, FetchedSign
  <1>2. CASE TakeCkb
    <2>. DEFINE c == ckbIter[NextCell]
                x == Input(FromCkb(c.nr), "user", FALSE, c.live)
    <2>1. /\ NextCell # 0 /\ AppendInput(x) /\ ckbIter' = Advanced /\ udtIter' = udtIter
          /\ pc \in UdtPhase \cup CkbPhase /\ pc' \in UdtPhase \cup CkbPhase
      BY <1>2 DEF TakeCkb, FromCkb, Goto, UdtPhase, CkbPhase
    <2>2. inputs' = Append(inputs, x) /\ witnesses' = Append(witnesses, {})
      BY <2>1 DEF AppendInput
    <2>3. /\ IterTypes' /\ SourceInv' /\ x \in TxInput
          /\ \A i \in DOMAIN inputs : inputs[i].from # FromCkb(c.nr)
      BY <2>1, <2>2, TakenCkbSource
    <2>4. x.lock = "user" /\ x.from = FromCkb(c.nr)
      BY DEF Input
    <2>. HIDE DEF x, c
    <2>. QED BY <2>1, <2>3, <2>4, FetchedSign
  <1>. QED BY <1>1, <1>2

(* Room for a signature is made in the witness of the group's first input, *)
(* which is not found unless all inputs are live.                          *)
LEMMA ProcessSign ==
    ASSUME SignInv, ProcessInputs
    PROVE  SignInv'
  <1>1. pc = "process" /\ UNCHANGED <<inputs, groups, ckbIter, udtIter>>
    BY DEF ProcessInputs, iters
  <1>2. IterTypes' /\ inputs' \in Seq(TxInput) /\ SourceInv' /\ Mine' = Mine
    BY <1>1 DEF SignInv, IterTypes, SourceInv, Mine
  <1>3. CASE Unresolved
    <2>1. pc' = "panic" /\ witnesses' = witnesses
      BY <1>3 DEF ProcessInputs, Goto
    <2>. QED BY <1>1, <2>1, KeptSign
  <1>4. CASE ~Unresolved
    <2>. DEFINE g == groups["user"]
    <2>1. /\ pc' = "fee"
          /\ witnesses' = [i \in DOMAIN witnesses |->
                             IF g # << >> /\ i = Head(g) THEN witnesses[i] \cup {"lock"}
                             ELSE witnesses[i]]
      BY <1>4 DEF ProcessInputs, Goto
    <2>2. "user" \in DOMAIN groups /\ ListsMine(g)
      BY <1>1 DEF SignInv, GroupInv
    <2>3. GroupInv'
      BY <1>1, <1>2, <2>1, <2>2 DEF GroupInv, UdtPhase, CkbPhase, ListsMine
    <2>. DEFINE First(i) == i \in Mine /\ \A j \in Mine : i <= j
                Fields == SUBSET {"inputType", "lock"}
    <2>4. witnesses' = [i \in DOMAIN witnesses |->
                          IF First(i) THEN witnesses[i] \cup {"lock"} ELSE witnesses[i]]
      BY <2>1, <2>2, FirstOfMine
    <2>5. /\ witnesses \in Seq(Fields) /\ Len(witnesses) = Len(inputs) /\ inputs \in Seq(TxInput)
          /\ \A i \in DOMAIN inputs : /\ "inputType" \in witnesses[i] <=> inputs[i].lock = "pcls"
                                      /\ "lock" \notin witnesses[i]
      BY <1>1 DEF SignInv, WitnessInv
    <2>. HIDE DEF First, g
    <2>6. /\ DOMAIN inputs = 1 .. Len(inputs) /\ Len(inputs) \in Nat
          /\ DOMAIN witnesses = DOMAIN inputs /\ \A i \in DOMAIN inputs : witnesses[i] \in Fields
      BY <2>5
    <2>7. witnesses' \in Seq(Fields) /\ Len(witnesses') = Len(inputs)
      <3>1. witnesses' \in [1 .. Len(inputs) -> Fields]
        BY <2>4, <2>6
      <3>. QED BY <2>6, <3>1
    <2>8. \A i \in DOMAIN inputs :
             /\ "inputType" \in witnesses'[i] <=> inputs[i].lock = "pcls"
             /\ "lock" \in witnesses'[i] <=> First(i)
      BY <2>4, <2>5, <2>6
    <2>9. \A i \in DOMAIN inputs : inputs[i].live
      BY <1>4 DEF Unresolved
    <2>10. WitnessInv'
      BY <1>1, <1>2, <2>1, <2>7, <2>8, <2>9 DEF WitnessInv, First, Early, UdtPhase, CkbPhase
    <2>. QED BY <1>2, <2>3, <2>10 DEF SignInv
  <1>. QED BY <1>3, <1>4

(* CopyValidScriptGroups drops the user's group only if it is empty.       *)
LEMMA FeeSign ==
    ASSUME SignInv, HandleCKBFee
    PROVE  SignInv'
  <1>1. /\ pc = "fee" /\ UNCHANGED <<inputs, witnesses, ckbIter, udtIter>>
        /\ \/ pc' = "failed" /\ groups' = groups
           \/ pc' = "built" /\ groups' = [s \in ValidScriptGroups |-> groups[s]]
    BY DEF HandleCKBFee, Goto, iters
  <1>2. IterTypes' /\ inputs' \in Seq(TxInput) /\ SourceInv' /\ Mine' = Mine
    BY <1>1 DEF SignInv, IterTypes, SourceInv, Mine
  <1>3. WitnessInv'
    BY <1>1, <1>2 DEF SignInv, WitnessInv, Early, UdtPhase, CkbPhase
  <1>4. "user" \in DOMAIN groups /\ ListsMine(groups["user"])
    BY <1>1 DEF SignInv, GroupInv
  <1>5. groups["user"] = << >> <=> Mine = {}
    <2>. DEFINE g == groups["user"]
    <2>1. g \in Seq(Nat) /\ ToSet(g) = Mine
      BY <1>4 DEF ListsMine
    <2>. HIDE DEF g
    <2>2. g = << >> <=> DOMAIN g = {}
      BY <2>1
    <2>3. ToSet(g) = {} <=> DOMAIN g = {}
      BY DEF ToSet
    <2>4. g = << >> <=> Mine = {}
      BY <2>1, <2>2, <2>3
    <2>. QED BY <2>4 DEF g
  <1>6. pc' = "built" => /\ "user" \in DOMAIN groups' <=> Mine # {}
                         /\ Mine # {} => ListsMine(groups'["user"])
    BY <1>1, <1>4, <1>5 DEF ValidScriptGroups
  <1>7. Mine # {} /\ pc' = "built" => ListsMine(groups["user"])'
    BY <1>2, <1>6 DEF ListsMine
  <1>8. GroupInv'
    BY <1>1, <1>2, <1>6, <1>7 DEF GroupInv, UdtPhase, CkbPhase
  <1>. QED BY <1>2, <1>3, <1>8 DEF SignInv

(* The step, for every action.                                             *)
LEMMA StepSign == SignInv /\ [Next]_vars => SignInv'
  <1>1. SUFFICES ASSUME SignInv, [Next]_vars PROVE SignInv'
    OBVIOUS
  <1>2. CASE UNCHANGED vars
    <2>1. UNCHANGED <<pc, inputs, witnesses, groups, ckbIter, udtIter>>
      BY <1>2 DEF vars, body, iters
    <2>. QED BY <1>1, <2>1 DEF SignInv, IterTypes, SourceInv, GroupInv, ListsMine, WitnessInv, Mine
  <1>3. CASE \/ EmptyCkb \/ NilCell \/ EmptyUdt
             \/ AlreadyBalanced \/ UdtNotRequired \/ UdtProvided \/ UdtShort
             \/ UdtFunded \/ Complete \/ Again \/ SetChange
    BY <1>1, <1>3, KeptSigns
  <1>4. CASE TakeToken \/ SkipToken \/ TakeMin
    BY <1>1, <1>4, TokenSign
  <1>5. CASE InitializeScriptGroups
    BY <1>1, <1>5, GroupSign
  <1>6. CASE TakeUdt \/ TakeCkb
    BY <1>1, <1>6, TakeSign
  <1>7. CASE ProcessInputs
    BY <1>1, <1>7, ProcessSign
  <1>8. CASE HandleCKBFee
    BY <1>1, <1>8, FeeSign
  <1>. QED BY <1>1, <1>2, <1>3, <1>4, <1>5, <1>6, <1>7, <1>8 DEF Next

(* What is handed to the signer spends every cell once, can be unlocked,   *)
(* and has room for a signature where the chain looks for it; for every    *)
(* wallet and all amounts, those that wrap around included.                *)
THEOREM HandedOutOnce == Spec => []SignedOnce
  <1>1. Init => SignInv
    BY InitSign
  <1>2. SignInv /\ [Next]_vars => SignInv'
    BY StepSign
  <1>3. SignInv => SignedOnce
    <2>1. SUFFICES ASSUME SignInv, pc = "built" PROVE SignedOnce
      BY DEF SignedOnce
    <2>2. \A i, j \in DOMAIN inputs : inputs[i].from = inputs[j].from => i = j
      BY <2>1 DEF SignInv, SourceInv
    <2>3. /\ Len(witnesses) = Len(inputs)
          /\ \A i \in DOMAIN inputs :
                /\ inputs[i].live
                /\ "lock" \in witnesses[i] <=> i \in Mine /\ \A j \in Mine : i <= j
                /\ "inputType" \in witnesses[i] <=> inputs[i].lock = "pcls"
      BY <2>1 DEF SignInv, WitnessInv
    <2>4. "user" \in DOMAIN groups <=> Mine # {}
      BY <2>1 DEF SignInv, GroupInv
    <2>5. ASSUME Mine # {}
          PROVE  /\ ToSet(groups["user"]) = Mine
                 /\ \A k \in 1 .. Len(groups["user"]) - 1 : groups["user"][k] < groups["user"][k + 1]
      <3>. DEFINE g == groups["user"]
      <3>1. g \in Seq(Nat) /\ ToSet(g) = Mine /\ Ascending(g)
        BY <2>1, <2>5 DEF SignInv, GroupInv, ListsMine
      <3>. HIDE DEF g
      <3>2. \A k \in 1 .. Len(g) - 1 : k \in DOMAIN g /\ k + 1 \in DOMAIN g /\ k < k + 1
        BY <3>1
      <3>3. \A k \in 1 .. Len(g) - 1 : g[k] < g[k + 1]
        BY <3>1, <3>2 DEF Ascending
      <3>. QED BY <3>1, <3>3 DEF g
    <2>. QED BY <2>2, <2>3, <2>4, <2>5 DEF SignedOnce
  <1>. QED BY <1>1, <1>2, <1>3, PTL DEF Spec
=============================================================================
