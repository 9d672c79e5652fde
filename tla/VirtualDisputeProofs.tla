------------------------ MODULE VirtualDisputeProofs ------------------------
(***************************************************************************)
(* Proofs about VirtualDispute, for any callers, any number of versions    *)
(* and any number of calls.                                                *)
(*                                                                         *)
(* The argument: a caller reads the virtual channel's cells and the        *)
(* parent's cell at different times, but its transaction spends both.      *)
(* While the parent's out point is the live one, what was read of it is    *)
(* true (SnapInv); the virtual channel's cells are inputs themselves.  So  *)
(* what was decided still holds when the transaction is included (PoolInv) *)
(* and nothing that was registered is taken back.                          *)
(***************************************************************************)
EXTENDS VirtualDispute, FiniteSetTheorems, TLAPS

USE VirtualAssumption

Single(s) == \E x \in s : s = {x}
Pair(s) == \E x, y \in s : x # y /\ s = {x, y}

(* The parents whose status names the virtual channel.                     *)
Carriers == {p \in Parent : parent[p].vc}

(* The place of the parent's cell that a snapshot or a transaction names,  *)
(* and its version if the cell is still that one.                          *)
Follows(p, gen) == gen <= parent[p].gen
Current(p, gen) == gen = parent[p].gen

(* Where each caller is, it has what it needs there.                       *)
AtPlace(c) ==
    /\ pc[c] # "idle" => call[c] \in Request
    /\ pc[c] = "parents" => call[c].op = "dispute"
    /\ pc[c] = "parent" => snapVc[c] = {} \/ Single(snapVc[c])
    /\ pc[c] \in {"send", "await"} =>
          /\ snapVc[c] = {} \/ Single(snapVc[c]) \/ Pair(snapVc[c])
          /\ ~Pair(snapVc[c]) => snapParent[c] \in ParentSnap
    /\ pc[c] \in {"parent", "send", "await"} /\ call[c].op = "force" => Single(snapVc[c])
    /\ pc[c] # "await" => sent[c] = Nothing /\ ~mined[c]

PlaceInv == \A c \in Caller : AtPlace(c)

(* A snapshot of the parent's live cell is true, and a dispute was decided *)
(* on newer versions than those that were read.                            *)
SnapTrue(c) ==
    /\ Follows(call[c].p, snapParent[c].gen)
    /\ Current(call[c].p, snapParent[c].gen) =>
          snapParent[c].version = parent[call[c].p].version
    /\ call[c].op = "dispute" =>
          /\ snapVc[c] = {} => call[c].pv >= snapParent[c].version
          /\ \A cell \in snapVc[c] : Newer(c, snapParent[c], cell)

SnapInv == \A c \in Caller : pc[c] \in {"send", "await"} /\ ~Pair(snapVc[c]) => SnapTrue(c)

(* A transaction has the cells that its kind spends.                       *)
Shape(t) ==
    /\ t.kind = "first" => t.vc = {}
    /\ t.kind \in {"progress", "force"} => Single(t.vc)
    /\ t.kind = "merge" => Pair(t.vc)

(* A transaction that could be included now is still right.                *)
PoolInv ==
    \A t \in pool :
        /\ t \in Tx /\ Shape(t)
        /\ t.kind # "merge" => Follows(t.p, t.pgen)
        /\ t.kind \in {"first", "progress"} /\ Current(t.p, t.pgen) =>
              /\ t.pv >= parent[t.p].version
              /\ \A cell \in t.vc : checkVersion(t.pv, parent[t.p].version, t.v, cell.version)

(* Every cell of the virtual channel stands for a parent that brought it,  *)
(* and is older than the next one; a parent is paid out when it is closed. *)
ChainInv ==
    /\ IsFiniteSet(vcs) /\ Cardinality(vcs) <= Cardinality(Carriers)
    /\ \A cell \in vcs : cell.gen <= vgen
    /\ \A p \in Parent : parent[p].live <=> paid[p] = Unpaid

(* What a dispute's commitment means.                                      *)
ParentHonoured(r) ==
    IF parent[r.p].live
    THEN parent[r.p].disputed /\ parent[r.p].version >= r.pv
    ELSE paid[r.p].pv >= r.pv

VcHonoured(r) ==
    \/ merged
    \/ \E cell \in vcs : cell.version >= r.v
    \/ \E p \in Parent : paid[p] # Unpaid /\ paid[p].v >= r.v

Honoured(r) == ParentHonoured(r) /\ VcHonoured(r)

(* The transaction that a caller waits for is the one it decided on.       *)
SentRight(c) ==
    /\ sent[c] \in Tx /\ Shape(sent[c])
    /\ sent[c].by = c /\ sent[c].p = call[c].p /\ sent[c].vc = snapVc[c]
    /\ sent[c].kind \in {"first", "progress"} =>
          sent[c].pv = call[c].pv /\ sent[c].v = call[c].v
    /\ sent[c].kind = "force" <=> call[c].op = "force"
    /\ sent[c].kind = "force" =>
          /\ sent[c].pgen = snapParent[c].gen
          /\ \A cell \in sent[c].vc :
                \/ Newer(c, snapParent[c], cell)
                \/ sent[c].pv = snapParent[c].version /\ sent[c].v = cell.version

SentInv == \A c \in Caller : pc[c] = "await" => SentRight(c)

(* An answer, and an inclusion not yet answered, is borne out.             *)
AnswerInv ==
    /\ \A a \in told : a.req.op = "dispute" /\ a.why = "committed" => Honoured(a.req)
    /\ \A c \in Caller :
          pc[c] = "await" /\ mined[c] /\ sent[c].kind \in {"first", "progress"} => Honoured(call[c])

Ind == TypeOK /\ PlaceInv /\ SnapInv /\ PoolInv /\ ChainInv /\ SentInv /\ AnswerInv

-----------------------------------------------------------------------------
(* Sets of cells.                                                          *)

(* How many there are, without the bijection of FS_CardinalityType.        *)
LEMMA Size ==
    ASSUME NEW s, IsFiniteSet(s)
    PROVE  /\ Cardinality(s) \in Nat
           /\ Cardinality(s) = 0 <=> s = {}
           /\ \A x \in s : /\ IsFiniteSet(s \ {x})
                           /\ Cardinality(s \ {x}) = Cardinality(s) - 1
           /\ \A x : x \notin s => /\ IsFiniteSet(s \cup {x})
                                   /\ Cardinality(s \cup {x}) = Cardinality(s) + 1
<1>1. Cardinality(s) \in Nat
  BY FS_CardinalityType
<1>2. Cardinality(s) = 0 <=> s = {}
  BY FS_EmptySet
<1>3. ASSUME NEW x \in s
      PROVE  IsFiniteSet(s \ {x}) /\ Cardinality(s \ {x}) = Cardinality(s) - 1
  BY FS_RemoveElement
<1>4. ASSUME NEW x, x \notin s
      PROVE  IsFiniteSet(s \cup {x}) /\ Cardinality(s \cup {x}) = Cardinality(s) + 1
  BY <1>4, FS_AddElement
<1>5. QED
  BY <1>1, <1>2, <1>3, <1>4

(* One cell.                                                               *)
LEMMA SingleSize ==
    ASSUME NEW s, Single(s)
    PROVE  IsFiniteSet(s) /\ Cardinality(s) = 1
BY FS_Singleton DEF Single

(* Two cells.                                                              *)
LEMMA PairSize ==
    ASSUME NEW s, Pair(s)
    PROVE  IsFiniteSet(s) /\ Cardinality(s) = 2
<1>1. PICK x, y \in s : x # y /\ s = {x, y}
  BY DEF Pair
<1>2. IsFiniteSet({x}) /\ Cardinality({x}) = 1
  BY FS_Singleton
<1>3. s = {x} \cup {y} /\ y \notin {x}
  BY <1>1
<1>4. QED
  BY <1>2, <1>3, FS_AddElement

(* At most two cells are none, one or two.                                 *)
LEMMA FewCells ==
    ASSUME NEW s, IsFiniteSet(s), Cardinality(s) <= 2
    PROVE  s = {} \/ Single(s) \/ Pair(s)
<1>1. CASE s = {}
  BY <1>1
<1>2. ASSUME NEW x \in s PROVE Single(s) \/ Pair(s)
  <2>1. IsFiniteSet(s \ {x}) /\ Cardinality(s \ {x}) = Cardinality(s) - 1
    BY FS_RemoveElement
  <2>5. Cardinality(s) \in Nat /\ Cardinality(s \ {x}) \in Nat
    BY <2>1, Size
  <2>2. CASE s \ {x} = {}
    BY <2>2 DEF Single
  <2>3. ASSUME NEW y \in s \ {x} PROVE Pair(s)
    <3>1. /\ IsFiniteSet((s \ {x}) \ {y})
          /\ Cardinality((s \ {x}) \ {y}) = Cardinality(s \ {x}) - 1
      BY <2>1, FS_RemoveElement
    <3>4. Cardinality((s \ {x}) \ {y}) \in Nat
      BY <3>1, Size
    <3>5. Cardinality((s \ {x}) \ {y}) = 0
      BY <2>1, <2>5, <3>1, <3>4
    <3>2. (s \ {x}) \ {y} = {}
      BY <3>1, <3>5, Size
    <3>3. QED
      BY <3>2 DEF Pair
  <2>4. QED
    BY <2>2, <2>3
<1>3. QED
  BY <1>1, <1>2

(* One cell is replaced by a new one.                                      *)
LEMMA ReplaceSingle ==
    ASSUME NEW S, NEW R, NEW x, IsFiniteSet(S), R \subseteq S, Single(R), x \notin S
    PROVE  /\ IsFiniteSet((S \ R) \cup {x})
           /\ Cardinality((S \ R) \cup {x}) = Cardinality(S)
<1>1. PICK y \in S : R = {y}
  BY DEF Single
<1>2. IsFiniteSet(S \ {y}) /\ Cardinality(S \ {y}) = Cardinality(S) - 1
  BY FS_RemoveElement
<1>3. x \notin S \ {y}
  OBVIOUS
<1>4. /\ IsFiniteSet((S \ {y}) \cup {x})
      /\ Cardinality((S \ {y}) \cup {x}) = Cardinality(S \ {y}) + 1
  BY <1>2, <1>3, Size
<1>5. Cardinality(S) \in Nat
  BY Size
<1>6. QED
  BY <1>1, <1>2, <1>4, <1>5

(* Two cells are replaced by a new one.                                    *)
LEMMA ReplacePair ==
    ASSUME NEW S, NEW R, NEW x, IsFiniteSet(S), R \subseteq S, Pair(R), x \notin S
    PROVE  /\ IsFiniteSet((S \ R) \cup {x})
           /\ Cardinality((S \ R) \cup {x}) = Cardinality(S) - 1
<1>1. PICK y, z \in S : y # z /\ R = {y, z}
  BY DEF Pair
<1>2. IsFiniteSet(S \ {y}) /\ Cardinality(S \ {y}) = Cardinality(S) - 1
  BY FS_RemoveElement
<1>3. /\ IsFiniteSet((S \ {y}) \ {z})
      /\ Cardinality((S \ {y}) \ {z}) = Cardinality(S \ {y}) - 1
  BY <1>1, <1>2, FS_RemoveElement
<1>4. (S \ R) = (S \ {y}) \ {z} /\ x \notin (S \ {y}) \ {z}
  BY <1>1
<1>5. /\ IsFiniteSet((S \ R) \cup {x})
      /\ Cardinality((S \ R) \cup {x}) = Cardinality((S \ {y}) \ {z}) + 1
  BY <1>3, <1>4, Size
<1>6. Cardinality(S) \in Nat
  BY Size
<1>7. QED
  BY <1>2, <1>3, <1>5, <1>6

(* The cells of the virtual channel are at most as many as the parents.    *)
LEMMA AtMostTwo ==
    ASSUME NEW S, IsFiniteSet(S), NEW C \in SUBSET Parent, Cardinality(S) <= Cardinality(C)
    PROVE  Cardinality(S) <= 2
<1>1. IsFiniteSet(C) /\ Cardinality(C) <= 2
  BY FS_Subset
<1>2. QED
  BY <1>1, FS_CardinalityType

-----------------------------------------------------------------------------
(* Two open parents, no cell of the virtual channel, idle callers.         *)
LEMMA InitInd == Init => Ind
<1> SUFFICES ASSUME Init PROVE Ind
  OBVIOUS
<1> USE DEF Init
<1>1. IsFiniteSet(vcs) /\ Cardinality(vcs) = 0
  BY FS_EmptySet
<1>2. TypeOK
  <2>1. parent \in [Parent -> ParentCell]
    BY DEF ParentCell, ParentVersion
  <2>2. /\ vcs \subseteq VcCell /\ vgen \in Nat /\ Cardinality(vcs) <= 2
        /\ calls \in 0..MaxCalls
    BY <1>1
  <2>3. /\ paid \in [Parent -> [pv : ParentVersion, v : Version] \cup {Unpaid}]
        /\ pool \subseteq Tx /\ told \subseteq [req : Request, why : Reason]
        /\ merged \in BOOLEAN
    OBVIOUS
  <2>4. /\ vccache \in [Caller -> BOOLEAN]
        /\ pc \in [Caller -> {"idle", "parents", "vc", "parent", "send", "await"}]
        /\ call \in [Caller -> Request \cup {Nothing}]
    OBVIOUS
  <2>5. /\ snapVc \in [Caller -> SUBSET VcCell]
        /\ snapParent \in [Caller -> ParentSnap \cup {Nothing}]
        /\ sent \in [Caller -> Tx \cup {Nothing}]
        /\ mined \in [Caller -> BOOLEAN]
    OBVIOUS
  <2>6. QED
    BY <2>1, <2>2, <2>3, <2>4, <2>5 DEF TypeOK
<1>3. PlaceInv /\ SnapInv /\ PoolInv /\ SentInv /\ AnswerInv
  BY DEF PlaceInv, AtPlace, SnapInv, PoolInv, SentInv, AnswerInv
<1>4. ChainInv
  <2>1. Carriers = {}
    BY DEF Carriers
  <2>2. QED
    BY <1>1, <2>1, FS_EmptySet DEF ChainInv
<1>5. QED
  BY <1>2, <1>3, <1>4 DEF Ind

-----------------------------------------------------------------------------
(* What a step of the chain means for those who have read it.              *)

(* A parent's cell stays, or another one takes its place.                  *)
ParentsMove ==
    \A p \in Parent :
        \/ parent'[p].gen = parent[p].gen /\ parent'[p].version = parent[p].version
        \/ parent'[p].gen > parent[p].gen

(* One parent's cell is changed or replaced.                               *)
LEMMA OneMoves ==
    ASSUME TypeOK, NEW p \in Parent, NEW new \in ParentCell, parent' = [parent EXCEPT ![p] = new],
           \/ new.gen = parent[p].gen /\ new.version = parent[p].version
           \/ new.gen > parent[p].gen
    PROVE  ParentsMove /\ parent' \in [Parent -> ParentCell]
BY DEF TypeOK, ParentsMove

(* Every step of the chain moves the parents only in this way.             *)
LEMMA ChainMoves ==
    ASSUME TypeOK,
           \/ \E t \in pool : MineFirst(t) \/ MineProgress(t) \/ MineMerge(t) \/ MineForce(t)
           \/ \E p \in Parent : Mature(p) \/ \E v \in ParentVersion : PlainDispute(p, v)
    PROVE  ParentsMove /\ parent' \in [Parent -> ParentCell]
<1>1. ASSUME NEW t \in pool, MineFirst(t) \/ MineProgress(t)
      PROVE  ParentsMove /\ parent' \in [Parent -> ParentCell]
  <2> DEFINE new == [live |-> TRUE, gen |-> parent[t.p].gen + 1, version |-> t.pv,
                     disputed |-> TRUE, vc |-> TRUE, matured |-> FALSE]
  <2>1. parent' = [parent EXCEPT ![t.p] = new]
    BY <1>1 DEF MineFirst, MineProgress, Registered, TypeOK
  <2>2. t.p \in Parent /\ t.pv \in ParentVersion /\ parent[t.p].gen \in Nat
    BY DEF TypeOK, Tx, ParentCell
  <2>3. new \in ParentCell /\ new.gen > parent[t.p].gen
    BY <2>2 DEF ParentCell
  <2>4. QED
    BY <2>1, <2>2, <2>3, OneMoves
<1>2. ASSUME NEW t \in pool, MineMerge(t)
      PROVE  ParentsMove /\ parent' \in [Parent -> ParentCell]
  BY <1>2 DEF MineMerge, ParentsMove, TypeOK
<1>3. ASSUME NEW t \in pool, MineForce(t)
      PROVE  ParentsMove /\ parent' \in [Parent -> ParentCell]
  <2> DEFINE new == [parent[t.p] EXCEPT !.live = FALSE]
  <2>1. t.p \in Parent /\ parent[t.p] \in ParentCell
    BY DEF TypeOK, Tx
  <2>2. parent' = [parent EXCEPT ![t.p] = new]
    BY <1>3 DEF MineForce
  <2>3. /\ new \in ParentCell
        /\ new.gen = parent[t.p].gen /\ new.version = parent[t.p].version
    BY <2>1 DEF ParentCell
  <2>4. QED
    BY <2>1, <2>2, <2>3, OneMoves
<1>4. ASSUME NEW p \in Parent, Mature(p)
      PROVE  ParentsMove /\ parent' \in [Parent -> ParentCell]
  <2> DEFINE new == [parent[p] EXCEPT !.matured = TRUE]
  <2>1. parent[p] \in ParentCell
    BY DEF TypeOK
  <2>2. parent' = [parent EXCEPT ![p] = new]
    BY <1>4 DEF Mature
  <2>3. new \in ParentCell /\ new.gen = parent[p].gen /\ new.version = parent[p].version
    BY <2>1 DEF ParentCell
  <2>4. QED
    BY <2>2, <2>3, OneMoves
<1>5. ASSUME NEW p \in Parent, NEW v \in ParentVersion, PlainDispute(p, v)
      PROVE  ParentsMove /\ parent' \in [Parent -> ParentCell]
  <2> DEFINE new == [parent[p] EXCEPT !.gen = @ + 1, !.version = v,
                                      !.disputed = TRUE, !.matured = FALSE]
  <2>1. parent[p] \in ParentCell
    BY DEF TypeOK
  <2>2. parent' = [parent EXCEPT ![p] = new]
    BY <1>5, <2>1 DEF PlainDispute, TypeOK
  <2>3. parent[p].gen \in Nat /\ parent[p].gen + 1 \in Nat
    BY <2>1 DEF ParentCell
  <2>4. new.gen = parent[p].gen + 1
    BY <2>1 DEF ParentCell
  <2>5. new \in ParentCell
    BY <2>1, <2>3 DEF ParentCell
  <2> HIDE DEF new
  <2>6. new.gen > parent[p].gen
    BY <2>3, <2>4
  <2>7. QED
    BY <2>2, <2>5, <2>6, OneMoves
<1>6. QED
  BY <1>1, <1>2, <1>3, <1>4, <1>5

(* What a caller has read and sent is right as long as it does nothing.    *)
LEMMA SameCaller ==
    ASSUME NEW d \in Caller, UNCHANGED <<call[d], sent[d], snapVc[d], snapParent[d]>>
    PROVE  /\ SentRight(d) => SentRight(d)'
           /\ UNCHANGED parent /\ SnapTrue(d) => SnapTrue(d)'
<1>1. \A p, cell : Newer(d, p, cell) <=> Newer(d, p, cell)'
  BY DEF Newer, checkVersion
<1>2. UNCHANGED parent /\ SnapTrue(d) => SnapTrue(d)'
  BY <1>1 DEF SnapTrue, Follows, Current
<1>3. SentRight(d) => SentRight(d)'
  BY <1>1 DEF SentRight, Shape
<1>4. QED
  BY <1>2, <1>3

(* What was read stays true of the cell it was read from.                  *)
LEMMA SnapStays ==
    ASSUME Ind, ParentsMove, parent' \in [Parent -> ParentCell],
           UNCHANGED <<pc, call, snapVc, snapParent>>
    PROVE  SnapInv'
<1> SUFFICES ASSUME NEW c \in Caller, pc[c] \in {"send", "await"}, ~Pair(snapVc[c])
             PROVE  SnapTrue(c)'
  BY DEF SnapInv
<1>1. /\ call[c] \in Request /\ snapParent[c] \in ParentSnap
      /\ call'[c] = call[c] /\ snapParent'[c] = snapParent[c] /\ snapVc'[c] = snapVc[c]
  BY DEF Ind, PlaceInv, AtPlace
<1>2. \A p, cell : Newer(c, p, cell) => Newer(c, p, cell)'
  BY <1>1 DEF Newer, checkVersion
<1>3. SnapTrue(c) /\ call[c].p \in Parent
  BY <1>1 DEF Ind, SnapInv, Request
<1>4. /\ Follows(call[c].p, snapParent[c].gen)'
      /\ Current(call[c].p, snapParent[c].gen)' =>
            snapParent[c].version = parent'[call[c].p].version
  BY <1>1, <1>3 DEF Ind, ParentsMove, TypeOK, ParentSnap, ParentCell, SnapTrue, Follows, Current
<1>5. QED
  BY <1>1, <1>2, <1>3, <1>4 DEF SnapTrue, Follows, Current

(* What was decided stays right for the cell it was decided on.            *)
LEMMA PoolStays ==
    ASSUME Ind, ParentsMove, parent' \in [Parent -> ParentCell], pool' \subseteq pool
    PROVE  PoolInv'
<1> SUFFICES ASSUME NEW t \in pool
             PROVE  /\ t.kind # "merge" => Follows(t.p, t.pgen)'
                    /\ t.kind \in {"first", "progress"} /\ Current(t.p, t.pgen)' =>
                          /\ t.pv >= parent'[t.p].version
                          /\ \A cell \in t.vc :
                                checkVersion(t.pv, parent'[t.p].version, t.v, cell.version)
  BY DEF PoolInv, Ind
<1>1. t \in Tx
  BY DEF Ind, TypeOK
<1>2. QED
  BY <1>1 DEF Ind, PoolInv, ParentsMove, TypeOK, Tx, ParentCell, Follows, Current

(* Nobody's place changes when a transaction is included.                  *)
LEMMA PlaceStays ==
    ASSUME Ind, NEW t \in pool, Included(t)
    PROVE  PlaceInv' /\ SentInv'
<1>1. t # Nothing
  BY DEF Ind, TypeOK, Tx, Nothing
<1>2. PlaceInv'
  BY <1>1 DEF Ind, PlaceInv, AtPlace, Included, TypeOK
<1>3. SentInv'
  BY SameCaller DEF Ind, SentInv, Included
<1>4. QED
  BY <1>2, <1>3

(* A cell takes the place of those that a transaction spends.              *)
LEMMA ReplaceMakes ==
    ASSUME Ind, NEW t \in pool, NEW version \in Version, NEW first \in BOOLEAN,
           Replace(t, version, first)
    PROVE  \E new \in VcCell : /\ new \notin vcs /\ new.version = version
                               /\ vcs' = (vcs \ t.vc) \cup {new}
                               /\ vcs' \subseteq VcCell /\ vgen' \in Nat
                               /\ \A cell \in vcs' : cell.gen <= vgen'
<1> DEFINE new == [gen |-> vgen + 1, version |-> version, first |-> first]
<1>1. vgen \in Nat /\ vcs \subseteq VcCell /\ \A cell \in vcs : cell.gen <= vgen
  BY DEF Ind, TypeOK, ChainInv
<1>2. new \in VcCell /\ new.gen = vgen + 1 /\ new.version = version
  BY <1>1 DEF VcCell
<1>3. vcs' = (vcs \ t.vc) \cup {new} /\ vgen' = vgen + 1
  BY DEF Replace
<1> HIDE DEF new
<1>4. new \notin vcs
  BY <1>1, <1>2
<1>5. \A cell \in vcs' : cell.gen <= vgen'
  BY <1>1, <1>2, <1>3 DEF VcCell
<1>6. QED
  BY <1>1, <1>2, <1>3, <1>4, <1>5

(* Types after a step that makes no call and answers none.                 *)
LEMMA ChainTypes ==
    ASSUME TypeOK, ChainInv', parent' \in [Parent -> ParentCell],
           vcs' \subseteq VcCell, vgen' \in Nat, merged' \in BOOLEAN,
           paid' \in [Parent -> [pv : ParentVersion, v : Version] \cup {Unpaid}],
           pool' \subseteq pool, mined' \in [Caller -> BOOLEAN],
           UNCHANGED <<vccache, pc, call, snapVc, snapParent, sent, calls, told>>
    PROVE  TypeOK'
<1>1. Carriers' \subseteq Parent
  BY DEF Carriers
<1>2. Cardinality(vcs') <= 2
  BY <1>1, AtMostTwo DEF ChainInv
<1>3. QED
  BY <1>2 DEF TypeOK

(* Who was promised something still has it, if no step takes it back and   *)
(* the included dispute is borne out.                                      *)
LEMMA AnswersStay ==
    ASSUME Ind, NEW t \in pool, Included(t),
           \A r \in Request : Honoured(r) => Honoured(r)',
           t.kind \in {"first", "progress"} =>
              \A r \in Request : r.p = t.p /\ r.pv = t.pv /\ r.v = t.v => Honoured(r)'
    PROVE  AnswerInv'
<1>1. UNCHANGED <<pc, call, sent, told>>
  BY DEF Included
<1>2. \A a \in told : a.req \in Request
  BY DEF Ind, TypeOK
<1>3. ASSUME NEW a \in told, a.req.op = "dispute", a.why = "committed" PROVE Honoured(a.req)'
  BY <1>2, <1>3 DEF Ind, AnswerInv
<1>4. ASSUME NEW c \in Caller, pc[c] = "await", mined'[c],
             sent[c].kind \in {"first", "progress"}
      PROVE  Honoured(call[c])'
  <2>1. call[c] \in Request
    BY <1>4 DEF Ind, PlaceInv, AtPlace
  <2>2. \E r \in Request : r = call'[c] /\ Honoured(r)'
    <3>1. CASE mined[c]
      BY <1>1, <1>4, <2>1, <3>1 DEF Ind, AnswerInv
    <3>2. CASE ~mined[c]
      <4>1. sent[c] = t
        BY <1>4, <3>2 DEF Ind, TypeOK, Included
      <4>2. call[c].p = t.p /\ call[c].pv = t.pv /\ call[c].v = t.v
        BY <1>4, <4>1 DEF Ind, SentInv, SentRight
      <4>3. QED
        BY <1>1, <1>4, <2>1, <4>1, <4>2
    <3>3. QED
      BY <3>1, <3>2
  <2>3. QED
    BY <2>2 DEF Honoured, ParentHonoured, VcHonoured
<1>5. QED
  BY <1>1, <1>3, <1>4 DEF AnswerInv

(* No registration of a parent is taken back, except by paying it out.     *)
ParentsKeep ==
    \A p \in Parent :
        \/ /\ parent[p].live /\ parent'[p].live
           /\ parent'[p].version >= parent[p].version
           /\ parent[p].disputed => parent'[p].disputed
           /\ paid'[p] = paid[p]
        \/ /\ parent[p].live /\ ~parent'[p].live
           /\ paid'[p] # Unpaid /\ paid'[p].pv >= parent[p].version
        \/ ~parent[p].live /\ ~parent'[p].live /\ paid'[p] = paid[p]

(* No registration of the virtual channel is, except by a merge.           *)
VcsKeep ==
    \/ merged'
    \/ /\ ~merged
       /\ \A cell \in vcs :
             \/ \E new \in vcs' : new.version >= cell.version
             \/ \E p \in Parent : paid'[p] # Unpaid /\ paid'[p].v >= cell.version

(* A step that takes no registration back bears out what was promised.     *)
LEMMA HonouredStays ==
    ASSUME Ind, TypeOK', ParentsKeep, VcsKeep
    PROVE  \A r \in Request : Honoured(r) => Honoured(r)'
<1> SUFFICES ASSUME NEW r \in Request, Honoured(r) PROVE Honoured(r)'
  OBVIOUS
<1>1. /\ r.p \in Parent /\ r.pv \in Nat /\ r.v \in Nat
      /\ parent[r.p].version \in Nat /\ parent'[r.p].version \in Nat
  BY DEF Ind, TypeOK, Request, ParentCell, ParentVersion, Version
<1>2. \A p \in Parent : paid'[p] # Unpaid => paid'[p].pv \in Nat /\ paid'[p].v \in Nat
  BY DEF TypeOK, ParentVersion, Version
<1>3. ParentHonoured(r)'
  BY <1>1, <1>2 DEF ParentsKeep, Honoured, ParentHonoured
<1>4. VcHonoured(r)'
  <2>1. CASE merged'
    BY <2>1 DEF VcHonoured
  <2>2. ASSUME ~merged', NEW cell \in vcs, cell.version >= r.v PROVE VcHonoured(r)'
    <3>1. cell.version \in Nat /\ \A new \in vcs' : new.version \in Nat
      BY DEF Ind, TypeOK, VcCell, Version
    <3>2. QED
      BY <1>1, <1>2, <2>2, <3>1 DEF VcsKeep, VcHonoured
  <2>3. ASSUME NEW p \in Parent, paid[p] # Unpaid, paid[p].v >= r.v PROVE VcHonoured(r)'
    <3>1. paid'[p] = paid[p]
      BY <2>3 DEF ParentsKeep, Ind, ChainInv
    <3>2. QED
      BY <2>3, <3>1 DEF VcHonoured
  <2>4. QED
    BY <2>1, <2>2, <2>3 DEF Honoured, VcHonoured, VcsKeep
<1>5. QED
  BY <1>3, <1>4 DEF Honoured

-----------------------------------------------------------------------------
(* The chain's steps.                                                      *)

(* The parent that an included dispute registers.                          *)
LEMMA RegisteredParent ==
    ASSUME TypeOK, NEW t \in Tx, Registered(t)
    PROVE  /\ parent'[t.p].live /\ parent'[t.p].disputed /\ parent'[t.p].vc
           /\ parent'[t.p].gen = parent[t.p].gen + 1 /\ parent'[t.p].version = t.pv
           /\ \A p \in Parent : p # t.p => parent'[p] = parent[p]
BY DEF TypeOK, Tx, Registered

(* The first dispute of a parent brings a cell of the virtual channel.     *)
LEMMA FirstInd ==
    ASSUME Ind, NEW t \in pool, MineFirst(t)
    PROVE  Ind' /\ Rises
<1> USE DEF MineFirst
<1>1. /\ t \in Tx /\ t.kind = "first" /\ t.vc = {} /\ t.p \in Parent
      /\ parent[t.p].live /\ t.pv >= parent[t.p].version /\ t.pv \in Nat /\ t.v \in Version
  BY DEF Ind, PoolInv, Shape, Included, SpendsLive, Tx, ParentVersion, Current
<1>2. PICK new \in VcCell : /\ new \notin vcs /\ new.version = t.v
                            /\ vcs' = (vcs \ t.vc) \cup {new}
                            /\ vcs' \subseteq VcCell /\ vgen' \in Nat
                            /\ \A cell \in vcs' : cell.gen <= vgen'
  BY <1>1, ReplaceMakes
<1>3. ParentsMove /\ parent' \in [Parent -> ParentCell]
  BY ChainMoves DEF Ind
<1>4. /\ parent'[t.p].live /\ parent'[t.p].disputed /\ parent'[t.p].vc
      /\ parent'[t.p].gen = parent[t.p].gen + 1 /\ parent'[t.p].version = t.pv
      /\ \A p \in Parent : p # t.p => parent'[p] = parent[p]
  BY <1>1, RegisteredParent DEF Ind
<1>5. vcs' = vcs \cup {new}
  BY <1>1, <1>2
<1>6. IsFiniteSet(vcs') /\ Cardinality(vcs') = Cardinality(vcs) + 1 /\ Cardinality(vcs) \in Nat
  BY <1>2, <1>5, Size DEF Ind, ChainInv
<1>7. ChainInv'
  <2>1. Carriers' = Carriers \cup {t.p} /\ t.p \notin Carriers
    BY <1>1, <1>4 DEF Carriers
  <2>2. IsFiniteSet(Carriers)
    BY FS_Subset DEF Carriers
  <2>3. Cardinality(Carriers') = Cardinality(Carriers) + 1 /\ Cardinality(Carriers) \in Nat
    BY <2>1, <2>2, Size
  <2>4. Cardinality(vcs') <= Cardinality(Carriers')
    BY <1>6, <2>3 DEF Ind, ChainInv
  <2>5. \A p \in Parent : parent'[p].live <=> paid'[p] = Unpaid
    BY <1>1, <1>4 DEF Ind, ChainInv
  <2>6. QED
    BY <1>2, <1>6, <2>4, <2>5 DEF ChainInv
<1>8. TypeOK'
  <2>1. /\ pool' \subseteq pool /\ mined' \in [Caller -> BOOLEAN]
        /\ UNCHANGED <<vccache, pc, call, snapVc, snapParent, sent, calls, told, paid, merged>>
    BY DEF Included, Ind, TypeOK
  <2>2. /\ paid' \in [Parent -> [pv : ParentVersion, v : Version] \cup {Unpaid}]
        /\ merged' \in BOOLEAN
    BY <2>1 DEF Ind, TypeOK
  <2>3. QED
    BY <1>2, <1>3, <1>7, <2>1, <2>2, ChainTypes DEF Ind
<1>9. ParentsKeep /\ VcsKeep
  <2>1. \A p \in Parent : parent[p].version \in Nat
    BY DEF Ind, TypeOK, ParentCell, ParentVersion
  <2>2. \A cell \in vcs : cell.version \in Nat
    BY DEF Ind, TypeOK, VcCell, Version
  <2>3. ParentsKeep
    BY <1>1, <1>4, <2>1 DEF ParentsKeep
  <2>4. VcsKeep
    BY <1>5, <2>2 DEF VcsKeep, Ind, TypeOK
  <2>5. QED
    BY <2>3, <2>4
<1>10. AnswerInv'
  <2>1. \A r \in Request : Honoured(r) => Honoured(r)'
    BY <1>8, <1>9, HonouredStays
  <2>2. ASSUME NEW r \in Request, r.p = t.p, r.pv = t.pv, r.v = t.v PROVE Honoured(r)'
    BY <1>1, <1>2, <1>4, <2>2 DEF Honoured, ParentHonoured, VcHonoured, Version
  <2>3. QED
    BY <2>1, <2>2, AnswersStay
<1>11. PlaceInv' /\ SnapInv' /\ PoolInv' /\ SentInv'
  <2>1. pool' \subseteq pool /\ UNCHANGED <<pc, call, snapVc, snapParent>>
    BY DEF Included
  <2>2. QED
    BY <1>3, <2>1, PlaceStays, SnapStays, PoolStays
<1>12. Rises
  <2>1. \A p \in Parent : parent'[p].version >= parent[p].version
    BY <1>1, <1>4 DEF Ind, TypeOK, ParentCell, ParentVersion
  <2>2. Cardinality(vcs') > Cardinality(vcs)
    BY <1>6
  <2>3. \A old \in Newest : old \in vcs' /\ old.version >= old.version
    BY <1>5 DEF Newest, Ind, TypeOK, VcCell, Version
  <2>4. QED
    BY <2>1, <2>2, <2>3 DEF Rises
<1>13. QED
  BY <1>7, <1>8, <1>10, <1>11, <1>12 DEF Ind

(* What is common to the steps that include a transaction.                 *)
LEMMA IncludedFrame ==
    ASSUME Ind, NEW t \in pool, Included(t),
           MineFirst(t) \/ MineProgress(t) \/ MineMerge(t) \/ MineForce(t)
    PROVE  /\ PlaceInv' /\ SnapInv' /\ PoolInv' /\ SentInv'
           /\ pool' \subseteq pool /\ mined' \in [Caller -> BOOLEAN]
           /\ UNCHANGED <<vccache, pc, call, snapVc, snapParent, sent, calls, told>>
<1>1. /\ pool' \subseteq pool /\ mined' \in [Caller -> BOOLEAN]
      /\ UNCHANGED <<vccache, pc, call, snapVc, snapParent, sent, calls, told>>
  BY DEF Included, Ind, TypeOK
<1>2. ParentsMove /\ parent' \in [Parent -> ParentCell]
  BY ChainMoves DEF Ind
<1>3. QED
  BY <1>1, <1>2, PlaceStays, SnapStays, PoolStays

(* A later dispute of a parent brings both cells up to date.               *)
LEMMA ProgressInd ==
    ASSUME Ind, NEW t \in pool, MineProgress(t)
    PROVE  Ind' /\ Rises
<1> USE DEF MineProgress
<1>1. /\ t \in Tx /\ t.kind = "progress" /\ Single(t.vc) /\ t.vc \subseteq vcs
      /\ t.p \in Parent /\ t.pv \in Nat /\ t.v \in Version
      /\ parent[t.p].live /\ t.pv >= parent[t.p].version
  BY DEF Ind, PoolInv, Shape, Included, SpendsLive, Tx, ParentVersion, Current
<1>2. PICK old \in vcs : t.vc = {old}
  BY <1>1 DEF Single
<1>3. /\ t.v >= old.version /\ t.v \in Nat
      /\ t.pv > parent[t.p].version \/ t.v > old.version
      /\ old.version \in Nat /\ old.first \in BOOLEAN
  BY <1>1, <1>2 DEF Ind, PoolInv, Included, SpendsLive, Current, checkVersion,
                    TypeOK, VcCell, Version
<1>4. PICK new \in VcCell : /\ new \notin vcs /\ new.version = t.v
                            /\ vcs' = (vcs \ t.vc) \cup {new}
                            /\ vcs' \subseteq VcCell /\ vgen' \in Nat
                            /\ \A cell \in vcs' : cell.gen <= vgen'
  BY <1>1, <1>2, <1>3, ReplaceMakes
<1>5. parent' \in [Parent -> ParentCell]
  BY ChainMoves DEF Ind
<1>6. /\ parent'[t.p].live /\ parent'[t.p].disputed /\ parent'[t.p].vc
      /\ parent'[t.p].gen = parent[t.p].gen + 1 /\ parent'[t.p].version = t.pv
      /\ \A p \in Parent : p # t.p => parent'[p] = parent[p]
  BY <1>1, RegisteredParent DEF Ind
<1>7. IsFiniteSet(vcs') /\ Cardinality(vcs') = Cardinality(vcs) /\ Cardinality(vcs) \in Nat
  BY <1>1, <1>4, ReplaceSingle, Size DEF Ind, ChainInv
<1>8. ChainInv'
  <2>1. Carriers \subseteq Carriers' /\ Carriers' \subseteq Parent
    BY <1>1, <1>6 DEF Carriers
  <2>2. IsFiniteSet(Carriers') /\ Cardinality(Carriers) <= Cardinality(Carriers')
    BY <2>1, FS_Subset
  <2>3. IsFiniteSet(Carriers)
    BY <2>1, <2>2, FS_Subset
  <2>4. Cardinality(Carriers) \in Nat /\ Cardinality(Carriers') \in Nat
    BY <2>2, <2>3, Size
  <2>5. Cardinality(vcs') <= Cardinality(Carriers')
    BY <1>7, <2>2, <2>4 DEF Ind, ChainInv
  <2>6. \A p \in Parent : parent'[p].live <=> paid'[p] = Unpaid
    BY <1>1, <1>6 DEF Ind, ChainInv
  <2>7. QED
    BY <1>4, <1>7, <2>5, <2>6 DEF ChainInv
<1>9. TypeOK'
  <2>1. /\ paid' \in [Parent -> [pv : ParentVersion, v : Version] \cup {Unpaid}]
        /\ merged' \in BOOLEAN
    BY DEF Ind, TypeOK
  <2>2. QED
    BY <1>4, <1>5, <1>8, <2>1, IncludedFrame, ChainTypes DEF Ind
<1>10. ParentsKeep /\ VcsKeep
  <2>1. \A p \in Parent : parent[p].version \in Nat
    BY DEF Ind, TypeOK, ParentCell, ParentVersion
  <2>2. \A cell \in vcs : cell.version \in Nat
    BY DEF Ind, TypeOK, VcCell, Version
  <2>3. ParentsKeep
    BY <1>1, <1>6, <2>1 DEF ParentsKeep
  <2>4. ASSUME NEW cell \in vcs PROVE \E next \in vcs' : next.version >= cell.version
    <3>1. CASE cell = old
      BY <1>3, <1>4, <3>1
    <3>2. CASE cell # old
      BY <1>2, <1>4, <2>2, <3>2
    <3>3. QED
      BY <3>1, <3>2
  <2>5. VcsKeep
    BY <2>4 DEF VcsKeep, Ind, TypeOK
  <2>6. QED
    BY <2>3, <2>5
<1>11. AnswerInv'
  <2>1. \A r \in Request : Honoured(r) => Honoured(r)'
    BY <1>9, <1>10, HonouredStays
  <2>2. ASSUME NEW r \in Request, r.p = t.p, r.pv = t.pv, r.v = t.v PROVE Honoured(r)'
    BY <1>1, <1>4, <1>6, <2>2 DEF Honoured, ParentHonoured, VcHonoured, Version
  <2>3. QED
    BY <2>1, <2>2, AnswersStay
<1>12. Rises
  <2>1. \A p \in Parent : parent'[p].version >= parent[p].version
    BY <1>1, <1>6 DEF Ind, TypeOK, ParentCell, ParentVersion
  <2>2. \A p \in Parent : parent'[p].gen # parent[p].gen =>
           \/ parent'[p].version > parent[p].version
           \/ \E gone \in vcs \ vcs', come \in vcs' \ vcs : come.version > gone.version
    <3>1. old \in vcs \ vcs' /\ new \in vcs' \ vcs
      BY <1>2, <1>4
    <3>2. QED
      BY <1>3, <1>4, <1>6, <3>1
  <2>3. ASSUME NEW cell \in Newest PROVE \E next \in vcs' : next.version >= cell.version
    <3>1. cell \in vcs /\ cell.version \in Nat
      BY DEF Newest, Ind, TypeOK, VcCell, Version
    <3>2. CASE cell = old
      BY <1>3, <1>4, <3>2
    <3>3. CASE cell # old
      BY <1>2, <1>4, <3>1, <3>3
    <3>4. QED
      BY <3>2, <3>3
  <2>4. QED
    BY <2>1, <2>2, <2>3 DEF Rises
<1>13. QED
  BY <1>8, <1>9, <1>11, <1>12, IncludedFrame DEF Ind

(* Two cells of the virtual channel are merged into one.                   *)
LEMMA MergeInd ==
    ASSUME Ind, NEW t \in pool, MineMerge(t)
    PROVE  Ind' /\ Rises
<1> USE DEF MineMerge
<1>1. t \in Tx /\ t.kind = "merge" /\ Pair(t.vc) /\ t.vc \subseteq vcs
  BY DEF Ind, PoolInv, Shape, Included, SpendsLive
<1>2. PICK older \in vcs : Replace(t, older.version, older.first)
  BY <1>1
<1>3. older.version \in Version /\ older.first \in BOOLEAN
  BY DEF Ind, TypeOK, VcCell
<1>4. PICK new \in VcCell : /\ new \notin vcs
                            /\ vcs' = (vcs \ t.vc) \cup {new}
                            /\ vcs' \subseteq VcCell /\ vgen' \in Nat
                            /\ \A cell \in vcs' : cell.gen <= vgen'
  BY <1>2, <1>3, ReplaceMakes
<1>5. /\ IsFiniteSet(vcs') /\ Cardinality(vcs') = Cardinality(vcs) - 1
      /\ Cardinality(vcs) \in Nat
  BY <1>1, <1>4, ReplacePair, Size DEF Ind, ChainInv
<1>6. UNCHANGED <<parent, paid>> /\ merged'
  OBVIOUS
<1>7. ChainInv'
  <2>1. Carriers \subseteq Parent /\ Carriers' = Carriers
    BY <1>6 DEF Carriers
  <2>2. IsFiniteSet(Carriers)
    BY <2>1, FS_Subset
  <2>3. Cardinality(Carriers) \in Nat
    BY <2>2, Size
  <2>4. Cardinality(vcs') <= Cardinality(Carriers')
    BY <1>5, <2>1, <2>3 DEF Ind, ChainInv
  <2>5. QED
    BY <1>4, <1>5, <1>6, <2>4 DEF ChainInv, Ind
<1>8. TypeOK'
  <2>1. /\ paid' \in [Parent -> [pv : ParentVersion, v : Version] \cup {Unpaid}]
        /\ merged' \in BOOLEAN /\ parent' \in [Parent -> ParentCell]
    BY <1>6 DEF Ind, TypeOK
  <2>2. QED
    BY <1>4, <1>7, <2>1, IncludedFrame, ChainTypes DEF Ind
<1>9. AnswerInv'
  <2>1. VcsKeep
    BY <1>6 DEF VcsKeep
  <2>2. ParentsKeep
    <3>1. \A p \in Parent : parent[p].version >= parent[p].version
      BY DEF Ind, TypeOK, ParentCell, ParentVersion
    <3>2. QED
      BY <1>6, <3>1 DEF ParentsKeep
  <2>3. QED
    BY <1>1, <1>8, <2>1, <2>2, HonouredStays, AnswersStay
<1>10. Rises
  <2>1. \A p \in Parent : parent'[p].version >= parent[p].version /\ parent'[p].gen = parent[p].gen
    BY <1>6 DEF Ind, TypeOK, ParentCell, ParentVersion
  <2>2. ~(Cardinality(vcs') >= Cardinality(vcs))
    BY <1>5
  <2>3. QED
    BY <2>1, <2>2 DEF Rises
<1>11. QED
  BY <1>7, <1>8, <1>9, <1>10, IncludedFrame DEF Ind

(* A parent is closed; its share of the virtual channel goes with it, and  *)
(* the second parent takes the cell along.                                 *)
LEMMA ForceInd ==
    ASSUME Ind, NEW t \in pool, MineForce(t)
    PROVE  Ind' /\ Rises
<1> USE DEF MineForce
<1>1. /\ t \in Tx /\ t.kind = "force" /\ Single(t.vc) /\ t.vc \subseteq vcs
      /\ t.p \in Parent /\ t.pv \in ParentVersion /\ t.v \in Version
      /\ parent[t.p].live /\ t.pv = parent[t.p].version
  BY DEF Ind, PoolInv, Shape, Included, SpendsLive, Tx
<1>2. PICK old \in vcs : t.vc = {old}
  BY <1>1 DEF Single
<1>3. t.v = old.version /\ old.version \in Nat /\ old.first \in BOOLEAN
  BY <1>1, <1>2 DEF Ind, TypeOK, VcCell, Version
<1>4. /\ paid' = [paid EXCEPT ![t.p] = [pv |-> t.pv, v |-> t.v]]
      /\ parent' = [parent EXCEPT ![t.p].live = FALSE]
      /\ UNCHANGED merged
  OBVIOUS
<1>5. parent' \in [Parent -> ParentCell]
  BY ChainMoves DEF Ind
<1>6. /\ ~parent'[t.p].live
      /\ \A p \in Parent : p # t.p => parent'[p] = parent[p]
      /\ \A p \in Parent : /\ parent'[p].version = parent[p].version
                           /\ parent'[p].gen = parent[p].gen
                           /\ parent'[p].vc = parent[p].vc
  BY <1>1, <1>4 DEF Ind, TypeOK, ParentCell
<1>7. [pv |-> t.pv, v |-> t.v] # Unpaid
  <2>1. "v" \in DOMAIN [pv |-> t.pv, v |-> t.v] /\ "v" \notin DOMAIN Unpaid
    BY DEF Unpaid
  <2>2. QED
    BY <2>1
<1>8. /\ paid'[t.p] = [pv |-> t.pv, v |-> t.v]
      /\ \A p \in Parent : p # t.p => paid'[p] = paid[p]
  BY <1>1, <1>4 DEF Ind, TypeOK
<1>9. \/ vcs' = vcs \ {old} /\ vgen' = vgen
      \/ /\ vgen' \in Nat
         /\ \E new \in VcCell : /\ new \notin vcs /\ new.version = old.version
                                /\ vcs' = (vcs \ {old}) \cup {new}
                                /\ \A cell \in vcs' : cell.gen <= vgen'
  <2>1. CASE old.first
    BY <1>2, <2>1
  <2>2. CASE ~old.first
    <3>1. Replace(t, old.version, TRUE) /\ old.version \in Version
      BY <1>2, <2>2 DEF Ind, TypeOK, VcCell
    <3>2. QED
      BY <1>2, <3>1, ReplaceMakes
  <2>3. QED
    BY <2>1, <2>2
<1>10. /\ vcs' \subseteq VcCell /\ vgen' \in Nat
       /\ \A cell \in vcs' : cell.gen <= vgen'
       /\ \A cell \in vcs' : \E was \in vcs : cell.version = was.version
  BY <1>9 DEF Ind, TypeOK, ChainInv
<1>11. /\ IsFiniteSet(vcs') /\ Cardinality(vcs') <= Cardinality(vcs)
       /\ vcs' = vcs \ {old} => Cardinality(vcs') < Cardinality(vcs)
  <2>1. IsFiniteSet(vcs) /\ Cardinality(vcs) \in Nat
    BY Size DEF Ind, ChainInv
  <2>2. IsFiniteSet(vcs \ {old}) /\ Cardinality(vcs \ {old}) = Cardinality(vcs) - 1
    BY <2>1, Size
  <2>3. ASSUME NEW new \in VcCell, new \notin vcs, vcs' = (vcs \ {old}) \cup {new}
        PROVE  IsFiniteSet(vcs') /\ Cardinality(vcs') = Cardinality(vcs)
    BY <1>1, <1>2, <2>1, <2>3, ReplaceSingle
  <2>4. CASE vcs' = vcs \ {old}
    BY <2>1, <2>2, <2>4
  <2>5. CASE vcs' # vcs \ {old}
    BY <1>9, <2>1, <2>3, <2>5
  <2>6. QED
    BY <2>4, <2>5
<1>12. ChainInv'
  <2>1. Carriers \subseteq Parent /\ Carriers' = Carriers
    BY <1>6 DEF Carriers
  <2>2. IsFiniteSet(Carriers) /\ IsFiniteSet(vcs)
    BY <2>1, FS_Subset DEF Ind, ChainInv
  <2>3. Cardinality(Carriers) \in Nat /\ Cardinality(vcs) \in Nat /\ Cardinality(vcs') \in Nat
    BY <1>11, <2>2, Size
  <2>4. Cardinality(vcs') <= Cardinality(Carriers')
    BY <1>11, <2>1, <2>3 DEF Ind, ChainInv
  <2>5. \A p \in Parent : parent'[p].live <=> paid'[p] = Unpaid
    BY <1>6, <1>7, <1>8 DEF Ind, ChainInv
  <2>6. QED
    BY <1>10, <1>11, <2>4, <2>5 DEF ChainInv
<1>13. TypeOK'
  <2>1. /\ paid' \in [Parent -> [pv : ParentVersion, v : Version] \cup {Unpaid}]
        /\ merged' \in BOOLEAN
    BY <1>1, <1>4 DEF Ind, TypeOK
  <2>2. QED
    BY <1>5, <1>10, <1>12, <2>1, IncludedFrame, ChainTypes DEF Ind
<1>14. ParentsKeep /\ VcsKeep
  <2>1. \A p \in Parent : parent[p].version \in Nat
    BY DEF Ind, TypeOK, ParentCell, ParentVersion
  <2>2. \A cell \in vcs : cell.version \in Nat
    BY DEF Ind, TypeOK, VcCell, Version
  <2>3. ParentsKeep
    BY <1>1, <1>6, <1>7, <1>8, <2>1 DEF ParentsKeep
  <2>4. ASSUME NEW cell \in vcs
        PROVE  \/ \E new \in vcs' : new.version >= cell.version
               \/ \E p \in Parent : paid'[p] # Unpaid /\ paid'[p].v >= cell.version
    <3>1. CASE cell = old
      BY <1>1, <1>3, <1>7, <1>8, <3>1
    <3>2. CASE cell # old
      BY <1>9, <2>2, <3>2
    <3>3. QED
      BY <3>1, <3>2
  <2>5. VcsKeep
    BY <1>4, <2>4 DEF VcsKeep, Ind, TypeOK
  <2>6. QED
    BY <2>3, <2>5
<1>15. AnswerInv'
  BY <1>1, <1>13, <1>14, HonouredStays, AnswersStay
<1>16. Rises
  <2>1. \A p \in Parent : parent'[p].version >= parent[p].version /\ parent'[p].gen = parent[p].gen
    BY <1>6 DEF Ind, TypeOK, ParentCell, ParentVersion
  <2>2. ASSUME Cardinality(vcs') >= Cardinality(vcs), NEW cell \in Newest
        PROVE  \E new \in vcs' : new.version >= cell.version
    <3>1. Cardinality(vcs') \in Nat /\ Cardinality(vcs) \in Nat
      BY <1>11, Size DEF Ind, ChainInv
    <3>2. vcs' # vcs \ {old}
      BY <1>11, <2>2, <3>1
    <3>3. cell \in vcs /\ cell.version \in Nat
      BY DEF Newest, Ind, TypeOK, VcCell, Version
    <3>4. QED
      BY <1>3, <1>9, <3>2, <3>3
  <2>3. QED
    BY <2>1, <2>2 DEF Rises
<1>17. QED
  BY <1>12, <1>13, <1>15, <1>16, IncludedFrame DEF Ind

(* A transaction is dropped: nothing becomes true by it.                   *)
LEMMA DropInd ==
    ASSUME Ind, NEW t \in pool, Drop(t)
    PROVE  Ind' /\ Rises
<1> USE DEF Drop, chainVars, callVars
<1>1. TypeOK'
  BY DEF Ind, TypeOK
<1>2. PlaceInv' /\ SentInv' /\ SnapInv'
  BY SameCaller DEF Ind, PlaceInv, AtPlace, SentInv, SnapInv
<1>3. PoolInv'
  BY DEF Ind, PoolInv, Follows, Current
<1>4. ChainInv' /\ AnswerInv'
  BY DEF Ind, ChainInv, Carriers, AnswerInv, Honoured, ParentHonoured, VcHonoured
<1>5. Rises
  BY DEF Rises, Newest, Ind, TypeOK, ParentCell, ParentVersion, VcCell, Version
<1>6. QED
  BY <1>1, <1>2, <1>3, <1>4, <1>5 DEF Ind

(* A parent is disputed without its virtual channel, or its period ends.   *)
LEMMA ParentInd ==
    ASSUME Ind, NEW p \in Parent, Mature(p) \/ \E v \in ParentVersion : PlainDispute(p, v)
    PROVE  Ind' /\ Rises
<1>1. /\ UNCHANGED <<vcs, vgen, paid, merged, pool, vccache, callVars, calls, told>>
      /\ parent[p].live
  BY DEF Mature, PlainDispute
<1>2. ParentsMove /\ parent' \in [Parent -> ParentCell]
  BY ChainMoves DEF Ind
<1>3. /\ \A q \in Parent : q # p => parent'[q] = parent[q]
      /\ parent'[p].live /\ (parent[p].disputed => parent'[p].disputed)
      /\ parent'[p].vc = parent[p].vc
      /\ parent'[p].version >= parent[p].version
      /\ parent'[p].gen # parent[p].gen => parent'[p].version > parent[p].version
  <2>1. parent[p] \in ParentCell /\ parent[p].version \in Nat
    BY DEF Ind, TypeOK, ParentCell, ParentVersion
  <2>2. CASE Mature(p)
    BY <1>1, <2>1, <2>2 DEF Mature, Ind, TypeOK, ParentCell
  <2>3. ASSUME NEW v \in ParentVersion, PlainDispute(p, v)
        PROVE  /\ \A q \in Parent : q # p => parent'[q] = parent[q]
               /\ parent'[p].live /\ parent'[p].disputed
               /\ parent'[p].vc = parent[p].vc
               /\ parent'[p].version = v /\ v > parent[p].version
    BY <1>1, <2>1, <2>3 DEF PlainDispute, Ind, TypeOK, ParentCell
  <2>4. QED
    BY <2>1, <2>2, <2>3 DEF ParentVersion
<1>4. ChainInv'
  <2>1. Carriers' = Carriers
    BY <1>3 DEF Carriers
  <2>2. QED
    BY <1>1, <1>3, <2>1 DEF Ind, ChainInv
<1>5. TypeOK'
  BY <1>1, <1>2 DEF Ind, TypeOK, callVars
<1>6. PlaceInv' /\ SnapInv' /\ PoolInv' /\ SentInv'
  <2>1. PlaceInv' /\ SentInv'
    BY <1>1, SameCaller DEF Ind, PlaceInv, AtPlace, SentInv, callVars
  <2>2. QED
    BY <1>1, <1>2, <2>1, SnapStays, PoolStays DEF callVars
<1>7. \A q \in Parent : parent'[q].version >= parent[q].version
  BY <1>3 DEF Ind, TypeOK, ParentCell, ParentVersion
<1>8. AnswerInv'
  <2>1. ParentsKeep
    BY <1>1, <1>3, <1>7 DEF ParentsKeep
  <2>2. VcsKeep
    BY <1>1 DEF VcsKeep, Ind, TypeOK, VcCell, Version
  <2>3. \A r \in Request : Honoured(r) => Honoured(r)'
    BY <1>5, <2>1, <2>2, HonouredStays
  <2>4. \A a \in told : a.req.op = "dispute" /\ a.why = "committed" => Honoured(a.req)'
    BY <2>3 DEF Ind, TypeOK, AnswerInv
  <2>5. ASSUME NEW c \in Caller, pc[c] = "await", mined[c], sent[c].kind \in {"first", "progress"}
        PROVE  Honoured(call[c])'
    <3>1. call[c] \in Request /\ Honoured(call[c])
      BY <2>5 DEF Ind, PlaceInv, AtPlace, AnswerInv
    <3>2. \E r \in Request : r = call'[c] /\ Honoured(r)'
      BY <1>1, <2>3, <3>1 DEF callVars
    <3>3. QED
      BY <3>2 DEF Honoured, ParentHonoured, VcHonoured
  <2>6. QED
    BY <1>1, <2>4, <2>5 DEF AnswerInv, callVars
<1>9. Rises
  <2>1. \A q \in Parent : parent'[q].gen # parent[q].gen => parent'[q].version > parent[q].version
    BY <1>3
  <2>2. \A cell \in Newest : cell \in vcs' /\ cell.version >= cell.version
    BY <1>1 DEF Newest, Ind, TypeOK, VcCell, Version
  <2>3. QED
    BY <1>7, <2>1, <2>2 DEF Rises
<1>10. QED
  BY <1>4, <1>5, <1>6, <1>8, <1>9 DEF Ind

-----------------------------------------------------------------------------
(* Callers' steps.                                                         *)

(* A step that leaves the chain alone takes no registration back.          *)
LEMMA QuietRises ==
    ASSUME Ind, UNCHANGED chainVars
    PROVE  Rises
<1>1. \A p \in Parent : parent[p].version \in Nat
  BY DEF Ind, TypeOK, ParentCell, ParentVersion
<1>2. \A cell \in Newest : cell \in vcs /\ cell.version \in Nat
  BY DEF Newest, Ind, TypeOK, VcCell, Version
<1>3. QED
  BY <1>1, <1>2 DEF chainVars, Rises

(* What the chain and the pool are is no caller's business but Send's.     *)
LEMMA QuietStays ==
    ASSUME Ind, UNCHANGED chainVars
    PROVE  /\ pool' = pool => PoolInv'
           /\ ChainInv'
           /\ \A r \in Request : Honoured(r) <=> Honoured(r)'
<1> USE DEF chainVars
<1>1. pool' = pool => PoolInv'
  BY DEF Ind, PoolInv, Follows, Current
<1>2. ChainInv'
  BY DEF Ind, ChainInv, Carriers
<1>3. \A r \in Request : Honoured(r) <=> Honoured(r)'
  BY DEF Honoured, ParentHonoured, VcHonoured
<1>4. QED
  BY <1>1, <1>2, <1>3

(* A call answers: its caller is idle again, and what it was told, if      *)
(* anything, is borne out.                                                 *)
LEMMA IdleInd ==
    ASSUME Ind, NEW c \in Caller, Idle(c), UNCHANGED <<chainVars, pool>>,
           vccache' \in [Caller -> BOOLEAN],
           \/ UNCHANGED told
           \/ \E why \in Reason :
                 /\ told' = told \cup {[req |-> call[c], why |-> why]} /\ call[c] \in Request
                 /\ call[c].op = "dispute" /\ why = "committed" => Honoured(call[c])
    PROVE  Ind'
<1> USE DEF Idle, chainVars
<1>1. TypeOK'
  <2>1. /\ pc' \in [Caller -> {"idle", "parents", "vc", "parent", "send", "await"}]
        /\ call' \in [Caller -> Request \cup {Nothing}]
        /\ snapVc' \in [Caller -> SUBSET VcCell]
        /\ snapParent' \in [Caller -> ParentSnap \cup {Nothing}]
        /\ sent' \in [Caller -> Tx \cup {Nothing}]
    BY DEF Ind, TypeOK
  <2>2. mined' \in [Caller -> BOOLEAN]
    BY DEF Ind, TypeOK
  <2>3. told' \subseteq [req : Request, why : Reason]
    BY DEF Ind, TypeOK
  <2>4. QED
    BY <2>1, <2>2, <2>3 DEF Ind, TypeOK
<1>2. ASSUME NEW d \in Caller, pc'[d] # "idle"
      PROVE  /\ d # c /\ pc'[d] = pc[d] /\ call'[d] = call[d] /\ sent'[d] = sent[d]
             /\ snapVc'[d] = snapVc[d] /\ snapParent'[d] = snapParent[d] /\ mined'[d] = mined[d]
  BY <1>2 DEF Ind, TypeOK
<1>3. PlaceInv'
  BY DEF Ind, TypeOK, PlaceInv, AtPlace
<1>4. SnapInv'
  BY <1>2, SameCaller DEF Ind, SnapInv
<1>5. SentInv'
  BY <1>2, SameCaller DEF Ind, SentInv
<1>6. PoolInv' /\ ChainInv'
  BY QuietStays
<1>7. AnswerInv'
  <2>1. ASSUME NEW a \in told', a.req.op = "dispute", a.why = "committed" PROVE Honoured(a.req)'
    <3>1. a.req \in Request /\ Honoured(a.req)
      BY <2>1 DEF Ind, TypeOK, AnswerInv
    <3>2. QED
      BY <3>1, QuietStays
  <2>2. ASSUME NEW d \in Caller, pc'[d] = "await", mined'[d],
               sent'[d].kind \in {"first", "progress"}
        PROVE  Honoured(call[d])' 
    <3>1. call[d] \in Request /\ Honoured(call[d]) /\ call'[d] = call[d]
      BY <1>2, <2>2 DEF Ind, PlaceInv, AtPlace, AnswerInv
    <3>2. \E r \in Request : r = call'[d] /\ Honoured(r)'
      BY <3>1, QuietStays
    <3>3. QED
      BY <3>2 DEF Honoured, ParentHonoured, VcHonoured
  <2>3. QED
    BY <2>1, <2>2 DEF AnswerInv
<1>8. QED
  BY <1>1, <1>3, <1>4, <1>5, <1>6, <1>7 DEF Ind

(* A call goes on: its caller has what it needs at its next place.         *)
LEMMA GoInd ==
    ASSUME Ind, NEW c \in Caller, TypeOK', UNCHANGED <<chainVars, told, mined>>,
           \A d \in Caller \ {c} :
              UNCHANGED <<pc[d], call[d], snapVc[d], snapParent[d], sent[d]>>,
           pc[c] # "await", AtPlace(c)', PoolInv',
           pc'[c] \in {"send", "await"} /\ ~Pair(snapVc'[c]) => SnapTrue(c)',
           pc'[c] = "await" => SentRight(c)'
    PROVE  Ind'
<1>1. PlaceInv'
  BY DEF Ind, PlaceInv, AtPlace
<1>2. SnapInv' /\ SentInv'
  BY SameCaller DEF Ind, SnapInv, SentInv, chainVars
<1>3. ChainInv'
  BY QuietStays
<1>4. AnswerInv'
  <2>1. ASSUME NEW a \in told', a.req.op = "dispute", a.why = "committed" PROVE Honoured(a.req)'
    <3>1. a.req \in Request /\ Honoured(a.req)
      BY <2>1 DEF Ind, TypeOK, AnswerInv
    <3>2. QED
      BY <3>1, QuietStays
  <2>2. ASSUME NEW d \in Caller, pc'[d] = "await", mined'[d],
               sent'[d].kind \in {"first", "progress"}
        PROVE  Honoured(call[d])'
    <3>1. d # c
      BY <2>2 DEF Ind, PlaceInv, AtPlace
    <3>2. call[d] \in Request /\ Honoured(call[d]) /\ call'[d] = call[d]
      BY <2>2, <3>1 DEF Ind, PlaceInv, AtPlace, AnswerInv
    <3>3. \E r \in Request : r = call'[d] /\ Honoured(r)'
      BY <3>2, QuietStays
    <3>4. QED
      BY <3>3 DEF Honoured, ParentHonoured, VcHonoured
  <2>3. QED
    BY <2>1, <2>2 DEF AnswerInv
<1>5. QED
  BY <1>1, <1>2, <1>3, <1>4 DEF Ind

(* A call begins.                                                          *)
LEMMA CallInd ==
    ASSUME Ind, NEW c \in Caller, Call(c)
    PROVE  Ind'
<1> USE DEF Call, chainVars
<1>1. PICK r \in Request : /\ call' = [call EXCEPT ![c] = r]
                           /\ pc' = [pc EXCEPT ![c] = IF r.op = "dispute" THEN "parents" ELSE "vc"]
  OBVIOUS
<1>2. TypeOK'
  BY <1>1 DEF Ind, TypeOK
<1>3. call'[c] = r /\ pc'[c] = IF r.op = "dispute" THEN "parents" ELSE "vc"
  BY <1>1 DEF Ind, TypeOK
<1>4. AtPlace(c)'
  BY <1>3 DEF Ind, PlaceInv, AtPlace
<1>5. PoolInv'
  BY QuietStays
<1>6. \A d \in Caller \ {c} : UNCHANGED <<pc[d], call[d], snapVc[d], snapParent[d], sent[d]>>
  BY <1>1 DEF Ind, TypeOK
<1>7. QED
  BY <1>2, <1>3, <1>4, <1>5, <1>6, GoInd

(* Both parents are looked up before a dispute.                            *)
LEMMA ParentsInd ==
    ASSUME Ind, NEW c \in Caller, LookupParents(c)
    PROVE  Ind'
<1>1. CASE AnswerErr(c)
  BY <1>1, IdleInd DEF LookupParents, AnswerErr, chainVars, Ind, TypeOK
<1>2. CASE ~AnswerErr(c)
  <2> USE <1>2 DEF LookupParents, Goto, chainVars
  <2>1. pc' = [pc EXCEPT ![c] = "vc"]
    OBVIOUS
  <2>2. TypeOK'
    BY <2>1 DEF Ind, TypeOK
  <2>3. pc'[c] = "vc"
    BY <2>1 DEF Ind, TypeOK
  <2>4. AtPlace(c)'
    BY <2>3 DEF Ind, PlaceInv, AtPlace
  <2>5. PoolInv'
    BY QuietStays
  <2>6. \A d \in Caller \ {c} : UNCHANGED <<pc[d], call[d], snapVc[d], snapParent[d], sent[d]>>
    BY <2>1 DEF Ind, TypeOK
  <2>7. QED
    BY <2>2, <2>3, <2>4, <2>5, <2>6, GoInd
<1>3. QED
  BY <1>1, <1>2

(* The cells of the virtual channel that are found are none, one or two.   *)
LEMMA FoundCells ==
    ASSUME Ind, NEW c \in Caller
    PROVE  /\ Found(c) \subseteq vcs
           /\ Found(c) = {} \/ Single(Found(c)) \/ Pair(Found(c))
           /\ Cardinality(Found(c)) = 2 <=> Pair(Found(c))
           /\ Cardinality(Found(c)) = 1 <=> Single(Found(c))
<1>1. Found(c) \subseteq vcs
  BY DEF Found
<1>2. IsFiniteSet(vcs) /\ Cardinality(vcs) <= 2
  BY DEF Ind, ChainInv, TypeOK
<1>3. IsFiniteSet(Found(c)) /\ Cardinality(Found(c)) <= Cardinality(vcs)
  BY <1>1, <1>2, FS_Subset
<1>4. Cardinality(Found(c)) \in Nat /\ Cardinality(vcs) \in Nat
  BY <1>2, <1>3, Size
<1>5. Found(c) = {} \/ Single(Found(c)) \/ Pair(Found(c))
  BY <1>2, <1>3, <1>4, FewCells
<1>6. /\ Found(c) = {} => Cardinality(Found(c)) = 0
      /\ Single(Found(c)) => Cardinality(Found(c)) = 1
      /\ Pair(Found(c)) => Cardinality(Found(c)) = 2
  BY FS_EmptySet, SingleSize, PairSize
<1>7. QED
  BY <1>1, <1>5, <1>6

(* The cells of the virtual channel are looked up.                         *)
LEMMA VcInd ==
    ASSUME Ind, NEW c \in Caller, LookupVc(c)
    PROVE  Ind'
<1> USE DEF LookupVc, Goto, chainVars
<1>1. vccache' \in [Caller -> BOOLEAN]
  BY DEF Ind, TypeOK
<1>2. CASE call[c].op = "force" /\ Cardinality(Found(c)) # 1
  BY <1>1, <1>2, IdleInd DEF AnswerErr
<1>3. CASE ~(call[c].op = "force" /\ Cardinality(Found(c)) # 1)
  <2> DEFINE l == IF Cardinality(Found(c)) = 2 THEN "send" ELSE "parent"
  <2>1. snapVc' = [snapVc EXCEPT ![c] = Found(c)] /\ pc' = [pc EXCEPT ![c] = l]
    BY <1>3
  <2>2. l \in {"send", "parent"} /\ (l = "send" <=> Cardinality(Found(c)) = 2)
    OBVIOUS
  <2> HIDE DEF l
  <2>3. UNCHANGED <<snapParent, sent, call, mined, calls, told, pool>>
    BY <1>3
  <2>4. TypeOK'
    <3>1. snapVc' \in [Caller -> SUBSET VcCell]
      BY <2>1, FoundCells DEF Ind, TypeOK
    <3>2. pc' \in [Caller -> {"idle", "parents", "vc", "parent", "send", "await"}]
      BY <2>1, <2>2 DEF Ind, TypeOK
    <3>3. QED
      BY <1>1, <2>3, <3>1, <3>2 DEF Ind, TypeOK
  <2>5. snapVc'[c] = Found(c) /\ pc'[c] = l
    BY <2>1 DEF Ind, TypeOK
  <2>6. AtPlace(c)'
    <3>1. call[c] \in Request /\ sent[c] = Nothing /\ ~mined[c]
      BY DEF Ind, PlaceInv, AtPlace
    <3>2. call[c].op = "force" => Single(Found(c))
      BY <1>3, FoundCells
    <3>3. QED
      BY <2>2, <2>3, <2>5, <3>1, <3>2, FoundCells DEF AtPlace
  <2>7. Pair(snapVc'[c]) \/ pc'[c] = "parent"
    BY <2>2, <2>5, FoundCells
  <2>8. PoolInv'
    BY <2>3, QuietStays
  <2>9. \A d \in Caller \ {c} : UNCHANGED <<pc[d], call[d], snapVc[d], snapParent[d], sent[d]>>
    BY <2>1, <2>3 DEF Ind, TypeOK
  <2>10. pc[c] # "await" /\ pc'[c] # "await"
    BY <2>2, <2>5
  <2>11. QED
    BY <2>3, <2>4, <2>6, <2>7, <2>8, <2>9, <2>10, GoInd
<1>4. QED
  BY <1>2, <1>3

(* The parent's cell is looked up and compared with what is to be          *)
(* registered.                                                             *)
LEMMA ParentLookupInd ==
    ASSUME Ind, NEW c \in Caller, LookupParent(c)
    PROVE  Ind'
<1> DEFINE p == parent[call[c].p]
           tooOld == call[c].op = "dispute" /\ snapVc[c] = {} /\ call[c].pv < p.version
           unneeded == call[c].op = "dispute" /\ \E cell \in snapVc[c] : ~Newer(c, p, cell)
           s == [gen |-> p.gen, version |-> p.version]
<1>1. /\ call[c] \in Request /\ sent[c] = Nothing /\ ~mined[c] /\ vccache \in [Caller -> BOOLEAN]
      /\ p \in ParentCell /\ pc[c] = "parent" /\ UNCHANGED <<chainVars, pool, vccache>>
  BY DEF Ind, PlaceInv, AtPlace, TypeOK, Request, LookupParent
<1>2. CASE AnswerErr(c)
  BY <1>1, <1>2, IdleInd DEF AnswerErr
<1>3. CASE AnswerNil(c, "unneeded")
  BY <1>1, <1>3, IdleInd DEF AnswerNil, Reason
<1>4. CASE ~AnswerErr(c) /\ ~AnswerNil(c, "unneeded")
  <2>1. /\ ~tooOld /\ ~unneeded
        /\ snapParent' = [snapParent EXCEPT ![c] = s] /\ pc' = [pc EXCEPT ![c] = "send"]
        /\ UNCHANGED <<call, mined, calls, told, snapVc, sent>>
    BY <1>4 DEF LookupParent, Goto
  <2>2. s \in ParentSnap /\ s.gen = p.gen /\ s.version = p.version /\ p.version \in Nat
    BY <1>1 DEF ParentCell, ParentSnap, ParentVersion
  <2>3. /\ call[c].op = "dispute" /\ snapVc[c] = {} => call[c].pv >= p.version
        /\ call[c].op = "dispute" => \A cell \in snapVc[c] : Newer(c, p, cell)
    BY <1>1, <2>1, <2>2 DEF Request
  <2> HIDE DEF s
  <2>4. TypeOK'
    BY <1>1, <2>1, <2>2 DEF Ind, TypeOK, chainVars
  <2>5. snapParent'[c] = s /\ pc'[c] = "send"
    BY <2>1 DEF Ind, TypeOK
  <2>6. AtPlace(c)'
    BY <1>1, <2>1, <2>2, <2>5 DEF Ind, PlaceInv, AtPlace
  <2>7. SnapTrue(c)'
    <3>1. \A cell : Newer(c, p, cell) => Newer(c, snapParent[c], cell)'
      BY <2>1, <2>2, <2>5 DEF Newer, checkVersion
    <3>2. p.gen <= p.gen /\ parent' = parent
      BY <1>1 DEF ParentCell, chainVars
    <3>3. Follows(call[c].p, snapParent[c].gen)'
      BY <2>1, <2>2, <2>5, <3>2 DEF Follows
    <3>4. (Current(call[c].p, snapParent[c].gen) =>
              snapParent[c].version = parent[call[c].p].version)'
      BY <2>1, <2>2, <2>5, <3>2
    <3>5. QED
      BY <2>1, <2>2, <2>3, <2>5, <3>1, <3>3, <3>4 DEF SnapTrue
  <2>8. PoolInv'
    BY <1>1, QuietStays
  <2>9. \A d \in Caller \ {c} : UNCHANGED <<pc[d], call[d], snapVc[d], snapParent[d], sent[d]>>
    BY <2>1 DEF Ind, TypeOK
  <2>10. QED
    BY <1>1, <2>1, <2>4, <2>5, <2>6, <2>7, <2>8, <2>9, GoInd
<1>5. QED
  BY <1>2, <1>3, <1>4

(* The transaction that a caller builds spends what it has read and says   *)
(* what it has decided.                                                    *)
LEMMA TxRight ==
    ASSUME Ind, NEW c \in Caller, pc[c] = "send"
    PROVE  LET t == TxOf(c) IN
           /\ t \in Tx /\ Shape(t) /\ t.by = c /\ t.p = call[c].p /\ t.vc = snapVc[c]
           /\ t.kind # "merge" => ~Pair(snapVc[c]) /\ t.pgen = snapParent[c].gen
           /\ t.kind \in {"first", "progress"} =>
                 t.pv = call[c].pv /\ t.v = call[c].v /\ call[c].op = "dispute"
           /\ t.kind = "force" <=> call[c].op = "force"
           /\ t.kind = "force" =>
                 \A cell \in t.vc : \/ Newer(c, snapParent[c], cell)
                                    \/ t.pv = snapParent[c].version /\ t.v = cell.version
<1> DEFINE t == TxOf(c)
<1>1. /\ call[c] \in Request /\ snapVc[c] \subseteq VcCell
      /\ snapVc[c] = {} \/ Single(snapVc[c]) \/ Pair(snapVc[c])
      /\ ~Pair(snapVc[c]) => snapParent[c] \in ParentSnap
      /\ call[c].op = "force" => Single(snapVc[c])
  BY DEF Ind, TypeOK, PlaceInv, AtPlace
<1>2. /\ call[c].p \in Parent /\ call[c].pv \in ParentVersion /\ call[c].v \in Version
      /\ call[c].op \in {"dispute", "force"}
  BY <1>1 DEF Request, ParentVersion
<1>3. /\ t.by = c /\ t.p = call[c].p /\ t.vc = snapVc[c] /\ t.kind = KindOf(c)
      /\ t.pgen = IF KindOf(c) = "merge" THEN 0 ELSE snapParent[c].gen
  BY DEF TxOf
<1>4. CASE Pair(snapVc[c])
  <2>1. KindOf(c) = "merge" /\ call[c].op = "dispute"
    <3>1. Cardinality(snapVc[c]) = 2 /\ ~Single(snapVc[c]) /\ snapVc[c] # {}
      BY <1>4, PairSize DEF Single, Pair
    <3>2. QED
      BY <1>1, <1>2, <3>1 DEF KindOf
  <2>2. t = [kind |-> "merge", by |-> c, p |-> call[c].p, pv |-> call[c].pv, v |-> call[c].v,
             pgen |-> 0, vc |-> snapVc[c], matured |-> FALSE]
    BY <2>1 DEF TxOf
  <2>3. t \in Tx
    BY <1>1, <1>2, <2>2 DEF Tx
  <2>4. QED
    BY <1>3, <1>4, <2>1, <2>3 DEF Shape
<1>5. CASE snapVc[c] = {}
  <2>1. ~Pair(snapVc[c]) /\ ~Single(snapVc[c]) /\ Cardinality(snapVc[c]) = 0
    BY <1>5, FS_EmptySet DEF Single, Pair
  <2>2. KindOf(c) = "first" /\ call[c].op = "dispute"
    BY <1>1, <1>2, <1>5, <2>1 DEF KindOf
  <2>3. t = [kind |-> "first", by |-> c, p |-> call[c].p, pv |-> call[c].pv, v |-> call[c].v,
             pgen |-> snapParent[c].gen, vc |-> snapVc[c], matured |-> FALSE]
    BY <2>2 DEF TxOf
  <2>4. snapParent[c].gen \in Nat
    BY <1>1, <2>1 DEF ParentSnap
  <2>5. t \in Tx
    BY <1>1, <1>2, <2>3, <2>4 DEF Tx
  <2>6. t.pv = call[c].pv /\ t.v = call[c].v
    BY <2>3
  <2>7. QED
    BY <1>3, <1>5, <2>1, <2>2, <2>5, <2>6 DEF Shape
<1>6. CASE Single(snapVc[c])
  <2>1. Cardinality(snapVc[c]) = 1 /\ snapVc[c] # {} /\ ~Pair(snapVc[c])
    BY <1>6, SingleSize, PairSize DEF Single
  <2>2. snapParent[c].gen \in Nat /\ snapParent[c].version \in ParentVersion
    BY <1>1, <2>1 DEF ParentSnap
  <2>3. CASE call[c].op = "dispute"
    <3>1. KindOf(c) = "progress"
      BY <2>1, <2>3 DEF KindOf
    <3>2. t = [kind |-> "progress", by |-> c, p |-> call[c].p, pv |-> call[c].pv,
               v |-> call[c].v, pgen |-> snapParent[c].gen, vc |-> snapVc[c], matured |-> FALSE]
      BY <3>1 DEF TxOf
    <3>3. t \in Tx
      BY <1>1, <1>2, <2>2, <3>2 DEF Tx
    <3>4. t.pv = call[c].pv /\ t.v = call[c].v
      BY <3>2
    <3>5. QED
      BY <1>3, <1>6, <2>1, <2>3, <3>1, <3>3, <3>4 DEF Shape
  <2>4. CASE call[c].op = "force"
    <3>1. KindOf(c) = "force"
      BY <2>1, <2>4 DEF KindOf
    <3>2. PICK cell \in snapVc[c] : snapVc[c] = {cell}
      BY <1>6 DEF Single
    <3>3. (CHOOSE x \in snapVc[c] : TRUE) = cell
      BY <3>2
    <3>4. t.pv = Payout(c, cell).pv /\ t.v = Payout(c, cell).v
      BY <3>1, <3>3 DEF TxOf
    <3>5. cell.version \in Version
      BY <1>1 DEF VcCell
    <3>6. \/ Newer(c, snapParent[c], cell) /\ t.pv = call[c].pv /\ t.v = call[c].v
          \/ t.pv = snapParent[c].version /\ t.v = cell.version
      BY <3>4 DEF Payout
    <3>7. t.pv \in ParentVersion /\ t.v \in Version
      BY <1>2, <2>2, <3>5, <3>6
    <3>8. t.matured \in BOOLEAN
      BY <3>1 DEF TxOf
    <3>9. t \in Tx
      <4>1. t = [kind |-> t.kind, by |-> t.by, p |-> t.p, pv |-> t.pv, v |-> t.v,
                 pgen |-> t.pgen, vc |-> t.vc, matured |-> t.matured]
        BY DEF TxOf
      <4>2. QED
        BY <1>1, <1>2, <1>3, <2>2, <3>1, <3>7, <3>8, <4>1 DEF Tx
    <3>10. QED
      BY <1>3, <1>6, <2>1, <2>4, <3>1, <3>2, <3>6, <3>9 DEF Shape
  <2>5. QED
    BY <1>2, <2>3, <2>4
<1>7. QED
  BY <1>1, <1>4, <1>5, <1>6

(* A transaction is built and sent.                                        *)
LEMMA SendInd ==
    ASSUME Ind, NEW c \in Caller, Send(c)
    PROVE  Ind'
<1> DEFINE t == TxOf(c)
<1>1. /\ pc[c] = "send"
      /\ UNCHANGED <<chainVars, vccache, snapVc, snapParent, call, mined, calls, told>>
      /\ sent' = [sent EXCEPT ![c] = t] /\ pool' = pool \cup {t}
      /\ pc' = [pc EXCEPT ![c] = "await"]
  BY DEF Send, Goto
<1>2. /\ t \in Tx /\ Shape(t) /\ t.by = c /\ t.p = call[c].p /\ t.vc = snapVc[c]
      /\ t.kind # "merge" => ~Pair(snapVc[c]) /\ t.pgen = snapParent[c].gen
      /\ t.kind \in {"first", "progress"} =>
            t.pv = call[c].pv /\ t.v = call[c].v /\ call[c].op = "dispute"
      /\ t.kind = "force" <=> call[c].op = "force"
      /\ t.kind = "force" =>
            \A cell \in t.vc : \/ Newer(c, snapParent[c], cell)
                               \/ t.pv = snapParent[c].version /\ t.v = cell.version
  BY <1>1, TxRight
<1> HIDE DEF t
<1>3. call[c] \in Request /\ AtPlace(c)
  BY <1>1 DEF Ind, PlaceInv, AtPlace
<1>4. TypeOK'
  BY <1>1, <1>2 DEF Ind, TypeOK, chainVars
<1>5. pc'[c] = "await" /\ sent'[c] = t
  BY <1>1 DEF Ind, TypeOK
<1>6. AtPlace(c)'
  BY <1>1, <1>3, <1>5 DEF AtPlace
<1>7. \A p, cell : Newer(c, p, cell) <=> Newer(c, p, cell)'
  BY <1>1 DEF Newer, checkVersion
<1>8. SentRight(c)'
  BY <1>1, <1>2, <1>5, <1>7 DEF SentRight, Shape
<1>9. ~Pair(snapVc[c]) => SnapTrue(c) /\ SnapTrue(c)'
  <2>1. ~Pair(snapVc[c]) => SnapTrue(c)
    BY <1>1 DEF Ind, SnapInv
  <2>2. UNCHANGED parent
    BY <1>1 DEF chainVars
  <2>3. QED
    BY <1>1, <1>7, <2>1, <2>2 DEF SnapTrue, Follows, Current
<1>10. PoolInv'
  <2>1. UNCHANGED parent
    BY <1>1 DEF chainVars
  <2>2. /\ t.kind # "merge" => Follows(t.p, t.pgen)
        /\ t.kind \in {"first", "progress"} /\ Current(t.p, t.pgen) =>
              /\ t.pv >= parent[t.p].version
              /\ \A cell \in t.vc : checkVersion(t.pv, parent[t.p].version, t.v, cell.version)
    <3>1. t.kind # "merge" => Follows(t.p, t.pgen)
      BY <1>2, <1>9 DEF SnapTrue
    <3>2. ASSUME t.kind \in {"first", "progress"}, Current(t.p, t.pgen), NEW cell \in t.vc
          PROVE  checkVersion(t.pv, parent[t.p].version, t.v, cell.version)
      BY <1>2, <1>9, <3>2 DEF SnapTrue, Newer, Current
    <3>3. ASSUME t.kind \in {"first", "progress"}, Current(t.p, t.pgen)
          PROVE  t.pv >= parent[t.p].version
      <4>1. CASE t.kind = "first"
        BY <1>2, <1>9, <3>3, <4>1 DEF SnapTrue, Current, Shape
      <4>2. CASE t.kind = "progress"
        BY <1>2, <3>2, <3>3, <4>2 DEF checkVersion, Shape, Single
      <4>3. QED
        BY <3>3, <4>1, <4>2
    <3>4. QED
      BY <3>1, <3>2, <3>3
  <2>3. \A u \in pool : PoolInv => /\ u \in Tx /\ Shape(u)
    BY DEF PoolInv
  <2>4. QED
    BY <1>1, <1>2, <2>1, <2>2 DEF Ind, PoolInv, Follows, Current
<1>11. \A d \in Caller \ {c} : UNCHANGED <<pc[d], call[d], snapVc[d], snapParent[d], sent[d]>>
  BY <1>1 DEF Ind, TypeOK
<1>12. QED
  BY <1>1, <1>4, <1>6, <1>8, <1>9, <1>10, <1>11, GoInd

(* A call ends with its transaction's fate.                                *)
LEMMA AwaitInd ==
    ASSUME Ind, NEW c \in Caller, Await(c)
    PROVE  Ind'
<1>1. /\ call[c] \in Request /\ SentRight(c) /\ vccache \in [Caller -> BOOLEAN]
      /\ UNCHANGED <<chainVars, pool, vccache>>
  BY DEF Await, Ind, PlaceInv, AtPlace, SentInv, TypeOK
<1>2. CASE ~mined[c]
  BY <1>1, <1>2, IdleInd DEF Await, AnswerErr
<1>3. CASE mined[c]
  <2> DEFINE why == IF sent[c].kind = "merge" THEN "merged" ELSE "committed"
  <2>1. AnswerNil(c, why) /\ why \in Reason
    BY <1>3 DEF Await, Reason
  <2>2. ASSUME call[c].op = "dispute", why = "committed" PROVE Honoured(call[c])
    <3>1. sent[c].kind \in {"first", "progress"}
      BY <1>1, <2>2 DEF SentRight, Tx
    <3>2. QED
      BY <1>3, <3>1 DEF Await, Ind, AnswerInv
  <2> HIDE DEF why
  <2>3. QED
    BY <1>1, <2>1, <2>2, IdleInd DEF AnswerNil
<1>4. QED
  BY <1>2, <1>3

(* Every step of a caller or of the chain keeps the invariant, and takes   *)
(* no registration back.                                                   *)
LEMMA NextInd == Ind /\ [Next]_vars => Ind' /\ [Rises]_vars
<1> SUFFICES ASSUME Ind, [Next]_vars PROVE Ind' /\ (Rises \/ UNCHANGED vars)
  OBVIOUS
<1>1. ASSUME NEW t \in pool,
             MineFirst(t) \/ MineProgress(t) \/ MineMerge(t) \/ MineForce(t) \/ Drop(t)
      PROVE  Ind' /\ Rises
  BY <1>1, FirstInd, ProgressInd, MergeInd, ForceInd, DropInd
<1>2. ASSUME NEW p \in Parent, Mature(p) \/ \E v \in ParentVersion : PlainDispute(p, v)
      PROVE  Ind' /\ Rises
  BY <1>2, ParentInd
<1>3. ASSUME NEW c \in Caller, Step(c) PROVE Ind' /\ Rises
  <2>1. UNCHANGED chainVars
    BY <1>3 DEF Step, Call, LookupParents, LookupVc, LookupParent, Send, Await, Fails
  <2>2. ASSUME Fails(c) PROVE Ind'
    BY <2>2, IdleInd DEF Fails, AnswerErr, Ind, TypeOK
  <2>3. Ind'
    BY <1>3, <2>2, CallInd, ParentsInd, VcInd, ParentLookupInd, SendInd, AwaitInd DEF Step
  <2>4. QED
    BY <2>1, <2>3, QuietRises
<1>4. CASE UNCHANGED vars
  <2> USE <1>4 DEF vars, chainVars, callVars
  <2>1. TypeOK'
    BY DEF Ind, TypeOK
  <2>2. PlaceInv' /\ SentInv' /\ SnapInv'
    BY SameCaller DEF Ind, PlaceInv, AtPlace, SentInv, SnapInv
  <2>3. PoolInv' /\ ChainInv'
    BY QuietStays
  <2>4. AnswerInv'
    BY DEF Ind, AnswerInv, Honoured, ParentHonoured, VcHonoured
  <2>5. QED
    BY <2>1, <2>2, <2>3, <2>4 DEF Ind
<1>5. QED
  BY <1>1, <1>2, <1>3, <1>4 DEF Next, Chain

(* The invariant holds in every reachable state.                           *)
LEMMA Invariance == Spec => []Ind
<1>1. Ind /\ [Next]_vars => Ind'
  BY NextInd
<1>2. QED
  BY <1>1, InitInd, PTL DEF Spec

-----------------------------------------------------------------------------
(* The theorems.                                                           *)

(* The variables of VirtualDispute keep their types: above all there are   *)
(* never more than two cells of the virtual channel.                       *)
THEOREM TypeCorrect == Spec => []TypeOK
<1>1. Ind => TypeOK
  BY DEF Ind
<1>2. QED
  BY <1>1, Invariance, PTL

(* No step of any number of callers takes back what is registered, except  *)
(* for merging, which takes one of two cells away.                         *)
THEOREM VersionsRise == Spec => RegistrationsRise
<1>1. Ind /\ [Next]_vars => [Rises]_vars
  BY NextInd
<1>2. QED
  BY <1>1, Invariance, PTL DEF Spec, RegistrationsRise

(* A DisputeVC that returned nil for a committed transaction is honoured.  *)
THEOREM RegisterStands == Spec => []RegisterHonoured
<1>1. Ind => RegisterHonoured
  BY DEF Ind, AnswerInv, Honoured, ParentHonoured, VcHonoured, RegisterHonoured
<1>2. QED
  BY <1>1, Invariance, PTL

(* A caller that is behind the chain closes with what is registered.       *)
THEOREM LateCallersClose == Spec => []LateCallerCanClose
<1>1. Ind => LateCallerCanClose
  <2> SUFFICES ASSUME Ind, NEW c \in Caller, pc[c] = "await", sent[c].kind = "force",
                      SpendsLive(sent[c]), NEW cell \in sent[c].vc,
                      ~Newer(c, snapParent[c], cell)
               PROVE  sent[c].pv = parent[sent[c].p].version /\ sent[c].v = cell.version
    BY DEF LateCallerCanClose
  <2>1. SentRight(c) /\ AtPlace(c)
    BY DEF Ind, SentInv, PlaceInv
  <2>2. Single(snapVc[c])
    BY <2>1 DEF SentRight, Shape
  <2>3. ~Pair(snapVc[c])
    BY <2>2 DEF Single, Pair
  <2>4. SnapTrue(c)
    BY <2>3 DEF Ind, SnapInv
  <2>5. QED
    BY <2>1, <2>4 DEF SentRight, SnapTrue, SpendsLive, Current
<1>2. QED
  BY <1>1, Invariance, PTL

-----------------------------------------------------------------------------
(* Settling is final.                                                      *)

(* No dispute is on its way any more.                                      *)
Settling == (\E p \in Parent : ~parent[p].live) /\ ~Disputing

(* A force close registers no version of the virtual channel.              *)
LEMMA ForceVersions ==
    ASSUME Ind, NEW t \in pool, MineForce(t)
    PROVE  \A cell \in vcs' : \E was \in vcs : cell.version = was.version
<1>1. t.vc \subseteq vcs /\ Single(t.vc) /\ t \in pool
  BY DEF MineForce, Included, SpendsLive, Ind, PoolInv, Shape
<1>2. PICK old \in vcs : t.vc = {old}
  BY <1>1 DEF Single
<1>3. CASE old.first
  BY <1>2, <1>3 DEF MineForce
<1>4. CASE ~old.first
  <2>1. Replace(t, old.version, TRUE) /\ old.version \in Version
    BY <1>2, <1>4 DEF MineForce, Ind, TypeOK, VcCell
  <2>2. PICK new \in VcCell : new.version = old.version /\ vcs' = (vcs \ t.vc) \cup {new}
    BY <2>1, ReplaceMakes
  <2>3. QED
    BY <1>2, <2>2
<1>5. QED
  BY <1>3, <1>4

(* A caller that disputes gets no further than its look at the parents,    *)
(* one of which is closed.                                                 *)
LEMMA CallerKeepsSettled ==
    ASSUME Ind, Settling, NEW c \in Caller, Step(c)
    PROVE  KeepsSettled
<1>1. UNCHANGED chainVars
  BY DEF Step, Call, LookupParents, LookupVc, LookupParent, Send, Await, Fails
<1>2. /\ \A d \in Caller : call[d].op = "dispute" => pc[d] \notin {"vc", "parent", "send", "await"}
      /\ \A t \in pool : t.kind = "force"
  BY DEF Settling, Disputing
<1>3. \A d \in Caller \ {c} : UNCHANGED <<pc[d], call[d]>>
  BY DEF Step, Call, LookupParents, LookupVc, LookupParent, Send, Await, Fails,
         AnswerNil, AnswerErr, Idle, Goto, Ind, TypeOK
<1>4. /\ call'[c].op = "dispute" => pc'[c] \notin {"vc", "parent", "send", "await"}
      /\ \A t \in pool' : t.kind = "force"
  <2>1. CASE Idle(c) /\ pool' = pool
    <3>1. pc'[c] = "idle"
      BY <2>1 DEF Idle, Ind, TypeOK
    <3>2. QED
      BY <1>2, <2>1, <3>1
  <2>2. CASE Call(c)
    BY <1>2, <2>2 DEF Call, Ind, TypeOK
  <2>3. CASE LookupParents(c)
    <3>1. Idle(c) /\ pool' = pool
      BY <2>3 DEF LookupParents, AnswerErr, Settling
    <3>2. QED
      BY <2>1, <3>1
  <2>4. CASE (LookupVc(c) \/ LookupParent(c)) /\ ~Idle(c)
    <3>1. pc[c] \in {"vc", "parent"} /\ call'[c] = call[c] /\ pool' = pool
      BY <2>4 DEF LookupVc, LookupParent, AnswerErr, AnswerNil, Goto
    <3>2. QED
      BY <1>2, <3>1
  <2>5. CASE Send(c)
    <3>1. pc[c] = "send" /\ call'[c] = call[c] /\ pool' = pool \cup {TxOf(c)}
      BY <2>5 DEF Send, Goto
    <3>2. call[c] \in Request /\ call[c].op # "dispute"
      BY <1>2, <3>1 DEF Ind, PlaceInv, AtPlace
    <3>3. TxOf(c).kind = "force"
      BY <3>1, <3>2, TxRight DEF Request
    <3>4. QED
      BY <1>2, <3>1, <3>2, <3>3
  <2>6. CASE Await(c) \/ Fails(c)
    BY <2>1, <2>6 DEF Await, Fails, AnswerErr, AnswerNil
  <2>7. (LookupVc(c) \/ LookupParent(c)) => pool' = pool
    BY DEF LookupVc, LookupParent
  <2>8. QED
    BY <2>1, <2>2, <2>3, <2>4, <2>5, <2>6, <2>7 DEF Step
<1>5. ~Disputing'
  BY <1>2, <1>3, <1>4 DEF Disputing
<1>6. QED
  BY <1>1, <1>5 DEF KeepsSettled, chainVars

(* The chain includes or drops force closes, and disputes of parents       *)
(* without the virtual channel.                                            *)
LEMMA ChainKeepsSettled ==
    ASSUME Ind, Settling, Chain
    PROVE  KeepsSettled
<1>1. \A t \in pool : t.kind = "force"
  BY DEF Settling, Disputing
<1>2. ASSUME pool' \subseteq pool, UNCHANGED <<pc, call>> PROVE ~Disputing'
  BY <1>2 DEF Settling, Disputing
<1>3. ASSUME NEW t \in pool, MineForce(t) PROVE KeepsSettled
  <2>1. pool' \subseteq pool /\ UNCHANGED <<pc, call>>
    BY <1>3 DEF MineForce, Included
  <2>2. QED
    BY <1>2, <1>3, <2>1, ForceVersions DEF KeepsSettled
<1>4. ASSUME NEW t \in pool, Drop(t) PROVE KeepsSettled
  BY <1>2, <1>4 DEF Drop, chainVars, callVars, KeepsSettled
<1>5. ASSUME NEW p \in Parent, Mature(p) \/ \E v \in ParentVersion : PlainDispute(p, v)
      PROVE  KeepsSettled
  BY <1>2, <1>5 DEF Mature, PlainDispute, callVars, KeepsSettled
<1>6. QED
  BY <1>1, <1>3, <1>4, <1>5 DEF Chain, MineFirst, MineProgress, MineMerge

(* Once a parent is paid out and no DisputeVC is on its way, none gets     *)
(* past its look at the parents any more, and no version of the virtual    *)
(* channel is registered that was not.                                     *)
THEOREM SettledForGood == Spec => SettlingIsFinal
<1>1. Ind /\ [Next]_vars => [(\E p \in Parent : ~parent[p].live) /\ ~Disputing => KeepsSettled]_vars
  BY CallerKeepsSettled, ChainKeepsSettled DEF Next, Settling
<1>2. QED
  BY <1>1, Invariance, PTL DEF Spec, SettlingIsFinal

-----------------------------------------------------------------------------
(* A parent as its subscription sees it, and how it is paid out.           *)

(* A parent with a registered version is disputed; a dispute registers no  *)
(* version below 1; and a period that had run out when a closing was built *)
(* is still over while the closing can be included.                        *)
StageInv ==
    /\ \A p \in Parent : parent[p].version > 0 => parent[p].disputed
    /\ \A t \in pool :
          /\ t.kind \in {"first", "progress"} => t.pv > 0
          /\ t.kind = "force" /\ t.matured /\ Current(t.p, t.pgen) => parent[t.p].matured

(* The end of a challenge period changes nothing else of any parent.       *)
LEMMA MatureKeeps ==
    ASSUME Ind, NEW q \in Parent, Mature(q), NEW p \in Parent
    PROVE  /\ parent'[p].live = parent[p].live /\ parent'[p].disputed = parent[p].disputed
           /\ parent'[p].version = parent[p].version
<1>1. /\ parent \in [Parent -> ParentCell] /\ parent[p] \in ParentCell
      /\ parent' = [parent EXCEPT ![q].matured = TRUE]
  BY DEF Mature, Ind, TypeOK
<1>2. CASE p = q
  <2>1. parent'[p] = [parent[p] EXCEPT !.matured = TRUE]
    BY <1>1, <1>2
  <2>2. QED
    BY <1>1, <2>1 DEF ParentCell
<1>3. CASE p # q
  <2>1. parent'[p] = parent[p]
    BY <1>1, <1>3
  <2>2. QED
    BY <2>1
<1>4. QED
  BY <1>2, <1>3

(* A dispute without the virtual channel sets the version of one parent.   *)
LEMMA PlainSets ==
    ASSUME Ind, NEW q \in Parent, NEW v \in ParentVersion, PlainDispute(q, v)
    PROVE  /\ parent[q].live /\ v > parent[q].version
           /\ \A p \in Parent : p # q => parent'[p] = parent[p]
           /\ parent'[q].live /\ parent'[q].disputed /\ parent'[q].version = v
           /\ parent'[q].gen = parent[q].gen + 1
<1> DEFINE new == [parent[q] EXCEPT !.gen = @ + 1, !.version = v,
                                    !.disputed = TRUE, !.matured = FALSE]
<1>1. parent[q] \in ParentCell /\ parent \in [Parent -> ParentCell]
  BY DEF Ind, TypeOK
<1>2. parent' = [parent EXCEPT ![q] = new] /\ parent[q].live /\ v > parent[q].version
  BY <1>1 DEF PlainDispute
<1>3. new.live = parent[q].live /\ new.disputed /\ new.version = v /\ new.gen = parent[q].gen + 1
  BY <1>1 DEF ParentCell
<1> HIDE DEF new
<1>4. parent'[q] = new /\ \A p \in Parent : p # q => parent'[p] = parent[p]
  BY <1>1, <1>2
<1>5. QED
  BY <1>2, <1>3, <1>4

(* A dispute with the virtual channel keeps StageInv: it gives its parent  *)
(* a new cell, which no closing in the pool spends.                        *)
LEMMA RegisteredStage ==
    ASSUME Ind, StageInv, NEW t \in pool, MineFirst(t) \/ MineProgress(t)
    PROVE  StageInv'
<1>1. t \in Tx /\ Registered(t) /\ pool' \subseteq pool
  BY DEF MineFirst, MineProgress, Included, Ind, PoolInv
<1>2. /\ parent'[t.p].disputed /\ parent'[t.p].gen = parent[t.p].gen + 1
      /\ \A p \in Parent : p # t.p => parent'[p] = parent[p]
  BY <1>1, RegisteredParent DEF Ind
<1>3. ASSUME NEW p \in Parent, parent'[p].version > 0 PROVE parent'[p].disputed
  BY <1>2, <1>3 DEF StageInv
<1>4. ASSUME NEW u \in pool', u.kind = "force", u.matured, u.pgen = parent'[u.p].gen
      PROVE  parent'[u.p].matured
  <2>1. u \in pool /\ u.p \in Parent /\ u.pgen \in Nat /\ u.pgen <= parent[u.p].gen
    BY <1>1, <1>4 DEF Ind, PoolInv, Follows, Tx
  <2>2. parent[u.p].gen \in Nat
    BY <2>1 DEF Ind, TypeOK, ParentCell
  <2>3. u.p # t.p
    BY <1>2, <1>4, <2>1, <2>2
  <2>4. QED
    BY <1>2, <1>4, <2>1, <2>3 DEF StageInv, Current
<1>5. ASSUME NEW u \in pool' PROVE u.kind \in {"first", "progress"} => u.pv > 0
  <2>1. u \in pool
    BY <1>1
  <2>2. QED
    BY <2>1 DEF StageInv
<1>6. QED
  BY <1>3, <1>4, <1>5 DEF StageInv, Current

(* So does a dispute without it, and the end of a challenge period.        *)
LEMMA ParentStage ==
    ASSUME Ind, StageInv, NEW p \in Parent, Mature(p) \/ \E v \in ParentVersion : PlainDispute(p, v)
    PROVE  StageInv'
<1>1. parent[p] \in ParentCell /\ parent[p].gen \in Nat /\ pool' = pool
  <2>1. parent[p] \in ParentCell /\ parent[p].gen \in Nat
    BY DEF Ind, TypeOK, ParentCell
  <2>2. pool' = pool
    BY Zenon DEF Mature, PlainDispute
  <2>3. QED
    BY <2>1, <2>2
<1>2. /\ \A q \in Parent : q # p => parent'[q] = parent[q]
      /\ parent'[p].disputed
      /\ parent'[p].gen = parent[p].gen => parent'[p].matured
      /\ parent'[p].gen = parent[p].gen \/ parent'[p].gen = parent[p].gen + 1
  <2>1. CASE Mature(p)
    <3>1. /\ parent[p].disputed /\ parent \in [Parent -> ParentCell]
          /\ parent' = [parent EXCEPT ![p].matured = TRUE]
      BY <2>1 DEF Mature, Ind, TypeOK
    <3>2. parent'[p] = [parent[p] EXCEPT !.matured = TRUE]
      BY <3>1
    <3>3. /\ parent'[p].disputed = parent[p].disputed /\ parent'[p].gen = parent[p].gen
          /\ parent'[p].matured
      BY <1>1, <3>2 DEF ParentCell
    <3>4. \A q \in Parent : q # p => parent'[q] = parent[q]
      BY <3>1
    <3>5. QED
      BY <3>1, <3>3, <3>4
  <2>2. ASSUME NEW v \in ParentVersion, PlainDispute(p, v)
        PROVE  /\ \A q \in Parent : q # p => parent'[q] = parent[q]
               /\ parent'[p].disputed /\ parent'[p].gen = parent[p].gen + 1
    BY <2>2, PlainSets
  <2>3. QED
    BY <1>1, <2>1, <2>2
<1>3. ASSUME NEW u \in pool, u.kind = "force", u.matured, u.pgen = parent'[u.p].gen
      PROVE  parent'[u.p].matured
  <2>1. u.p \in Parent /\ u.pgen \in Nat /\ u.pgen <= parent[u.p].gen
    BY <1>3 DEF Ind, PoolInv, Follows, Tx
  <2>2. parent[u.p].gen \in Nat
    BY <2>1 DEF Ind, TypeOK, ParentCell
  <2>3. u.p # p => parent'[u.p].matured
    BY <1>2, <1>3, <2>1 DEF StageInv, Current
  <2>4. QED
    BY <1>2, <1>3, <2>1, <2>2, <2>3
<1>4. QED
  BY <1>1, <1>2, <1>3 DEF StageInv, Current

(* And so do the callers, of whose requests none asks for version 0, and   *)
(* who take a period for over only when it is.                             *)
LEMMA CallerStage ==
    ASSUME Ind, StageInv, NEW c \in Caller, Step(c)
    PROVE  StageInv'
<1>1. UNCHANGED chainVars
  BY DEF Step, Call, LookupParents, LookupVc, LookupParent, Send, Await, Fails
<1>2. CASE pool' = pool
  BY <1>1, <1>2 DEF StageInv, Current, chainVars
<1>3. CASE Send(c)
  <2> DEFINE t == TxOf(c)
  <2>1. pool' = pool \cup {t} /\ pc[c] = "send"
    BY <1>3 DEF Send
  <2>2. t.kind \in {"first", "progress"} => t.pv = call[c].pv
    BY <2>1, TxRight
  <2>3. call[c] \in Request
    BY <2>1 DEF Ind, PlaceInv, AtPlace
  <2>4. call[c].pv > 0
    BY <2>3, VirtualAssumption DEF Request
  <2>5. t.matured => parent[t.p].matured
    BY Zenon DEF TxOf
  <2> HIDE DEF t
  <2>6. QED
    BY <1>1, <2>1, <2>2, <2>4, <2>5 DEF StageInv, Current, chainVars
<1>4. QED
  BY <1>2, <1>3 DEF Step, Call, LookupParents, LookupVc, LookupParent, Await, Fails

(* StageInv is kept by every step.                                         *)
LEMMA NextStage == Ind /\ StageInv /\ [Next]_vars => StageInv'
<1> SUFFICES ASSUME Ind, StageInv, [Next]_vars PROVE StageInv'
  OBVIOUS
<1>1. ASSUME NEW t \in pool, MineMerge(t) \/ Drop(t) PROVE StageInv'
  <2>1. parent' = parent /\ pool' \subseteq pool
    BY <1>1 DEF MineMerge, Drop, Included, chainVars
  <2>2. QED
    BY <2>1 DEF StageInv, Current
<1>2. ASSUME NEW t \in pool, MineForce(t) PROVE StageInv'
  <2>1. /\ pool' \subseteq pool /\ t.p \in Parent
        /\ parent' = [parent EXCEPT ![t.p].live = FALSE]
    BY <1>2 DEF MineForce, Included, Ind, PoolInv, Tx
  <2>2. \A p \in Parent : /\ parent'[p].version = parent[p].version
                          /\ parent'[p].disputed = parent[p].disputed
                          /\ parent'[p].gen = parent[p].gen
                          /\ parent'[p].matured = parent[p].matured
    BY <2>1 DEF Ind, TypeOK, ParentCell
  <2>3. \A u \in pool' : u \in pool /\ u.p \in Parent
    BY <2>1 DEF Ind, PoolInv, Tx
  <2>4. QED
    BY <2>2, <2>3 DEF StageInv, Current
<1>3. CASE UNCHANGED vars
  BY <1>3 DEF vars, chainVars, StageInv, Current
<1>4. QED
  BY <1>1, <1>2, <1>3, RegisteredStage, ParentStage, CallerStage DEF Next, Chain

(* Every parent is paid out once, and then by the version that is          *)
(* registered on it, whose challenge period has run out.                   *)
PaidOut(p) ==
    /\ parent[p].live /\ parent[p].disputed /\ parent[p].matured /\ paid[p] = Unpaid
    /\ ~parent'[p].live /\ paid'[p].pv = parent[p].version

(* A closing pays its own parent and leaves the other one alone.           *)
LEMMA ForcePays ==
    ASSUME Ind, StageInv, NEW t \in pool, MineForce(t)
    PROVE  PaidOut(t.p) /\ t.p \in Parent
           /\ \A q \in Parent : q # t.p => parent'[q] = parent[q] /\ paid'[q] = paid[q]
<1>1. /\ t.p \in Parent /\ parent[t.p] \in ParentCell
      /\ parent[t.p].live <=> paid[t.p] = Unpaid
  BY DEF Ind, TypeOK, PoolInv, ChainInv, Tx
<1>2. /\ t.kind = "force" /\ parent[t.p].live /\ t.pgen = parent[t.p].gen
      /\ parent[t.p].disputed /\ t.matured /\ t.pv = parent[t.p].version
  BY DEF MineForce, Included, SpendsLive
<1>3. parent[t.p].matured
  BY <1>2 DEF StageInv, Current
<1>4. /\ parent' = [parent EXCEPT ![t.p].live = FALSE]
      /\ paid' = [paid EXCEPT ![t.p] = [pv |-> t.pv, v |-> t.v]]
  BY DEF MineForce
<1>5. /\ ~parent'[t.p].live
      /\ \A q \in Parent : q # t.p => parent'[q] = parent[q]
  BY <1>1, <1>4 DEF Ind, TypeOK, ParentCell
<1>6. /\ paid'[t.p] = [pv |-> t.pv, v |-> t.v]
      /\ \A q \in Parent : q # t.p => paid'[q] = paid[q]
  BY <1>1, <1>4 DEF Ind, TypeOK
<1>7. QED
  BY <1>1, <1>2, <1>3, <1>5, <1>6 DEF PaidOut

(* No other step pays a parent or takes its cell off the chain.            *)
LEMMA OthersLive ==
    ASSUME Ind, Next, NEW p \in Parent, \A t \in pool : ~MineForce(t)
    PROVE  paid'[p] = paid[p] /\ parent'[p].live = parent[p].live
<1>1. paid' = paid
  <2>1. ASSUME NEW c \in Caller, Step(c) PROVE paid' = paid
    BY Zenon, <2>1 DEF Step, Call, LookupParents, LookupVc, LookupParent, Send, Await, Fails, chainVars
  <2>2. ASSUME NEW t \in pool, MineFirst(t) \/ MineProgress(t) \/ MineMerge(t) \/ Drop(t)
        PROVE  paid' = paid
    BY Zenon, <2>2 DEF MineFirst, MineProgress, MineMerge, Drop, chainVars
  <2>3. ASSUME NEW q \in Parent, Mature(q) \/ \E v \in ParentVersion : PlainDispute(q, v)
        PROVE  paid' = paid
    BY Zenon, <2>3 DEF Mature, PlainDispute
  <2>4. QED
    BY <2>1, <2>2, <2>3 DEF Next, Chain
<1>2. ASSUME NEW t \in pool, MineFirst(t) \/ MineProgress(t)
      PROVE  parent'[p].live = parent[p].live
  <2>1. t \in Tx /\ Registered(t) /\ parent[t.p].live
    BY <1>2 DEF MineFirst, MineProgress, Included, SpendsLive, Ind, PoolInv
  <2>2. parent'[t.p].live /\ (p # t.p => parent'[p] = parent[p])
    BY <2>1, RegisteredParent DEF Ind
  <2>3. parent'[t.p].live \in BOOLEAN /\ parent[t.p].live \in BOOLEAN
    <3>1. parent' \in [Parent -> ParentCell] /\ parent \in [Parent -> ParentCell]
      BY <1>2, ChainMoves DEF Ind, TypeOK
    <3>2. QED
      BY <2>1, <3>1 DEF Tx, ParentCell
  <2>4. QED
    BY <2>1, <2>2, <2>3
<1>3. ASSUME NEW q \in Parent, Mature(q) \/ \E v \in ParentVersion : PlainDispute(q, v)
      PROVE  parent'[p].live = parent[p].live
  <2>1. CASE Mature(q)
    BY <2>1, MatureKeeps
  <2>2. ASSUME NEW v \in ParentVersion, PlainDispute(q, v) PROVE parent'[p].live = parent[p].live
    <3>1. parent' \in [Parent -> ParentCell] /\ parent \in [Parent -> ParentCell]
      BY <2>2, ChainMoves DEF Ind, TypeOK
    <3>2. parent'[p].live \in BOOLEAN /\ parent[p].live \in BOOLEAN
      BY <3>1 DEF ParentCell
    <3>3. QED
      BY <2>2, <3>2, PlainSets
  <2>3. QED
    BY <1>3, <2>1, <2>2
<1>4. ASSUME NEW c \in Caller, Step(c) PROVE parent' = parent
  BY <1>4 DEF Step, Call, LookupParents, LookupVc, LookupParent, Send, Await, Fails, chainVars
<1>5. ASSUME NEW t \in pool, MineMerge(t) \/ Drop(t) PROVE parent' = parent
  BY <1>5 DEF MineMerge, Drop, chainVars
<1>6. QED
  BY <1>1, <1>2, <1>3, <1>4, <1>5 DEF Next, Chain

(* Whatever is on its way for it and for the other parent (MineForce), a   *)
(* parent's cell leaves the chain exactly when the parent is paid, which   *)
(* happens once: while it is live and disputed, after its challenge        *)
(* period, and by the version registered on it at that moment.             *)
THEOREM PaidAsRegistered ==
    Spec => [][\A p \in Parent : (paid'[p] # paid[p] \/ parent'[p].live # parent[p].live)
                                    => PaidOut(p)]_vars
<1>1. Ind /\ StageInv /\ [Next]_vars =>
         [\A p \in Parent : (paid'[p] # paid[p] \/ parent'[p].live # parent[p].live)
                                    => PaidOut(p)]_vars
  BY ForcePays, OthersLive
<1>2. Init => StageInv
  BY DEF Init, StageInv
<1>3. QED
  BY <1>1, <1>2, NextStage, Invariance, PTL DEF Spec

(* A parent as the life of one channel.                                    *)
Life(p) == INSTANCE ChannelLife WITH
    MaxVersion <- MaxParentVersion,
    stage <- IF ~parent[p].live THEN "gone" ELSE IF parent[p].disputed THEN "disputed" ELSE "funded",
    version <- parent[p].version

(* Every step of two parents is one of the life of each of them, or leaves *)
(* it as it is.                                                            *)
LEMMA ParentLives ==
    ASSUME Ind, StageInv, Next, NEW p \in Parent
    PROVE  Life(p)!Next \/ UNCHANGED Life(p)!vars
<1>1. parent[p] \in ParentCell /\ parent[p].version \in Nat
  BY DEF Ind, TypeOK, ParentCell, ParentVersion
<1>2. ASSUME parent'[p].live = parent[p].live, parent'[p].disputed = parent[p].disputed,
             parent'[p].version = parent[p].version
      PROVE  UNCHANGED Life(p)!vars
  BY <1>2 DEF Life!vars
<1>3. ASSUME parent[p].live, parent'[p].live, parent'[p].disputed,
             parent'[p].version \in 1..MaxParentVersion, parent'[p].version >= parent[p].version
      PROVE  Life(p)!Next \/ UNCHANGED Life(p)!vars
  <2>1. CASE parent'[p].version > parent[p].version
    <3>1. Life(p)!Register
      BY <1>3, <2>1 DEF Life!Register
    <3>2. QED
      BY <3>1 DEF Life!Next
  <2>2. CASE parent'[p].version = parent[p].version
    <3>1. parent[p].version > 0 /\ parent[p].disputed
      BY <1>1, <1>3, <2>2 DEF StageInv
    <3>2. QED
      BY <1>1, <1>2, <1>3, <2>2, <3>1
  <2>3. QED
    BY <1>1, <1>3, <2>1, <2>2
<1>4. ASSUME NEW t \in pool, MineFirst(t) \/ MineProgress(t)
      PROVE  Life(p)!Next \/ UNCHANGED Life(p)!vars
  <2>1. t \in Tx /\ Registered(t) /\ parent[t.p].live /\ Current(t.p, t.pgen)
        /\ t.kind \in {"first", "progress"}
    BY <1>4 DEF MineFirst, MineProgress, Included, SpendsLive, Ind, PoolInv, Current
  <2>2. t.pv >= parent[t.p].version /\ t.pv > 0 /\ t.pv \in 0..MaxParentVersion
    BY <2>1 DEF Ind, PoolInv, StageInv, Tx, ParentVersion
  <2>3. /\ parent'[t.p].live /\ parent'[t.p].disputed /\ parent'[t.p].version = t.pv
        /\ p # t.p => parent'[p] = parent[p]
    BY <2>1, RegisteredParent DEF Ind
  <2>4. t.pv \in 1..MaxParentVersion
    BY <2>2, VirtualAssumption
  <2>5. QED
    BY <1>2, <1>3, <2>1, <2>2, <2>3, <2>4
<1>5. ASSUME NEW q \in Parent, NEW v \in ParentVersion, PlainDispute(q, v)
      PROVE  Life(p)!Next \/ UNCHANGED Life(p)!vars
  <2>1. parent[q].live /\ v > parent[q].version
    BY <1>5, PlainSets
  <2>2. p # q => parent'[p] = parent[p]
    BY <1>5, PlainSets
  <2>3. parent'[q].live /\ parent'[q].disputed /\ parent'[q].version = v
    BY <1>5, PlainSets
  <2>4. p = q => v \in 1..MaxParentVersion /\ v >= parent[p].version
    BY <1>1, <2>1, VirtualAssumption DEF ParentVersion
  <2>5. QED
    BY <1>2, <1>3, <2>1, <2>2, <2>3, <2>4
<1>6. ASSUME NEW q \in Parent, Mature(q) PROVE UNCHANGED Life(p)!vars
  <2>1. /\ parent'[p].live = parent[p].live /\ parent'[p].disputed = parent[p].disputed
        /\ parent'[p].version = parent[p].version
    BY <1>6, MatureKeeps
  <2>2. QED
    BY <1>2, <2>1
<1>7. ASSUME NEW t \in pool, MineForce(t) PROVE Life(p)!Next \/ UNCHANGED Life(p)!vars
  <2>1. t.p \in Parent /\ parent[t.p].live
        /\ parent' = [parent EXCEPT ![t.p].live = FALSE]
    BY <1>7 DEF MineForce, Included, SpendsLive, Ind, PoolInv, Tx
  <2>2. p # t.p => parent'[p] = parent[p]
    BY <2>1 DEF Ind, TypeOK
  <2>3. p = t.p => parent[p].live /\ ~parent'[p].live /\ parent'[p].version = parent[p].version
    BY <2>1 DEF Ind, TypeOK, ParentCell
  <2>4. CASE p = t.p
    BY <2>3, <2>4 DEF Life!Next, Life!Vanish
  <2>5. QED
    BY <1>2, <2>2, <2>4
<1>8. ASSUME UNCHANGED parent PROVE UNCHANGED Life(p)!vars
  BY <1>2, <1>8
<1>9. ASSUME NEW c \in Caller, Step(c) PROVE UNCHANGED parent
  BY <1>9 DEF Step, Call, LookupParents, LookupVc, LookupParent, Send, Await, Fails, chainVars
<1>10. ASSUME NEW t \in pool, MineMerge(t) \/ Drop(t) PROVE UNCHANGED parent
  BY <1>10 DEF MineMerge, Drop, chainVars
<1>11. QED
  BY <1>4, <1>5, <1>6, <1>7, <1>8, <1>9, <1>10 DEF Next, Chain

(* Each parent lives as the subscriptions take it for granted of a channel *)
(* (EventStream is built on the same ChannelLife): two parents, concurrent *)
(* disputes and merges included, it is disputed by rising versions only    *)
(* and is gone once.                                                       *)
THEOREM ParentsLive ==
    ASSUME NEW p \in Parent
    PROVE  Spec => [][Life(p)!Next]_(Life(p)!vars)
<1>1. Ind /\ StageInv /\ [Next]_vars => [Life(p)!Next]_(Life(p)!vars)
  <2>1. ASSUME UNCHANGED vars PROVE UNCHANGED Life(p)!vars
    BY <2>1 DEF vars, chainVars, Life!vars
  <2>2. QED
    BY <2>1, ParentLives
<1>2. Init => StageInv
  BY DEF Init, StageInv
<1>3. QED
  BY <1>1, <1>2, NextStage, Invariance, PTL DEF Spec
=============================================================================
