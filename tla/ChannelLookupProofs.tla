------------------------- MODULE ChannelLookupProofs -------------------------
(***************************************************************************)
(* The safety properties of ChannelLookup for any number of goroutines,    *)
(* channels and generations.                                               *)
(*                                                                         *)
(* The argument: an entry of the cache is written once and belongs to a    *)
(* script that was opened (CacheInv).  Whatever cell was answered, its     *)
(* script is the cached one (ToldInv), so two answers for an id agree.  A  *)
(* script that a lookup found without a cell is gone for good (OverInv),   *)
(* and a lookup that was called after that can only go from the cache to   *)
(* the exact search and miss (LateInv).  FoundInv says that a cell on its  *)
(* way to the cache was live during the lookup.                            *)
(***************************************************************************)
EXTENDS ChannelLookup, FiniteSetTheorems, TLAPS

USE IdOfAssumption, PageLimitAssumption, MaxCellAssumption, NoneAssumption

CacheInv == \A i \in Id : cache[i] # None => chain[cache[i]] >= 1

ToldInv == \A s \in told : cache[IdOf[s]] = s

OverInv == \A i \in over : cache[i] # None /\ chain[cache[i]] = Gone

PlaceInv ==
    \A l \in Lookup : pc[l] = "exact" => script[l] = cache[id[l]] /\ script[l] # None

FoundInv ==
    \A l \in Lookup :
        /\ \A s \in Script : start[l][s] <= chain[s]
        /\ pc[l] = "set" => /\ cell[l] \in Cell /\ IdOf[cell[l].script] = id[l]
                            /\ start[l][cell[l].script] <= cell[l].nr
                            /\ cell[l].nr <= chain[cell[l].script]

LateInv == \A l \in Lookup : late[l] => id[l] \in over /\ pc[l] \notin {"all", "set"}

Ind == /\ TypeOK /\ CacheInv /\ ToldInv /\ OverInv /\ PlaceInv /\ FoundInv /\ LateInv
       /\ FreshAnswer /\ GoneStaysGone

-----------------------------------------------------------------------------
(* A cell is none of the other answers.                                    *)
LEMMA CellApart == \A c \in Cell : c # None /\ c # Nothing /\ c # Error
<1> SUFFICES ASSUME NEW c \in Cell PROVE c # None /\ c # Nothing /\ c # Error
  OBVIOUS
<1>1. DOMAIN c = {"script", "nr"}
  BY DEF Cell
<1>2. DOMAIN None = {"is"} /\ DOMAIN Nothing = {"is"} /\ DOMAIN Error = {"is"}
  BY DEF None, Nothing, Error
<1> QED BY <1>1, <1>2

(* What the page's search finds is None or a live cell of this id.         *)
LEMMA PageFinds ==
    ASSUME TypeOK, NEW page \in Pages, NEW i \in Id, NEW found \in FirstWithID(page, i)
    PROVE  found # None => /\ found \in Cell /\ IdOf[found.script] = i
                           /\ found.nr = chain[found.script] /\ Live(found.script, chain)
<1>1. page \subseteq LiveCells
  BY DEF Pages
<1>2. \A c \in LiveCells : c \in Cell /\ c.nr = chain[c.script] /\ Live(c.script, chain)
  BY DEF LiveCells, Cell, Live, TypeOK
<1> QED BY <1>1, <1>2 DEF FirstWithID

(* An empty cache and idle goroutines satisfy the invariant.               *)
LEMMA InitInd == Init => Ind
BY CellApart DEF Init, Ind, TypeOK, CacheInv, ToldInv, OverInv, PlaceInv, FoundInv, LateInv,
                 FreshAnswer, GoneStaysGone, Stage, Gone, None, Nothing, Error

(* The chain opens, moves or consumes a cell under the feet of all lookups.*)
LEMMA AdvanceInd == ASSUME Ind, NEW s \in Script, Advance(s) PROVE Ind'
<1>1. chain'[s] \in Stage /\ chain'[s] > chain[s] /\ chain' = [chain EXCEPT ![s] = chain'[s]]
  BY DEF Advance, Ind, TypeOK, Stage, Gone
<1>2. \A t \in Script : chain'[t] \in Stage /\ chain'[t] >= chain[t]
  BY <1>1 DEF Ind, TypeOK, Stage, Gone
<1>3. TypeOK'
  BY <1>1 DEF Advance, Ind, TypeOK, Absent
<1>4. CacheInv' /\ OverInv' /\ ToldInv' /\ PlaceInv' /\ LateInv' /\ GoneStaysGone'
  BY <1>1, <1>2 DEF Advance, Ind, TypeOK, CacheInv, OverInv, ToldInv, PlaceInv, LateInv,
     GoneStaysGone, Stage, Gone
<1>5. FoundInv' /\ FreshAnswer'
  BY <1>1, <1>2 DEF Advance, Ind, TypeOK, FoundInv, FreshAnswer, Stage, Gone, Cell
<1> QED BY <1>3, <1>4, <1>5 DEF Ind

(* A goroutine calls GetChannelWithID; the chain it starts from is         *)
(* remembered.                                                             *)
LEMMA CallInd == ASSUME Ind, NEW l \in Lookup, Call(l) PROVE Ind'
<1>1. PICK i \in Id :
         /\ id' = [id EXCEPT ![l] = i]
         /\ absent' = [absent EXCEPT ![l] = Absent(i, chain)]
         /\ late' = [late EXCEPT ![l] = i \in over]
         /\ start' = [start EXCEPT ![l] = [s \in Script |-> IF IdOf[s] = i THEN chain[s] ELSE 0]]
  BY DEF Call
<1>2. TypeOK'
  BY <1>1 DEF Call, Ind, TypeOK, Absent, Stage, Gone
<1>3. CacheInv' /\ OverInv' /\ ToldInv' /\ PlaceInv' /\ LateInv'
  BY <1>1 DEF Call, Ind, TypeOK, CacheInv, OverInv, ToldInv, PlaceInv, LateInv
<1>4. FoundInv' /\ FreshAnswer' /\ GoneStaysGone'
  BY <1>1, CellApart DEF Call, Ind, TypeOK, FoundInv, FreshAnswer, GoneStaysGone, Stage, Gone
<1> QED BY <1>2, <1>3, <1>4 DEF Ind

(* The cache is read: a hit leads to the exact search, a miss to the page. *)
LEMMA GetInd == ASSUME Ind, NEW l \in Lookup, Get(l) PROVE Ind'
<1>1. TypeOK'
  BY DEF Get, Ind, TypeOK, history
<1>2. CacheInv' /\ OverInv' /\ ToldInv' /\ PlaceInv' /\ LateInv'
  BY DEF Get, Ind, TypeOK, CacheInv, OverInv, ToldInv, PlaceInv, LateInv, history
<1>3. FoundInv' /\ FreshAnswer' /\ GoneStaysGone'
  BY DEF Get, Ind, TypeOK, FoundInv, FreshAnswer, GoneStaysGone, history
<1> QED BY <1>1, <1>2, <1>3 DEF Ind

(* The cached script is stored again after a hit.                          *)
LEMMA RewriteInd == ASSUME Ind, NEW l \in Lookup, Rewrite(l) PROVE Ind'
<1>1. TypeOK'
  BY DEF Rewrite, Ind, TypeOK, history
<1>2. CacheInv' /\ OverInv' /\ ToldInv' /\ PlaceInv' /\ LateInv'
  BY DEF Rewrite, Ind, TypeOK, CacheInv, OverInv, ToldInv, PlaceInv, LateInv, history
<1>3. FoundInv' /\ FreshAnswer' /\ GoneStaysGone'
  BY DEF Rewrite, Ind, TypeOK, FoundInv, FreshAnswer, GoneStaysGone, history
<1> QED BY <1>1, <1>2, <1>3 DEF Ind

(* An answer that is no cell disturbs nothing.                             *)
LEMMA NoCellInd ==
    ASSUME Ind, NEW l \in Lookup, NEW a \in {None, Error}, Answers(l, a), UNCHANGED cache,
           over \subseteq over', over' \subseteq over \cup {id[l]},
           over' # over => cache[id[l]] # None /\ chain[cache[id[l]]] = Gone
    PROVE  Ind'
<1>0. a \notin Cell
  BY CellApart
<1>1. TypeOK'
  BY <1>0 DEF Answers, Ind, TypeOK
<1>2. CacheInv' /\ OverInv' /\ ToldInv' /\ PlaceInv'
  BY <1>0 DEF Answers, Ind, TypeOK, CacheInv, OverInv, ToldInv, PlaceInv
<1>3. FoundInv' /\ FreshAnswer' /\ LateInv' /\ GoneStaysGone'
  BY <1>0 DEF Answers, Ind, TypeOK, FoundInv, FreshAnswer, LateInv, GoneStaysGone
<1> QED BY <1>1, <1>2, <1>3 DEF Ind

(* The search for the cached script answers its live cell or no cell.      *)
LEMMA ExactInd == ASSUME Ind, NEW l \in Lookup, Exact(l) PROVE Ind'
<1>0. /\ script[l] \in Script /\ script[l] = cache[id[l]] /\ id[l] \in Id
      /\ IdOf[script[l]] = id[l] /\ chain[script[l]] \in 1..Gone
  BY DEF Exact, Ind, TypeOK, PlaceInv, CacheInv, Stage, Gone
<1>1. CASE Live(script[l], chain) /\ UNCHANGED over
           /\ Answers(l, [script |-> script[l], nr |-> chain[script[l]]])
  <2> DEFINE c == [script |-> script[l], nr |-> chain[script[l]]]
  <2>1. c \in Cell /\ c.script = script[l] /\ c.nr = chain[script[l]]
    BY <1>0, <1>1 DEF Cell, Live
  <2>2. /\ pc' = [pc EXCEPT ![l] = "idle"] /\ answer' = [answer EXCEPT ![l] = c]
        /\ script' = [script EXCEPT ![l] = None] /\ cell' = [cell EXCEPT ![l] = Nothing]
        /\ told' = told \cup {c.script}
        /\ UNCHANGED <<chain, cache, id, start, absent, late, over>>
    BY <1>1, <2>1 DEF Answers, Exact
  <2> HIDE DEF c
  <2>3. TypeOK'
    BY <1>0, <2>1, <2>2 DEF Ind, TypeOK
  <2>4. CacheInv' /\ OverInv' /\ ToldInv' /\ PlaceInv'
    BY <1>0, <2>1, <2>2 DEF Ind, TypeOK, CacheInv, OverInv, ToldInv, PlaceInv
  <2>5. FoundInv' /\ FreshAnswer'
    BY <1>0, <2>1, <2>2 DEF Ind, TypeOK, FoundInv, FreshAnswer
  <2>6. ~late[l]
    BY <1>0, <1>1 DEF Ind, OverInv, LateInv, Live, Gone
  <2>7. LateInv' /\ GoneStaysGone'
    BY <2>2, <2>6 DEF Ind, TypeOK, LateInv, GoneStaysGone
  <2> QED BY <2>3, <2>4, <2>5, <2>7 DEF Ind
<1>2. CASE ~Live(script[l], chain) /\ Answers(l, None) /\ over' = over \cup {id[l]}
  <2>1. cache[id[l]] # None /\ chain[cache[id[l]]] = Gone
    BY <1>0, <1>2 DEF Live, Gone
  <2> QED BY <1>2, <2>1, NoCellInd DEF Exact
<1> QED BY <1>1, <1>2 DEF Exact

(* The search of all channel cells finds a cell of this id, or none in its *)
(* page.                                                                   *)
LEMMA AllInd == ASSUME Ind, NEW l \in Lookup, All(l) PROVE Ind'
<1>0. PICK page \in Pages : \E found \in FirstWithID(page, id[l]) :
         \/ found = None /\ Answers(l, None)
         \/ /\ found # None
            /\ cell' = [cell EXCEPT ![l] = found]
            /\ pc' = [pc EXCEPT ![l] = "set"]
            /\ UNCHANGED <<chain, id, script, answer, start, absent, late, told>>
  BY DEF All
<1>1. PICK found \in FirstWithID(page, id[l]) :
         \/ found = None /\ Answers(l, None)
         \/ /\ found # None
            /\ cell' = [cell EXCEPT ![l] = found]
            /\ pc' = [pc EXCEPT ![l] = "set"]
            /\ UNCHANGED <<chain, id, script, answer, start, absent, late, told>>
  BY <1>0
<1>2. CASE Answers(l, None)
  BY <1>2, NoCellInd DEF All
<1>3. CASE /\ found # None
           /\ cell' = [cell EXCEPT ![l] = found]
           /\ pc' = [pc EXCEPT ![l] = "set"]
           /\ UNCHANGED <<chain, id, script, answer, start, absent, late, told>>
  <2>1. id[l] \in Id /\ TypeOK /\ pc[l] = "all"
    BY DEF Ind, TypeOK, All
  <2>2. /\ found \in Cell /\ IdOf[found.script] = id[l]
        /\ found.nr = chain[found.script]
    BY <1>3, <2>1, PageFinds
  <2>3. found.script \in Script /\ start[l][found.script] <= found.nr
    BY <2>2 DEF Cell, Ind, FoundInv
  <2>4. TypeOK'
    BY <1>3, <2>1, <2>2 DEF All, TypeOK
  <2>5. CacheInv' /\ OverInv' /\ ToldInv' /\ PlaceInv' /\ LateInv' /\ GoneStaysGone'
    BY <1>3, <2>1 DEF All, Ind, TypeOK, CacheInv, OverInv, ToldInv, PlaceInv, LateInv, GoneStaysGone
  <2>6. found.nr <= chain[found.script]
    BY <2>2, <2>3, <2>1 DEF TypeOK, Stage, Gone
  <2>7. FoundInv' /\ FreshAnswer'
    BY <1>3, <2>1, <2>2, <2>3, <2>6 DEF Ind, TypeOK, FoundInv, FreshAnswer
  <2> QED BY <2>4, <2>5, <2>7 DEF Ind
<1> QED BY <1>1, <1>2, <1>3

(* The found script is cached, or the lookup gives way to what was cached  *)
(* since.                                                                  *)
LEMMA SetInd == ASSUME Ind, NEW l \in Lookup, Set(l) PROVE Ind'
<1>1. /\ cell[l] \in Cell /\ cell[l].script \in Script /\ cell[l].nr >= 1
      /\ IdOf[cell[l].script] = id[l] /\ id[l] \in Id
      /\ start[l][cell[l].script] <= cell[l].nr /\ cell[l].nr <= chain[cell[l].script]
  BY DEF Set, Ind, TypeOK, FoundInv, Cell
<1>2. /\ pc' = [pc EXCEPT ![l] = "idle"] /\ answer' = [answer EXCEPT ![l] = cell[l]]
      /\ script' = [script EXCEPT ![l] = None] /\ cell' = [cell EXCEPT ![l] = Nothing]
      /\ told' = told \cup {cell[l].script}
      /\ cache' = [cache EXCEPT ![id[l]] = cell[l].script]
      /\ cache[id[l]] \in {None, cell[l].script}
      /\ UNCHANGED <<chain, id, start, absent, late, over>>
  BY <1>1 DEF Set, Answers
<1>3. chain[cell[l].script] >= 1
  BY <1>1 DEF Cell, Ind, TypeOK, Stage, Gone
<1>4. ~late[l]
  BY DEF Set, Ind, LateInv
<1>5. TypeOK'
  BY <1>1, <1>2 DEF Ind, TypeOK
<1>6. CacheInv' /\ OverInv' /\ PlaceInv'
  BY <1>1, <1>2, <1>3 DEF Ind, TypeOK, CacheInv, OverInv, PlaceInv
<1>7. ToldInv'
  BY <1>1, <1>2 DEF Ind, TypeOK, ToldInv
<1>8. FoundInv' /\ FreshAnswer'
  BY <1>1, <1>2 DEF Ind, TypeOK, FoundInv, FreshAnswer
<1>9. LateInv' /\ GoneStaysGone'
  BY <1>2, <1>4 DEF Ind, TypeOK, LateInv, GoneStaysGone
<1> QED BY <1>5, <1>6, <1>7, <1>8, <1>9 DEF Ind

(* Every step of a lookup or of the chain keeps the invariant.             *)
LEMMA NextInd == ASSUME Ind, [Next]_vars PROVE Ind'
<1>1. ASSUME NEW l \in Lookup, RpcFails(l) PROVE Ind'
  BY <1>1, NoCellInd DEF RpcFails
<1>2. ASSUME UNCHANGED vars PROVE Ind'
  BY <1>2 DEF vars, history, Ind, TypeOK, CacheInv, OverInv, ToldInv, PlaceInv, FoundInv, LateInv,
     FreshAnswer, GoneStaysGone
<1> QED BY <1>1, <1>2, AdvanceInd, CallInd, GetInd, ExactInd, AllInd, SetInd, RewriteInd
        DEF Next, Step

(* The invariant holds in every reachable state.                           *)
LEMMA Invariance == Spec => []Ind
<1> QED BY InitInd, NextInd, PTL DEF Spec

-----------------------------------------------------------------------------
(* Variables stay in their types, and an entry belongs to its id.          *)
THEOREM TypeCorrect == Spec => []TypeOK
<1>1. Ind => TypeOK
  BY DEF Ind
<1> QED BY <1>1, Invariance, PTL

(* A client is never told of two channels for one id.                      *)
THEOREM OneChannelPerId == Spec => []OneScript
<1>1. Ind => OneScript
  BY DEF Ind, TypeOK, ToldInv, OneScript
<1> QED BY <1>1, Invariance, PTL

(* An answered cell was live during the lookup.                            *)
THEOREM AnswersAreFresh == Spec => []FreshAnswer
<1>1. Ind => FreshAnswer
  BY DEF Ind
<1> QED BY <1>1, Invariance, PTL

(* A channel that a lookup found gone is never found again.                *)
THEOREM GoneForGood == Spec => []GoneStaysGone
<1>1. Ind => GoneStaysGone
  BY DEF Ind
<1> QED BY <1>1, Invariance, PTL

-----------------------------------------------------------------------------
(* Answers that there is no channel.                                       *)

(* All channels' cells fit on the indexer's page.                          *)
Fits == IsFiniteSet(Script) /\ Cardinality(Script) <= PageLimit

(* That an id has no live cell is noticed by every lookup of it.           *)
AbsentInv == \A l \in Lookup : pc[l] # "idle" /\ Absent(id[l], chain) => absent[l]

(* A page on which all cells fit shows all of them.                        *)
LEMMA WholePage ==
    ASSUME TypeOK, Fits, NEW page \in Pages
    PROVE  page = LiveCells
<1> DEFINE f == [c \in LiveCells |-> c.script]
<1>1. \A c \in LiveCells : c.script \in Script /\ c = [script |-> c.script, nr |-> chain[c.script]]
  BY DEF LiveCells
<1>2. f \in Injection(LiveCells, Script)
  <2>1. f \in [LiveCells -> Script]
    BY <1>1
  <2>2. \A c, d \in LiveCells : f[c] = f[d] => c = d
    BY <1>1
  <2>3. QED
    BY <2>1, <2>2 DEF Injection, IsInjective
<1> HIDE DEF f
<1>3. IsFiniteSet(LiveCells) /\ Cardinality(LiveCells) <= Cardinality(Script)
  BY <1>2, FS_Injection DEF Fits
<1>4. Cardinality(LiveCells) \in Nat /\ Cardinality(Script) \in Nat
  BY <1>3, FS_CardinalityType DEF Fits
<1>5. Cardinality(LiveCells) <= PageLimit
  BY <1>3, <1>4 DEF Fits
<1>6. page \subseteq LiveCells /\ Cardinality(page) = Cardinality(LiveCells)
  BY <1>5 DEF Pages
<1> QED BY <1>3, <1>6, FS_Subset

(* A page without a cell of the id shows that there is none.               *)
LEMMA MissIsTrue ==
    ASSUME TypeOK, Fits, NEW i \in Id, NEW page \in Pages, None \in FirstWithID(page, i)
    PROVE  Absent(i, chain)
<1>1. page = LiveCells
  BY WholePage
<1>2. \A c \in LiveCells : c \in Cell
  BY DEF LiveCells, Cell, Live, TypeOK
<1>3. \A c \in page : IdOf[c.script] # i
  BY <1>1, <1>2, CellApart DEF FirstWithID
<1>4. ASSUME NEW s \in Script, IdOf[s] = i, Live(s, chain) PROVE FALSE
  <2>1. [script |-> s, nr |-> chain[s]] \in LiveCells
    BY <1>4 DEF LiveCells
  <2> QED BY <1>1, <1>3, <1>4, <2>1
<1> QED BY <1>4 DEF Absent

(* No step makes a true answer wrong, or gives a wrong one.                *)
LEMMA UncachedInd ==
    ASSUME Fits, Ind, AbsentInv, UncachedNoneIsTrue, [Next]_vars
    PROVE  AbsentInv' /\ UncachedNoneIsTrue'
<1> USE DEF Ind, TypeOK
<1>1. ASSUME NEW s \in Script, Advance(s) PROVE AbsentInv' /\ UncachedNoneIsTrue'
  BY <1>1 DEF Advance, AbsentInv, UncachedNoneIsTrue
<1>2. ASSUME NEW l \in Lookup, Call(l) PROVE AbsentInv' /\ UncachedNoneIsTrue'
  BY <1>2 DEF Call, AbsentInv, UncachedNoneIsTrue, None, Nothing, Absent, Live
<1>3. ASSUME NEW l \in Lookup, Get(l) \/ Rewrite(l)
      PROVE  AbsentInv' /\ UncachedNoneIsTrue'
  BY <1>3 DEF Get, Rewrite, history, AbsentInv, UncachedNoneIsTrue, Absent, Live
<1>4. ASSUME NEW l \in Lookup, NEW a, Answers(l, a),
             \A k \in Lookup : cache'[id[k]] = None => cache[id[k]] = None,
             a = None /\ cache'[id[l]] = None => absent[l]
      PROVE  AbsentInv' /\ UncachedNoneIsTrue'
  BY <1>4 DEF Answers, AbsentInv, UncachedNoneIsTrue, Absent, Live
<1>5. ASSUME NEW l \in Lookup, Exact(l) PROVE AbsentInv' /\ UncachedNoneIsTrue'
  <2>1. cache' = cache /\ cache[id[l]] # None
    BY <1>5 DEF Exact, PlaceInv
  <2> QED BY <1>4, <1>5, <2>1 DEF Exact
<1>6. ASSUME NEW l \in Lookup, All(l) PROVE AbsentInv' /\ UncachedNoneIsTrue'
  <2>1. CASE Answers(l, None)
    <3>1. Absent(id[l], chain) => absent[l]
      BY <1>6 DEF All, AbsentInv
    <3>2. \E page \in Pages : None \in FirstWithID(page, id[l])
      <4>1. answer'[l] = None /\ pc'[l] = "idle"
        BY <2>1 DEF Answers
      <4> QED BY <1>6, <4>1 DEF All
    <3> QED BY <1>4, <1>6, <2>1, <3>1, <3>2, MissIsTrue DEF All
  <2>2. CASE ~Answers(l, None)
    BY <1>6, <2>2 DEF All, AbsentInv, UncachedNoneIsTrue, Absent, Live
  <2> QED BY <2>1, <2>2
<1>7. ASSUME NEW l \in Lookup, Set(l) PROVE AbsentInv' /\ UncachedNoneIsTrue'
  <2>1. cell[l] \in Cell /\ cell[l].script \in Script /\ cell[l] # None
    BY <1>7, CellApart DEF Set, FoundInv, Cell
  <2>2. \A k \in Lookup : cache'[id[k]] = None => cache[id[k]] = None
    BY <1>7, <2>1 DEF Set
  <2> QED BY <1>4, <1>7, <2>1, <2>2 DEF Set
<1>8. ASSUME NEW l \in Lookup, RpcFails(l) PROVE AbsentInv' /\ UncachedNoneIsTrue'
  BY <1>4, <1>8 DEF RpcFails, None, Error
<1>9. CASE UNCHANGED vars
  BY <1>9 DEF vars, history, AbsentInv, UncachedNoneIsTrue, Absent, Live
<1> QED BY <1>1, <1>2, <1>3, <1>5, <1>6, <1>7, <1>8, <1>9 DEF Next, Step

(* A client that has found no channel with this id yet is told that there  *)
(* is none only if there is none, while all cells fit on the page.         *)
THEOREM UncachedIsTold ==
    ASSUME Fits
    PROVE  Spec => []UncachedNoneIsTrue
<1>1. Init => AbsentInv /\ UncachedNoneIsTrue
  BY DEF Init, AbsentInv, UncachedNoneIsTrue, None, Nothing
<1>2. Ind /\ AbsentInv /\ UncachedNoneIsTrue /\ [Next]_vars => AbsentInv' /\ UncachedNoneIsTrue'
  BY UncachedInd
<1> QED BY <1>1, <1>2, Invariance, PTL DEF Spec
=============================================================================
