---------------------------- MODULE ChannelLookup ----------------------------
(***************************************************************************)
(* How one client finds a channel's live cell by the channel's id:         *)
(* getChannelLiveCellWithCache (client/ckbclient.go) on the stable cache   *)
(* of type scripts (client/script_cache.go).                               *)
(*                                                                         *)
(* A channel id is the hash of the channel's parameters.  A channel that   *)
(* was aborted and opened again has the same id, another channel token     *)
(* and therefore another type script: several generations, one after the   *)
(* other or at once, share an id.  The funder, the adjudicator and its     *)
(* subscriptions look channels up from goroutines of their own while the   *)
(* chain moves; what binds them together is the cache.                     *)
(***************************************************************************)
EXTENDS Naturals, FiniteSets

CONSTANTS
    Lookup,     \* goroutines of this client that look channels up
    Id,         \* channel ids
    Script,     \* type scripts (PCTS with the channel constants as arguments)
    IdOf,       \* the channel id of each script
    PageLimit,  \* SearchIndexerLimit: how many cells the indexer answers with
    MaxCell     \* bound: how many cells, one replacing the other, a script has

ASSUME IdOfAssumption == IdOf \in [Script -> Id]
ASSUME PageLimitAssumption == PageLimit \in Nat \ {0}
ASSUME MaxCellAssumption == MaxCell \in Nat \ {0}

Gone  == MaxCell + 1
Stage == 0..Gone          \* 0: not yet opened, n: its n-th cell is live
Cell  == [script : Script, nr : 1..MaxCell]

None    == [is |-> "none"]     \* no entry, no cell: ErrNoChannelLiveCell
Nothing == [is |-> "nothing"]  \* no answer yet, nothing found yet
Error   == [is |-> "error"]

VARIABLES
    chain,   \* the stage of every script
    cache,   \* scriptCache.cache
    pc,      \* per lookup: "idle", "cache", "exact", "all" or "set"
    id,      \* per lookup: the id it was called with
    script,  \* per lookup: the script it got from the cache
    cell,    \* per lookup: the cell it found among all channels' cells
    answer,  \* per lookup: what it answered last
    start,   \* per lookup: its id's scripts on the chain when it was called
    absent,  \* per lookup: no cell of its id was live, at some time since then
    late,    \* per lookup: when it was called, its channel was known to be over
    over,    \* ids whose cached script was answered to have no cell
    told     \* scripts whose cells were answered

ASSUME NoneAssumption == None \notin Script

history == <<start, absent, late, over, told>>
vars == <<chain, cache, pc, id, script, cell, answer, history>>

TypeOK ==
    /\ chain \in [Script -> Stage]
    /\ cache \in [Id -> Script \cup {None}]
    /\ pc \in [Lookup -> {"idle", "cache", "exact", "all", "set"}]
    /\ id \in [Lookup -> Id]
    /\ script \in [Lookup -> Script \cup {None}]
    /\ cell \in [Lookup -> Cell \cup {Nothing}]
    /\ answer \in [Lookup -> Cell \cup {None, Error, Nothing}]
    /\ start \in [Lookup -> [Script -> Stage]]
    /\ absent \in [Lookup -> BOOLEAN] /\ late \in [Lookup -> BOOLEAN]
    /\ over \subseteq Id /\ told \subseteq Script
    /\ \A i \in Id : cache[i] # None => IdOf[cache[i]] = i

Init ==
    /\ chain = [s \in Script |-> 0]
    /\ cache = [i \in Id |-> None]
    /\ pc = [l \in Lookup |-> "idle"]
    /\ id \in [Lookup -> Id]
    /\ script = [l \in Lookup |-> None]
    /\ cell = [l \in Lookup |-> Nothing]
    /\ answer = [l \in Lookup |-> Nothing]
    /\ start = [l \in Lookup |-> chain]
    /\ absent = [l \in Lookup |-> FALSE] /\ late = [l \in Lookup |-> FALSE]
    /\ over = {} /\ told = {}

-----------------------------------------------------------------------------
(* The chain, as the indexer shows it.  A script has at most one live cell *)
(* at a time, and none any more once its channel was aborted or closed.    *)

Live(s, c) == c[s] \in 1..MaxCell
LiveCells  == {[script |-> s, nr |-> chain[s]] : s \in {x \in Script : Live(x, chain)}}
Absent(i, c) == \A s \in Script : IdOf[s] = i => ~Live(s, c)

(* Start; Fund or Dispute, which replace the cell; Abort or Close.         *)
Advance(s) ==
    /\ chain[s] < Gone
    /\ \E n \in {chain[s] + 1, Gone} :
          /\ n = Gone => chain[s] > 0
          /\ chain' = [chain EXCEPT ![s] = n]
    /\ absent' = [l \in Lookup |-> absent[l] \/ (pc[l] # "idle" /\ Absent(id[l], chain'))]
    /\ UNCHANGED <<cache, pc, id, script, cell, answer, start, late, over, told>>

-----------------------------------------------------------------------------
(* One lookup.                                                             *)

Answers(l, a) ==
    /\ pc' = [pc EXCEPT ![l] = "idle"]
    /\ answer' = [answer EXCEPT ![l] = a]
    /\ script' = [script EXCEPT ![l] = None]
    /\ cell' = [cell EXCEPT ![l] = Nothing]
    /\ told' = IF a \in Cell THEN told \cup {a.script} ELSE told
    /\ UNCHANGED <<chain, id, start, absent, late>>

Call(l) ==
    /\ pc[l] = "idle"
    /\ \E i \in Id :
          /\ id' = [id EXCEPT ![l] = i]
          /\ absent' = [absent EXCEPT ![l] = Absent(i, chain)]
          /\ late' = [late EXCEPT ![l] = i \in over]
          /\ start' = [start EXCEPT ![l] = [s \in Script |-> IF IdOf[s] = i THEN chain[s] ELSE 0]]
    /\ pc' = [pc EXCEPT ![l] = "cache"]
    /\ answer' = [answer EXCEPT ![l] = Nothing]
    /\ UNCHANGED <<chain, cache, script, cell, over, told>>

(* scriptCache.Get                                                         *)
Get(l) ==
    /\ pc[l] = "cache"
    /\ script' = [script EXCEPT ![l] = cache[id[l]]]
    /\ pc' = [pc EXCEPT ![l] = IF cache[id[l]] # None THEN "exact" ELSE "all"]
    /\ UNCHANGED <<chain, cache, id, cell, answer, history>>

(* Variant: a cell that was answered before is answered again.             *)
Exact_FromAnswers(l) ==
    /\ pc[l] = "exact"
    /\ \E c \in Cell : /\ c.script = script[l] /\ c.nr <= chain[c.script]
                       /\ Answers(l, c)
    /\ UNCHANGED <<cache, over>>

(* Variant: a script without a cell is taken out of the cache.             *)
Exact_Evicts(l) ==
    /\ pc[l] = "exact"
    /\ IF Live(script[l], chain)
       THEN Answers(l, [script |-> script[l], nr |-> chain[script[l]]]) /\ UNCHANGED <<cache, over>>
       ELSE /\ Answers(l, None) /\ over' = over \cup {id[l]}
            /\ cache' = [cache EXCEPT ![id[l]] = None]

(* getExactChannelLiveCell                                                 *)
Exact(l) ==
    /\ pc[l] = "exact"
    /\ \/ /\ Live(script[l], chain)
          /\ Answers(l, [script |-> script[l], nr |-> chain[script[l]]])
          /\ UNCHANGED over
       \/ /\ ~Live(script[l], chain)
          /\ Answers(l, None)
          /\ over' = over \cup {id[l]}
    /\ UNCHANGED cache

(* GetCells on the prefix of all channels' scripts: cells come in an order *)
(* that has nothing to do with channel ids, and at most PageLimit of them; *)
(* the search does not go on with a second page.                           *)
Pages == {page \in SUBSET LiveCells :
            Cardinality(page) = IF Cardinality(LiveCells) <= PageLimit
                                THEN Cardinality(LiveCells) ELSE PageLimit}

(* Variant: only the first cell of the page is looked at.                  *)
FirstWithID_FirstOnly(page, i) ==
    IF page = {} THEN {None}
    ELSE {IF IdOf[c.script] = i THEN c ELSE None : c \in page}

(* Variant: the id in the channel's status is not compared.                *)
FirstWithID_AnyID(page, i) == IF page = {} THEN {None} ELSE page

(* getFirstChannelLiveCellWithID: what it may find on this page.           *)
FirstWithID(page, i) ==
    LET matching == {c \in page : IdOf[c.script] = i}
    IN  IF matching = {} THEN {None} ELSE matching

(* getAllChannelLiveCells and the choice among them.                       *)
All(l) ==
    /\ pc[l] = "all"
    /\ \E page \in Pages : \E found \in FirstWithID(page, id[l]) :
          \/ /\ found = None
             /\ Answers(l, None)
          \/ /\ found # None
             /\ cell' = [cell EXCEPT ![l] = found]
             /\ pc' = [pc EXCEPT ![l] = "set"]
             /\ UNCHANGED <<chain, id, script, answer, start, absent, late, told>>
    /\ UNCHANGED <<cache, over>>

(* Variant: the last one to set the entry wins.                            *)
Set_Overwrites(l) ==
    /\ pc[l] = "set"
    /\ cache' = [cache EXCEPT ![id[l]] = cell[l].script]
    /\ Answers(l, cell[l])
    /\ UNCHANGED over

(* scriptCache.Set: no entry, or the same one.                             *)
Set(l) ==
    /\ pc[l] = "set"
    /\ cache[id[l]] \in {None, cell[l].script}
    /\ cache' = [cache EXCEPT ![id[l]] = cell[l].script]
    /\ Answers(l, cell[l])
    /\ UNCHANGED over

(* Variant: all channels are searched again.                               *)
Rewrite_SearchesAgain(l) ==
    /\ pc[l] = "set"
    /\ cache[id[l]] \notin {None, cell[l].script}
    /\ pc' = [pc EXCEPT ![l] = "all"]
    /\ cell' = [cell EXCEPT ![l] = Nothing]
    /\ UNCHANGED <<chain, cache, id, script, answer, history>>

(* Set errs ("rewrite on constant cache"): the lookup starts over.         *)
Rewrite(l) ==
    /\ pc[l] = "set"
    /\ cache[id[l]] \notin {None, cell[l].script}
    /\ pc' = [pc EXCEPT ![l] = "cache"]
    /\ cell' = [cell EXCEPT ![l] = Nothing]
    /\ UNCHANGED <<chain, cache, id, script, answer, history>>

(* All attempts of retryRPC failed or the context ended.                   *)
RpcFails(l) ==
    /\ pc[l] \in {"exact", "all"}
    /\ Answers(l, Error)
    /\ UNCHANGED <<cache, over>>

Step(l) == Get(l) \/ Exact(l) \/ All(l) \/ Set(l) \/ Rewrite(l) \/ RpcFails(l)

Next == (\E s \in Script : Advance(s)) \/ (\E l \in Lookup : Call(l) \/ Step(l))

(* A lookup is an ordinary function call: it does not stop on its way.     *)
Spec == Init /\ [][Next]_vars /\ \A l \in Lookup : WF_vars(Step(l))

-----------------------------------------------------------------------------
(* An answered cell was live at some time during the lookup, also when the *)
(* lookup found a cell, lost the race for the cache and started over.      *)
FreshAnswer ==
    \A l \in Lookup : answer[l] \in Cell =>
        /\ IdOf[answer[l].script] = id[l]
        /\ start[l][answer[l].script] <= answer[l].nr
        /\ answer[l].nr <= chain[answer[l].script]

(* A client stays with one channel per id: goroutines that miss the cache  *)
(* at the same time and find different channels are never told of both.    *)
OneScript == \A s, t \in told : IdOf[s] = IdOf[t] => s = t

(* Once a lookup of a cached channel answered that there is no cell, which *)
(* a subscription counts towards ConcludedEvent, no later lookup of this   *)
(* client answers a cell for that id.                                      *)
GoneStaysGone == \A l \in Lookup : late[l] => answer[l] \notin Cell

(* A client that has found no channel with this id yet is told that there  *)
(* is none only if there is none, as GetChannelWithID documents.  This is  *)
(* so while all channels' cells fit on the indexer's page.                 *)
UncachedNoneIsTrue ==
    \A l \in Lookup : answer[l] = None /\ cache[id[l]] = None => absent[l]

(* Every lookup comes back: the one that loses the race does not loop.     *)
LookupReturns == \A l \in Lookup : pc[l] # "idle" ~> pc[l] = "idle"
=============================================================================
