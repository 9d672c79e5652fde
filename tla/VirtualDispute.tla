--------------------------- MODULE VirtualDispute ---------------------------
(***************************************************************************)
(* Disputing and closing two ledger channels, the parents, that carry one  *)
(* virtual channel: Adjudicator.Register and Withdraw with a sub-channel,  *)
(* which are the client's DisputeVC and ForceCloseWithVC                   *)
(* (client/ckbclient.go), and the transactions they build                  *)
(* (transaction/handler.go).                                               *)
(*                                                                         *)
(* The first dispute of a parent puts a cell for the virtual channel on    *)
(* the chain.  Both parents may be disputed for the first time at once;    *)
(* then there are two such cells until somebody merges them.  Every caller *)
(* reads the cells one after the other and decides on what it has read.    *)
(***************************************************************************)
EXTENDS Naturals, FiniteSets

CONSTANTS
    Caller,      \* clients, each with a cache of its own
    Parent,      \* the two ledger channels
    MaxParentVersion, MaxVersion,  \* bounds: of the parents' versions, and
                 \*   of the virtual channel's
    MaxCalls     \* bound: how many calls are made altogether

ASSUME VirtualAssumption ==
    /\ MaxParentVersion \in Nat /\ MaxVersion \in Nat /\ MaxCalls \in Nat
    /\ IsFiniteSet(Parent) /\ Cardinality(Parent) = 2

VARIABLES
    parent,      \* the parents' channel cells
    vcs,         \* the live cells of the virtual channel
    vgen,        \* how many of these there were: names their out points
    paid,        \* per parent: the versions it was paid out by
    pool,        \* transactions nodes have accepted and not decided on
    vccache,     \* per client: knows the virtual channel's type script
    pc, call,    \* per caller: place, request,
    snapVc, snapParent, \* the cells it has read,
    sent, mined, \* its transaction, and whether that is in a block
    calls,       \* how many calls were made
    told,        \* requests that were answered with nil, and for which reason
    merged       \* two cells of the virtual channel were merged

chainVars == <<parent, vcs, vgen, paid, merged>>
callVars  == <<pc, call, snapVc, snapParent, sent, mined>>
vars == <<chainVars, pool, vccache, callVars, calls, told>>

Version == 0..MaxVersion
ParentVersion == 0..MaxParentVersion

(* A parent that carries the virtual channel has been updated for it.      *)
Request == [op : {"dispute", "force"}, p : Parent, pv : 1..MaxParentVersion, v : Version]
ParentCell == [live : BOOLEAN, gen : Nat, version : ParentVersion, disputed : BOOLEAN,
               vc : BOOLEAN, matured : BOOLEAN]
ParentSnap == [gen : Nat, version : ParentVersion]
VcCell  == [gen : Nat, version : Version, first : BOOLEAN]
Tx      == [kind : {"first", "progress", "merge", "force"}, by : Caller, p : Parent,
            pv : ParentVersion, v : Version, pgen : Nat, vc : SUBSET VcCell, matured : BOOLEAN]
Reason  == {"committed", "merged", "unneeded"}
Unpaid  == [pv |-> "none"]
Nothing == [op |-> "none"]

TypeOK ==
    /\ parent \in [Parent -> ParentCell]
    /\ vcs \subseteq VcCell /\ vgen \in Nat /\ Cardinality(vcs) <= 2
    /\ paid \in [Parent -> [pv : ParentVersion, v : Version] \cup {Unpaid}]
    /\ pool \subseteq Tx
    /\ vccache \in [Caller -> BOOLEAN]
    /\ pc \in [Caller -> {"idle", "parents", "vc", "parent", "send", "await"}]
    /\ call \in [Caller -> Request \cup {Nothing}]
    /\ snapVc \in [Caller -> SUBSET VcCell]
    /\ snapParent \in [Caller -> ParentSnap \cup {Nothing}]
    /\ sent \in [Caller -> Tx \cup {Nothing}]
    /\ mined \in [Caller -> BOOLEAN] /\ calls \in 0..MaxCalls
    /\ told \subseteq [req : Request, why : Reason]
    /\ merged \in BOOLEAN

Init ==
    /\ parent = [p \in Parent |-> [live |-> TRUE, gen |-> 0, version |-> 0,
                                   disputed |-> FALSE, vc |-> FALSE, matured |-> FALSE]]
    /\ vcs = {} /\ vgen = 0 /\ merged = FALSE
    /\ paid = [p \in Parent |-> Unpaid]
    /\ pool = {}
    /\ vccache = [c \in Caller |-> FALSE]
    /\ pc = [c \in Caller |-> "idle"] /\ call = [c \in Caller |-> Nothing]
    /\ snapVc = [c \in Caller |-> {}] /\ snapParent = [c \in Caller |-> Nothing]
    /\ sent = [c \in Caller |-> Nothing] /\ mined = [c \in Caller |-> FALSE]
    /\ calls = 0 /\ told = {}

-----------------------------------------------------------------------------
(* The chain.  A transaction spends exactly the cells it was built on.  Of *)
(* the scripts, which are not part of the repository, three things are     *)
(* used: a parent's status has room for one virtual channel, a disputed    *)
(* channel is paid out only when its period has run out, and only by what  *)
(* is registered.  That versions rise is left to the client.               *)

SpendsLive(t) ==
    /\ t.vc \subseteq vcs
    /\ t.kind # "merge" => parent[t.p].live /\ t.pgen = parent[t.p].gen

Included(t) ==
    /\ t \in pool /\ SpendsLive(t)
    /\ pool' = pool \ {t}
    /\ mined' = [mined EXCEPT ![t.by] = mined[t.by] \/ sent[t.by] = t]
    /\ UNCHANGED <<vccache, pc, call, snapVc, snapParent, sent, calls, told>>

(* VcDisputeInfo.update: the parent's new status.                          *)
Registered(t) ==
    parent' = [parent EXCEPT ![t.p] = [live |-> TRUE, gen |-> @.gen + 1, version |-> t.pv,
                                       disputed |-> TRUE, vc |-> TRUE, matured |-> FALSE]]

(* Variant: the cells that are replaced are not among the inputs.          *)
Replace_KeepsInputs(t, version, first) ==
    /\ vcs' = vcs \cup {[gen |-> vgen + 1, version |-> version, first |-> first]}
    /\ vgen' = vgen + 1

(* The virtual channel's cells t.vc are replaced by one with this content. *)
Replace(t, version, first) ==
    /\ vcs' = (vcs \ t.vc) \cup {[gen |-> vgen + 1, version |-> version, first |-> first]}
    /\ vgen' = vgen + 1

(* buildFirstVCDisputeTransaction                                          *)
MineFirst(t) ==
    /\ t.kind = "first" /\ Included(t) /\ ~parent[t.p].vc
    /\ Registered(t) /\ Replace(t, t.v, FALSE)
    /\ UNCHANGED <<paid, merged>>

(* buildVCDisputeProgressTransaction; updateVCStatus keeps FirstForceClose.*)
MineProgress(t) ==
    /\ t.kind = "progress" /\ Included(t)
    /\ Registered(t)
    /\ \E cell \in t.vc : Replace(t, t.v, cell.first)
    /\ UNCHANGED <<paid, merged>>

(* buildVCMergeTransaction: "Choose the virtual channel cell with the      *)
(* lower block number."  Its status stays, whatever its version.           *)
MineMerge(t) ==
    /\ t.kind = "merge" /\ Included(t)
    /\ \E older \in t.vc :
          /\ \A other \in t.vc : older.gen <= other.gen
          /\ Replace(t, older.version, older.first)
    /\ merged' = TRUE
    /\ UNCHANGED <<parent, paid>>

(* buildFirst- and buildSecondForceCloseWithVCTransaction: the parent is   *)
(* paid out together with its share of the virtual channel; the second     *)
(* parent's closing removes the virtual channel's cell.                    *)
MineForce(t) ==
    /\ t.kind = "force" /\ Included(t)
    /\ parent[t.p].disputed /\ t.matured /\ t.pv = parent[t.p].version
    /\ \E cell \in t.vc :
          /\ t.v = cell.version
          /\ IF cell.first
             THEN vcs' = vcs \ t.vc /\ UNCHANGED vgen
             ELSE Replace(t, cell.version, TRUE)
    /\ parent' = [parent EXCEPT ![t.p].live = FALSE]
    /\ paid' = [paid EXCEPT ![t.p] = [pv |-> t.pv, v |-> t.v]]
    /\ UNCHANGED merged

Drop(t) ==
    /\ t \in pool
    /\ pool' = pool \ {t}
    /\ UNCHANGED <<chainVars, vccache, callVars, calls, told>>

(* A dispute of a parent without its sub-channel (Dispute), in one step.   *)
PlainDispute(p, v) ==
    /\ parent[p].live /\ v > parent[p].version
    /\ parent' = [parent EXCEPT ![p].gen = @ + 1, ![p].version = v,
                                ![p].disputed = TRUE, ![p].matured = FALSE]
    /\ UNCHANGED <<vcs, vgen, paid, merged, pool, vccache, callVars, calls, told>>

Mature(p) ==
    /\ parent[p].live /\ parent[p].disputed /\ ~parent[p].matured
    /\ parent' = [parent EXCEPT ![p].matured = TRUE]
    /\ UNCHANGED <<vcs, vgen, paid, merged, pool, vccache, callVars, calls, told>>

-----------------------------------------------------------------------------
(* Calls and answers.                                                      *)

Idle(c) ==
    /\ pc' = [pc EXCEPT ![c] = "idle"] /\ call' = [call EXCEPT ![c] = Nothing]
    /\ snapVc' = [snapVc EXCEPT ![c] = {}] /\ snapParent' = [snapParent EXCEPT ![c] = Nothing]
    /\ sent' = [sent EXCEPT ![c] = Nothing] /\ mined' = [mined EXCEPT ![c] = FALSE]
    /\ UNCHANGED calls

AnswerNil(c, why) == Idle(c) /\ told' = told \cup {[req |-> call[c], why |-> why]}
AnswerErr(c) == Idle(c) /\ UNCHANGED told

Goto(c, l) == pc' = [pc EXCEPT ![c] = l] /\ UNCHANGED <<call, mined, calls, told>>

(* An RPC fails for good, the context ends or building fails.              *)
Fails(c) ==
    /\ pc[c] # "idle"
    /\ AnswerErr(c)
    /\ UNCHANGED <<chainVars, pool, vccache>>

Call(c) ==
    /\ pc[c] = "idle" /\ calls < MaxCalls
    /\ calls' = calls + 1
    /\ \E r \in Request :
          /\ call' = [call EXCEPT ![c] = r]
          /\ pc' = [pc EXCEPT ![c] = IF r.op = "dispute" THEN "parents" ELSE "vc"]
    /\ UNCHANGED <<chainVars, pool, vccache, snapVc, snapParent, sent, mined, told>>

(* Variant: only the parent that is disputed is looked up.                 *)
LookupParents_Own(c) ==
    /\ pc[c] = "parents"
    /\ IF parent[call[c].p].live
       THEN Goto(c, "vc") /\ UNCHANGED <<snapVc, snapParent, sent>>
       ELSE AnswerErr(c)
    /\ UNCHANGED <<chainVars, pool, vccache>>

(* DisputeVC: GetChannelWithID for both parents, whose scripts' hashes go  *)
(* into the status; one that is gone is an error.                          *)
LookupParents(c) ==
    /\ pc[c] = "parents"
    /\ IF \A p \in Parent : parent[p].live
       THEN Goto(c, "vc") /\ UNCHANGED <<snapVc, snapParent, sent>>
       ELSE AnswerErr(c)
    /\ UNCHANGED <<chainVars, pool, vccache>>

(* getVirtualChannelLiveCellWithCache: all the cells once the type script  *)
(* is known, before that only the first one, which is the newest.          *)
Found(c) ==
    IF vccache[c] THEN vcs
    ELSE {cell \in vcs : \A other \in vcs : other.gen <= cell.gen}

LookupVc(c) ==
    /\ pc[c] = "vc"
    /\ IF call[c].op = "force" /\ Cardinality(Found(c)) # 1
       THEN AnswerErr(c)
       ELSE /\ snapVc' = [snapVc EXCEPT ![c] = Found(c)]
            /\ Goto(c, IF Cardinality(Found(c)) = 2 THEN "send" ELSE "parent")
            /\ UNCHANGED <<snapParent, sent>>
    /\ vccache' = [vccache EXCEPT ![c] = @ \/ vcs # {}]
    /\ UNCHANGED <<chainVars, pool>>

-----------------------------------------------------------------------------
(* The decision.                                                           *)

(* Variant: it is enough that one of the two versions is newer.            *)
checkVersion_Either(pv, oldPv, v, oldV) == pv > oldPv \/ v > oldV

checkVersion(pv, oldPv, v, oldV) == pv >= oldPv /\ v >= oldV /\ (pv > oldPv \/ v > oldV)

Newer(c, p, cell) == checkVersion(call[c].pv, p.version, call[c].v, cell.version)

(* getChannelLiveCellWithCache.  "Check parent" for the first dispute, and *)
(* "Dispute not needed" for a later one.                                   *)
LookupParent(c) ==
    /\ pc[c] = "parent"
    /\ LET p == parent[call[c].p]
           tooOld == call[c].op = "dispute" /\ snapVc[c] = {} /\ call[c].pv < p.version
           unneeded == call[c].op = "dispute" /\ \E cell \in snapVc[c] : ~Newer(c, p, cell)
       IN \/ (~p.live \/ tooOld) /\ AnswerErr(c)
          \/ p.live /\ ~tooOld /\ unneeded /\ AnswerNil(c, "unneeded")
          \/ /\ p.live /\ ~tooOld /\ ~unneeded
             /\ snapParent' = [snapParent EXCEPT ![c] = [gen |-> p.gen, version |-> p.version]]
             /\ Goto(c, "send") /\ UNCHANGED <<snapVc, sent>>
    /\ UNCHANGED <<chainVars, pool, vccache>>

(* Variant: the virtual channel's state is not brought up to date.         *)
Payout_ParentOnly(c, cell) ==
    IF Newer(c, snapParent[c], cell)
    THEN [pv |-> call[c].pv, v |-> call[c].v]
    ELSE [pv |-> snapParent[c].version, v |-> call[c].v]

(* The balances ForceCloseWithVC pays out: the caller's own, if these are  *)
(* newer, and otherwise (updateState) what is registered.                  *)
Payout(c, cell) ==
    IF Newer(c, snapParent[c], cell)
    THEN [pv |-> call[c].pv, v |-> call[c].v]
    ELSE [pv |-> snapParent[c].version, v |-> cell.version]

KindOf(c) ==
    CASE Cardinality(snapVc[c]) = 2 -> "merge"
      [] snapVc[c] = {}             -> "first"
      [] call[c].op = "force"       -> "force"
      [] OTHER                      -> "progress"

TxOf(c) ==
    LET use == IF KindOf(c) = "force"
               THEN Payout(c, CHOOSE cell \in snapVc[c] : TRUE)
               ELSE [pv |-> call[c].pv, v |-> call[c].v]
    IN [kind |-> KindOf(c), by |-> c, p |-> call[c].p, pv |-> use.pv, v |-> use.v,
        pgen |-> IF KindOf(c) = "merge" THEN 0 ELSE snapParent[c].gen, vc |-> snapVc[c],
        matured |-> /\ KindOf(c) = "force" /\ parent[call[c].p].matured
                    /\ parent[call[c].p].gen = snapParent[c].gen]

(* The tip header is fetched, the transaction built and sent.              *)
Send(c) ==
    /\ pc[c] = "send"
    /\ sent' = [sent EXCEPT ![c] = TxOf(c)]
    /\ pool' = pool \cup {TxOf(c)}
    /\ Goto(c, "await")
    /\ UNCHANGED <<chainVars, vccache, snapVc, snapParent>>

(* Variant: the answer to SendTransaction is taken for the commitment.     *)
Await_OnSend(c) ==
    /\ pc[c] = "await"
    /\ AnswerNil(c, IF sent[c].kind = "merge" THEN "merged" ELSE "committed")
    /\ UNCHANGED <<chainVars, pool, vccache>>

(* sendAndAwait ends with the transaction's fate.                          *)
Await(c) ==
    /\ pc[c] = "await" /\ sent[c] \notin pool
    /\ IF mined[c]
       THEN AnswerNil(c, IF sent[c].kind = "merge" THEN "merged" ELSE "committed")
       ELSE AnswerErr(c)
    /\ UNCHANGED <<chainVars, pool, vccache>>

-----------------------------------------------------------------------------
Chain ==
    \/ \E t \in pool : MineFirst(t) \/ MineProgress(t) \/ MineMerge(t) \/ MineForce(t) \/ Drop(t)
    \/ \E p \in Parent : Mature(p) \/ \E v \in ParentVersion : PlainDispute(p, v)

Step(c) == \/ Call(c) \/ LookupParents(c) \/ LookupVc(c) \/ LookupParent(c)
           \/ Send(c) \/ Await(c) \/ Fails(c)

Next == Chain \/ \E c \in Caller : Step(c)

Spec == Init /\ [][Next]_vars

-----------------------------------------------------------------------------
(* Safety.                                                                 *)

Newest == {cell \in vcs : \A other \in vcs : other.version <= cell.version}

(* A step that takes no registration back, unless it merges: a parent's    *)
(* version never falls, its cell is replaced only where a version rises or *)
(* the virtual channel appears, and the newest registered version of the   *)
(* virtual channel stays while no cell of it is lost.  Closing takes the   *)
(* last cell away, and merging one of two: it keeps the older cell, and    *)
(* with it a version that may be lower than the one it takes away.         *)
Rises ==
    /\ \A p \in Parent :
          /\ parent'[p].version >= parent[p].version
          /\ parent'[p].gen # parent[p].gen =>
                \/ parent'[p].version > parent[p].version
                \/ Cardinality(vcs') > Cardinality(vcs)
                \/ \E old \in vcs \ vcs', new \in vcs' \ vcs : new.version > old.version
    /\ Cardinality(vcs') >= Cardinality(vcs) =>
          \A old \in Newest : \E new \in vcs' : new.version >= old.version

(* Registrations only rise until they are merged, although no caller reads *)
(* both cells at once and the scripts leave it to the client.              *)
RegistrationsRise == [][Rises]_vars

(* A DisputeVC that returned nil because its transaction was committed     *)
(* binds the parent for good, and the virtual channel until a merge.       *)
RegisterHonoured ==
    \A a \in told : a.req.op = "dispute" /\ a.why = "committed" =>
        /\ LET p == parent[a.req.p] IN
           IF p.live THEN p.disputed /\ p.version >= a.req.pv ELSE paid[a.req.p].pv >= a.req.pv
        /\ \/ merged
           \/ \E cell \in vcs : cell.version >= a.req.v
           \/ \E p \in Parent : paid[p] # Unpaid /\ paid[p].v >= a.req.v

(* A caller that is behind the chain can close all the same: where its     *)
(* versions are not newer than those it has read, the period is over and   *)
(* nobody spends the cells first, the scripts find what is registered.     *)
LateCallerCanClose ==
    \A c \in Caller :
        pc[c] = "await" /\ sent[c].kind = "force" /\ sent[c].matured /\ SpendsLive(sent[c]) =>
            \A cell \in sent[c].vc :
                \/ Newer(c, snapParent[c], cell)
                \/ sent[c].pv = parent[sent[c].p].version /\ sent[c].v = cell.version

(* A DisputeVC is on its way: past its look at the parents, or in the pool.  *)
Disputing ==
    \/ \E c \in Caller : call[c].op = "dispute" /\ pc[c] \in {"vc", "parent", "send", "await"}
    \/ \E t \in pool : t.kind # "force"

(* A step after which there is still nothing on its way, and no version of *)
(* the virtual channel is registered that was not before.                  *)
KeepsSettled ==
    /\ ~Disputing'
    /\ {cell.version : cell \in vcs'} \subseteq {cell.version : cell \in vcs}

(* Once a parent is paid out and the calls of DisputeVC that were on their *)
(* way have ended, none gets past its look at the two parents any more.    *)
(* The version of the virtual channel by which the second parent is        *)
(* settled is one that the first settlement left on the chain.  The second *)
(* parent itself may still be disputed, without the virtual channel.       *)
SettlingIsFinal ==
    [][(\E p \in Parent : ~parent[p].live) /\ ~Disputing => KeepsSettled]_vars
=============================================================================
