---------------------------- MODULE Subscription ----------------------------
(***************************************************************************)
(* A PollingSubscription (channel/adjudicator/adjudicator_sub.go): the     *)
(* goroutine that polls the channel's status, compares it with the last    *)
(* one and emits events into a bounded Go channel; the reader that calls   *)
(* Next; and Close, or the caller's context, ending it at any moment.      *)
(*                                                                         *)
(* The chain moves on between polls, several steps at a time.  A lookup    *)
(* may fail, and it may miss a cell that is there (an indexer that is      *)
(* behind); such glitches are bounded, as ConcludeMissThreshold presumes.  *)
(***************************************************************************)
EXTENDS Naturals, Sequences

CONSTANTS
    BufferSize,             \* DefaultBufferSize
    ConcludeMissThreshold,
    MaxGlitches,            \* bound: lookups that miss a live cell, between
                            \*   two that find it
    MaxVersion              \* bound: the highest version ever registered

ASSUME BufferSizeAssumption == BufferSize \in Nat \ {0}
ASSUME ThresholdAssumption == ConcludeMissThreshold \in Nat \ {0}
ASSUME GlitchesAssumption ==
    MaxGlitches \in Nat /\ MaxGlitches < ConcludeMissThreshold
ASSUME MaxVersionAssumption == MaxVersion \in Nat

VARIABLES
    stage, version,     \* the channel on the chain
    held,               \* history: every version that was ever registered
    glitches,           \* lookups since the last hit that missed a live cell
    pc,                 \* the goroutine: "select", "poll", "send", "stopped"
    found,              \* foundLiveCellOnce
    misses,             \* consecutiveMisses
    oldStatus, newStatus,
    sending,            \* the event that waits for room in the buffer
    events,             \* the buffer of the Go channel
    concluded, fatal,   \* something to receive from these channels
    closed, err,        \* events is closed; the field err
    ctxDone,            \* the context ended or Close was called
    seen, ended         \* what the reader was told, as in EventStream

chainVars  == <<stage, version, held>>
readerVars == <<seen, ended>>
vars == <<chainVars, glitches, pc, found, misses, oldStatus, newStatus,
          sending, events, concluded, fatal, closed, err, ctxDone, readerVars>>

Version == 0..MaxVersion
Status  == [stage : {"open", "funded", "disputed"}, version : Version]
NoStatus == [stage |-> "none", version |-> 0]      \* nil

Event     == [type : {"registered"}, version : Version]
Concluded == [type |-> "concluded", version |-> 0]
NoEvent   == [type |-> "none", version |-> 0]
Registered(v) == [type |-> "registered", version |-> v]

TypeOK ==
    /\ stage \in {"unborn", "open", "funded", "disputed", "gone"}
    /\ version \in Version /\ held \subseteq Version
    /\ glitches \in 0..MaxGlitches
    /\ pc \in {"select", "poll", "send", "stopped"}
    /\ found \in BOOLEAN /\ misses \in 0..ConcludeMissThreshold
    /\ oldStatus \in Status \cup {NoStatus} /\ newStatus \in Status \cup {NoStatus}
    /\ sending \in Event \cup {Concluded, NoEvent}
    /\ events \in Seq(Event \cup {Concluded}) /\ Len(events) <= BufferSize
    /\ concluded \in BOOLEAN /\ fatal \in BOOLEAN /\ closed \in BOOLEAN
    /\ err \in {"nil", "fatal"} /\ ctxDone \in BOOLEAN
    /\ seen \in Version /\ ended \in {"no", "concluded", "nil"}

Init ==
    /\ stage = "unborn" /\ version = 0 /\ held = {}
    /\ glitches = 0
    /\ pc = "select" /\ found = FALSE /\ misses = 0
    /\ oldStatus = NoStatus /\ newStatus = NoStatus
    /\ sending = NoEvent /\ events = << >>
    /\ concluded = FALSE /\ fatal = FALSE /\ closed = FALSE
    /\ err = "nil" /\ ctxDone = FALSE
    /\ seen = 0 /\ ended = "no"

-----------------------------------------------------------------------------
(* The chain.                                                              *)

subVars == <<glitches, pc, found, misses, oldStatus, newStatus, sending,
             events, concluded, fatal, closed, err, ctxDone, readerVars>>

Live == stage \notin {"unborn", "gone"}

Open == stage = "unborn" /\ stage' \in {"open", "funded"} /\ UNCHANGED <<version, held, subVars>>
Fund == stage = "open" /\ stage' = "funded" /\ UNCHANGED <<version, held, subVars>>

Dispute ==
    /\ stage \in {"funded", "disputed"} /\ stage' = "disputed"
    /\ \E v \in 1..MaxVersion : v > version /\ version' = v /\ held' = held \cup {v}
    /\ UNCHANGED subVars

(* Abort, Close or ForceClose.                                             *)
Vanish == Live /\ stage' = "gone" /\ UNCHANGED <<version, held, subVars>>

Chain == Open \/ Fund \/ Dispute \/ Vanish

-----------------------------------------------------------------------------
(* run: the select.                                                        *)

Cancel ==
    /\ ~ctxDone /\ ctxDone' = TRUE
    /\ UNCHANGED <<chainVars, glitches, pc, found, misses, oldStatus, newStatus,
                   sending, events, concluded, fatal, closed, err, readerVars>>

(* case <-time.After(a.PollingInterval): nothing else was ready meanwhile. *)
TimerFires ==
    /\ pc = "select" /\ ~fatal /\ ~concluded /\ ~ctxDone
    /\ pc' = "poll"
    /\ UNCHANGED <<chainVars, glitches, found, misses, oldStatus, newStatus,
                   sending, events, concluded, fatal, closed, err, ctxDone, readerVars>>

(* The other cases: finish, with any of the answers that are ready.        *)
Finish ==
    /\ pc = "select"
    /\ \/ fatal /\ err' = "fatal"
       \/ (concluded \/ ctxDone) /\ err' = "nil"
    /\ closed' = TRUE /\ pc' = "stopped"
    /\ UNCHANGED <<chainVars, glitches, found, misses, oldStatus, newStatus,
                   sending, events, concluded, fatal, ctxDone, readerVars>>

-----------------------------------------------------------------------------
(* pollStatus and emitEventIfNecessary.                                    *)

(* The RPCs of the lookup failed: nothing is counted, nothing is reset.    *)
PollFails ==
    /\ pc = "poll"
    /\ pc' = "select"
    /\ UNCHANGED <<chainVars, glitches, found, misses, oldStatus, newStatus,
                   sending, events, concluded, fatal, closed, err, ctxDone, readerVars>>

(* The lookup finds no live cell: there is none, or the indexer is behind. *)
Miss ==
    /\ pc = "poll" /\ ~ctxDone
    /\ IF Live
       THEN glitches < MaxGlitches /\ glitches' = glitches + 1
       ELSE UNCHANGED glitches
    /\ UNCHANGED <<chainVars, found, oldStatus, events, concluded, fatal, closed,
                   err, ctxDone, readerVars>>

(* No cell was ever found: the channel may not exist yet.                  *)
MissBeforeFound == Miss /\ ~found /\ pc' = "select" /\ UNCHANGED <<misses, newStatus, sending>>

(* Variant: one miss more than the threshold is waited for.                *)
MissAgain_OneMore ==
    /\ Miss /\ found
    /\ misses' = misses + 1 /\ misses < ConcludeMissThreshold
    /\ pc' = "select" /\ UNCHANGED <<newStatus, sending>>

MissAgain ==
    /\ Miss /\ found
    /\ misses' = misses + 1 /\ misses' < ConcludeMissThreshold
    /\ pc' = "select" /\ UNCHANGED <<newStatus, sending>>

MissConcludes ==
    /\ Miss /\ found
    /\ misses' = misses + 1 /\ misses' >= ConcludeMissThreshold
    /\ sending' = Concluded /\ newStatus' = NoStatus
    /\ pc' = "send"

ChainStatus == [stage |-> stage, version |-> version]

(* Variant: a hit does not reset the miss counter.                         *)
Hit_KeepsMisses ==
    /\ pc = "poll" /\ ~ctxDone /\ Live
    /\ glitches' = 0
    /\ found' = TRUE /\ UNCHANGED misses
    /\ UNCHANGED <<chainVars, events, concluded, closed, err, ctxDone, readerVars>>

(* The lookup finds the cell.                                              *)
Hit ==
    /\ pc = "poll" /\ ~ctxDone /\ Live
    /\ glitches' = 0
    /\ found' = TRUE /\ misses' = 0
    /\ UNCHANGED <<chainVars, events, concluded, closed, err, ctxDone, readerVars>>

(* Variant: a channel in funding is treated like a funded one.             *)
Quiet_FundingToo == oldStatus = NoStatus \/ oldStatus = ChainStatus

(* Variant: only the flags of the status are compared, not the state in it.*)
Quiet_FlagsOnly ==
    oldStatus = NoStatus \/ oldStatus.stage = stage \/ oldStatus.stage = "open"

(* The first status, the same status, or the end of funding: no event.     *)
Quiet ==
    \/ oldStatus = NoStatus
    \/ oldStatus = ChainStatus
    \/ oldStatus.stage = "open"

HitQuietly ==
    /\ Hit /\ Quiet
    /\ oldStatus' = ChainStatus
    /\ pc' = "select" /\ UNCHANGED <<newStatus, sending, fatal>>

(* A funded channel changed without a dispute, or the block's time cannot  *)
(* be read: the status stays the old one and the loop will stop.           *)
HitFatally ==
    /\ Hit /\ ~Quiet
    /\ fatal' = TRUE
    /\ pc' = "select" /\ UNCHANGED <<oldStatus, newStatus, sending>>

HitRegistered ==
    /\ Hit /\ ~Quiet /\ stage = "disputed"
    /\ sending' = Registered(version) /\ newStatus' = ChainStatus
    /\ pc' = "send" /\ UNCHANGED <<oldStatus, fatal>>

(* Variant: an event that finds the buffer full is dropped.                *)
Put_DropsWhenFull ==
    /\ pc = "send"
    /\ events' = IF Len(events) < BufferSize THEN Append(events, sending) ELSE events
    /\ concluded' = (concluded \/ sending = Concluded)
    /\ oldStatus' = newStatus
    /\ sending' = NoEvent /\ newStatus' = NoStatus
    /\ pc' = "select"
    /\ UNCHANGED <<chainVars, glitches, found, misses, fatal, closed, err,
                   ctxDone, readerVars>>

(* a.events <- event blocks while the buffer is full, whatever the context *)
(* does; then the new status becomes the old one.                          *)
Put ==
    /\ pc = "send" /\ Len(events) < BufferSize
    /\ events' = Append(events, sending)
    /\ concluded' = (concluded \/ sending = Concluded)
    /\ oldStatus' = newStatus
    /\ sending' = NoEvent /\ newStatus' = NoStatus
    /\ pc' = "select"
    /\ UNCHANGED <<chainVars, glitches, found, misses, fatal, closed, err,
                   ctxDone, readerVars>>

-----------------------------------------------------------------------------
(* Next.                                                                   *)

writerVars == <<chainVars, glitches, pc, found, misses, oldStatus, newStatus,
                sending, concluded, fatal, closed, err, ctxDone>>

ReadEvent ==
    /\ events # << >>
    /\ events' = Tail(events)
    /\ IF Head(events) = Concluded
       THEN ended' = "concluded" /\ UNCHANGED seen
       ELSE seen' = Head(events).version /\ UNCHANGED ended
    /\ UNCHANGED writerVars

(* A closed and empty Go channel yields nil, now and ever after.           *)
ReadNil ==
    /\ closed /\ events = << >> /\ ended # "nil"
    /\ ended' = "nil"
    /\ UNCHANGED <<writerVars, events, seen>>

-----------------------------------------------------------------------------
PollMisses == MissBeforeFound \/ MissAgain \/ MissConcludes
PollFinds  == HitQuietly \/ HitFatally \/ HitRegistered
Loop == TimerFires \/ Finish \/ PollFails \/ PollMisses \/ PollFinds \/ Put
Read == ReadEvent \/ ReadNil

Next == Chain \/ Cancel \/ Loop \/ Read

Spec == Init /\ [][Next]_vars

(* The goroutine runs.  Its lookups do not fail forever, do not miss a     *)
(* cell that stays there forever, nor find one that is gone.               *)
LoopSpec == Spec /\ WF_vars(Loop) /\ SF_vars(PollFinds) /\ SF_vars(PollMisses)

(* Moreover somebody keeps calling Next.                                   *)
FairSpec == LoopSpec /\ WF_vars(Read)

-----------------------------------------------------------------------------
(* Safety.                                                                 *)

(* Behind polling, retries and buffering the reader gets an EventStream:   *)
(* only versions that were registered, none of them twice or out of order, *)
(* no conclusion of a live channel (bounded glitches), nothing after it.   *)
Stream == INSTANCE EventStream
IsEventStream == Stream!Spec

(* The end of funding never kills the subscription: on a chain that only   *)
(* moves forward the branch "channel received update but is not disputed"  *)
(* is dead, and a fatal error means a dispute whose time cannot be read.   *)
NeverUndisputed ==
    [][fatal' # fatal => stage = "disputed"]_vars

-----------------------------------------------------------------------------
(* Liveness.                                                               *)

(* A dispute of a channel that was seen funded is reported (or a later     *)
(* one), unless the channel or the subscription ends first.                *)
Watching == oldStatus.stage \in {"funded", "disputed"}

DisputeReported ==
    \A v \in 1..MaxVersion :
        Watching /\ oldStatus.version < v /\ stage = "disputed" /\ version = v
            ~> seen >= v \/ stage = "gone" \/ closed

(* Both ways to the end lead there: the end of a channel that was found    *)
(* ends the stream, and the reader is told of it unless the subscription   *)
(* failed or was closed itself; with a reader, Close (or the end of the    *)
(* context) stops the goroutine.                                           *)
StreamEnds ==
    /\ found /\ stage = "gone" /\ ended = "no" ~> ended = "concluded" \/ fatal \/ ctxDone
    /\ found /\ stage = "gone" ~> ended = "nil"
    /\ ctxDone ~> closed
=============================================================================
