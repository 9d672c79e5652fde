------------------------- MODULE SubscriptionProofs -------------------------
(***************************************************************************)
(* Proofs about Subscription, for every buffer size, every threshold above *)
(* the number of glitches and any number of registered versions.           *)
(*                                                                         *)
(* The argument: until the conclusion, oldStatus is the newest status that *)
(* the buffer and the reader know of (StreamInv), and it is one the chain  *)
(* has had (StatusInv); and the misses that are counted while the cell is  *)
(* live are glitches, of which there are too few (MissInv).  On top of it, *)
(* whatever is on its way to the reader was registered (HeldInv).          *)
(***************************************************************************)
EXTENDS Subscription, TLAPS

USE BufferSizeAssumption, ThresholdAssumption, GlitchesAssumption, MaxVersionAssumption

(* Only a dispute raises the version.                                      *)
ChainInv ==
    /\ stage \in {"unborn", "open", "funded"} => version = 0
    /\ stage = "disputed" => version > 0

(* The old status was the chain's once.                                    *)
StatusInv ==
    oldStatus # NoStatus =>
        /\ oldStatus.version <= version
        /\ oldStatus.stage \in {"open", "funded"} => oldStatus.version = 0
        /\ oldStatus.stage = "funded" => stage \in {"funded", "disputed", "gone"}
        /\ oldStatus.stage = "disputed" => stage \in {"disputed", "gone"}

(* Misses of a live cell are glitches; below the threshold nothing ends.   *)
MissInv ==
    /\ Live /\ found => misses <= glitches
    /\ found => stage # "unborn"
    /\ ~concluded /\ sending # Concluded => misses < ConcludeMissThreshold
    /\ sending = Concluded \/ concluded => stage = "gone"

(* Where the goroutine is, and what it holds there.                        *)
PlaceInv ==
    /\ pc = "stopped" <=> closed
    /\ pc \in {"poll", "send"} => ~concluded
    /\ pc # "send" => sending = NoEvent
    /\ pc = "send" /\ sending = Concluded => newStatus = NoStatus
    /\ pc = "send" /\ sending # Concluded =>
          /\ sending \in Event /\ newStatus \in Status
          /\ newStatus.stage = "disputed"
          /\ newStatus.version = sending.version
          /\ oldStatus.version < sending.version /\ sending.version <= version
          /\ stage \in {"disputed", "gone"}

(* The buffer continues what the reader knows, in rising order, and a      *)
(* ConcludedEvent is the last thing in it.                                 *)
StreamInv ==
    /\ seen <= version
    /\ ~concluded => seen <= oldStatus.version
    /\ \A i \in 1..Len(events) :
          /\ events[i] = Concluded => concluded /\ i = Len(events)
          /\ events[i] # Concluded =>
                /\ seen < events[i].version /\ events[i].version <= version
                /\ ~concluded => events[i].version <= oldStatus.version
    /\ \A i, j \in 1..Len(events) :
          i < j /\ events[j] # Concluded => events[i].version < events[j].version
    /\ ended # "no" => events = << >> /\ (concluded \/ closed)
    /\ ended = "nil" => closed

Ind == TypeOK /\ ChainInv /\ StatusInv /\ MissInv /\ PlaceInv /\ StreamInv

(* A subscription starts with no status, no event and no miss.             *)
LEMMA InitInd == Init => Ind
<1> SUFFICES ASSUME Init PROVE Ind
  OBVIOUS
<1> USE DEF Init
<1>1. TypeOK
  <2>1. /\ version \in Version /\ seen \in Version /\ glitches \in 0..MaxGlitches
        /\ misses \in 0..ConcludeMissThreshold
    BY DEF Version
  <2>2. events \in Seq(Event \cup {Concluded}) /\ Len(events) <= BufferSize
    OBVIOUS
  <2>3. /\ found \in BOOLEAN /\ concluded \in BOOLEAN /\ fatal \in BOOLEAN
        /\ closed \in BOOLEAN /\ ctxDone \in BOOLEAN
    OBVIOUS
  <2>4. QED
    BY <2>1, <2>2, <2>3 DEF TypeOK
<1>2. ChainInv /\ StatusInv /\ MissInv
  BY DEF ChainInv, StatusInv, MissInv, Live, Concluded, NoEvent
<1>3. PlaceInv /\ StreamInv
  BY DEF PlaceInv, StreamInv, NoStatus
<1>4. QED
  BY <1>1, <1>2, <1>3 DEF Ind

-----------------------------------------------------------------------------
(* The chain only moves forward.                                           *)
LEMMA ChainInd == Ind /\ Chain => Ind'
<1> SUFFICES ASSUME Ind, Chain PROVE Ind'
  OBVIOUS
<1> USE DEF Ind, subVars, readerVars
<1>1. /\ version' \in Version /\ version <= version'
      /\ stage' \in {"open", "funded", "disputed", "gone"}
      /\ UNCHANGED subVars
  BY DEF Chain, Open, Fund, Dispute, Vanish, TypeOK, Version
<1>0. held' \subseteq Version
  <2>1. CASE Dispute
    BY <1>1, <2>1 DEF Dispute, TypeOK
  <2>2. CASE Open \/ Fund \/ Vanish
    BY <2>2 DEF Open, Fund, Vanish, TypeOK
  <2>3. QED
    BY <2>1, <2>2 DEF Chain
<1>2. /\ stage = "funded" => stage' \in {"disputed", "gone"}
      /\ stage = "disputed" => stage' \in {"disputed", "gone"}
      /\ stage # "gone"
  BY DEF Chain, Open, Fund, Dispute, Vanish, Live
<1>3. TypeOK'
  BY <1>0, <1>1 DEF TypeOK
<1>4. ChainInv'
  BY DEF ChainInv, TypeOK, Version, Chain, Open, Fund, Dispute, Vanish, Live
<1>5. StatusInv'
  BY <1>1, <1>2 DEF StatusInv, TypeOK, Version, Status
<1>6. MissInv'
  BY <1>1, <1>2 DEF MissInv, Live, TypeOK
<1>7. PlaceInv'
  BY <1>1, <1>2 DEF PlaceInv, TypeOK, Version, Event
<1>8. StreamInv'
  <2>1. \A i \in 1..Len(events) :
           events[i] # Concluded => events[i].version \in Nat
    BY DEF TypeOK, Event, Version
  <2>2. QED
    BY <1>1, <2>1 DEF StreamInv, TypeOK, Version
<1>9. QED
  BY <1>3, <1>4, <1>5, <1>6, <1>7, <1>8

-----------------------------------------------------------------------------
(* The polling goroutine.                                                  *)

(* The select: the context ends, the timer fires, the subscription finishes*)
(* or a poll fails.                                                        *)
LEMMA SelectInd == Ind /\ (Cancel \/ TimerFires \/ Finish \/ PollFails) => Ind'
<1> SUFFICES ASSUME Ind, Cancel \/ TimerFires \/ Finish \/ PollFails PROVE Ind'
  OBVIOUS
<1> USE DEF Ind, Cancel, TimerFires, Finish, PollFails, chainVars, readerVars
<1>1. TypeOK'
  <2>1. closed' \in BOOLEAN /\ ctxDone' \in BOOLEAN
    BY Zenon DEF TypeOK
  <2>2. /\ pc' \in {"select", "poll", "send", "stopped"} /\ err' \in {"nil", "fatal"}
        /\ UNCHANGED <<stage, version, held, glitches, found, misses, oldStatus, newStatus,
                       sending, events, concluded, fatal, seen, ended>>
    BY DEF TypeOK
  <2>3. QED
    BY <2>1, <2>2 DEF TypeOK
<1>2. ChainInv' /\ StatusInv'
  BY DEF ChainInv, StatusInv
<1>3. MissInv' /\ PlaceInv'
  BY DEF MissInv, PlaceInv, Live
<1>4. StreamInv'
  BY DEF StreamInv, PlaceInv
<1>5. QED
  BY <1>1, <1>2, <1>3, <1>4

(* A poll finds no cell and counts a miss, up to the ConcludedEvent.       *)
LEMMA MissInd == Ind /\ PollMisses => Ind'
<1> SUFFICES ASSUME Ind, PollMisses PROVE Ind'
  OBVIOUS
<1> USE DEF Ind, Miss, chainVars, readerVars
<1>1. Miss /\ (MissBeforeFound \/ MissAgain \/ MissConcludes)
  BY DEF PollMisses, MissBeforeFound, MissAgain, MissConcludes
<1>2. misses < ConcludeMissThreshold /\ ~concluded /\ sending = NoEvent
  <2>1. ~concluded /\ sending = NoEvent
    BY <1>1 DEF PlaceInv
  <2>2. QED
    BY <2>1 DEF MissInv, NoEvent, Concluded
<1>3. TypeOK'
  <2>1. glitches' \in 0..MaxGlitches
    BY <1>1 DEF TypeOK
  <2>2. misses' \in 0..ConcludeMissThreshold
    BY <1>1, <1>2 DEF TypeOK, MissBeforeFound, MissAgain, MissConcludes
  <2>3. /\ sending' \in Event \cup {Concluded, NoEvent}
        /\ newStatus' \in Status \cup {NoStatus} /\ pc' \in {"select", "send"}
    BY <1>1 DEF TypeOK, MissBeforeFound, MissAgain, MissConcludes
  <2>4. QED
    BY <1>1, <2>1, <2>2, <2>3 DEF TypeOK
<1>4. ChainInv' /\ StatusInv'
  BY <1>1 DEF ChainInv, StatusInv
<1>5. MissInv'
  <2>1. CASE MissBeforeFound
    BY <2>1, <1>2 DEF MissInv, MissBeforeFound, Live
  <2>2. CASE MissAgain
    BY <2>2, <1>2 DEF MissInv, MissAgain, Live, TypeOK
  <2>3. CASE MissConcludes
    <3>1. ~Live
      BY <2>3, <1>2 DEF MissInv, MissConcludes, TypeOK
    <3>2. stage = "gone"
      BY <2>3, <3>1 DEF MissInv, MissConcludes, Live
    <3>3. QED
      BY <2>3, <3>1, <3>2 DEF MissInv, MissConcludes, Live
  <2>4. QED
    BY <1>1, <2>1, <2>2, <2>3
<1>6. PlaceInv'
  BY <1>1, <1>2 DEF PlaceInv, MissBeforeFound, MissAgain, MissConcludes
<1>7. StreamInv'
  BY <1>1 DEF StreamInv
<1>8. QED
  BY <1>3, <1>4, <1>5, <1>6, <1>7

(* A poll finds the cell, resets the misses and compares the statuses.     *)
LEMMA HitInd == Ind /\ PollFinds => Ind'
<1> SUFFICES ASSUME Ind, PollFinds PROVE Ind'
  OBVIOUS
<1> USE DEF Ind, Hit, chainVars, readerVars
<1>1. Hit /\ (HitQuietly \/ HitFatally \/ HitRegistered)
  BY DEF PollFinds, HitQuietly, HitFatally, HitRegistered
<1>2. ChainStatus \in Status /\ ChainStatus # NoStatus
  BY <1>1 DEF ChainStatus, Status, NoStatus, Live, TypeOK
<1>3. ~concluded /\ sending = NoEvent
  BY <1>1 DEF PlaceInv
<1>4. oldStatus.version <= version
  BY DEF StatusInv, NoStatus, TypeOK, Version
<1>5. TypeOK'
  <2>1. /\ pc' \in {"select", "send"} /\ fatal' \in BOOLEAN
        /\ oldStatus' \in Status \cup {NoStatus} /\ newStatus' \in Status \cup {NoStatus}
    BY <1>1, <1>2 DEF TypeOK, HitQuietly, HitFatally, HitRegistered
  <2>2. sending' \in Event \cup {Concluded, NoEvent}
    BY <1>1 DEF TypeOK, HitQuietly, HitFatally, HitRegistered, Registered, Event
  <2>3. QED
    BY <1>1, <2>1, <2>2 DEF TypeOK
<1>6. ChainInv' /\ MissInv'
  BY <1>1, <1>3 DEF ChainInv, MissInv, Live, HitQuietly, HitFatally, HitRegistered,
                    TypeOK, Concluded, NoEvent, Registered
<1>7. StatusInv'
  BY <1>1 DEF StatusInv, ChainStatus, HitQuietly, HitFatally, HitRegistered, ChainInv,
              Live, TypeOK, Version
<1>8. PlaceInv'
  <2>1. CASE HitQuietly \/ HitFatally
    BY <1>1, <2>1 DEF PlaceInv, HitQuietly, HitFatally
  <2>2. CASE HitRegistered
    <3> USE <2>2 DEF HitRegistered
    <3>1. /\ sending' = Registered(version) /\ newStatus' = ChainStatus
          /\ sending' \in Event /\ sending'.version = version
          /\ newStatus'.stage = "disputed" /\ newStatus'.version = version
      BY DEF Registered, Event, ChainStatus, TypeOK
    <3>2. oldStatus.version < version
      <4>1. oldStatus \in Status /\ oldStatus.stage \in {"funded", "disputed"}
        BY DEF Quiet, TypeOK, Status
      <4>2. CASE oldStatus.stage = "funded"
        BY <4>1, <4>2 DEF StatusInv, Status, NoStatus, ChainInv, TypeOK, Version
      <4>3. CASE oldStatus.stage = "disputed"
        BY <4>1, <4>3, <1>4 DEF Quiet, ChainStatus, Status, TypeOK, Version
      <4>4. QED
        BY <4>1, <4>2, <4>3
    <3>3. version <= version
      BY DEF TypeOK, Version
    <3>4. sending' # Concluded
      BY DEF Registered, Concluded
    <3>5. QED
      BY <1>1, <1>2, <1>3, <3>1, <3>2, <3>3, <3>4 DEF PlaceInv
  <2>3. QED
    BY <1>1, <2>1, <2>2
<1>9. StreamInv'
  <2>1. oldStatus.version <= oldStatus'.version /\ oldStatus'.version \in Nat
    BY <1>1, <1>4 DEF HitQuietly, HitFatally, HitRegistered, ChainStatus, TypeOK,
                      Status, NoStatus, Version
  <2>2. oldStatus.version \in Nat /\ seen \in Nat
    BY DEF TypeOK, Status, NoStatus, Version
  <2>3. \A i \in 1..Len(events) :
           events[i] # Concluded => events[i].version \in Nat
    BY DEF TypeOK, Event, Version
  <2>4. QED
    BY <1>1, <2>1, <2>2, <2>3 DEF StreamInv
<1>10. QED
  BY <1>5, <1>6, <1>7, <1>8, <1>9

(* The event goes into the buffer once there is room.                      *)
LEMMA PutInd == Ind /\ Put => Ind'
<1> SUFFICES ASSUME Ind, Put PROVE Ind'
  OBVIOUS
<1> USE DEF Ind, Put, chainVars, readerVars
<1>1. ~concluded /\ sending # NoEvent /\ pc = "send" /\ ~closed
  BY DEF PlaceInv, NoEvent, Concluded, Event
<1>2. /\ events' \in Seq(Event \cup {Concluded}) /\ Len(events') = Len(events) + 1
      /\ \A i \in 1..Len(events) : events'[i] = events[i]
      /\ events'[Len(events) + 1] = sending
      /\ Len(events) \in Nat
  BY <1>1 DEF TypeOK
<1>3. TypeOK'
  BY <1>2 DEF TypeOK
<1>4. ChainInv' /\ MissInv'
  <2>1. sending' # Concluded
    BY DEF Concluded, NoEvent
  <2>2. concluded' => concluded \/ sending = Concluded
    OBVIOUS
  <2>3. ~concluded' => ~concluded /\ sending # Concluded
    OBVIOUS
  <2>4. QED
    BY <2>1, <2>2, <2>3 DEF ChainInv, MissInv, Live
<1>5. StatusInv'
  BY <1>1 DEF StatusInv, PlaceInv
<1>6. PlaceInv'
  BY <1>1 DEF PlaceInv
<1>7. StreamInv'
  <2>1. \A i \in 1..Len(events) :
           events[i] # Concluded /\ seen < events[i].version
           /\ events[i].version <= oldStatus.version /\ events[i].version <= version
    BY <1>1 DEF StreamInv
  <2>2. ended = "no"
    BY <1>1 DEF StreamInv, TypeOK
  <2>3. CASE sending = Concluded
    <3>1. /\ concluded' /\ ended' = "no" /\ seen' <= version'
      BY <2>2, <2>3 DEF StreamInv
    <3>2. \A i \in 1..Len(events') :
             /\ events'[i] = Concluded => i = Len(events')
             /\ events'[i] # Concluded =>
                   seen < events'[i].version /\ events'[i].version <= version
      BY <1>2, <2>1, <2>3
    <3>3. ASSUME NEW i \in 1..Len(events'), NEW j \in 1..Len(events'),
                 i < j, events'[j] # Concluded
          PROVE  events'[i].version < events'[j].version
      <4>1. i \in 1..Len(events) /\ j \in 1..Len(events)
        BY <1>2, <2>3, <3>3
      <4>2. QED
        BY <1>2, <3>3, <4>1 DEF StreamInv
    <3>4. QED
      BY <3>1, <3>2, <3>3 DEF StreamInv
  <2>4. CASE sending # Concluded
    <3>1. /\ newStatus.version = sending.version /\ ~concluded'
          /\ oldStatus.version < sending.version /\ sending.version <= version
          /\ sending.version \in Nat /\ oldStatus.version \in Nat
      BY <1>1, <2>4 DEF PlaceInv, Event, Version, TypeOK, Status, NoStatus
    <3>2. seen <= oldStatus.version /\ seen <= version /\ seen \in Nat
      BY <1>1 DEF StreamInv, TypeOK, Version
    <3>3. \A i \in 1..Len(events) : events[i].version \in Nat
      BY <2>1 DEF TypeOK, Event, Version
    <3>4. \A i \in 1..Len(events') :
             /\ events'[i] # Concluded /\ seen < events'[i].version
             /\ events'[i].version <= version
             /\ events'[i].version <= newStatus.version
      BY <1>2, <2>1, <2>4, <3>1, <3>2, <3>3
    <3>5. ASSUME NEW i \in 1..Len(events'), NEW j \in 1..Len(events'), i < j
          PROVE  events'[i].version < events'[j].version
      <4>1. i \in 1..Len(events)
        BY <1>2, <3>5
      <4>2. CASE j \in 1..Len(events)
        BY <1>2, <2>1, <3>5, <4>1, <4>2 DEF StreamInv
      <4>3. CASE j = Len(events) + 1
        BY <1>2, <2>1, <3>1, <3>3, <4>1, <4>3
      <4>4. QED
        BY <1>2, <4>2, <4>3
    <3>6. QED
      BY <1>1, <2>2, <3>1, <3>2, <3>4, <3>5 DEF StreamInv
  <2>5. QED
    BY <2>3, <2>4
<1>8. QED
  BY <1>3, <1>4, <1>5, <1>6, <1>7

-----------------------------------------------------------------------------
(* The reader.                                                             *)
LEMMA ReadInd == Ind /\ Read => Ind'
<1> SUFFICES ASSUME Ind, Read PROVE Ind'
  OBVIOUS
<1> USE DEF Ind, Read, writerVars, chainVars
<1>1. UNCHANGED writerVars
  BY DEF ReadEvent, ReadNil
<1>2. ChainInv' /\ StatusInv' /\ MissInv' /\ PlaceInv'
  BY <1>1 DEF ChainInv, StatusInv, MissInv, PlaceInv, Live
<1>3. CASE ReadNil
  <2>1. TypeOK'
    BY <1>1, <1>3 DEF ReadNil, TypeOK
  <2>2. StreamInv'
    BY <1>1, <1>3 DEF ReadNil, StreamInv
  <2>3. QED
    BY <1>2, <2>1, <2>2
<1>4. CASE ReadEvent
  <2> USE <1>4 DEF ReadEvent
  <2>1. /\ events' \in Seq(Event \cup {Concluded}) /\ Len(events') = Len(events) - 1
        /\ \A i \in 1..Len(events') : i + 1 \in 1..Len(events) /\ events'[i] = events[i + 1]
        /\ Len(events) \in Nat \ {0} /\ Head(events) = events[1]
        /\ events[1] \in Event \cup {Concluded}
    BY DEF TypeOK
  <2>2. seen' \in Version /\ ended' \in {"no", "concluded", "nil"}
    BY <2>1 DEF TypeOK, Event
  <2>3. TypeOK'
    BY <1>1, <2>1, <2>2 DEF TypeOK
  <2>4. ended = "no"
    BY DEF StreamInv, TypeOK
  <2>8. 1 \in 1..Len(events)
    BY <2>1
  <2>9. \A i \in 1..Len(events) :
          /\ events[i] = Concluded => concluded /\ i = Len(events)
          /\ events[i] # Concluded =>
                /\ seen < events[i].version /\ events[i].version <= version
                /\ ~concluded => events[i].version <= oldStatus.version
    BY DEF StreamInv
  <2>10. \A i, j \in 1..Len(events) :
           i < j /\ events[j] # Concluded => events[i].version < events[j].version
    BY DEF StreamInv
  <2>5. CASE events[1] = Concluded
    <3>1. concluded /\ Len(events) = 1
      BY <2>5, <2>8, <2>9
    <3>2. Len(events') = 0 /\ seen' = seen /\ ended' = "concluded"
      BY <2>1, <2>5, <3>1
    <3>3. events' = << >>
      BY <2>1, <3>2
    <3>4. seen <= version
      BY DEF StreamInv
    <3>5. ASSUME NEW i \in 1..Len(events') PROVE FALSE
      <4>1. i \in Nat /\ 1 <= i /\ i + 1 \in 1..Len(events)
        BY <2>1, <3>5
      <4>2. i + 1 \in 1..1
        BY <3>1, <4>1
      <4>3. QED
        BY <4>1, <4>2
    <3>6. UNCHANGED <<version, concluded, closed, oldStatus>>
      BY <1>1
    <3>7. StreamInv'
      BY <3>1, <3>2, <3>3, <3>4, <3>5, <3>6 DEF StreamInv
    <3>8. QED
      BY <1>2, <2>3, <3>7
  <2>6. CASE events[1] # Concluded
    <3>1. seen' = events[1].version /\ ended' = "no"
      BY <2>1, <2>4, <2>6
    <3>2. events[1].version <= version /\ (~concluded => events[1].version <= oldStatus.version)
      BY <2>6, <2>8, <2>9
    <3>3. ASSUME NEW i \in 1..Len(events')
          PROVE  /\ events'[i] = Concluded => concluded /\ i = Len(events')
                 /\ events'[i] # Concluded =>
                       /\ seen' < events'[i].version /\ events'[i].version <= version
                       /\ ~concluded => events'[i].version <= oldStatus.version
      <4>1. i + 1 \in 1..Len(events) /\ 1 < i + 1 /\ events'[i] = events[i + 1]
        BY <2>1
      <4>2. events'[i] = Concluded => concluded /\ i = Len(events')
        <5>1. events'[i] = Concluded => concluded /\ i + 1 = Len(events)
          BY <2>9, <4>1
        <5>2. Len(events') + 1 = Len(events)
          BY <2>1
        <5>3. i \in Nat /\ Len(events') \in Nat
          BY <2>1
        <5> HIDE <1>4
        <5>4. QED
          BY <5>1, <5>2, <5>3
      <4>3. events'[i] # Concluded => seen' < events'[i].version
        BY <2>8, <2>10, <3>1, <4>1
      <4>4. events'[i] # Concluded =>
               /\ events'[i].version <= version
               /\ ~concluded => events'[i].version <= oldStatus.version
        BY <2>9, <4>1
      <4>5. QED
        BY <4>2, <4>3, <4>4
    <3>4. ASSUME NEW i \in 1..Len(events'), NEW j \in 1..Len(events'),
                 i < j, events'[j] # Concluded
          PROVE  events'[i].version < events'[j].version
      <4>1. /\ i + 1 \in 1..Len(events) /\ j + 1 \in 1..Len(events) /\ i + 1 < j + 1
            /\ events'[i] = events[i + 1] /\ events'[j] = events[j + 1]
        BY <2>1, <3>4
      <4>2. QED
        BY <2>10, <3>4, <4>1
    <3>5. StreamInv'
      BY <1>1, <3>1, <3>2, <3>3, <3>4 DEF StreamInv
    <3>6. QED
      BY <1>2, <2>3, <3>5
  <2>7. QED
    BY <2>5, <2>6
<1>5. QED
  BY <1>3, <1>4

(* Every step of the goroutine, the reader or the chain keeps the          *)
(* invariant.                                                              *)
LEMMA NextInd == Ind /\ [Next]_vars => Ind'
<1> SUFFICES ASSUME Ind, [Next]_vars PROVE Ind'
  OBVIOUS
<1>1. CASE UNCHANGED vars
  BY <1>1 DEF vars, chainVars, readerVars, Ind, TypeOK, ChainInv, StatusInv, MissInv,
              PlaceInv, StreamInv, Live
<1>2. CASE Next
  BY <1>2, ChainInd, SelectInd, MissInd, HitInd, PutInd, ReadInd DEF Next, Loop
<1>3. QED
  BY <1>1, <1>2

(* The invariant holds in every reachable state.                           *)
LEMMA Invariance == Spec => []Ind
BY InitInd, NextInd, PTL DEF Spec

(* The variables of Subscription keep their types: in particular the       *)
(* buffer never overflows and the miss counter stops at the threshold.     *)
THEOREM TypeCorrect == Spec => []TypeOK
<1>1. Ind => TypeOK
  BY DEF Ind
<1>2. QED
  BY <1>1, Invariance, PTL

(* The branch for an undisputed update is dead.                            *)
THEOREM UndisputedIsDead == Spec => NeverUndisputed
<1>1. Ind /\ [Next]_vars => [fatal' # fatal => stage = "disputed"]_vars
  <2> SUFFICES ASSUME Ind, Next, fatal' # fatal PROVE stage = "disputed"
    OBVIOUS
  <2>1. HitFatally
    BY DEF Next, Chain, Open, Fund, Dispute, Vanish, subVars, Cancel, Loop, TimerFires,
           Finish, PollFails, PollMisses, MissBeforeFound, MissAgain, MissConcludes, Miss,
           PollFinds, HitQuietly, HitRegistered, Put, Read, ReadEvent, ReadNil, writerVars
  <2>2. oldStatus \in Status /\ oldStatus.stage \in {"funded", "disputed"} /\ Live
    BY <2>1 DEF HitFatally, Hit, Quiet, Ind, TypeOK, Status
  <2>3. QED
    <3>1. CASE oldStatus.stage = "disputed"
      BY <2>2, <3>1 DEF Ind, StatusInv, NoStatus, Status, Live
    <3>2. CASE oldStatus.stage = "funded" /\ stage = "funded"
      BY <2>1, <2>2, <3>2 DEF HitFatally, Quiet, ChainStatus, Ind, StatusInv, ChainInv,
                              NoStatus, Status
    <3>3. QED
      BY <2>2, <3>1, <3>2 DEF Ind, StatusInv, NoStatus, Status, Live
<1>2. QED
  BY <1>1, Invariance, PTL DEF Spec, NeverUndisputed

-----------------------------------------------------------------------------
(* What is registered, or is on its way to the reader, is in the history.  *)
HeldInv ==
    /\ version > 0 => version \in held
    /\ sending \in Event => sending.version \in held
    /\ \A i \in 1..Len(events) : events[i] # Concluded => events[i].version \in held

(* Nothing but a registered version is ever taken for an event.            *)
LEMMA HeldInd == Ind /\ HeldInv /\ [Next]_vars => HeldInv'
<1> SUFFICES ASSUME Ind, HeldInv, [Next]_vars PROVE HeldInv'
  OBVIOUS
<1> USE DEF HeldInv, chainVars, readerVars
<1>1. CASE Chain
  <2>1. held \subseteq held' /\ UNCHANGED <<sending, events>>
    BY <1>1 DEF Chain, Open, Fund, Dispute, Vanish, subVars
  <2>2. version' > 0 => version' \in held'
    BY <1>1 DEF Chain, Open, Fund, Dispute, Vanish
  <2>3. QED
    BY <2>1, <2>2
<1>2. CASE Cancel \/ TimerFires \/ Finish \/ PollFails
  BY <1>2 DEF Cancel, TimerFires, Finish, PollFails
<1>3. CASE PollMisses
  <2>1. sending' \in {sending, Concluded} /\ UNCHANGED <<version, held, events>>
    BY <1>3 DEF PollMisses, MissBeforeFound, MissAgain, MissConcludes, Miss
  <2>2. Concluded \notin Event
    BY DEF Concluded, Event
  <2>3. QED
    BY <2>1, <2>2
<1>4. CASE PollFinds
  <2>1. /\ sending' = sending \/ (stage = "disputed" /\ sending' = Registered(version))
        /\ UNCHANGED <<version, held, events>>
    BY <1>4 DEF PollFinds, HitQuietly, HitFatally, HitRegistered, Hit
  <2>2. stage = "disputed" => Registered(version).version \in held
    BY DEF Registered, Ind, ChainInv
  <2>3. QED
    BY <2>1, <2>2
<1>5. CASE Put
  <2>1. /\ sending' = NoEvent /\ NoEvent \notin Event /\ UNCHANGED <<version, held>>
    BY <1>5 DEF Put, NoEvent, Event
  <2>2. /\ Len(events) \in Nat /\ Len(events') = Len(events) + 1
        /\ \A i \in 1..Len(events) : events'[i] = events[i]
        /\ events'[Len(events) + 1] = sending
    BY <1>5 DEF Put, Ind, TypeOK
  <2>3. sending # Concluded => sending \in Event
    BY <1>5 DEF Put, Ind, PlaceInv
  <2>4. \A i \in 1..Len(events') : i \in 1..Len(events) \/ i = Len(events) + 1
    BY <2>2
  <2>5. QED
    BY <2>1, <2>2, <2>3, <2>4
<1>6. CASE ReadEvent
  <2>1. /\ Len(events') = Len(events) - 1 /\ Len(events) \in Nat
        /\ \A i \in 1..Len(events') : i + 1 \in 1..Len(events) /\ events'[i] = events[i + 1]
    BY <1>6 DEF ReadEvent, Ind, TypeOK
  <2>2. UNCHANGED <<version, held, sending>>
    BY <1>6 DEF ReadEvent, writerVars
  <2>3. QED
    BY <2>1, <2>2
<1>7. CASE ReadNil
  BY <1>7 DEF ReadNil, writerVars
<1>8. CASE UNCHANGED vars
  BY <1>8 DEF vars
<1>9. QED
  BY <1>1, <1>2, <1>3, <1>4, <1>5, <1>6, <1>7, <1>8 DEF Next, Loop, Read

(* Every step of the subscription is one of the stream's, or not seen.     *)
LEMMA StepRefines == Ind /\ HeldInv /\ [Next]_vars => [Stream!Next]_Stream!vars
<1> SUFFICES ASSUME Ind, HeldInv, [Next]_vars
             PROVE  Stream!Next \/ UNCHANGED <<chainVars, readerVars>>
  BY DEF Stream!vars, chainVars, readerVars
<1> USE DEF chainVars, readerVars
<1>1. CASE Chain
  <2>1. Stream!Life!Next
    BY <1>1 DEF Chain, Open, Fund, Dispute, Vanish, Live, Stream!Life!Next,
                Stream!Life!Open, Stream!Life!Fund, Stream!Life!Register,
                Stream!Life!Vanish, Ind, TypeOK
  <2>2. held' = IF version' = version THEN held ELSE held \cup {version'}
    BY <1>1 DEF Chain, Open, Fund, Dispute, Vanish, Ind, TypeOK, Version
  <2>3. UNCHANGED readerVars
    BY <1>1 DEF Chain, Open, Fund, Dispute, Vanish, subVars
  <2>4. QED
    BY <2>1, <2>2, <2>3 DEF Stream!Next, Stream!Move
<1>2. CASE Cancel \/ Loop
  BY <1>2 DEF Cancel, Loop, TimerFires, Finish, PollFails, PollMisses, MissBeforeFound,
              MissAgain, MissConcludes, Miss, PollFinds, HitQuietly, HitFatally,
              HitRegistered, Hit, Put
<1>3. CASE ReadNil
  BY <1>3 DEF ReadNil, writerVars, Ind, TypeOK, Stream!Next, Stream!End
<1>4. CASE ReadEvent
  <2>1. /\ events \in Seq(Event \cup {Concluded}) /\ Len(events) \in Nat \ {0}
        /\ 1 \in 1..Len(events) /\ Head(events) = events[1]
    BY <1>4 DEF ReadEvent, Ind, TypeOK
  <2>2. ended = "no"
    BY <1>4 DEF ReadEvent, Ind, StreamInv, TypeOK
  <2>3. CASE events[1] = Concluded
    <3>1. stage = "gone"
      BY <2>1, <2>3 DEF Ind, StreamInv, MissInv
    <3>2. Stream!ReportConcluded
      BY <1>4, <2>1, <2>2, <2>3, <3>1 DEF ReadEvent, writerVars, Stream!ReportConcluded
    <3>3. QED
      BY <3>2 DEF Stream!Next
  <2>4. CASE events[1] # Concluded
    <3>1. seen < events[1].version
      BY <2>1, <2>4 DEF Ind, StreamInv
    <3>2. seen' = events[1].version /\ ended' = ended /\ UNCHANGED chainVars
      BY <1>4, <2>1, <2>4 DEF ReadEvent, writerVars
    <3>3. events[1].version \in held
      BY <2>1, <2>4 DEF HeldInv
    <3>4. Stream!ReportRegistered
      BY <2>2, <3>1, <3>2, <3>3 DEF Stream!ReportRegistered
    <3>5. QED
      BY <3>4 DEF Stream!Next
  <2>5. QED
    BY <2>3, <2>4
<1>5. CASE UNCHANGED vars
  BY <1>5 DEF vars
<1>6. QED
  BY <1>1, <1>2, <1>3, <1>4, <1>5 DEF Next, Read

(* Subscription implements EventStream: no report of what was never        *)
(* registered, none that is repeated or out of order, and none after the   *)
(* conclusion, whatever the reader's pace.                                 *)
THEOREM Refinement == Spec => IsEventStream
<1>1. Init => Stream!Init
  BY DEF Init, Stream!Init, Stream!Life!Init
<1>2. Init => HeldInv
  BY DEF Init, HeldInv, NoEvent, Event
<1>3. Ind /\ HeldInv /\ [Next]_vars => [Stream!Next]_Stream!vars
  BY StepRefines
<1>4. QED
  BY <1>1, <1>2, <1>3, HeldInd, Invariance, PTL DEF Spec, IsEventStream, Stream!Spec
=============================================================================
