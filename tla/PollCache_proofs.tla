-------------------------- MODULE PollCache_proofs --------------------------
(***************************************************************************)
(* Proofs of the safety properties of PollCache for any fleet, any split   *)
(* of it into devices that drop points, refuse writes or are commanded,    *)
(* any offline_after_failures and any poll_concurrency.                    *)
(***************************************************************************)
EXTENDS PollCache, FiniteSetTheorems, TLAPS

(* What the invariant says of the requests in flight.                      *)
CallsInv ==
  /\ calls \subseteq Call
  /\ OneRequestPerDevice
  /\ NoStaleAnswer
  /\ ManagersCommand
  /\ AnswersAreFaithful

(* The fields of a request.                                                *)
LEMMA CallFields ==
  ASSUME NEW c \in Call
  PROVE  /\ c.dev \in Device
         /\ c.kind \in {"poll", "refresh", "write"}
         /\ c.stage \in {"sent", "answered"}
         /\ c.overtaken \in BOOLEAN
         /\ c.kind = "write" => c.got \in Offset
         /\ c.stage = "answered" => c.truth \in Truth
         /\ c.stage = "answered" /\ c.kind # "write" => c.got \in Reading
  BY DEF Call

(* A completing request leaves the others as they were: none of them is    *)
(* for its device.                                                         *)
LEMMA RestIsWhole ==
  ASSUME CallsInv, NEW c \in calls
  PROVE  Rest(c) = calls \ {c}
<1>1. ASSUME NEW x \in calls \ {c}
      PROVE  [x EXCEPT !.overtaken = @ \/ (x.dev = c.dev /\ x.stage = "answered")] = x
  <2>1. x.dev # c.dev /\ x.overtaken = FALSE
    BY <1>1, CallFields DEF CallsInv, OneRequestPerDevice, NoStaleAnswer
  <2>2. x = [x EXCEPT !.overtaken = x.overtaken]
    BY <1>1 DEF CallsInv, Call
  <2> QED BY <2>1, <2>2
<1> QED BY <1>1 DEF Rest

(* Requests that complete.                                                 *)
LEMMA CallsComplete ==
  ASSUME CallsInv, calls' \subseteq calls
  PROVE  CallsInv'
  BY DEF CallsInv, OneRequestPerDevice, NoStaleAnswer, ManagersCommand, AnswersAreFaithful

(* A request that starts.                                                  *)
LEMMA CallStarts ==
  ASSUME CallsInv, NEW d \in Device, Room(d), NEW n \in Call,
         n.dev = d, n.stage = "sent", ~n.overtaken,
         n.kind # "poll" => d \in Commanded,
         calls' = calls \cup {n}
  PROVE  CallsInv'
  BY DEF CallsInv, Room, OneRequestPerDevice, NoStaleAnswer, ManagersCommand,
         AnswersAreFaithful

(* A request that is answered.                                             *)
LEMMA CallAnswered ==
  ASSUME CallsInv, NEW c \in calls, NEW n \in Call,
         n.dev = c.dev, n.kind = c.kind, n.overtaken = c.overtaken,
         calls' = (calls \ {c}) \cup {n},
         IF n.kind = "write"
           THEN n.dev \notin Refuses => n.got = n.truth.offset
           ELSE /\ n.got.status \in {n.truth.status, Missing}
                /\ n.dev \notin StatusDrops => n.got.status # Missing
                /\ n.dev \notin OffsetDrops => n.got.offset = n.truth.offset
  PROVE  CallsInv'
<1>1. \A x \in calls \ {c} : x.dev # n.dev
  BY DEF CallsInv, OneRequestPerDevice
<1>2. OneRequestPerDevice'
  BY <1>1 DEF CallsInv, OneRequestPerDevice
<1>3. NoStaleAnswer' /\ ManagersCommand'
  BY DEF CallsInv, NoStaleAnswer, ManagersCommand
<1>4. AnswersAreFaithful'
  BY DEF CallsInv, AnswersAreFaithful
<1> QED BY <1>2, <1>3, <1>4 DEF CallsInv

(* What only the cache and the records matter to.                          *)
RecordsInv ==
  /\ CacheIsFaithful
  /\ SamplesAreBounded
  /\ RowsAreFounded
  /\ AdjustmentIsOnRecord

(* A step that touches none of it keeps it.                                *)
LEMMA RecordsKept ==
  ASSUME RecordsInv, UNCHANGED <<values, actual, trail, unfounded, sample>>
  PROVE  RecordsInv'
  BY DEF RecordsInv, CacheIsFaithful, SamplesAreBounded, RowsAreFounded,
         AdjustmentIsOnRecord

(* The invariant in these two parts.                                       *)
LEMMA PollInvParts ==
  PollInv <=> TypeOK /\ CallsInv /\ AsleepIsDone /\ AgeIsExplained /\ RecordsInv
  BY DEF PollInv, CallsInv, RecordsInv, TypeOK

(* The same after a step.                                                  *)
LEMMA PollInvPartsNext ==
  PollInv' <=> TypeOK' /\ CallsInv' /\ AsleepIsDone' /\ AgeIsExplained' /\ RecordsInv'
  BY PollInvParts, PTL
-----------------------------------------------------------------------------
(* The initial states.                                                     *)
LEMMA InitPollInv == Init => PollInv
<1> SUFFICES ASSUME Init PROVE PollInv
  OBVIOUS
<1>1. TypeOK
  <2>1. 0 \in Offset /\ OfflineAfter \in 0 .. OfflineAfter /\ 0 \in 0 .. OfflineAfter
        /\ NotSampled \in 0 .. NotSampled
    BY PollAssumption DEF Offset, NotSampled
  <2>2. offset \in [Device -> Offset]
    BY <2>1 DEF Init
  <2> QED BY <2>1, <2>2 DEF Init, TypeOK, Row
<1>2. CallsInv /\ AsleepIsDone /\ AgeIsExplained
  BY DEF Init, CallsInv, OneRequestPerDevice, NoStaleAnswer, ManagersCommand,
         AnswersAreFaithful, AsleepIsDone, AgeIsExplained
<1>3. RecordsInv
  BY DEF Init, RecordsInv, CacheIsFaithful, SamplesAreBounded, RowsAreFounded,
         AdjustmentIsOnRecord
<1> QED BY <1>1, <1>2, <1>3, PollInvParts

(* The thermostats and their links move by themselves, and a command only  *)
(* leaves its refresh to come.                                             *)
LEMMA WorldInv ==
  ASSUME PollInv,
         \/ \E d \in Device, o \in Offset : Adjust(d, o)
         \/ \E d \in Device, s \in Scheduled : RollOver(d, s)
         \/ \E d \in Device : FlipLink(d) \/ Command(d)
  PROVE  PollInv'
<1>1. UNCHANGED <<calls, pending, asleep, cache, record, actual, age>>
  BY DEF Adjust, RollOver, FlipLink, Command, bus
<1>2. TypeOK'
  <2>1. offset' \in [Device -> Offset] /\ schedule' \in [Device -> Scheduled]
    BY PollAssumption DEF PollInv, TypeOK, Adjust, RollOver, FlipLink, Command, Offset
  <2>2. link' \subseteq Device /\ settling' \subseteq Commanded
    BY DEF PollInv, TypeOK, Adjust, RollOver, FlipLink, Command, bus
  <2> QED BY <1>1, <2>1, <2>2 DEF PollInv, TypeOK, cache, record
<1>3. CallsInv'
  BY <1>1, PollInvParts, CallsComplete
<1>4. AsleepIsDone' /\ AgeIsExplained'
  BY <1>1 DEF PollInv, AsleepIsDone, AgeIsExplained, Outstanding, cache
<1>5. RecordsInv'
  BY <1>1, PollInvParts, RecordsKept DEF cache, record
<1> QED BY <1>2, <1>3, <1>4, <1>5, PollInvPartsNext
-----------------------------------------------------------------------------
(* Requests start.                                                         *)
LEMMA StartPollInv ==
  ASSUME PollInv, NEW d \in Device, StartPoll(d)
  PROVE  PollInv'
<1> DEFINE n == [dev |-> d, kind |-> "poll", stage |-> "sent", got |-> NoReading,
                 truth |-> NoReading, overtaken |-> FALSE]
<1>1. n \in Call
  BY DEF Call
<1>2. calls' = calls \cup {n}
  BY DEF StartPoll
<1>3. CallsInv'
  BY <1>1, <1>2, PollInvParts, CallStarts DEF StartPoll
<1>4. TypeOK'
  BY <1>3 DEF PollInv, TypeOK, CallsInv, StartPoll, cache, record
<1>5. AsleepIsDone'
  BY DEF StartPoll, AsleepIsDone
<1>6. AgeIsExplained'
  <2>1. ASSUME NEW e \in succeeded, Outstanding(e) PROVE Outstanding(e)'
    <3>1. CASE e = d
      <4>1. n \in calls' /\ n.dev = d /\ n.kind = "poll"
        BY <1>2
      <4> HIDE DEF n
      <4> QED BY <3>1, <4>1 DEF Outstanding
    <3>2. CASE e # d
      BY <1>2, <2>1, <3>2 DEF StartPoll, Outstanding
    <3> QED BY <3>1, <3>2
  <2> QED BY <2>1 DEF PollInv, AgeIsExplained, StartPoll, cache
<1>7. RecordsInv'
  BY PollInvParts, RecordsKept DEF StartPoll, cache, record
<1> QED BY <1>3, <1>4, <1>5, <1>6, <1>7, PollInvPartsNext

(* A manager's write or the refresh after a command starts.                *)
LEMMA StartOtherInv ==
  ASSUME PollInv, NEW d \in Device,
         (\E o \in Offset : StartWrite(d, o)) \/ StartRefresh(d)
  PROVE  PollInv'
<1>1. PICK n \in Call : /\ n.dev = d /\ n.kind # "poll" /\ n.stage = "sent"
                        /\ ~n.overtaken
                        /\ calls' = calls \cup {n}
  <2>1. CASE \E o \in Offset : StartWrite(d, o)
    <3> PICK o \in Offset : StartWrite(d, o)
      BY <2>1
    <3> DEFINE n == [dev |-> d, kind |-> "write", stage |-> "sent", got |-> o,
                     truth |-> NoReading, overtaken |-> FALSE]
    <3>1. n \in Call
      BY DEF Call
    <3> QED BY <3>1 DEF StartWrite
  <2>2. CASE StartRefresh(d)
    <3> DEFINE n == [dev |-> d, kind |-> "refresh", stage |-> "sent",
                     got |-> NoReading, truth |-> NoReading, overtaken |-> FALSE]
    <3>1. n \in Call
      BY DEF Call
    <3> QED BY <2>2, <3>1 DEF StartRefresh
  <2> QED BY <2>1, <2>2
<1>2. d \in Commanded /\ Room(d) /\ settling' \subseteq settling
      /\ UNCHANGED <<offset, schedule, link, pending, asleep, cache, record, actual, age>>
  BY DEF PollInv, TypeOK, StartWrite, StartRefresh
<1>3. CallsInv'
  BY <1>1, <1>2, PollInvParts, CallStarts
<1>4. TypeOK'
  BY <1>2, <1>3 DEF PollInv, TypeOK, CallsInv, cache, record
<1>5. AsleepIsDone'
  BY <1>1, <1>2 DEF PollInv, AsleepIsDone
<1>6. AgeIsExplained'
  <2>1. ASSUME NEW e \in succeeded, Outstanding(e) PROVE Outstanding(e)'
    BY <1>1, <1>2, <2>1 DEF Outstanding
  <2> QED BY <1>2, <2>1 DEF PollInv, AgeIsExplained, cache
<1>7. RecordsInv'
  BY <1>2, PollInvParts, RecordsKept DEF cache, record
<1> QED BY <1>3, <1>4, <1>5, <1>6, <1>7, PollInvPartsNext
-----------------------------------------------------------------------------
(* Requests are answered.                                                  *)
LEMMA AnswerReadInv ==
  ASSUME PollInv, NEW c \in calls, AnswerRead(c)
  PROVE  PollInv'
<1> DEFINE now == Points(schedule[c.dev], offset[c.dev])
<1> DEFINE n(r) == [c EXCEPT !.stage = "answered", !.truth = now, !.got = r]
<1>0. c \in Call /\ c.dev \in Device
  BY CallFields DEF PollInv, TypeOK
<1>1. now \in Truth
  BY <1>0 DEF PollInv, TypeOK, Points, Truth
<1> HIDE DEF now
<1>2. PICK r \in Reports(c.dev, now) : calls' = (calls \ {c}) \cup {n(r)}
  BY DEF AnswerRead, now
<1>3. /\ r \in Reading
      /\ r.status \in {now.status, Missing}
      /\ c.dev \notin StatusDrops => r.status = now.status
      /\ c.dev \notin OffsetDrops => r.offset = now.offset
  BY DEF Reports
<1>4. c.kind \in {"poll", "refresh"} /\ c.stage = "sent"
  BY <1>0, CallFields DEF AnswerRead
<1>5. n(r) \in Call
  BY <1>0, <1>1, <1>3, <1>4 DEF Call
<1>6. /\ n(r).dev = c.dev /\ n(r).kind = c.kind /\ n(r).overtaken = c.overtaken
      /\ n(r).truth = now /\ n(r).got = r
  BY <1>0, <1>4 DEF Call
<1>7. now.status # Missing
  BY <1>1, PollAssumption DEF Truth
<1> HIDE DEF n
<1>8. CallsInv'
  BY <1>2, <1>3, <1>4, <1>5, <1>6, <1>7, CallAnswered, PollInvParts
<1>9. TypeOK'
  BY <1>8 DEF PollInv, TypeOK, CallsInv, AnswerRead, cache, record
<1>10. AsleepIsDone'
  BY <1>2, <1>6 DEF PollInv, AsleepIsDone, AnswerRead
<1>11. AgeIsExplained'
  <2>1. ASSUME NEW e \in Device, Outstanding(e) PROVE Outstanding(e)'
    BY <1>2, <1>6, <2>1 DEF AnswerRead, Outstanding
  <2> QED BY <2>1 DEF PollInv, TypeOK, AgeIsExplained, AnswerRead, cache
<1>12. RecordsInv'
  BY PollInvParts, RecordsKept DEF AnswerRead, cache, record
<1> QED BY <1>8, <1>9, <1>10, <1>11, <1>12, PollInvPartsNext

(* A thermostat applies a write, or only says so.                          *)
LEMMA AnswerWriteInv ==
  ASSUME PollInv, NEW c \in calls, AnswerWrite(c)
  PROVE  PollInv'
<1> DEFINE n(o) == [c EXCEPT !.stage = "answered", !.truth = Points(schedule[c.dev], o)]
<1>0. c \in Call /\ c.dev \in Device /\ c.stage = "sent" /\ c.kind = "write"
  BY CallFields DEF PollInv, TypeOK, AnswerWrite
<1>1. PICK o \in Offset :
        /\ o = c.got \/ c.dev \in Refuses
        /\ offset' = [offset EXCEPT ![c.dev] = o]
        /\ calls' = (calls \ {c}) \cup {n(o)}
  BY DEF AnswerWrite
<1>2. Points(schedule[c.dev], o) \in Truth /\ Points(schedule[c.dev], o).offset = o
  BY <1>0 DEF PollInv, TypeOK, Points, Truth
<1>3. n(o) \in Call
  BY <1>0, <1>2 DEF Call
<1>4. /\ n(o).dev = c.dev /\ n(o).kind = c.kind /\ n(o).overtaken = c.overtaken
      /\ n(o).got = c.got /\ n(o).truth.offset = o
  BY <1>0, <1>2 DEF Call
<1> HIDE DEF n
<1>5. CallsInv'
  BY <1>0, <1>1, <1>3, <1>4, CallAnswered, PollInvParts
<1>6. TypeOK'
  BY <1>1, <1>5 DEF PollInv, TypeOK, CallsInv, AnswerWrite, cache, record
<1>7. AsleepIsDone'
  BY <1>1, <1>4 DEF PollInv, AsleepIsDone, AnswerWrite
<1>8. AgeIsExplained'
  <2>1. ASSUME NEW e \in Device, Outstanding(e) PROVE Outstanding(e)'
    BY <1>1, <1>4, <2>1 DEF AnswerWrite, Outstanding
  <2> QED BY <2>1 DEF PollInv, TypeOK, AgeIsExplained, AnswerWrite, cache
<1>9. RecordsInv'
  BY PollInvParts, RecordsKept DEF AnswerWrite, cache, record
<1> QED BY <1>5, <1>6, <1>7, <1>8, <1>9, PollInvPartsNext
-----------------------------------------------------------------------------
(* Requests end.                                                           *)

(* A request that ends leaves what is outstanding of other devices, and of *)
(* its own unless it is a poll.                                            *)
LEMMA OutstandingKept ==
  ASSUME NEW c \in calls, calls' = calls \ {c}, pending' = pending,
         NEW e, Outstanding(e), e # c.dev \/ c.kind # "poll"
  PROVE  Outstanding(e)'
  BY DEF Outstanding

(* An unanswered poll is one more miss, which the age of the reading may   *)
(* have run ahead of.                                                      *)
LEMMA LosePollInv ==
  ASSUME PollInv, NEW c \in calls, LosePoll(c)
  PROVE  PollInv'
<1>0. c.dev \in Device
  BY CallFields DEF PollInv, TypeOK
<1>1. CallsInv'
  BY PollInvParts, CallsComplete DEF LosePoll
<1>2. misses' \in [Device -> 0 .. OfflineAfter]
  <2>1. Saturate(misses[c.dev]) \in 0 .. OfflineAfter
    BY <1>0, PollAssumption DEF PollInv, TypeOK, Saturate
  <2> QED BY <1>0, <2>1 DEF PollInv, TypeOK, LosePoll, RecordFailure
<1>3. TypeOK'
  BY <1>1, <1>2 DEF PollInv, TypeOK, CallsInv, LosePoll, RecordFailure, record
<1>4. AsleepIsDone'
  BY DEF PollInv, AsleepIsDone, LosePoll
<1>5. AgeIsExplained'
  <2> SUFFICES ASSUME NEW e \in succeeded'
               PROVE  (age[e] <= misses[e] \/ (age[e] <= misses[e] + 1 /\ Outstanding(e)))'
    BY DEF AgeIsExplained
  <2>1. e \in succeeded /\ e \in Device /\ age' = age
    BY DEF LosePoll, RecordFailure, PollInv, TypeOK
  <2>2. CASE e = c.dev
    <3>1. misses'[e] = Saturate(misses[e])
      BY <2>1, <2>2 DEF LosePoll, RecordFailure, PollInv, TypeOK
    <3>2. age[e] <= misses[e] + 1 /\ age[e] \in 0 .. OfflineAfter
          /\ misses[e] \in 0 .. OfflineAfter
      BY <2>1 DEF PollInv, TypeOK, AgeIsExplained
    <3> QED BY <2>1, <3>1, <3>2, PollAssumption DEF Saturate
  <2>3. CASE e # c.dev
    <3>1. misses'[e] = misses[e]
      BY <2>1, <2>3 DEF LosePoll, RecordFailure, PollInv, TypeOK
    <3>2. Outstanding(e) => Outstanding(e)'
      BY <2>3, OutstandingKept DEF LosePoll
    <3> QED BY <2>1, <3>1, <3>2 DEF PollInv, AgeIsExplained
  <2> QED BY <2>2, <2>3
<1>6. RecordsInv'
  BY PollInvParts, RecordsKept DEF LosePoll, RecordFailure, record
<1> QED BY <1>1, <1>3, <1>4, <1>5, <1>6, PollInvPartsNext

(* A refresh or a write that ends in a timeout leaves nothing behind.      *)
LEMMA LoseOtherInv ==
  ASSUME PollInv, NEW c \in calls, LoseRefresh(c) \/ LoseWrite(c)
  PROVE  PollInv'
<1>1. c.kind # "poll" /\ calls' = calls \ {c}
      /\ UNCHANGED <<offset, schedule, link, pending, asleep, settling, cache,
                     record, actual, age>>
  BY DEF LoseRefresh, LoseWrite
<1>2. CallsInv'
  BY <1>1, PollInvParts, CallsComplete
<1>3. TypeOK'
  BY <1>1, <1>2 DEF PollInv, TypeOK, CallsInv, cache, record
<1>4. AsleepIsDone'
  BY <1>1 DEF PollInv, AsleepIsDone
<1>5. AgeIsExplained'
  BY <1>1, OutstandingKept DEF PollInv, AgeIsExplained, cache
<1>6. RecordsInv'
  BY <1>1, PollInvParts, RecordsKept DEF cache, record
<1> QED BY <1>2, <1>3, <1>4, <1>5, <1>6, PollInvPartsNext

(* A reading of d makes its way into the cache.                            *)
LEMMA FreshReading ==
  ASSUME PollInv, NEW c \in calls, c.stage = "answered", c.kind # "write",
         values' = [values EXCEPT ![c.dev] = c.got],
         actual' = [actual EXCEPT ![c.dev] = c.truth]
  PROVE  /\ values' \in [Device -> Reading \cup {NoReading}]
         /\ actual' \in [Device -> Reading \cup {NoReading}]
         /\ CacheIsFaithful'
<1>1. c \in Call /\ c.dev \in Device /\ c.got \in Reading /\ c.truth \in Truth
  BY CallFields DEF PollInv, TypeOK
<1>2. c.truth \in Reading /\ c.got # NoReading /\ c.truth # NoReading
  BY <1>1, NoReadingAssumption DEF Truth, Reading
<1>3. /\ c.got.status \in {c.truth.status, Missing}
      /\ c.dev \notin StatusDrops => c.got.status # Missing
      /\ c.dev \notin OffsetDrops => c.got.offset = c.truth.offset
  BY DEF PollInv, AnswersAreFaithful
<1> QED BY <1>1, <1>2, <1>3 DEF PollInv, TypeOK, CacheIsFaithful

(* With it the age of the reading is zero.                                 *)
LEMMA FreshAge ==
  ASSUME PollInv, NEW c \in calls, calls' = calls \ {c}, pending' = pending,
         succeeded' = succeeded \cup {c.dev},
         NEW m \in 0 .. OfflineAfter,
         misses' = [misses EXCEPT ![c.dev] = m],
         age' = [age EXCEPT ![c.dev] = 0]
  PROVE  /\ succeeded' \subseteq Device
         /\ misses' \in [Device -> 0 .. OfflineAfter]
         /\ age' \in [Device -> 0 .. OfflineAfter]
         /\ AgeIsExplained'
<1>1. c.dev \in Device
  BY CallFields DEF PollInv, TypeOK
<1>2. 0 \in 0 .. OfflineAfter
  BY PollAssumption
<1>3. ASSUME NEW e \in succeeded'
      PROVE  (age[e] <= misses[e] \/ (age[e] <= misses[e] + 1 /\ Outstanding(e)))'
  <2>1. CASE e = c.dev
    <3>1. age'[e] = 0 /\ misses'[e] = m
      BY <1>1, <2>1 DEF PollInv, TypeOK
    <3> QED BY <3>1, PollAssumption
  <2>2. CASE e # c.dev
    <3>1. e \in succeeded /\ age'[e] = age[e] /\ misses'[e] = misses[e]
      BY <1>3, <2>2 DEF PollInv, TypeOK
    <3>2. Outstanding(e) => Outstanding(e)'
      BY <2>2, OutstandingKept
    <3> QED BY <3>1, <3>2 DEF PollInv, AgeIsExplained
  <2> QED BY <2>1, <2>2
<1> QED BY <1>1, <1>2, <1>3 DEF PollInv, TypeOK, AgeIsExplained

(* The answer to a refresh bypasses the audit log.                         *)
LEMMA ReceiveRefreshInv ==
  ASSUME PollInv, NEW c \in calls, ReceiveRefresh(c)
  PROVE  PollInv'
<1>1. calls' = calls \ {c}
  BY RestIsWhole, PollInvParts DEF ReceiveRefresh
<1>2. c.dev \in Commanded /\ c.dev \in Device
  BY CallFields DEF PollInv, TypeOK, ManagersCommand, ReceiveRefresh
<1>3. CallsInv'
  BY <1>1, PollInvParts, CallsComplete
<1>4. /\ values' \in [Device -> Reading \cup {NoReading}]
      /\ actual' \in [Device -> Reading \cup {NoReading}]
      /\ CacheIsFaithful'
  BY FreshReading DEF ReceiveRefresh, RecordSuccess
<1>5. /\ succeeded' \subseteq Device
      /\ misses' \in [Device -> 0 .. OfflineAfter]
      /\ age' \in [Device -> 0 .. OfflineAfter]
      /\ AgeIsExplained'
  <2>1. 0 \in 0 .. OfflineAfter
    BY PollAssumption
  <2> QED BY <1>1, <2>1, FreshAge DEF ReceiveRefresh, RecordSuccess
<1>6. TypeOK'
  BY <1>3, <1>4, <1>5 DEF PollInv, TypeOK, CallsInv, ReceiveRefresh, record
<1>7. AsleepIsDone'
  BY <1>1 DEF PollInv, AsleepIsDone, ReceiveRefresh
<1>8. SamplesAreBounded' /\ RowsAreFounded'
  BY DEF PollInv, SamplesAreBounded, RowsAreFounded, ReceiveRefresh, record
<1>9. AdjustmentIsOnRecord'
  BY <1>2 DEF PollInv, TypeOK, AdjustmentIsOnRecord, ReceiveRefresh, RecordSuccess, record
<1> QED BY <1>3, <1>4, <1>5, <1>6, <1>7, <1>8, <1>9, PollInvPartsNext DEF RecordsInv

(* An acknowledged write changes the cached offset, and only that.         *)
LEMMA ReceiveWriteInv ==
  ASSUME PollInv, NEW c \in calls, ReceiveWrite(c)
  PROVE  PollInv'
<1>0. c \in Call /\ c.dev \in Device /\ c.dev \in Commanded /\ c.got \in Offset
      /\ c.truth \in Truth /\ c.kind = "write" /\ c.stage = "answered"
  BY CallFields DEF PollInv, TypeOK, ManagersCommand, ReceiveWrite
<1>1. calls' = calls \ {c}
  BY RestIsWhole, PollInvParts DEF ReceiveWrite
<1>2. CallsInv'
  BY <1>1, PollInvParts, CallsComplete
<1>3. ASSUME NEW r \in Reading \cup {NoReading}, NEW o \in Offset
      PROVE  /\ WithOffset(r, o) \in Reading
             /\ WithOffset(r, o).offset = o
             /\ WithOffset(r, o).status = IF r = NoReading THEN Missing ELSE r.status
  <2>1. CASE r = NoReading
    BY <2>1 DEF WithOffset, Reading
  <2>2. CASE r # NoReading
    BY <2>2 DEF WithOffset, Reading
  <2> QED BY <2>1, <2>2
<1>4. c.truth.offset \in Offset
  BY <1>0 DEF Truth
<1>5. values[c.dev] \in Reading \cup {NoReading} /\ actual[c.dev] \in Reading \cup {NoReading}
  BY <1>0 DEF PollInv, TypeOK
<1>6. /\ values' = [values EXCEPT ![c.dev] = WithOffset(values[c.dev], c.got)]
      /\ actual' = [actual EXCEPT ![c.dev] = WithOffset(actual[c.dev], c.truth.offset)]
  BY DEF ReceiveWrite
<1>7. TypeOK'
  <2>1. /\ values' \in [Device -> Reading \cup {NoReading}]
        /\ actual' \in [Device -> Reading \cup {NoReading}]
    BY <1>0, <1>3, <1>4, <1>5, <1>6 DEF PollInv, TypeOK
  <2> QED BY <1>2, <2>1 DEF PollInv, TypeOK, CallsInv, ReceiveWrite, record
<1>8. AsleepIsDone'
  BY <1>1 DEF PollInv, AsleepIsDone, ReceiveWrite
<1>9. AgeIsExplained'
  BY <1>0, <1>1, OutstandingKept DEF PollInv, AgeIsExplained, ReceiveWrite
<1>10. CacheIsFaithful'
  <2> SUFFICES ASSUME NEW d \in Device
               PROVE  (IF values[d] = NoReading
                         THEN actual[d] = NoReading
                         ELSE /\ actual[d] # NoReading
                              /\ values[d].status \in {actual[d].status, Missing}
                              /\ d \notin StatusDrops \cup Commanded => values[d].status # Missing
                              /\ d \notin OffsetDrops \cup Refuses
                                   => values[d].offset = actual[d].offset)'
    BY DEF CacheIsFaithful
  <2>1. CASE d # c.dev
    <3>1. values'[d] = values[d] /\ actual'[d] = actual[d]
      BY <1>6, <2>1 DEF PollInv, TypeOK
    <3> QED BY <3>1 DEF PollInv, CacheIsFaithful
  <2>2. CASE d = c.dev
    <3>1. /\ values'[d] = WithOffset(values[d], c.got)
          /\ actual'[d] = WithOffset(actual[d], c.truth.offset)
      BY <1>6, <2>2 DEF PollInv, TypeOK
    <3>2. values'[d] # NoReading /\ actual'[d] # NoReading
      <4>1. values'[d] \in Reading
        BY <1>0, <1>3, <1>5, <2>2, <3>1
      <4>2. actual'[d] \in Reading
        BY <1>3, <1>4, <1>5, <2>2, <3>1
      <4>3. NoReading \notin Reading
        BY NoReadingAssumption
      <4> QED BY <4>1, <4>2, <4>3
    <3>3. values'[d].status \in {actual'[d].status, Missing}
      BY <1>0, <1>3, <1>4, <1>5, <2>2, <3>1 DEF PollInv, CacheIsFaithful
    <3>4. d \notin Refuses => values'[d].offset = actual'[d].offset
      BY <1>0, <1>3, <1>4, <1>5, <2>2, <3>1 DEF PollInv, AnswersAreFaithful
    <3> QED BY <1>0, <2>2, <3>2, <3>3, <3>4
  <2> QED BY <2>1, <2>2
<1>11. SamplesAreBounded' /\ RowsAreFounded'
  BY DEF PollInv, SamplesAreBounded, RowsAreFounded, ReceiveWrite, record
<1>12. AdjustmentIsOnRecord'
  BY <1>0, <1>6 DEF PollInv, TypeOK, AdjustmentIsOnRecord, ReceiveWrite, record
<1> QED BY <1>2, <1>7, <1>8, <1>9, <1>10, <1>11, <1>12, PollInvPartsNext DEF RecordsInv

(* What a row needs: with faithful readings a row means that the points    *)
(* differ from those behind the reading it is compared with ...            *)
LEMMA RowMeansChange ==
  ASSUME PollInv, NEW c \in calls, c.kind = "poll", c.stage = "answered",
         c.dev \notin OffsetDrops \cup Refuses,
         NoteSetpointChange(values[c.dev], c.got) \in {"temporary", "scheduled", "changed"}
  PROVE  actual[c.dev] # c.truth
<1> DEFINE v == values[c.dev]
<1>1. c.dev \in Device
  BY CallFields DEF PollInv, TypeOK
<1>2. v # NoReading /\ v.status # Missing /\ c.got.status # Missing
      /\ (v.status # c.got.status \/ AsNumber(v.offset) # AsNumber(c.got.offset))
  BY DEF NoteSetpointChange
<1>3. v.status = actual[c.dev].status /\ v.offset = actual[c.dev].offset
  BY <1>1, <1>2 DEF PollInv, CacheIsFaithful
<1>4. c.got.status = c.truth.status /\ c.got.offset = c.truth.offset
  BY <1>2 DEF PollInv, AnswersAreFaithful
<1> QED BY <1>2, <1>3, <1>4

(* ... and an adjustment that is news leaves one.                          *)
LEMMA NewsLeavesRow ==
  ASSUME NEW previous, NEW current,
         current.status = Temporary,
         previous # NoReading => previous.status # Missing,
         previous # NoReading => previous.status # Temporary
  PROVE  NoteSetpointChange(previous, current) \in {"observed", "temporary"}
  BY PollAssumption DEF NoteSetpointChange

(* A poll that is answered updates the cache and leaves its row.           *)
LEMMA ReceivePollInv ==
  ASSUME PollInv, NEW c \in calls, ReceivePoll(c)
  PROVE  PollInv'
<1> DEFINE row == NoteSetpointChange(values[c.dev], c.got)
<1>0. c \in Call /\ c.dev \in Device /\ c.kind = "poll" /\ c.stage = "answered"
  BY CallFields DEF PollInv, TypeOK, ReceivePoll
<1>1. calls' = calls \ {c}
  BY RestIsWhole, PollInvParts DEF ReceivePoll
<1>2. CallsInv'
  BY <1>1, PollInvParts, CallsComplete
<1>3. /\ values' = [values EXCEPT ![c.dev] = c.got]
      /\ actual' = [actual EXCEPT ![c.dev] = c.truth]
      /\ succeeded' = succeeded \cup {c.dev}
      /\ age' = [age EXCEPT ![c.dev] = 0]
      /\ pending' = pending
  BY DEF ReceivePoll, RecordSuccess
<1>4. PICK m \in 0 .. OfflineAfter : misses' = [misses EXCEPT ![c.dev] = m]
  <2>1. 0 \in 0 .. OfflineAfter /\ 1 \in 0 .. OfflineAfter
    BY PollAssumption
  <2> QED BY <2>1 DEF ReceivePoll, RecordSuccess
<1>5. row \in Row
  BY DEF NoteSetpointChange, Row
<1>6. \/ /\ trail' = IF row = "none" THEN trail ELSE [trail EXCEPT ![c.dev] = row]
         /\ unfounded' = IF row \in {"temporary", "scheduled", "changed"}
                            /\ actual[c.dev] = c.truth
                         THEN unfounded \cup {c.dev} ELSE unfounded
      \/ /\ c.dev \in LogFails
         /\ UNCHANGED <<trail, unfounded>>
  BY DEF ReceivePoll
<1> HIDE DEF row
<1>7. /\ values' \in [Device -> Reading \cup {NoReading}]
      /\ actual' \in [Device -> Reading \cup {NoReading}]
      /\ CacheIsFaithful'
  BY <1>0, <1>3, FreshReading
<1>8. /\ succeeded' \subseteq Device
      /\ misses' \in [Device -> 0 .. OfflineAfter]
      /\ age' \in [Device -> 0 .. OfflineAfter]
      /\ AgeIsExplained'
  BY <1>1, <1>3, <1>4, FreshAge
<1>9. TypeOK'
  <2>1. trail' \in [Device -> Row] /\ unfounded' \subseteq Device
    BY <1>0, <1>5, <1>6 DEF PollInv, TypeOK
  <2> QED BY <1>2, <1>7, <1>8, <2>1 DEF PollInv, TypeOK, CallsInv, ReceivePoll
<1>10. AsleepIsDone'
  BY <1>1 DEF PollInv, AsleepIsDone, ReceivePoll
<1>11. SamplesAreBounded'
  BY DEF PollInv, SamplesAreBounded, ReceivePoll
<1>12. RowsAreFounded'
  BY <1>0, <1>6, RowMeansChange DEF PollInv, RowsAreFounded, row
<1>13. AdjustmentIsOnRecord'
  <2> SUFFICES ASSUME NEW d \in Device \ (StatusDrops \cup Commanded \cup LogFails),
                      values'[d] # NoReading, values'[d].status = Temporary
               PROVE  trail'[d] \in Adjusted
    BY DEF AdjustmentIsOnRecord
  <2>1. CASE d # c.dev
    <3>1. values'[d] = values[d] /\ trail'[d] = trail[d]
      BY <1>3, <1>6, <2>1 DEF PollInv, TypeOK
    <3> QED BY <3>1 DEF PollInv, AdjustmentIsOnRecord
  <2>2. CASE d = c.dev
    <3>1. values'[d] = c.got
      BY <1>3, <2>2 DEF PollInv, TypeOK
    <3>2. trail' = IF row = "none" THEN trail ELSE [trail EXCEPT ![d] = row]
      BY <1>6, <2>2
    <3>3. CASE values[d] # NoReading /\ values[d].status = Temporary
      <4>1. trail[d] \in Adjusted
        BY <3>3 DEF PollInv, AdjustmentIsOnRecord
      <4>2. row # "scheduled"
        BY <3>1, <2>2 DEF row, NoteSetpointChange
      <4> QED BY <3>2, <4>1, <4>2, <1>5, <1>0, <2>2 DEF Adjusted, PollInv, TypeOK, Row
    <3>4. CASE values[d] = NoReading \/ values[d].status # Temporary
      <4>1. values[d] # NoReading => values[d].status # Missing
        BY DEF PollInv, CacheIsFaithful
      <4>2. row \in {"observed", "temporary"}
        BY <2>2, <3>1, <3>4, <4>1, NewsLeavesRow DEF row
      <4> QED BY <1>0, <2>2, <3>2, <4>2 DEF Adjusted, PollInv, TypeOK
    <3> QED BY <3>3, <3>4
  <2> QED BY <2>1, <2>2
<1> QED BY <1>2, <1>7, <1>8, <1>9, <1>10, <1>11, <1>12, <1>13, PollInvPartsNext DEF RecordsInv
-----------------------------------------------------------------------------
(* The loop.                                                               *)

(* Nothing is outstanding when a cycle ends, so an online device has been  *)
(* read OfflineAfter - 1 cycles ago at most.                               *)
LEMMA RecordHistoryInv ==
  ASSUME PollInv, RecordHistory
  PROVE  PollInv'
<1>1. \A d \in Device : ~Outstanding(d)
  BY DEF RecordHistory, Outstanding
<1>2. \A d \in Device : Online(d) => age[d] < OfflineAfter
  BY <1>1, PollAssumption DEF PollInv, TypeOK, AgeIsExplained, Online
<1>3. \A d \in Device : age[d] \in 0 .. NotSampled
  BY PollAssumption DEF PollInv, TypeOK, NotSampled
<1>4. sample' \in [Device -> 0 .. NotSampled]
  <2>1. NotSampled \in 0 .. NotSampled
    BY PollAssumption DEF NotSampled
  <2> QED BY <1>3, <2>1 DEF PollInv, TypeOK, RecordHistory
<1>5. CallsInv'
  BY PollInvParts, CallsComplete DEF RecordHistory
<1>6. TypeOK'
  BY <1>4, <1>5 DEF PollInv, TypeOK, CallsInv, RecordHistory, cache
<1>7. AsleepIsDone'
  BY DEF AsleepIsDone, RecordHistory
<1>8. AgeIsExplained'
  BY DEF PollInv, AgeIsExplained, Outstanding, RecordHistory, cache
<1>9. SamplesAreBounded'
  BY <1>2 DEF PollInv, SamplesAreBounded, RecordHistory
<1>10. CacheIsFaithful' /\ RowsAreFounded' /\ AdjustmentIsOnRecord'
  BY DEF PollInv, CacheIsFaithful, RowsAreFounded, AdjustmentIsOnRecord, RecordHistory, cache
<1> QED BY <1>5, <1>6, <1>7, <1>8, <1>9, <1>10, PollInvPartsNext DEF RecordsInv

(* Every reading grows older, and every device is asked again.             *)
LEMMA NextCycleInv ==
  ASSUME PollInv, NextCycle
  PROVE  PollInv'
<1>1. \A d \in Device : ~Outstanding(d)
  BY DEF PollInv, AsleepIsDone, NextCycle, Outstanding
<1>2. \A d \in Device : Saturate(age[d]) \in 0 .. OfflineAfter /\ Saturate(age[d]) <= age[d] + 1
  BY PollAssumption DEF PollInv, TypeOK, Saturate
<1>3. CallsInv'
  BY PollInvParts, CallsComplete DEF NextCycle
<1>4. TypeOK'
  <2>1. NotSampled \in 0 .. NotSampled
    BY PollAssumption DEF NotSampled
  <2> QED BY <1>2, <1>3, <2>1 DEF PollInv, TypeOK, CallsInv, NextCycle, cache
<1>5. AsleepIsDone'
  BY DEF AsleepIsDone, NextCycle
<1>6. AgeIsExplained'
  <2> SUFFICES ASSUME NEW e \in succeeded'
               PROVE  (age[e] <= misses[e] + 1 /\ Outstanding(e))'
    BY DEF AgeIsExplained
  <2>1. e \in succeeded /\ e \in Device /\ misses' = misses
    BY DEF PollInv, TypeOK, NextCycle, cache
  <2>2. age[e] <= misses[e] /\ age[e] \in Nat /\ misses[e] \in Nat
    BY <1>1, <2>1 DEF PollInv, TypeOK, AgeIsExplained
  <2>3. age'[e] = Saturate(age[e]) /\ e \in pending'
    BY <2>1 DEF NextCycle
  <2>4. Saturate(age[e]) \in Nat
    BY <1>2, <2>1
  <2> QED BY <1>2, <2>1, <2>2, <2>3, <2>4 DEF Outstanding
<1>7. SamplesAreBounded'
  BY DEF SamplesAreBounded, NextCycle
<1>8. CacheIsFaithful' /\ RowsAreFounded' /\ AdjustmentIsOnRecord'
  BY DEF PollInv, CacheIsFaithful, RowsAreFounded, AdjustmentIsOnRecord, NextCycle, cache
<1> QED BY <1>3, <1>4, <1>5, <1>6, <1>7, <1>8, PollInvPartsNext DEF RecordsInv

(* A restart empties the cache and abandons every request.                 *)
LEMMA RestartInv ==
  ASSUME PollInv, Restart
  PROVE  PollInv'
<1>1. CallsInv'
  BY PollInvParts, CallsComplete DEF Restart
<1>2. TypeOK'
  <2>1. /\ NotSampled \in 0 .. NotSampled
        /\ 0 \in 0 .. OfflineAfter /\ OfflineAfter \in 0 .. OfflineAfter
    BY PollAssumption DEF NotSampled
  <2> QED BY <1>1, <2>1 DEF PollInv, TypeOK, CallsInv, Restart
<1>3. AsleepIsDone' /\ AgeIsExplained'
  BY DEF AsleepIsDone, AgeIsExplained, Restart
<1>4. RecordsInv'
  BY DEF PollInv, RecordsInv, CacheIsFaithful, SamplesAreBounded, RowsAreFounded,
         AdjustmentIsOnRecord, Restart
<1> QED BY <1>1, <1>2, <1>3, <1>4, PollInvPartsNext
-----------------------------------------------------------------------------
(* The invariant, and the properties it contains.                          *)

(* PollInv holds in every reachable state.                                 *)
THEOREM PollInvariance == Spec => []PollInv
<1>1. Init => PollInv
  BY InitPollInv
<1>2. PollInv /\ [Next]_vars => PollInv'
  <2> SUFFICES ASSUME PollInv, [Next]_vars PROVE PollInv'
    OBVIOUS
  <2>1. CASE Environment
    <3> PICK d \in Device :
          \/ \E o \in Offset : Adjust(d, o) \/ StartWrite(d, o)
          \/ \E s \in Scheduled : RollOver(d, s)
          \/ FlipLink(d)
          \/ Command(d)
      BY <2>1 DEF Environment
    <3> QED BY WorldInv, StartOtherInv
  <2>2. ASSUME NEW d \in Device, StartPoll(d) \/ StartRefresh(d) PROVE PollInv'
    BY <2>2, StartPollInv, StartOtherInv
  <2>3. ASSUME NEW d \in Device, Progress(d) PROVE PollInv'
    <3> PICK c \in calls :
          \/ AnswerRead(c)  \/ AnswerWrite(c)
          \/ ReceivePoll(c)    \/ LosePoll(c)
          \/ ReceiveRefresh(c) \/ LoseRefresh(c)
          \/ ReceiveWrite(c)   \/ LoseWrite(c)
      BY <2>3 DEF Progress
    <3> QED BY AnswerReadInv, AnswerWriteInv, ReceivePollInv, LosePollInv,
               ReceiveRefreshInv, ReceiveWriteInv, LoseOtherInv
  <2>4. CASE RecordHistory \/ NextCycle \/ Restart
    BY <2>4, RecordHistoryInv, NextCycleInv, RestartInv
  <2>5. CASE UNCHANGED vars
    <3>1. CallsInv'
      BY <2>5, PollInvParts, CallsComplete DEF vars, bus
    <3>2. TypeOK' /\ AsleepIsDone' /\ AgeIsExplained'
      BY <2>5 DEF vars, bus, cache, record, PollInv, TypeOK, AsleepIsDone,
                  AgeIsExplained, Outstanding
    <3>3. RecordsInv'
      BY <2>5, PollInvParts, RecordsKept DEF vars, cache, record
    <3> QED BY <3>1, <3>2, <3>3, PollInvPartsNext
  <2> QED BY <2>1, <2>2, <2>3, <2>4, <2>5 DEF Next
<1> QED BY <1>1, <1>2, PTL DEF Spec

(* The types of the variables.                                             *)
THEOREM PollTypes == Spec => []TypeOK
<1>1. PollInv => TypeOK
  BY DEF PollInv
<1> QED BY <1>1, PollInvariance, PTL

(* A slow answer never puts an older value back into the cache             *)
(* (BacnetClient._request holds the device lock over the whole exchange).  *)
THEOREM NoStaleAnswers == Spec => []NoStaleAnswer
<1>1. PollInv => NoStaleAnswer
  BY DEF PollInv
<1> QED BY <1>1, PollInvariance, PTL

(* A sample holds no reading older than OfflineAfter - 1 cycles            *)
(* (Poller._record_history and DeviceState.online).                        *)
THEOREM SampleAge == Spec => []SamplesAreBounded
<1>1. PollInv => SamplesAreBounded
  BY DEF PollInv
<1> QED BY <1>1, PollInvariance, PTL

(* An audit row about a setpoint means that the thermostat's points moved  *)
(* (Poller._note_setpoint_change).                                         *)
THEOREM FoundedRows == Spec => []RowsAreFounded
<1>1. PollInv => RowsAreFounded
  BY DEF PollInv
<1> QED BY <1>1, PollInvariance, PTL

(* An adjustment in the cache is on record, across restarts                *)
(* (Poller._note_setpoint_change).                                         *)
THEOREM AdjustmentsOnRecord == Spec => []AdjustmentIsOnRecord
<1>1. PollInv => AdjustmentIsOnRecord
  BY DEF PollInv
<1> QED BY <1>1, PollInvariance, PTL

-----------------------------------------------------------------------------
(* The requests of the poller and of the routes, seen by the bus: a request*)
(* goes by the name of its device, and is on the wire from start to end.   *)
NoDevice == CHOOSE x : x \notin Device
OnTheWire == {c.dev : c \in calls}
Wanted == [d \in Device |-> IF d \in OnTheWire THEN d ELSE NoDevice]

Gate == INSTANCE FleetBus WITH Task <- Device, target <- Wanted, talking <- OnTheWire

LEMMA WantedIsOnTheWire ==
  \A d \in Device : Wanted[d] # NoDevice <=> d \in OnTheWire
<1>1. NoDevice \notin Device
  BY NoSetContainsEverything DEF NoDevice
<1>2. QED
  BY <1>1 DEF Wanted

(* As many requests as devices that have one.                              *)
LEMMA RequestsCounted ==
  ASSUME PollInv
  PROVE  IsFiniteSet(calls) /\ Cardinality(OnTheWire) = Cardinality(calls)
<1>1. \A c \in calls : c.dev \in Device
  BY CallFields DEF PollInv, TypeOK
<1>2. \A b, c \in calls : b.dev = c.dev => b = c
  BY DEF PollInv, OneRequestPerDevice
<1>3. IsFiniteSet(OnTheWire)
  <2>1. OnTheWire \subseteq Device
    BY <1>1 DEF OnTheWire
  <2>2. QED
    BY <2>1, PollAssumption, FS_Subset
<1> DEFINE f == [c \in calls |-> c.dev]
<1>4. f \in Injection(calls, OnTheWire) /\ f \in Surjection(calls, OnTheWire)
  BY <1>2 DEF Injection, Surjection, IsInjective, OnTheWire
<1> HIDE DEF f
<1>5. QED
  BY <1>3, <1>4, FS_Injection

(* A request that starts finds the bus with room for it.                   *)
LEMMA StartIsServed ==
  ASSUME PollInv, NEW d \in Device, Room(d), NEW n, n.dev = d, calls' = calls \cup {n}
  PROVE  Gate!AskAndStart(d, d)
<1>1. d \notin OnTheWire /\ OnTheWire' = OnTheWire \cup {d}
  BY DEF Room, OnTheWire
<1>2. Wanted[d] = NoDevice /\ Wanted' = [Wanted EXCEPT ![d] = d]
  BY <1>1 DEF Wanted
<1>3. Gate!Cardinality(OnTheWire) = Cardinality(OnTheWire)
  BY Zenon DEF Gate!Cardinality, Cardinality
<1>4. Gate!Room(d)
  <2>1. \A u \in OnTheWire : u \in Device /\ Wanted[u] = u
    BY CallFields DEF PollInv, TypeOK, OnTheWire, Wanted
  <2>2. Cardinality(OnTheWire) < Concurrency
    BY RequestsCounted DEF Room
  <2>3. QED
    BY <1>1, <1>3, <2>1, <2>2 DEF Gate!Room
<1>5. QED
  BY <1>1, <1>2, <1>4 DEF Gate!AskAndStart

LEMMA EndIsLeaving ==
  ASSUME PollInv, NEW c \in calls, calls' = calls \ {c}
  PROVE  c.dev \in Device /\ Gate!Leave(c.dev)
<1>1. c.dev \in Device /\ c.dev \in OnTheWire
  BY CallFields DEF PollInv, TypeOK, OnTheWire
<1>2. OnTheWire' = OnTheWire \ {c.dev}
  BY DEF OnTheWire, PollInv, OneRequestPerDevice
<1>3. Wanted' = [Wanted EXCEPT ![c.dev] = NoDevice]
  BY <1>1, <1>2 DEF Wanted
<1>4. QED
  BY <1>1, <1>2, <1>3, WantedIsOnTheWire DEF Gate!Leave

LEMMA SameOnTheWire ==
  ASSUME OnTheWire' = OnTheWire
  PROVE  UNCHANGED Gate!vars
BY DEF Gate!vars, Wanted

(* The poller, the refreshes and the writes ask of the bus what the gate   *)
(* provides (GateImplementsFleetBus), one request of a device at a time:   *)
(* every step is one of FleetBus, or the end of the process.               *)
THEOREM PollsRideTheBus == Spec => Gate!Init /\ [][Gate!Next \/ Restart]_(Gate!vars)
<1>1. Init => Gate!Init
  BY DEF Init, Gate!Init, OnTheWire, Wanted
<1>2. PollInv /\ [Next]_vars => [Gate!Next \/ Restart]_(Gate!vars)
  <2> SUFFICES ASSUME PollInv, [Next]_vars
               PROVE  Gate!Next \/ Restart \/ UNCHANGED Gate!vars
    OBVIOUS
  <2>1. CASE UNCHANGED calls
    BY <2>1, SameOnTheWire DEF OnTheWire
  <2>2. ASSUME NEW d \in Device,
               StartPoll(d) \/ StartRefresh(d) \/ \E o \in Offset : StartWrite(d, o)
        PROVE  Gate!Next
    <3>1. Room(d) /\ \E n : n.dev = d /\ calls' = calls \cup {n}
      BY <2>2 DEF StartPoll, StartRefresh, StartWrite
    <3>2. QED
      BY <3>1, StartIsServed DEF Gate!Next
  <2>3. ASSUME NEW d \in Device, Progress(d)
        PROVE  Gate!Next \/ UNCHANGED Gate!vars
    <3>1. PICK c \in calls :
            \/ AnswerRead(c)  \/ AnswerWrite(c)
            \/ ReceivePoll(c)    \/ LosePoll(c)
            \/ ReceiveRefresh(c) \/ LoseRefresh(c)
            \/ ReceiveWrite(c)   \/ LoseWrite(c)
      BY <2>3 DEF Progress
    <3>2. CASE AnswerRead(c) \/ AnswerWrite(c)
      <4>1. PICK n : n.dev = c.dev /\ calls' = (calls \ {c}) \cup {n}
        <5>1. \A s, t : [c EXCEPT !.stage = s, !.truth = t].dev = c.dev
          BY DEF PollInv, TypeOK, Call
        <5>2. CASE AnswerRead(c)
          <6> DEFINE now == Points(schedule[c.dev], offset[c.dev])
          <6>1. PICK r : calls' = (calls \ {c}) \cup
                  {[c EXCEPT !.stage = "answered", !.truth = now, !.got = r]}
            BY <5>2 DEF AnswerRead
          <6> DEFINE n == [c EXCEPT !.stage = "answered", !.truth = now, !.got = r]
          <6>2. n.dev = c.dev
            BY DEF PollInv, TypeOK, Call
          <6>3. calls' = (calls \ {c}) \cup {n}
            BY <6>1
          <6> HIDE DEF n
          <6>4. QED
            BY <6>2, <6>3
        <5>3. CASE AnswerWrite(c)
          <6>1. PICK o : calls' = (calls \ {c}) \cup
                  {[c EXCEPT !.stage = "answered", !.truth = Points(schedule[c.dev], o)]}
            BY <5>3 DEF AnswerWrite
          <6>2. QED
            BY <5>1, <6>1
        <5>4. QED
          BY <3>2, <5>2, <5>3
      <4>2. OnTheWire' = OnTheWire
        BY <4>1 DEF OnTheWire
      <4>3. QED
        BY <4>2, SameOnTheWire
    <3>3. CASE ~ (AnswerRead(c) \/ AnswerWrite(c))
      <4>1. Rest(c) = calls \ {c}
        BY PollInvParts, RestIsWhole
      <4>2. calls' = calls \ {c}
        BY <3>1, <3>3, <4>1 DEF ReceivePoll, LosePoll, ReceiveRefresh, LoseRefresh,
                                ReceiveWrite, LoseWrite
      <4>3. QED
        BY <4>2, EndIsLeaving DEF Gate!Next
    <3>4. QED
      BY <3>2, <3>3
  <2>4. CASE RecordHistory \/ NextCycle
    BY <2>1, <2>4 DEF RecordHistory, NextCycle
  <2>5. ASSUME Environment PROVE Gate!Next \/ UNCHANGED calls
    BY <2>2, <2>5 DEF Environment, Adjust, RollOver, FlipLink, Command, bus
  <2>6. CASE UNCHANGED vars
    BY <2>1, <2>6 DEF vars, bus
  <2>7. QED
    BY <2>1, <2>2, <2>3, <2>4, <2>5, <2>6 DEF Next
<1>3. QED
  BY <1>1, <1>2, PollInvariance, PTL DEF Spec
=============================================================================
