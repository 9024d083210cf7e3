-------------------------- MODULE Commands_proofs ---------------------------
(***************************************************************************)
(* Proofs about what people command: at a thermostat (DeviceCommands), for *)
(* any number of commands at once, any states and durations, and at the    *)
(* panel (Doors), for any users, any number of requests and any lifetimes. *)
(* The two have nothing in common but that a person waits for the answer.  *)
(***************************************************************************)
EXTENDS Doors, DeviceCommands, FiniteSetTheorems, SequenceTheorems, TLAPS

-----------------------------------------------------------------------------
(* Thermostats.  A command that is alone finds every write it has carried  *)
(* out still standing; what is said of the device where nothing crossed,   *)
(* was cut short or was set by hand follows from how far the one command at*)
(* work has got.                                                           *)

(* The commands of a kind, as sequences of writes, and where one has got to*)
(* in its own.                                                             *)
CommandsOf(kind) ==
  {<<w>> : w \in {v \in Write : KindOf(v) = kind}} \cup
    IF kind = "override" THEN {OverrideWrites(s) : s \in State}
    ELSE {BypassWrites(m) : m \in Duration}
Midway(c) ==
  /\ c.all \in CommandsOf(c.kind)
  /\ Len(c.left) \in 1..Len(c.all)
  /\ \A i \in 1..Len(c.left) : c.left[i] = c.all[Len(c.all) - Len(c.left) + i]
Carried(c) == 1..(Len(c.all) - Len(c.left))

Writing(r) == command[r].phase = "writing"

(* Commands of one kind write one at a time, or are known to have crossed; *)
(* a single write is known for one.                                        *)
AloneOK ==
  \A r \in Request : Writing(r) =>
    /\ ~command[r].alone => command[r].kind \in crossed \cup byHand
    /\ command[r].alone => ~Single(command[r].all)
    /\ \A q \in Request \ {r} :
         command[r].alone /\ Writing(q) => command[q].kind # command[r].kind

(* What a command has carried out stands at the device while it is alone,  *)
(* and its duration is one it has heard of in any case.                    *)
Standing(c, points) ==
  /\ Midway(c)
  /\ \A i \in Carried(c) :
       LET w == c.all[i]
       IN /\ c.alone => points[w.point] = w.value
          /\ w.point = "cfg" => points.cfg \in c.heard

CarriedOK == \A r \in Request : Writing(r) => Standing(command[r], device)

(* A bypass that has written one duration and not yet the other.           *)
Halfway(r) ==
  /\ Writing(r)
  /\ command[r].all[1].point = "cfg"
  /\ Carried(command[r]) = {1}

DurationsOK ==
  ( /\ device.minutes # 0
    /\ "bypass" \notin crossed \cup cut \cup byHand
    /\ \A r \in Request : ~Halfway(r) )
  => device.cfg = device.minutes

(* The page shows what the device holds but while a command of several     *)
(* writes is under way: a single write goes to both.                       *)
PageOK ==
  ~missed /\ (\A r \in Busy : Single(command[r].all)) => cache = device

(* The inductive invariant.                                                *)
CommandsInv ==
  /\ CommandsTypeOK
  /\ AloneOK
  /\ CarriedOK
  /\ NoOverrideLiesInWait
  /\ DurationsOK
  /\ PageOK

(* The commands one by one.                                                *)
LEMMA ListShape ==
  ASSUME NEW kind \in Kind, NEW l \in CommandsOf(kind)
  PROVE  \/ \E w \in Write : KindOf(w) = kind /\ l = <<w>>
         \/ /\ kind = "override"
            /\ \E s \in Forced : l = <<Set("gate", 1), Set("state", s)>>
         \/ kind = "override" /\ l = <<Set("state", NoOverride), Set("gate", 0)>>
         \/ /\ kind = "bypass"
            /\ \E m \in Minutes : l = <<Set("cfg", m), Set("minutes", m), Set("bypass", 1)>>
         \/ kind = "bypass" /\ l = <<Set("minutes", 0), Set("bypass", 0)>>
<1>1. CASE l \in {<<w>> : w \in {v \in Write : KindOf(v) = kind}}
  BY <1>1
<1>2. CASE kind = "override" /\ l \in {OverrideWrites(s) : s \in State}
  BY <1>2 DEF OverrideWrites, State
<1>3. CASE kind = "bypass" /\ l \in {BypassWrites(m) : m \in Duration}
  BY <1>3, CommandsAssumption DEF BypassWrites, Duration
<1>4. QED
  BY <1>1, <1>2, <1>3 DEF Kind, CommandsOf

PointsOf(kind) == IF kind = "override" THEN {"gate", "state"} ELSE {"cfg", "minutes", "bypass"}

LEMMA Writes ==
  /\ \A v \in {0, 1} : Set("gate", v) \in Write /\ Set("bypass", v) \in Write
  /\ \A s \in State : Set("state", s) \in Write
  /\ \A m \in Duration : Set("cfg", m) \in Write /\ Set("minutes", m) \in Write
BY DEF Set, Write

LEMMA KindsOfWrites ==
  ASSUME NEW w \in Write
  PROVE  KindOf(w) \in Kind /\ w.point \in PointsOf(KindOf(w))
BY DEF Write, KindOf, Kind, PointsOf

(* A command writes legal values to points of its own kind, each once.     *)
LEMMA ListFacts ==
  ASSUME NEW kind \in Kind, NEW l \in CommandsOf(kind)
  PROVE  /\ l \in Seq(Write)
         /\ Len(l) \in {1, 2, 3}
         /\ \A i \in 1..Len(l) : l[i] \in Write /\ l[i].point \in PointsOf(kind)
         /\ \A i, j \in 1..Len(l) : l[i].point = l[j].point => i = j
<1>0. CASE \E w \in Write : KindOf(w) = kind /\ l = <<w>>
  <2> PICK w \in Write : KindOf(w) = kind /\ l = <<w>>
    BY <1>0
  <2>1. w.point \in PointsOf(kind)
    BY KindsOfWrites
  <2>2. l \in Seq(Write) /\ Len(l) = 1 /\ l[1] = w
    OBVIOUS
  <2>3. 1..1 = {1}
    OBVIOUS
  <2>4. QED
    BY <2>1, <2>2, <2>3
<1>1. CASE \E s \in Forced : l = <<Set("gate", 1), Set("state", s)>> /\ kind = "override"
  <2> PICK s \in Forced : l = <<Set("gate", 1), Set("state", s)>>
    BY <1>1
  <2>1. Set("gate", 1) \in Write /\ Set("state", s) \in Write
    BY Writes DEF State
  <2>2. QED
    BY <1>1, <2>1 DEF Set, PointsOf
<1>2. CASE kind = "override" /\ l = <<Set("state", NoOverride), Set("gate", 0)>>
  <2>1. Set("gate", 0) \in Write /\ Set("state", NoOverride) \in Write
    BY Writes DEF State
  <2>2. QED
    BY <1>2, <2>1 DEF Set, PointsOf
<1>3. CASE \E m \in Minutes : l = <<Set("cfg", m), Set("minutes", m), Set("bypass", 1)>>
                              /\ kind = "bypass"
  <2> PICK m \in Minutes : l = <<Set("cfg", m), Set("minutes", m), Set("bypass", 1)>>
    BY <1>3
  <2>1. Set("cfg", m) \in Write /\ Set("minutes", m) \in Write /\ Set("bypass", 1) \in Write
    BY Writes DEF Duration
  <2>2. QED
    BY <1>3, <2>1 DEF Set, PointsOf
<1>4. CASE kind = "bypass" /\ l = <<Set("minutes", 0), Set("bypass", 0)>>
  <2>1. Set("minutes", 0) \in Write /\ Set("bypass", 0) \in Write
    BY Writes DEF Duration
  <2>2. QED
    BY <1>4, <2>1 DEF Set, PointsOf
<1>5. QED
  BY <1>0, <1>1, <1>2, <1>3, <1>4, ListShape

(* A write changes its point, to a value the point takes.                  *)
LEMMA PointChanges ==
  ASSUME NEW d \in Points, NEW w \in Write
  PROVE  /\ [d EXCEPT ![w.point] = w.value] \in Points
         /\ \A p \in {"gate", "state", "cfg", "minutes", "bypass"} :
              [d EXCEPT ![w.point] = w.value][p] = IF p = w.point THEN w.value ELSE d[p]
<1>1. w.point \in {"gate", "state", "cfg", "minutes", "bypass"}
  BY DEF Write
<1>2. CASE w \in [point : {"gate", "bypass"}, value : {0, 1}]
  BY <1>2 DEF Points
<1>3. CASE w \in [point : {"state"}, value : State]
  BY <1>3 DEF Points
<1>4. CASE w \in [point : {"cfg", "minutes"}, value : Duration]
  BY <1>4 DEF Points
<1>5. QED
  BY <1>2, <1>3, <1>4 DEF Write

LEMMA NextWrite ==
  ASSUME NEW l \in Seq(Write), NEW all \in Seq(Write), Len(l) \in 1..Len(all),
         \A i \in 1..Len(l) : l[i] = all[Len(all) - Len(l) + i]
  PROVE  /\ Head(l) = all[Len(all) - Len(l) + 1]
         /\ Len(all) - Len(l) + 1 \in 1..Len(all)
         /\ Head(l) \in Write
         /\ Tail(l) \in Seq(Write)
         /\ Len(Tail(l)) = Len(l) - 1
         /\ \A i \in 1..Len(Tail(l)) : Tail(l)[i] = all[Len(all) - Len(Tail(l)) + i]
<1>1. Len(all) \in Nat /\ Len(l) \in Nat /\ l # <<>>
  OBVIOUS
<1>2. Head(l) = l[1] /\ l[1] \in Write
  BY <1>1
<1>3. Tail(l) \in Seq(Write) /\ Len(Tail(l)) = Len(l) - 1
  BY <1>1
<1>4. \A i \in 1..Len(Tail(l)) : Tail(l)[i] = l[i + 1]
  BY <1>1
<1>5. ASSUME NEW i \in 1..Len(Tail(l))
      PROVE  Tail(l)[i] = all[Len(all) - Len(Tail(l)) + i]
  <2>1. i + 1 \in 1..Len(l) /\ Len(all) - Len(l) + (i + 1) = Len(all) - Len(Tail(l)) + i
    BY <1>1, <1>3
  <2>2. QED
    BY <1>4, <2>1
<1>6. Head(l) = all[Len(all) - Len(l) + 1] /\ Len(all) - Len(l) + 1 \in 1..Len(all)
  BY <1>1, <1>2
<1>7. QED
  BY <1>2, <1>3, <1>5, <1>6

(* The next write of a command at work.                                    *)
LEMMA AtWork ==
  ASSUME CommandsInv, NEW r \in Request, Writing(r)
  PROVE  LET c == command[r]
             n == Len(c.all) - Len(c.left)
             w == Head(c.left)
         IN /\ c \in Command /\ c.kind \in Kind /\ c.all \in CommandsOf(c.kind)
            /\ n \in 0..2 /\ n + 1 \in 1..Len(c.all)
            /\ w = c.all[n + 1] /\ w \in Write /\ w.point \in PointsOf(c.kind)
            /\ Tail(c.left) \in Seq(Write) /\ Len(Tail(c.left)) = Len(c.left) - 1
            /\ \A i \in 1..Len(Tail(c.left)) :
                 Tail(c.left)[i] = c.all[Len(c.all) - Len(Tail(c.left)) + i]
<1> DEFINE c == command[r]
<1>1. c \in Command /\ c.all \in Seq(Write) /\ c.left \in Seq(Write) /\ c.kind \in Kind
  BY DEF CommandsInv, CommandsTypeOK, Command
<1>2. Midway(c)
  BY DEF CommandsInv, CarriedOK, Standing
<1> HIDE DEF c
<1>3. /\ Len(c.left) \in 1..Len(c.all)
      /\ \A i \in 1..Len(c.left) : c.left[i] = c.all[Len(c.all) - Len(c.left) + i]
      /\ c.all \in CommandsOf(c.kind)
  BY <1>2 DEF Midway
<1>4. Len(c.all) \in {1, 2, 3} /\ \A i \in 1..Len(c.all) : c.all[i].point \in PointsOf(c.kind)
  BY <1>1, <1>3, ListFacts
<1>5. /\ Head(c.left) = c.all[Len(c.all) - Len(c.left) + 1]
      /\ Len(c.all) - Len(c.left) + 1 \in 1..Len(c.all)
      /\ Head(c.left) \in Write
      /\ Tail(c.left) \in Seq(Write)
      /\ Len(Tail(c.left)) = Len(c.left) - 1
      /\ \A i \in 1..Len(Tail(c.left)) :
           Tail(c.left)[i] = c.all[Len(c.all) - Len(Tail(c.left)) + i]
  BY <1>1, <1>3, NextWrite
<1>6. Len(c.all) - Len(c.left) \in 0..2
  BY <1>3, <1>4
<1>7. QED
  BY <1>1, <1>3, <1>4, <1>5, <1>6 DEF c

(* A write of a command, applied.                                          *)
LEMMA Applied ==
  ASSUME CommandsInv, NEW r \in Request, Writing(r), Carry(Head(command[r].left))
  PROVE  LET w == Head(command[r].left)
         IN /\ device' \in Points
            /\ \A p \in {"gate", "state", "cfg", "minutes", "bypass"} :
                 device'[p] = IF p = w.point THEN w.value ELSE device[p]
<1>1. Head(command[r].left) \in Write
  BY AtWork
<1>2. device \in Points
  BY DEF CommandsInv, CommandsTypeOK
<1>3. QED
  BY <1>1, <1>2, PointChanges DEF Carry

(* The gate is opened before the override, and closed after its release.   *)
LEMMA OverrideWrite ==
  ASSUME CommandsInv, NEW r \in Request, Writing(r), Carry(Head(command[r].left)),
         command[r].kind = "override", command[r].alone
  PROVE  device'.gate # 0 \/ device'.state = NoOverride
<1> DEFINE c == command[r]
           n == Len(c.all) - Len(c.left)
           w == Head(c.left)
<1>1. /\ c.all \in CommandsOf("override") /\ n \in 0..2 /\ n + 1 \in 1..Len(c.all)
      /\ w = c.all[n + 1]
  BY AtWork
<1>2. \A i \in 1..n : device[c.all[i].point] = c.all[i].value
  BY DEF CommandsInv, CarriedOK, Standing, Carried
<1>3. \A p \in {"gate", "state"} : device'[p] = IF p = w.point THEN w.value ELSE device[p]
  BY Applied
<1>4. "override" \in Kind /\ Len(c.all) # 1
  BY DEF Kind, CommandsInv, AloneOK, Single
<1> HIDE DEF c, w
<1>5. CASE \E s \in Forced : c.all = <<Set("gate", 1), Set("state", s)>>
  <2> PICK s \in Forced : c.all = <<Set("gate", 1), Set("state", s)>>
    BY <1>5
  <2>1. /\ Len(c.all) = 2 /\ c.all[1].point = "gate" /\ c.all[1].value = 1
        /\ c.all[2].point = "state"
    BY DEF Set
  <2> HIDE DEF n
  <2>2. n = 0 \/ n = 1
    BY <1>1, <2>1
  <2>3. CASE n = 0
    BY <1>1, <1>3, <2>1, <2>3
  <2>4. CASE n = 1
    BY <1>1, <1>2, <1>3, <2>1, <2>4
  <2>5. QED
    BY <2>2, <2>3, <2>4
<1>6. CASE c.all = <<Set("state", NoOverride), Set("gate", 0)>>
  <2>1. /\ Len(c.all) = 2 /\ c.all[1].point = "state" /\ c.all[1].value = NoOverride
        /\ c.all[2].point = "gate"
    BY <1>6 DEF Set
  <2> HIDE DEF n
  <2>2. n = 0 \/ n = 1
    BY <1>1, <2>1
  <2>3. CASE n = 0
    BY <1>1, <1>3, <2>1, <2>3
  <2>4. CASE n = 1
    BY <1>1, <1>2, <1>3, <2>1, <2>4
  <2>5. QED
    BY <2>2, <2>3, <2>4
<1>7. QED
  BY <1>1, <1>4, <1>5, <1>6, ListShape

(* The two durations of a bypass agree but between their two writes.       *)
LEMMA BypassWrite ==
  ASSUME CommandsInv, NEW r \in Request, Writing(r), Carry(Head(command[r].left)),
         command[r].kind = "bypass", command[r].alone
  PROVE  \/ command[r].all[1].point = "cfg" /\ Len(command[r].left) = Len(command[r].all)
         \/ device'.minutes = 0
         \/ device'.cfg = device'.minutes
<1> DEFINE c == command[r]
           n == Len(c.all) - Len(c.left)
           w == Head(c.left)
<1>1. /\ c.all \in CommandsOf("bypass") /\ n \in 0..2 /\ n + 1 \in 1..Len(c.all)
      /\ w = c.all[n + 1]
  BY AtWork
<1>2. \A i \in 1..n : device[c.all[i].point] = c.all[i].value
  BY DEF CommandsInv, CarriedOK, Standing, Carried
<1>3. \A p \in {"cfg", "minutes"} : device'[p] = IF p = w.point THEN w.value ELSE device[p]
  BY Applied
<1>4. n = 0 => Len(c.left) = Len(c.all)
  <2>1. c.left \in Seq(Write) /\ c.all \in Seq(Write)
    BY DEF CommandsInv, CommandsTypeOK, Command
  <2>2. QED
    BY <2>1
<1>5. "bypass" \in Kind /\ Len(c.all) # 1
  BY DEF Kind, CommandsInv, AloneOK, Single
<1> HIDE DEF c, w
<1>6. CASE \E m \in Minutes : c.all = <<Set("cfg", m), Set("minutes", m), Set("bypass", 1)>>
  <2> PICK m \in Minutes : c.all = <<Set("cfg", m), Set("minutes", m), Set("bypass", 1)>>
    BY <1>6
  <2>1. /\ Len(c.all) = 3 /\ c.all[1].point = "cfg" /\ c.all[1].value = m
        /\ c.all[2].point = "minutes" /\ c.all[2].value = m /\ c.all[3].point = "bypass"
    BY DEF Set
  <2> HIDE DEF n
  <2>2. CASE n = 0
    BY <1>4, <1>5, <2>1, <2>2 DEF c
  <2>3. CASE n = 1
    BY <1>1, <1>2, <1>3, <2>1, <2>3
  <2>4. CASE n = 2
    <3>1. device["cfg"] = m /\ device["minutes"] = m
      BY <1>2, <2>1, <2>4
    <3>2. QED
      BY <1>1, <1>3, <2>1, <2>4, <3>1
  <2>5. QED
    BY <1>1, <2>2, <2>3, <2>4
<1>7. CASE c.all = <<Set("minutes", 0), Set("bypass", 0)>>
  <2>1. /\ Len(c.all) = 2 /\ c.all[1].point = "minutes" /\ c.all[1].value = 0
        /\ c.all[2].point = "bypass"
    BY <1>7 DEF Set
  <2> HIDE DEF n
  <2>2. n = 0 \/ n = 1
    BY <1>1, <2>1
  <2>3. CASE n = 0
    BY <1>1, <1>3, <2>1, <2>3
  <2>4. CASE n = 1
    BY <1>1, <1>2, <1>3, <2>1, <2>4
  <2>5. QED
    BY <2>2, <2>3, <2>4
<1>8. QED
  BY <1>1, <1>5, <1>6, <1>7, ListShape

(* What the others have carried out, after a write: it stands for whoever  *)
(* is alone, and whoever is at work has heard of the duration.             *)
LEMMA OthersStand ==
  ASSUME CommandsInv, NEW r \in Request, Writing(r), NEW q \in Request \ {r}, Writing(q),
         device' = device \/ Carry(Head(command[r].left)),
         command[q].heard \subseteq command'[q].heard,
         device' # device => command'[q].heard = Hear(Head(command[r].left), q),
         NEW i \in Carried(command[q])
  PROVE  LET w == command[q].all[i]
         IN /\ command[q].alone => device'[w.point] = w.value
            /\ w.point = "cfg" => device'.cfg \in command'[q].heard
<1> DEFINE w == command[q].all[i]
           v == Head(command[r].left)
<1>1. /\ command[q].alone => device[w.point] = w.value
      /\ w.point = "cfg" => device.cfg \in command[q].heard
  BY DEF CommandsInv, CarriedOK, Standing
<1>2. /\ v \in Write /\ v.point \in PointsOf(command[r].kind)
      /\ command[r].kind \in Kind
  BY AtWork
<1>3. w \in Write /\ w.point \in PointsOf(command[q].kind) /\ command[q].kind \in Kind
  <2>1. /\ command[q].all \in CommandsOf(command[q].kind) /\ command[q].kind \in Kind
        /\ Len(command[q].left) \in 1..Len(command[q].all)
    BY DEF CommandsInv, CarriedOK, Standing, Midway, CommandsTypeOK, Command
  <2>2. i \in 1..Len(command[q].all)
    <3>1. Len(command[q].all) \in {1, 2, 3}
      BY <2>1, ListFacts
    <3>2. QED
      BY <2>1, <3>1 DEF Carried
  <2>3. QED
    BY <2>1, <2>2, ListFacts
<1>4. command[q].alone => command[r].kind # command[q].kind
  BY DEF CommandsInv, AloneOK
<1> HIDE DEF w
<1>5. CASE device' = device
  BY <1>1, <1>5 DEF w
<1>6. CASE device' # device
  <2>1. \A p \in {"gate", "state", "cfg", "minutes", "bypass"} :
          device'[p] = IF p = v.point THEN v.value ELSE device[p]
    BY <1>6, Applied
  <2>2. w.point \in {"gate", "state", "cfg", "minutes", "bypass"}
    BY <1>3 DEF PointsOf
  <2>3. command[q].alone => w.point # v.point
    BY <1>2, <1>3, <1>4 DEF PointsOf, Kind
  <2>4. q \in Busy
    BY DEF Busy, Writing
  <2>5. v.point = "cfg" => v.value \in command'[q].heard
    BY <1>6, <2>4 DEF Hear
  <2> HIDE DEF v
  <2>6. QED
    BY <1>1, <2>1, <2>2, <2>3, <2>5 DEF w
<1>7. QED
  BY <1>5, <1>6

LEMMA NoCommandOK == NoCommand \in Command /\ NoCommand.phase = "idle"
BY DEF NoCommand, Command, Kind

LEMMA FromTheStart ==
  ASSUME NEW l, Len(l) \in {1, 2, 3}
  PROVE  /\ Len(l) \in 1..Len(l)
         /\ \A i \in 1..Len(l) : Len(l) - Len(l) + i = i
         /\ 1..(Len(l) - Len(l)) = {}
OBVIOUS

LEMMA GiveGood ==
  ASSUME CommandsInv, NEW r \in Request, NEW kind \in Kind, NEW writes \in CommandsOf(kind),
         Give(r, kind, writes)
  PROVE  CommandsInv'
<1> DEFINE lone == Beside(r, kind) = {}
           c == [phase |-> "writing", kind |-> kind, all |-> writes, left |-> writes,
                 alone |-> lone /\ ~Single(writes), heard |-> {}]
<1>1. /\ ~Writing(r) /\ given < MaxCommands /\ given' = given + 1
      /\ command' = [q \in Request |->
           IF q = r THEN c ELSE [command[q] EXCEPT !.alone = @ /\ q \notin Beside(r, kind)]]
      /\ crossed' = IF lone THEN crossed ELSE crossed \cup {kind}
      /\ byHand' = IF Single(writes) THEN byHand \cup {kind} ELSE byHand
      /\ UNCHANGED <<device, cache, cut, missed>>
  BY DEF Give, Busy, Writing
<1>2. writes \in Seq(Write) /\ Len(writes) \in {1, 2, 3}
  BY ListFacts
<1>3. c \in Command
  <2>1. (lone /\ ~Single(writes)) \in BOOLEAN
    OBVIOUS
  <2>2. QED
    BY <1>2, <2>1 DEF Command
<1>4. ASSUME NEW q \in Request \ {r}
      PROVE  /\ command'[q] \in Command
             /\ command'[q].phase = command[q].phase /\ command'[q].kind = command[q].kind
             /\ command'[q].all = command[q].all /\ command'[q].left = command[q].left
             /\ command'[q].heard = command[q].heard
             /\ command'[q].alone = (command[q].alone /\ q \notin Beside(r, kind))
  <2>1. command[q] \in Command
    BY DEF CommandsInv, CommandsTypeOK
  <2>2. command'[q] = [command[q] EXCEPT !.alone = @ /\ q \notin Beside(r, kind)]
    BY <1>1
  <2>3. (command[q].alone /\ q \notin Beside(r, kind)) \in BOOLEAN
    OBVIOUS
  <2>4. QED
    BY <2>1, <2>2, <2>3 DEF Command
<1>5. command'[r] = c
  BY <1>1
<1>6. \A q \in Request \ {r} : q \in Beside(r, kind) <=> Writing(q) /\ command[q].kind = kind
  BY DEF Beside, Busy, Writing
<1>7. /\ c.phase = "writing" /\ c.kind = kind /\ c.all = writes /\ c.left = writes
      /\ c.alone = (lone /\ ~Single(writes))
  OBVIOUS
<1>8. lone <=> \A q \in Request \ {r} : q \notin Beside(r, kind)
  BY DEF Beside, Busy
<1> HIDE DEF lone, c
<1>9. CommandsTypeOK'
  <2>1. given' \in 0..MaxCommands
    BY <1>1, CommandsAssumption DEF CommandsInv, CommandsTypeOK
  <2>2. command' \in [Request -> Command]
    BY <1>1, <1>3, <1>4, <1>5
  <2>3. QED
    BY <1>1, <2>1, <2>2 DEF CommandsInv, CommandsTypeOK
<1>10. AloneOK'
  <2> SUFFICES ASSUME NEW q \in Request, Writing(q)'
               PROVE  /\ ~command'[q].alone => command'[q].kind \in crossed' \cup byHand'
                      /\ command'[q].alone => ~Single(command'[q].all)
                      /\ \A p \in Request \ {q} :
                           command'[q].alone /\ Writing(p)' => command'[p].kind # command'[q].kind
    BY DEF AloneOK, Single
  <2>1. CASE q = r
    <3>1. /\ ~command'[q].alone => command'[q].kind \in crossed' \cup byHand'
          /\ command'[q].alone => ~Single(command'[q].all)
      BY <1>1, <1>5, <1>7, <2>1
    <3>2. ASSUME NEW p \in Request \ {q}, command'[q].alone, Writing(p)'
          PROVE  command'[p].kind # command'[q].kind
      <4>1. lone
        BY <1>5, <1>7, <2>1, <3>2
      <4>2. p \in Request \ {r} /\ Writing(p) /\ command'[p].kind = command[p].kind
        BY <1>4, <2>1, <3>2 DEF Writing
      <4>3. QED
        BY <1>5, <1>6, <1>7, <1>8, <2>1, <4>1, <4>2
    <3>3. QED
      BY <3>1, <3>2
  <2>2. CASE q # r
    <3>1. Writing(q) /\ command'[q].kind = command[q].kind
      BY <1>4, <2>2 DEF Writing
    <3>0. command'[q].alone => ~Single(command'[q].all)
      BY <1>4, <2>2, <3>1 DEF CommandsInv, AloneOK
    <3>2. ASSUME ~command'[q].alone PROVE command'[q].kind \in crossed' \cup byHand'
      <4>1. CASE q \in Beside(r, kind)
        BY <1>1, <1>6, <1>8, <2>2, <3>1, <4>1
      <4>2. CASE q \notin Beside(r, kind)
        <5>1. ~command[q].alone
          BY <1>4, <2>2, <3>2, <4>2
        <5>2. command[q].kind \in crossed \cup byHand
          BY <3>1, <5>1 DEF CommandsInv, AloneOK
        <5>3. QED
          BY <1>1, <3>1, <5>2
      <4>3. QED
        BY <4>1, <4>2
    <3>3. ASSUME NEW p \in Request \ {q}, command'[q].alone, Writing(p)'
          PROVE  command'[p].kind # command'[q].kind
      <4>1. CASE p = r
        BY <1>4, <1>5, <1>6, <1>7, <2>2, <3>1, <3>3, <4>1
      <4>2. CASE p # r
        <5>1. Writing(p) /\ command'[p].kind = command[p].kind
          BY <1>4, <3>3, <4>2 DEF Writing
        <5>2. command[q].alone
          BY <1>4, <2>2, <3>3
        <5>3. QED
          BY <3>1, <5>1, <5>2 DEF CommandsInv, AloneOK
      <4>3. QED
        BY <4>1, <4>2
    <3>4. QED
      BY <3>0, <3>2, <3>3
  <2>3. QED
    BY <2>1, <2>2
<1>11. CarriedOK'
  <2> SUFFICES ASSUME NEW q \in Request, Writing(q)'
               PROVE  Standing(command'[q], device')
    BY DEF CarriedOK
  <2>1. CASE q = r
    <3>1. Midway(c)
      BY <1>2, <1>7, FromTheStart DEF Midway
    <3>2. Carried(c) = {}
      BY <1>2, <1>7, FromTheStart DEF Carried
    <3>3. QED
      BY <1>5, <2>1, <3>1, <3>2 DEF Standing
  <2>2. CASE q # r
    <3>1. Writing(q)
      BY <1>4, <2>2 DEF Writing
    <3>2. Midway(command[q])
      BY <3>1 DEF CommandsInv, CarriedOK, Standing
    <3>3. /\ command'[q].kind = command[q].kind /\ command'[q].all = command[q].all
          /\ command'[q].left = command[q].left /\ command'[q].heard = command[q].heard
          /\ command'[q].alone => command[q].alone
      BY <1>4, <2>2
    <3>4. Midway(command'[q]) /\ Carried(command'[q]) = Carried(command[q])
      BY <3>2, <3>3 DEF Midway, Carried
    <3>5. QED
      BY <1>1, <3>1, <3>3, <3>4 DEF CommandsInv, CarriedOK, Standing
  <2>3. QED
    BY <2>1, <2>2
<1>12. NoOverrideLiesInWait'
  BY <1>1 DEF CommandsInv, NoOverrideLiesInWait
<1>13. DurationsOK'
  <2>1. \A q \in Request : Halfway(q) => Halfway(q)'
    BY <1>1, <1>4 DEF Halfway, Writing, Carried
  <2>2. QED
    BY <1>1, <2>1 DEF CommandsInv, DurationsOK
<1>14. PageOK'
  <2> SUFFICES ASSUME ~missed, NEW q \in Busy, ~Single(command[q].all)
               PROVE  \E p \in Request : command'[p].phase # "idle" /\ ~Single(command'[p].all)
    BY <1>1 DEF CommandsInv, PageOK, Busy, Single
  <2>1. q \in Request \ {r} /\ command[q].phase # "idle"
    BY DEF Give, Busy
  <2>2. QED
    BY <1>4, <2>1
<1>15. QED
  BY <1>9, <1>10, <1>11, <1>12, <1>13, <1>14 DEF CommandsInv

(* What a command notes in the page are legal values of its points.        *)
LEMMA NotedType ==
  ASSUME CommandsInv, NEW kind \in Kind, NEW writes \in CommandsOf(kind)
  PROVE  Noted(writes) \in Points
<1>1. cache \in Points
  BY DEF CommandsInv, CommandsTypeOK
<1>2. DOMAIN cache = {"gate", "state", "cfg", "minutes", "bypass"}
  BY <1>1 DEF Points
<1> DEFINE Written(p) == \E i \in DOMAIN writes : writes[i].point = p
           last(p) == writes[CHOOSE i \in DOMAIN writes : writes[i].point = p]
<1>3. \A p \in DOMAIN cache : Written(p) => last(p) \in Write /\ last(p).point = p
  <2>1. DOMAIN writes = 1..Len(writes) /\ \A i \in 1..Len(writes) : writes[i] \in Write
    BY ListFacts
  <2>2. QED
    BY <2>1
<1>4. Noted(writes) = [p \in {"gate", "state", "cfg", "minutes", "bypass"} |->
                         IF (p # "cfg" \/ Single(writes)) /\ Written(p)
                         THEN last(p).value ELSE cache[p]]
  BY <1>2 DEF Noted
<1> HIDE DEF Written, last
<1>5. /\ Noted(writes)["gate"] \in {0, 1} /\ Noted(writes)["bypass"] \in {0, 1}
      /\ Noted(writes)["state"] \in State
      /\ Noted(writes)["cfg"] \in Duration /\ Noted(writes)["minutes"] \in Duration
  BY <1>1, <1>2, <1>3, <1>4 DEF Points, Write
<1>6. QED
  BY <1>4, <1>5 DEF Points

(* The page notes a single write as the device takes it.                   *)
LEMMA SingleNoted ==
  ASSUME CommandsInv, NEW w \in Write, cache = device
  PROVE  Noted(<<w>>) = [device EXCEPT ![w.point] = w.value]
<1> DEFINE l == <<w>>
<1>1. DOMAIN l = {1} /\ l[1] = w /\ Len(l) = 1
  OBVIOUS
<1>2. w.point \in {"gate", "state", "cfg", "minutes", "bypass"} /\ device \in Points
  BY DEF Write, CommandsInv, CommandsTypeOK
<1> HIDE DEF l
<1>3. ASSUME NEW p
      PROVE  /\ (\E i \in DOMAIN l : l[i].point = p) <=> p = w.point
             /\ p = w.point => l[CHOOSE i \in DOMAIN l : l[i].point = p] = w
  BY <1>1
<1>4. Noted(l) = [p \in DOMAIN device |-> IF p = w.point THEN w.value ELSE device[p]]
  BY <1>1, <1>3 DEF Noted, Single
<1>5. [device EXCEPT ![w.point] = w.value]
        = [p \in DOMAIN device |-> IF p = w.point THEN w.value ELSE device[p]]
  BY <1>2 DEF Points
<1>6. QED
  BY <1>4, <1>5 DEF l

(* A write, as it touches everything but the page: the others go on, and   *)
(* hear of a duration; the writer goes on, is done, or has lost its answer.*)
OthersHear(r) ==
  \A q \in Request \ {r} :
    /\ command'[q].phase = command[q].phase /\ command'[q].kind = command[q].kind
    /\ command'[q].all = command[q].all /\ command'[q].left = command[q].left
    /\ command'[q].alone = command[q].alone
    /\ command[q].heard \subseteq command'[q].heard
    /\ device' # device => command'[q].heard = Hear(Head(command[r].left), q)

WriteStep(r) ==
  LET c == command[r]
      w == Head(c.left)
  IN /\ Writing(r)
     /\ OthersHear(r)
     /\ \/ /\ Carry(w)
           /\ Len(c.left) # 1 => Writing(r)'
           /\ \/ UNCHANGED <<crossed, cut, byHand>>
              \/ /\ c.alone /\ crossed' = crossed \ {c.kind} /\ cut' = cut \ {c.kind}
                 /\ byHand' = byHand \ {c.kind}
        \/ /\ device' = device \/ Carry(w)
           /\ ~Writing(r)'
           /\ UNCHANGED <<crossed, byHand>> /\ cut' = cut \cup {c.kind}
     /\ Writing(r)' =>
          /\ Len(c.left) # 1 /\ UNCHANGED <<crossed, byHand>>
          /\ command'[r].kind = c.kind /\ command'[r].all = c.all /\ command'[r].alone = c.alone
          /\ command'[r].left = Tail(c.left) /\ command'[r].heard = Hear(w, r)

LEMMA AloneAfterWrite ==
  ASSUME CommandsInv, NEW r \in Request, WriteStep(r)
  PROVE  AloneOK'
<1> SUFFICES ASSUME NEW q \in Request, Writing(q)'
             PROVE  /\ ~command'[q].alone => command'[q].kind \in crossed' \cup byHand'
                    /\ command'[q].alone => ~Single(command'[q].all)
                    /\ \A p \in Request \ {q} :
                         command'[q].alone /\ Writing(p)' => command'[p].kind # command'[q].kind
  BY DEF AloneOK, Single
<1>1. ASSUME NEW p \in Request, Writing(p)'
      PROVE  Writing(p) /\ command'[p].kind = command[p].kind
             /\ command'[p].alone = command[p].alone /\ command'[p].all = command[p].all
  <2>1. CASE p = r
    BY <1>1, <2>1 DEF WriteStep
  <2>2. CASE p # r
    BY <1>1, <2>2 DEF WriteStep, OthersHear, Writing
  <2>3. QED
    BY <2>1, <2>2
<1>2. /\ ~command[q].alone => command[q].kind \in crossed \cup byHand
      /\ command[q].alone => ~Single(command[q].all)
      /\ \A p \in Request \ {q} :
           command[q].alone /\ Writing(p) => command[p].kind # command[q].kind
  BY <1>1 DEF CommandsInv, AloneOK
<1>3. ASSUME ~command'[q].alone PROVE command'[q].kind \in crossed' \cup byHand'
  <2>1. ~command[q].alone /\ command[q].kind \in crossed \cup byHand
    BY <1>1, <1>2, <1>3
  <2>2. CASE UNCHANGED <<crossed, byHand>>
    BY <1>1, <2>1, <2>2
  <2>3. CASE /\ command[r].alone /\ crossed' = crossed \ {command[r].kind}
             /\ byHand' = byHand \ {command[r].kind}
    <3>1. q # r /\ Writing(q) /\ Writing(r)
      BY <1>1, <2>1, <2>3 DEF WriteStep
    <3>2. command[q].kind # command[r].kind
      BY <2>3, <3>1 DEF CommandsInv, AloneOK
    <3>3. QED
      BY <1>1, <2>1, <2>3, <3>2
  <2>4. QED
    BY <2>2, <2>3 DEF WriteStep
<1>4. QED
  BY <1>1, <1>2, <1>3

(* One write fewer is left.                                                *)
LEMMA OneFewer ==
  ASSUME NEW all \in {1, 2, 3}, NEW left \in 1..all, left # 1
  PROVE  left - 1 \in 1..all /\ all - (left - 1) = all - left + 1
OBVIOUS

LEMMA CarriedAfterWrite ==
  ASSUME CommandsInv, NEW r \in Request, WriteStep(r)
  PROVE  CarriedOK'
<1> SUFFICES ASSUME NEW q \in Request, Writing(q)'
             PROVE  Standing(command'[q], device')
  BY DEF CarriedOK
<1>1. Writing(r) /\ (device' = device \/ Carry(Head(command[r].left)))
  BY DEF WriteStep
<1>2. CASE q # r
  <2>1. /\ command'[q].kind = command[q].kind /\ command'[q].all = command[q].all
        /\ command'[q].left = command[q].left /\ command'[q].alone = command[q].alone
        /\ command[q].heard \subseteq command'[q].heard /\ Writing(q)
        /\ device' # device => command'[q].heard = Hear(Head(command[r].left), q)
    BY <1>2 DEF WriteStep, OthersHear, Writing
  <2>2. Midway(command[q])
    BY <2>1 DEF CommandsInv, CarriedOK, Standing
  <2>3. Midway(command'[q]) /\ Carried(command'[q]) = Carried(command[q])
    BY <2>1, <2>2 DEF Midway, Carried
  <2>4. QED
    BY <1>1, <1>2, <2>1, <2>3, OthersStand DEF Standing
<1>3. CASE q = r
  <2> DEFINE c == command[r]
             d == command'[r]
             n == Len(c.all) - Len(c.left)
             w == Head(c.left)
  <2>1. /\ d.kind = c.kind /\ d.all = c.all /\ d.alone = c.alone /\ d.left = Tail(c.left)
        /\ d.heard = Hear(w, r) /\ Len(c.left) # 1 /\ Carry(w)
    BY <1>3 DEF WriteStep
  <2>2. /\ c.kind \in Kind /\ c.all \in CommandsOf(c.kind)
        /\ n \in 0..2 /\ n + 1 \in 1..Len(c.all) /\ w = c.all[n + 1] /\ w \in Write
        /\ Tail(c.left) \in Seq(Write) /\ Len(Tail(c.left)) = Len(c.left) - 1
        /\ \A i \in 1..Len(Tail(c.left)) :
             Tail(c.left)[i] = c.all[Len(c.all) - Len(Tail(c.left)) + i]
    BY <1>1, AtWork
  <2>3. \A p \in {"gate", "state", "cfg", "minutes", "bypass"} :
          device'[p] = IF p = w.point THEN w.value ELSE device[p]
    BY <1>1, <2>1, Applied
  <2>4. Len(c.left) \in 1..Len(c.all) /\ Len(c.all) \in {1, 2, 3}
    <3>1. Midway(c)
      BY <1>1 DEF CommandsInv, CarriedOK, Standing
    <3>2. QED
      BY <2>2, <3>1, ListFacts DEF Midway
  <2>5. /\ \A i \in 1..n : /\ c.alone => device[c.all[i].point] = c.all[i].value
                           /\ c.all[i].point = "cfg" => device.cfg \in c.heard
    BY <1>1 DEF CommandsInv, CarriedOK, Standing, Carried
  <2>6. /\ \A i \in 1..Len(c.all) : c.all[i] \in Write
        /\ \A i, j \in 1..Len(c.all) : c.all[i].point = c.all[j].point => i = j
    BY <2>2, ListFacts
  <2>7. c.heard \subseteq Hear(w, r) /\ (w.point = "cfg" => w.value \in Hear(w, r))
    BY <1>1 DEF Hear, Busy, Writing
  <2> HIDE DEF c, d, w
  <2>8. Midway(d)
    <3>1. Len(d.left) \in 1..Len(d.all)
      <4>1. Len(d.left) = Len(c.left) - 1 /\ d.all = c.all
        BY <2>1, <2>2
      <4>2. QED
        BY <2>1, <2>4, <4>1, OneFewer
    <3>2. QED
      BY <2>1, <2>2, <3>1 DEF Midway
  <2>9. Carried(d) = 1..(n + 1)
    <3>1. Len(d.all) - Len(d.left) = n + 1
      <4>1. Len(d.left) = Len(c.left) - 1 /\ d.all = c.all
        BY <2>1, <2>2
      <4>2. QED
        BY <2>1, <2>4, <4>1, OneFewer
    <3>2. QED
      BY <3>1 DEF Carried
  <2>10. ASSUME NEW i \in 1..(n + 1)
         PROVE  /\ c.alone => device'[c.all[i].point] = c.all[i].value
                /\ c.all[i].point = "cfg" => device'.cfg \in Hear(w, r)
    <3>1. i \in 1..Len(c.all) /\ c.all[i] \in Write
      BY <2>2, <2>4, <2>6
    <3>2. c.all[i].point \in {"gate", "state", "cfg", "minutes", "bypass"}
      BY <3>1 DEF Write
    <3>3. CASE i = n + 1
      BY <2>2, <2>3, <2>7, <3>2, <3>3
    <3>4. CASE i # n + 1
      <4>1. i \in 1..n
        BY <2>2, <3>4
      <4>2. c.all[i].point # w.point
        BY <2>2, <2>6, <3>1, <3>4
      <4>3. QED
        BY <2>3, <2>5, <2>7, <3>2, <4>1, <4>2
    <3>5. QED
      BY <3>3, <3>4
  <2>11. QED
    BY <1>3, <2>1, <2>8, <2>9, <2>10 DEF d, Standing
<1>4. QED
  BY <1>2, <1>3

LEMMA OverrideAfterWrite ==
  ASSUME CommandsInv, NEW r \in Request, WriteStep(r)
  PROVE  NoOverrideLiesInWait'
<1> SUFFICES ASSUME "override" \notin crossed' \cup byHand'
             PROVE  device'.gate # 0 \/ device'.state = NoOverride
  BY DEF NoOverrideLiesInWait
<1>1. Writing(r) /\ command[r].kind \in Kind
  BY AtWork DEF WriteStep
<1>2. CASE command[r].kind = "override"
  <2>1. command[r].alone
    BY <1>1, <1>2 DEF WriteStep, CommandsInv, AloneOK
  <2>2. CASE Carry(Head(command[r].left))
    BY <1>1, <1>2, <2>1, <2>2, OverrideWrite
  <2>3. CASE ~Carry(Head(command[r].left))
    BY <2>3 DEF WriteStep, CommandsInv, NoOverrideLiesInWait
  <2>4. QED
    BY <2>2, <2>3
<1>3. CASE command[r].kind = "bypass"
  <2>1. "override" \notin crossed \cup byHand
    BY <1>3 DEF WriteStep
  <2>2. device'.gate = device.gate /\ device'.state = device.state
    <3>1. CASE Carry(Head(command[r].left))
      <4>1. Head(command[r].left).point \notin {"gate", "state"}
        BY <1>1, <1>3, AtWork DEF PointsOf
      <4>2. QED
        BY <1>1, <3>1, <4>1, Applied
    <3>2. CASE ~Carry(Head(command[r].left))
      BY <3>2 DEF WriteStep
    <3>3. QED
      BY <3>1, <3>2
  <2>3. QED
    BY <2>1, <2>2 DEF CommandsInv, NoOverrideLiesInWait
<1>4. QED
  BY <1>1, <1>2, <1>3 DEF Kind

LEMMA DurationsAfterWrite ==
  ASSUME CommandsInv, NEW r \in Request, WriteStep(r)
  PROVE  DurationsOK'
<1> SUFFICES ASSUME device'.minutes # 0, "bypass" \notin crossed' \cup cut' \cup byHand',
                    \A q \in Request : ~Halfway(q)'
             PROVE  device'.cfg = device'.minutes
  BY DEF DurationsOK
<1>1. Writing(r) /\ command[r].kind \in Kind
  BY AtWork DEF WriteStep
<1>2. CASE command[r].kind = "bypass"
  <2>1. command[r].alone /\ Carry(Head(command[r].left))
        /\ (Len(command[r].left) # 1 => Writing(r)')
    <3>1. "bypass" \notin cut'
      OBVIOUS
    <3>2. Carry(Head(command[r].left)) /\ (Len(command[r].left) # 1 => Writing(r)')
      BY <1>2, <3>1 DEF WriteStep
    <3>3. command[r].alone \/ UNCHANGED <<crossed, byHand>>
      BY <1>2, <3>1 DEF WriteStep
    <3>4. ~command[r].alone => "bypass" \in crossed \cup byHand
      BY <1>1, <1>2 DEF CommandsInv, AloneOK
    <3>5. QED
      BY <3>2, <3>3, <3>4
  <2>2. CASE /\ command[r].all[1].point = "cfg"
             /\ Len(command[r].left) = Len(command[r].all)
    <3>1. Len(command[r].all) \in {1, 2, 3}
      BY <1>1, AtWork, ListFacts
    <3>2. Writing(r)' /\ command'[r].left = Tail(command[r].left)
          /\ command'[r].all = command[r].all
      <4>1. Len(command[r].left) # 1
        BY <1>1, <2>1, <2>2 DEF CommandsInv, AloneOK, Single
      <4>2. Writing(r)'
        BY <2>1, <4>1
      <4>3. Writing(r)' => /\ command'[r].left = Tail(command[r].left)
                           /\ command'[r].all = command[r].all
        BY DEF WriteStep
      <4>4. QED
        BY <4>2, <4>3
    <3>3. Len(command'[r].left) = Len(command[r].left) - 1
      BY <1>1, <3>2, AtWork
    <3>4. Len(command'[r].all) - Len(command'[r].left) = 1
      BY <2>2, <3>1, <3>2, <3>3
    <3>5. Carried(command'[r]) = {1}
      <4>1. 1..1 = {1}
        OBVIOUS
      <4>2. QED
        BY <3>4, <4>1 DEF Carried
    <3>6. Halfway(r)'
      BY <2>2, <3>2, <3>5 DEF Halfway, Carried
    <3>7. QED
      BY <3>6
  <2>3. CASE device'.minutes = 0 \/ device'.cfg = device'.minutes
    BY <2>3
  <2>4. QED
    BY <1>1, <1>2, <2>1, <2>2, <2>3, BypassWrite
<1>3. CASE command[r].kind = "override"
  <2>1. "bypass" \notin crossed \cup cut \cup byHand
    BY <1>3 DEF WriteStep
  <2>2. device'.cfg = device.cfg /\ device'.minutes = device.minutes
    <3>1. CASE Carry(Head(command[r].left))
      <4>1. Head(command[r].left).point \notin {"cfg", "minutes"}
        BY <1>1, <1>3, AtWork DEF PointsOf
      <4>2. QED
        BY <1>1, <3>1, <4>1, Applied
    <3>2. CASE ~Carry(Head(command[r].left))
      BY <3>2 DEF WriteStep
    <3>3. QED
      BY <3>1, <3>2
  <2>3. ASSUME NEW q \in Request PROVE ~Halfway(q)
    <3>1. CASE q = r
      <4>1. command[r].all \in CommandsOf("override") /\ "override" \in Kind
        BY <1>1, <1>3, AtWork
      <4>2. Len(command[r].all) \in {1, 2, 3}
            /\ \A i \in 1..Len(command[r].all) : command[r].all[i].point \in PointsOf("override")
        BY <4>1, ListFacts
      <4>3. command[r].all[1].point # "cfg"
        BY <4>2 DEF PointsOf
      <4>4. QED
        BY <3>1, <4>3 DEF Halfway
    <3>2. CASE q # r
      BY <3>2 DEF WriteStep, OthersHear, Halfway, Writing, Carried
    <3>3. QED
      BY <3>1, <3>2
  <2>4. QED
    BY <2>1, <2>2, <2>3 DEF CommandsInv, DurationsOK
<1>4. QED
  BY <1>1, <1>2, <1>3 DEF Kind

(* Hearing of a duration.                                                  *)
LEMMA HearType ==
  ASSUME CommandsInv, NEW r \in Request, Writing(r), NEW q \in Request
  PROVE  LET w == Head(command[r].left)
         IN Hear(w, q) \in SUBSET Duration /\ command[q].heard \subseteq Hear(w, q)
<1>1. Head(command[r].left) \in Write /\ command[q].heard \in SUBSET Duration
  BY AtWork DEF CommandsInv, CommandsTypeOK, Command
<1>2. Head(command[r].left).point = "cfg" => Head(command[r].left).value \in Duration
  BY <1>1 DEF Write, Duration
<1>3. QED
  BY <1>1, <1>2 DEF Hear

LEMMA AcknowledgedGood ==
  ASSUME CommandsInv, NEW r \in Request, Acknowledged(r)
  PROVE  CommandsInv'
<1> DEFINE c == command[r]
           w == Head(c.left)
           last == Len(c.left) = 1
           clean == last /\ c.alone /\ Whole(c.kind) \subseteq {c.all[i].point : i \in DOMAIN c.all}
           d == [c EXCEPT !.left = Tail(@), !.heard = Hear(w, r),
                          !.phase = IF last THEN "settling" ELSE "writing"]
           n == IF Single(c.all) THEN NoCommand ELSE d
<1>1. /\ Writing(r) /\ Carry(w)
      /\ command' = [q \in Request |->
           IF q # r THEN [command[q] EXCEPT !.heard = Hear(w, q)] ELSE n]
      /\ cache' = IF last THEN Noted(c.all) ELSE cache
      /\ crossed' = IF clean THEN crossed \ {c.kind} ELSE crossed
      /\ cut' = IF clean THEN cut \ {c.kind} ELSE cut
      /\ byHand' = IF clean THEN byHand \ {c.kind} ELSE byHand
      /\ UNCHANGED <<given, missed>>
  BY DEF Acknowledged, Writing
<1>2. /\ c \in Command /\ c.kind \in Kind /\ c.all \in CommandsOf(c.kind)
      /\ Tail(c.left) \in Seq(Write) /\ Len(Tail(c.left)) = Len(c.left) - 1
  BY <1>1, AtWork
<1>3. /\ d \in Command /\ d.kind = c.kind /\ d.all = c.all /\ d.alone = c.alone
      /\ d.left = Tail(c.left) /\ d.heard = Hear(w, r)
      /\ d.phase = IF last THEN "settling" ELSE "writing"
  <2>1. Hear(w, r) \in SUBSET Duration
    BY <1>1, HearType
  <2>2. (IF last THEN "settling" ELSE "writing") \in {"idle", "writing", "settling"}
    OBVIOUS
  <2> HIDE DEF c, w, last
  <2>3. QED
    BY <1>2, <2>1, <2>2 DEF Command
<1>4. ASSUME NEW q \in Request \ {r}
      PROVE  /\ command'[q] \in Command
             /\ command'[q].phase = command[q].phase /\ command'[q].kind = command[q].kind
             /\ command'[q].all = command[q].all /\ command'[q].left = command[q].left
             /\ command'[q].alone = command[q].alone
             /\ command[q].heard \subseteq command'[q].heard
             /\ command'[q].heard = Hear(w, q)
  <2>1. command[q] \in Command
    BY DEF CommandsInv, CommandsTypeOK
  <2>2. Hear(w, q) \in SUBSET Duration /\ command[q].heard \subseteq Hear(w, q)
    BY <1>1, HearType
  <2>3. command'[q] = [command[q] EXCEPT !.heard = Hear(w, q)]
    BY <1>1
  <2> HIDE DEF c, w
  <2>4. QED
    BY <2>1, <2>2, <2>3 DEF Command
<1>5. command'[r] = n
  BY <1>1
<1>6. clean => last /\ c.alone
  OBVIOUS
<1>6a. Single(c.all) => last
  <2>1. Len(c.left) \in 1..Len(c.all)
    BY <1>1 DEF CommandsInv, CarriedOK, Standing, Midway
  <2>2. QED
    BY <2>1 DEF Single
<1>6b. Single(c.all) => n = NoCommand
  OBVIOUS
<1>6c. ~Single(c.all) => n = d
  OBVIOUS
<1>7. device' \in Points
  BY <1>1, Applied
<1>8. Noted(c.all) \in Points
  BY <1>2, NotedType
<1> HIDE DEF d, clean, n
<1>9. OthersHear(r)
  BY <1>4 DEF OthersHear
<1>10. WriteStep(r)
  <2>1. CASE Single(c.all)
    BY <1>1, <1>5, <1>6, <1>9, <1>6a, <1>6b, <2>1, NoCommandOK DEF WriteStep, Writing
  <2>2. CASE ~Single(c.all)
    BY <1>1, <1>3, <1>5, <1>6, <1>9, <1>6c, <2>2 DEF WriteStep, Writing
  <2>3. QED
    BY <2>1, <2>2
<1>11. CommandsTypeOK'
  <2>0. n \in Command
    BY <1>3, <1>6b, <1>6c, NoCommandOK
  <2>1. command' \in [Request -> Command]
    BY <1>1, <1>4, <1>5, <2>0
  <2>2. crossed' \subseteq Kind /\ cut' \subseteq Kind /\ byHand' \subseteq Kind
    BY <1>1 DEF CommandsInv, CommandsTypeOK
  <2>3. cache' \in Points
    BY <1>1, <1>8 DEF CommandsInv, CommandsTypeOK
  <2>4. QED
    BY <1>1, <1>7, <2>1, <2>2, <2>3 DEF CommandsInv, CommandsTypeOK
<1>12. PageOK'
  <2>1. CASE ~Single(c.all)
    <3>1. r \in Busy' /\ ~Single(command'[r].all)
      BY <1>3, <1>5, <1>6c, <2>1 DEF Busy
    <3>2. QED
      BY <3>1 DEF PageOK, Single
  <2>2. CASE Single(c.all)
    <3> SUFFICES ASSUME ~missed', \A q \in Busy' : Single(command'[q].all)
                 PROVE  cache' = device'
      BY DEF PageOK, Single
    <3>1. \A q \in Busy : Single(command[q].all)
      BY <1>4, <2>2 DEF Busy
    <3>2. cache = device
      BY <1>1, <3>1 DEF CommandsInv, PageOK
    <3>3. PICK v \in Write : c.all = <<v>>
      <4>1. c.all \in Seq(Write) /\ Len(c.all) = 1
        BY <1>2, <2>2, ListFacts DEF Single
      <4>2. c.all = <<c.all[1]>> /\ c.all[1] \in Write
        BY <4>1
      <4>3. QED
        BY <4>2
    <3>4. w = v
      <4>1. w = c.all[Len(c.all) - Len(c.left) + 1] /\ Len(c.left) = 1 /\ Len(c.all) = 1
        BY <1>1, <1>6a, <2>2, AtWork DEF Single
      <4>2. 1 - 1 + 1 = 1 /\ <<v>>[1] = v
        OBVIOUS
      <4>3. QED
        BY <3>3, <4>1, <4>2
    <3>5. cache' = Noted(<<v>>) /\ device' = [device EXCEPT ![v.point] = v.value]
      BY <1>1, <1>6a, <2>2, <3>3, <3>4 DEF Carry
    <3>6. QED
      BY <3>2, <3>5, SingleNoted
  <2>3. QED
    BY <2>1, <2>2
<1>13. QED
  BY <1>10, <1>11, <1>12, AloneAfterWrite, CarriedAfterWrite, OverrideAfterWrite,
     DurationsAfterWrite DEF CommandsInv

LEMMA UnacknowledgedGood ==
  ASSUME CommandsInv, NEW r \in Request, NEW applied \in BOOLEAN, Unacknowledged(r, applied)
  PROVE  CommandsInv'
<1> DEFINE c == command[r]
           w == Head(c.left)
<1>1. /\ Writing(r)
      /\ IF applied THEN Carry(w) ELSE UNCHANGED device
      /\ command' = [q \in Request |->
           IF q = r THEN NoCommand
           ELSE IF applied THEN [command[q] EXCEPT !.heard = Hear(w, q)] ELSE command[q]]
      /\ cut' = cut \cup {c.kind}
      /\ missed'
      /\ UNCHANGED <<cache, given, crossed, byHand>>
  BY DEF Unacknowledged, Writing
<1>2. c.kind \in Kind
  BY <1>1, AtWork
<1>3. ASSUME NEW q \in Request \ {r}
      PROVE  /\ command'[q] \in Command
             /\ command'[q].phase = command[q].phase /\ command'[q].kind = command[q].kind
             /\ command'[q].all = command[q].all /\ command'[q].left = command[q].left
             /\ command'[q].alone = command[q].alone
             /\ command[q].heard \subseteq command'[q].heard
             /\ applied => command'[q].heard = Hear(w, q)
  <2>1. command[q] \in Command
    BY DEF CommandsInv, CommandsTypeOK
  <2>2. Hear(w, q) \in SUBSET Duration /\ command[q].heard \subseteq Hear(w, q)
    BY <1>1, HearType
  <2>3. command'[q] = IF applied THEN [command[q] EXCEPT !.heard = Hear(w, q)] ELSE command[q]
    BY <1>1
  <2> HIDE DEF c, w
  <2>4. CASE applied
    BY <2>1, <2>2, <2>3, <2>4 DEF Command
  <2>5. CASE ~applied
    BY <2>1, <2>3, <2>5
  <2>6. QED
    BY <2>4, <2>5
<1>4. command'[r] = NoCommand
  BY <1>1
<1>5. device' \in Points
  BY <1>1, Applied DEF CommandsInv, CommandsTypeOK
<1>6. OthersHear(r)
  BY <1>1, <1>3 DEF OthersHear
<1>7. WriteStep(r)
  BY <1>1, <1>4, <1>6, NoCommandOK DEF WriteStep, Writing
<1>8. CommandsTypeOK'
  <2>1. command' \in [Request -> Command]
    BY <1>1, <1>3, <1>4, NoCommandOK
  <2>2. missed' \in BOOLEAN
    BY DEF Unacknowledged
  <2>3. QED
    BY <1>1, <1>2, <1>5, <2>1, <2>2 DEF CommandsInv, CommandsTypeOK
<1>9. PageOK'
  BY <1>1 DEF PageOK
<1>10. QED
  BY <1>7, <1>8, <1>9, AloneAfterWrite, CarriedAfterWrite, OverrideAfterWrite,
     DurationsAfterWrite DEF CommandsInv

(* Commands stop, and nothing is written: what held of the device does.    *)
LEMMA StopGood ==
  ASSUME CommandsInv, NEW stopped \in SUBSET Request,
         command' = [q \in Request |-> IF q \in stopped THEN NoCommand ELSE command[q]],
         UNCHANGED <<device, crossed, byHand>>, cut \subseteq cut',
         \A q \in stopped : Writing(q) => command[q].kind \in cut'
  PROVE  AloneOK' /\ CarriedOK' /\ NoOverrideLiesInWait' /\ DurationsOK'
<1>1. \A q \in Request : Writing(q)' => Writing(q) /\ command'[q] = command[q]
  BY NoCommandOK DEF Writing
<1>2. AloneOK'
  BY <1>1 DEF CommandsInv, AloneOK
<1>3. CarriedOK'
  <2> SUFFICES ASSUME NEW q \in Request, Writing(q)'
               PROVE  Standing(command'[q], device')
    BY DEF CarriedOK
  <2>1. Writing(q) /\ command'[q] = command[q]
    BY <1>1
  <2>2. Standing(command[q], device)
    BY <2>1 DEF CommandsInv, CarriedOK
  <2>3. QED
    BY <2>1, <2>2
<1>4. NoOverrideLiesInWait'
  BY DEF CommandsInv, NoOverrideLiesInWait
<1>5. DurationsOK'
  <2> SUFFICES ASSUME device.minutes # 0, "bypass" \notin crossed \cup cut' \cup byHand,
                      \A q \in Request : ~Halfway(q)'
               PROVE  device.cfg = device.minutes
    BY DEF DurationsOK
  <2>1. ASSUME NEW q \in Request, Halfway(q) PROVE FALSE
    <3>1. CASE q \in stopped
      <4>1. command[q].kind = "override"
        BY <2>1, <3>1 DEF Halfway, CommandsInv, CommandsTypeOK, Command, Kind
      <4>2. command[q].all \in CommandsOf("override") /\ "override" \in Kind
        BY <2>1, <4>1, AtWork DEF Halfway
      <4>3. Len(command[q].all) \in {1, 2, 3}
            /\ \A i \in 1..Len(command[q].all) : command[q].all[i].point \in PointsOf("override")
        BY <4>2, ListFacts
      <4>4. command[q].all[1].point # "cfg"
        BY <4>3 DEF PointsOf
      <4>5. QED
        BY <2>1, <4>4 DEF Halfway
    <3>2. CASE q \notin stopped
      BY <2>1, <3>2 DEF Halfway, Writing, Carried
    <3>3. QED
      BY <3>1, <3>2
  <2>2. QED
    BY <2>1 DEF CommandsInv, DurationsOK
<1>6. QED
  BY <1>2, <1>3, <1>4, <1>5

LEMMA SettleGood ==
  ASSUME CommandsInv, NEW r \in Request, NEW answered \in BOOLEAN, Settle(r, answered)
  PROVE  CommandsInv'
<1>1. /\ ~Writing(r) /\ command' = [command EXCEPT ![r] = NoCommand]
      /\ cache' = IF answered THEN device ELSE cache
      /\ missed' = ~answered
      /\ UNCHANGED <<device, given, crossed, cut, byHand>>
  BY DEF Settle, Writing
<1>2. command' = [q \in Request |-> IF q \in {r} THEN NoCommand ELSE command[q]]
  BY <1>1 DEF CommandsInv, CommandsTypeOK
<1>3. CommandsTypeOK'
  BY <1>1, NoCommandOK DEF CommandsInv, CommandsTypeOK
<1>4. PageOK'
  BY <1>1 DEF PageOK
<1>5. AloneOK' /\ CarriedOK' /\ NoOverrideLiesInWait' /\ DurationsOK'
  BY <1>1, <1>2, StopGood
<1>6. QED
  BY <1>3, <1>4, <1>5 DEF CommandsInv

LEMMA RestartCommandsGood ==
  ASSUME CommandsInv, RestartCommands
  PROVE  CommandsInv'
<1>1. /\ cut' = cut \cup {command[r].kind : r \in {q \in Request : Writing(q)}}
      /\ command' = [q \in Request |-> IF q \in Request THEN NoCommand ELSE command[q]]
      /\ command' \in [Request -> Command]
      /\ cache' = device /\ ~missed' /\ missed' \in BOOLEAN
      /\ UNCHANGED <<device, given, crossed, byHand>>
  BY NoCommandOK DEF RestartCommands, Writing
<1>2. cut' \subseteq Kind
  BY <1>1 DEF CommandsInv, CommandsTypeOK, Command
<1>3. CommandsTypeOK'
  BY <1>1, <1>2 DEF CommandsInv, CommandsTypeOK
<1>4. PageOK'
  BY <1>1 DEF PageOK
<1>5. AloneOK' /\ CarriedOK' /\ NoOverrideLiesInWait' /\ DurationsOK'
  BY <1>1, StopGood
<1>6. QED
  BY <1>3, <1>4, <1>5 DEF CommandsInv

LEMMA CommandsStutter ==
  ASSUME CommandsInv, UNCHANGED commandVars
  PROVE  CommandsInv'
BY DEF commandVars, CommandsInv, CommandsTypeOK, AloneOK, CarriedOK, Standing, Midway,
       Carried, Writing, NoOverrideLiesInWait, DurationsOK, Halfway, PageOK, Busy,
       Single

LEMMA CommandsStep ==
  ASSUME CommandsInv, [NextCommand]_commandVars
  PROVE  CommandsInv'
<1>1. ASSUME NEW r \in Request, NEW s \in State, Override(r, s) PROVE CommandsInv'
  <2>1. "override" \in Kind /\ OverrideWrites(s) \in CommandsOf("override")
    BY DEF Kind, CommandsOf
  <2>2. QED
    BY <1>1, <2>1, GiveGood DEF Override
<1>2. ASSUME NEW r \in Request, NEW m \in Duration, Bypass(r, m) PROVE CommandsInv'
  <2>1. "bypass" \in Kind /\ BypassWrites(m) \in CommandsOf("bypass")
    BY DEF Kind, CommandsOf
  <2>2. QED
    BY <1>2, <2>1, GiveGood DEF Bypass
<1>3. ASSUME NEW r \in Request, NEW w \in Write, WritePoint(r, w) PROVE CommandsInv'
  <2>1. KindOf(w) \in Kind /\ <<w>> \in CommandsOf(KindOf(w))
    BY KindsOfWrites DEF CommandsOf
  <2>2. QED
    BY <1>3, <2>1, GiveGood DEF WritePoint
<1>4. QED
  BY <1>1, <1>2, <1>3, AcknowledgedGood, UnacknowledgedGood, SettleGood, RestartCommandsGood,
     CommandsStutter DEF NextCommand

(* Of everything people command a thermostat, in whatever order the writes *)
(* go and whichever acknowledgements are lost.                             *)
THEOREM CommandsInvariance == CommandsSpec => []CommandsInv
<1>1. InitCommands => CommandsInv
  <2> SUFFICES ASSUME InitCommands PROVE CommandsInv
    OBVIOUS
  <2>1. Untouched \in Points
    BY DEF Untouched, Points, State, Duration
  <2>2. CommandsTypeOK
    <3>1. 0 \in 0..MaxCommands
      BY CommandsAssumption
    <3>2. QED
      BY <2>1, <3>1, NoCommandOK DEF InitCommands, CommandsTypeOK
  <2>3. \A r \in Request : ~Writing(r)
    BY NoCommandOK DEF InitCommands, Writing
  <2>4. AloneOK /\ CarriedOK
    BY <2>3 DEF AloneOK, CarriedOK
  <2>5. NoOverrideLiesInWait /\ DurationsOK /\ PageOK
    BY DEF InitCommands, Untouched, NoOverrideLiesInWait, DurationsOK, PageOK
  <2>6. QED
    BY <2>2, <2>4, <2>5 DEF CommandsInv
<1>2. CommandsInv /\ [NextCommand]_commandVars => CommandsInv'
  BY CommandsStep
<1>3. QED
  BY <1>1, <1>2, PTL DEF CommandsSpec

(* "The device is left as it was found": only overrides that crossed, or a *)
(* point of one written by hand, leave one behind a closed gate, none that *)
(* was lost or cut short; and an override or release that then runs alone  *)
(* leaves none.                                                            *)
THEOREM NoOverrideEverLiesInWait == CommandsSpec => []NoOverrideLiesInWait
<1>1. CommandsInv => NoOverrideLiesInWait
  BY DEF CommandsInv
<1>2. QED
  BY <1>1, CommandsInvariance, PTL

(* The duration configured and the one in force agree, but while a bypass  *)
(* is between its writes, or after commands that crossed or were cut short *)
(* or a point written by hand, until a bypass that sets both runs alone.   *)
THEOREM DurationsAlwaysAgree == CommandsSpec => []DurationsAgree
<1>1. CommandsInv => DurationsAgree
  <2> SUFFICES ASSUME CommandsInv, device.minutes # 0, "bypass" \notin crossed \cup cut \cup byHand,
                      \A r \in Busy : command[r].kind = "bypass" => command[r].phase = "settling"
               PROVE  device.cfg = device.minutes
    BY DEF DurationsAgree
  <2>1. ASSUME NEW r \in Request, Halfway(r) PROVE FALSE
    <3>1. r \in Busy /\ Writing(r) /\ command[r].phase # "settling"
      BY <2>1 DEF Halfway, Writing, Busy
    <3>2. command[r].all \in CommandsOf("override") /\ "override" \in Kind
      BY <3>1, AtWork DEF Kind
    <3>3. Len(command[r].all) \in {1, 2, 3}
          /\ \A i \in 1..Len(command[r].all) : command[r].all[i].point \in PointsOf("override")
      BY <3>2, ListFacts
    <3>4. command[r].all[1].point # "cfg"
      BY <3>3 DEF PointsOf
    <3>5. QED
      BY <2>1, <3>4 DEF Halfway
  <2>2. QED
    BY <2>1 DEF CommandsInv, DurationsOK
<1>2. QED
  BY <1>1, CommandsInvariance, PTL

(* Once nobody waits for an answer the page shows what the thermostat      *)
(* holds, unless somebody was told of a failure: a single write, noted     *)
(* without a refresh, may fall between the writes of a command, or between *)
(* the last of them and its refresh.                                       *)
THEOREM PageAlwaysHonest == CommandsSpec => []PageIsHonest
<1>1. CommandsInv => PageIsHonest
  BY DEF CommandsInv, PageOK, PageIsHonest
<1>2. QED
  BY <1>1, CommandsInvariance, PTL

(* The timer of a bypass starts on a duration its command has heard of: its*)
(* own, or one asked for meanwhile.                                        *)
THEOREM TimersAreFresh == CommandsSpec => TimerIsFresh
<1> DEFINE Fresh ==
      \A r \in Request :
        ( /\ device.bypass = 0
          /\ device'.bypass = 1
          /\ command[r].left # <<>>
          /\ command'[r].left # command[r].left
          /\ ~Single(command[r].all) )
        => device.cfg \in command[r].heard
<1>1. CommandsInv /\ [NextCommand]_commandVars => [Fresh]_commandVars
  <2> SUFFICES ASSUME CommandsInv, NextCommand, NEW r \in Request,
                      device.bypass = 0, device'.bypass = 1,
                      command'[r].left # command[r].left, ~Single(command[r].all)
               PROVE  device.cfg \in command[r].heard
    BY DEF Fresh
  <2>1. PICK q \in Request :
          Acknowledged(q) \/ \E applied \in BOOLEAN : Unacknowledged(q, applied)
    <3>1. device' # device
      OBVIOUS
    <3>2. QED
      BY <3>1 DEF NextCommand, Override, Bypass, WritePoint, Give, Settle, RestartCommands
  <2>2. q = r
    BY <2>1 DEF Acknowledged, Unacknowledged, CommandsInv, CommandsTypeOK, Command
  <2>3. Writing(r) /\ Carry(Head(command[r].left))
    BY <2>1, <2>2 DEF Acknowledged, Unacknowledged, Writing
  <2> DEFINE c == command[r]
             n == Len(c.all) - Len(c.left)
             w == Head(c.left)
  <2>4. /\ c.all \in CommandsOf(c.kind) /\ c.kind \in Kind
        /\ n \in 0..2 /\ n + 1 \in 1..Len(c.all) /\ w = c.all[n + 1]
    BY <2>3, AtWork
  <2>5. w.point = "bypass" /\ w.value = 1
    BY <2>3, Applied
  <2>6. \A i \in 1..n : c.all[i].point = "cfg" => device.cfg \in c.heard
    BY <2>3 DEF CommandsInv, CarriedOK, Standing, Carried
  <2>6a. ~Single(c.all)
    OBVIOUS
  <2> HIDE DEF c, w
  <2>7. PICK m \in Minutes : c.all = <<Set("cfg", m), Set("minutes", m), Set("bypass", 1)>>
    <3>1. ASSUME NEW s \in Forced, c.all = <<Set("gate", 1), Set("state", s)>> PROVE FALSE
      <4>1. /\ Len(c.all) = 2 /\ c.all[1].point = "gate" /\ c.all[2].point = "state"
        BY <3>1 DEF Set
      <4> HIDE DEF n
      <4>2. QED
        BY <2>4, <2>5, <4>1
    <3>2. ASSUME c.all = <<Set("state", NoOverride), Set("gate", 0)>> PROVE FALSE
      <4>1. /\ Len(c.all) = 2 /\ c.all[1].point = "state" /\ c.all[2].point = "gate"
        BY <3>2 DEF Set
      <4> HIDE DEF n
      <4>2. QED
        BY <2>4, <2>5, <4>1
    <3>3. ASSUME c.all = <<Set("minutes", 0), Set("bypass", 0)>> PROVE FALSE
      <4>1. /\ Len(c.all) = 2 /\ c.all[1].point = "minutes" /\ c.all[2].value = 0
        BY <3>3 DEF Set
      <4> HIDE DEF n
      <4>2. QED
        BY <2>4, <2>5, <4>1
    <3>4. \A v : c.all # <<v>>
      BY <2>6a DEF Single
    <3>5. QED
      BY <2>4, <3>1, <3>2, <3>3, <3>4, ListShape
  <2>8. c.all[1].point = "cfg" /\ c.all[2].point = "minutes" /\ Len(c.all) = 3
    BY <2>7 DEF Set
  <2> HIDE DEF n
  <2>9. n = 2
    <3>1. n # 0 /\ n # 1
      BY <2>4, <2>5, <2>8
    <3>2. QED
      BY <2>4, <3>1
  <2>10. QED
    BY <2>6, <2>8, <2>9 DEF c
<1>2. QED
  BY <1>1, CommandsInvariance, PTL DEF CommandsSpec, TimerIsFresh, Fresh

-----------------------------------------------------------------------------
(* The panel.                                                              *)

(* What is known of the rows: those of doors that opened unrecorded, and   *)
(* those of requests the panel may still act on, were lost, not left out.  *)
OnRecord ==
  /\ offRecord \subseteq {"lost"}
  /\ adrift \subseteq {"written", "lost"}

LEMMA LeftOnRecord ==
  ASSUME OnRecord, NEW r, NEW row, LeaveDoor(r, row),
         caller[r].op # "unlock" \/ row \in {"written", "lost"}
  PROVE  OnRecord'
<1>1. CASE caller[r].op # "unlock"
  BY <1>1 DEF LeaveDoor, OnRecord
<1>2. CASE caller[r].op = "unlock" /\ caller[r].did
  <2>1. offRecord' = offRecord \cup ({row} \ {"written"}) /\ adrift' = adrift
    BY <1>2 DEF LeaveDoor
  <2>2. QED
    BY <1>2, <2>1 DEF OnRecord
<1>3. CASE caller[r].op = "unlock" /\ ~caller[r].did
  <2>1. adrift' \in {adrift, adrift \cup {row}} /\ offRecord' = offRecord
    BY <1>3 DEF LeaveDoor
  <2>2. QED
    BY <1>3, <2>1 DEF OnRecord
<1>4. QED
  BY <1>1, <1>2, <1>3

(* A request ends.                                                         *)
LEMMA EndOnRecord ==
  ASSUME OnRecord, NEW r, NEW row, End(r, row),
         caller[r].op # "unlock" \/ row \in {"written", "lost"}
  PROVE  OnRecord'
BY LeftOnRecord DEF End

LEMMA StepOnRecord ==
  ASSUME OnRecord, [Next]_vars
  PROVE  OnRecord'
<1>0. ASSUME UNCHANGED <<adrift, offRecord>> PROVE OnRecord'
  BY <1>0 DEF OnRecord
<1>1. ASSUME NEW lit \in BOOLEAN, Unlocked(lit) PROVE OnRecord'
  BY <1>0, <1>1, EndOnRecord DEF Unlocked, GoOn
<1>2. CASE RowRefused
  BY <1>2, EndOnRecord DEF RowRefused
<1>3. CASE Lit
  BY <1>3, EndOnRecord DEF Lit, Replied
<1>4. CASE ReadStatus
  BY <1>0, <1>4, EndOnRecord DEF ReadStatus, Replied, GoOn
<1>5. CASE ReadPart
  BY <1>0, <1>5 DEF ReadPart, GoOn
<1>6. CASE ReadAll
  BY <1>6, EndOnRecord DEF ReadAll, Replied
<1>7. CASE Fail
  <2>1. PICK row \in IF RecordsFailure(caller[Head(line)].op) THEN {"written", "lost"}
                     ELSE {"left out"} : End(Head(line), row)
    BY <1>7 DEF Fail
  <2>2. caller[Head(line)].op # "unlock" \/ row \in {"written", "lost"}
    BY DEF RecordsFailure
  <2>3. QED
    BY <2>1, <2>2, EndOnRecord
<1>8. CASE ActAnyway
  <2>1. PICK row \in adrift : /\ adrift' = adrift \ {row}
                              /\ offRecord' = offRecord \cup ({row} \ {"written"})
    BY <1>8 DEF ActAnyway
  <2>2. row \in {"written", "lost"}
    BY DEF OnRecord
  <2>3. QED
    BY <2>1, <2>2 DEF OnRecord
<1>9. ASSUME NEW r \in Caller, GiveUp(r) PROVE OnRecord'
  BY <1>9, EndOnRecord DEF GiveUp, Part
<1>10. ASSUME NEW r \in Caller,
              \/ \E u \in User : AskUnlock(r, u)
              \/ AskLight(r) \/ AskInventory(r) \/ AskStatus(r)
       PROVE  OnRecord'
  BY <1>0, <1>10 DEF AskUnlock, AskLight, AskInventory, AskStatus
<1>11. CASE Restart
  BY <1>0, <1>11, LeftOnRecord DEF Restart
<1>12. CASE Perform \/ ProofMoves \/ Tick
  BY <1>0, <1>12 DEF Perform, ProofMoves, Tick
<1>13. CASE UNCHANGED vars
  BY <1>0, <1>13 DEF vars
<1>14. QED
  BY <1>1, <1>2, <1>3, <1>4, <1>5, <1>6, <1>7, <1>8, <1>9, <1>10, <1>11, <1>12, <1>13 DEF Next

(* However the panel answers, fails or is given up, and also when it opens *)
(* the door after the client has gone, unlock_door leaves the row of no    *)
(* door out: one is missing only where the service died between the panel's*)
(* act and the row, or the store refused it.                               *)
THEOREM OpeningsAlwaysOnRecord == Spec => []OpeningsAreOnRecord
<1>1. Init => OnRecord
  BY DEF Init, OnRecord
<1>2. OnRecord /\ [Next]_vars => OnRecord'
  BY StepOnRecord
<1>3. OnRecord => OpeningsAreOnRecord
  BY DEF OnRecord, OpeningsAreOnRecord
<1>4. QED
  BY <1>1, <1>2, <1>3, PTL DEF Spec

-----------------------------------------------------------------------------
(* What a request at the panel may be in the middle of.                    *)
Asked == {Idle} \cup [op : {"unlock", "light", "status"} \cup Part, since : Nat, did : BOOLEAN]

(* The turns that whoever is i-th in line may already have waited: at most *)
(* everybody else's that is no longer ahead.                               *)
Waited(i) == (Cardinality(Caller) - i) * LongestCall

(* How old a request's proof, or its first reading, can be in its place.   *)
NotTooLong(c, i, o) ==
  /\ c.did => i = 1
  /\ c.op = "unlock" => c.since <= Window + Waited(i) + o
  /\ c.op = "doors" => ~c.did \/ c.since <= o
  /\ c.op = "outputs" => c.since <= LongestCall + Waited(i) + o
  /\ c.op = "triggers" => c.since <= LongestCall + Turn + Waited(i) + o

InLine ==
  /\ line \in Seq(Caller) /\ IsInjective(line)
  /\ \A r \in Caller : caller[r] # Idle <=> r \in ToSet(line)

ProofAges == proved \in [User -> Nat \cup {Nobody}]

InventoryOK ==
  inventory # Nobody =>
    /\ inventory.age \in Nat /\ inventory.oldest \in Nat
    /\ inventory.age < InventoryTTL
    /\ inventory.oldest <= inventory.age + LongestCall + 2 * Turn

(* The inductive invariant.                                                *)
DoorsInv ==
  /\ caller \in [Caller -> Asked]
  /\ InLine
  /\ out \in 0..LongestCall
  /\ ProofAges
  /\ InventoryOK
  /\ \A i \in 1..Len(line) : NotTooLong(caller[line[i]], i, out)

-----------------------------------------------------------------------------
(* Lines of callers.                                                       *)

LEMMA Turns ==
  /\ Cardinality(Caller) \in Nat /\ LongestCall \in Nat /\ Turn \in Nat
  /\ \A i \in 1..Cardinality(Caller) : Waited(i) \in Nat /\ Waited(i) + LongestCall <= Turn
  /\ \A i \in 1..Cardinality(Caller) : i > 1 => Waited(i - 1) = Waited(i) + LongestCall
<1>1. Cardinality(Caller) \in Nat /\ LongestCall \in Nat
  BY DoorsAssumption, FS_CardinalityType
<1> DEFINE n == Cardinality(Caller)
<1> HIDE DEF n
<1>2. \A a, b \in Nat : a * b \in Nat
  OBVIOUS
<1>3. ASSUME NEW i \in 1..n
      PROVE  (n - i) * LongestCall \in Nat /\ (n - i) * LongestCall + LongestCall <= n * LongestCall
  <2>1. n \in Nat /\ LongestCall \in Nat
    BY <1>1 DEF n
  <2>2. n - i \in Nat /\ i - 1 \in Nat
    BY <2>1
  <2>3. (n - i) * LongestCall \in Nat /\ (i - 1) * LongestCall \in Nat
    BY <1>2, <2>1, <2>2
  <2>4. n * LongestCall = (n - i) * LongestCall + LongestCall + (i - 1) * LongestCall
    BY <2>1
  <2>5. QED
    BY <2>1, <2>3, <2>4
<1>4. ASSUME NEW i \in 1..n
      PROVE  (n - (i - 1)) * LongestCall = (n - i) * LongestCall + LongestCall
  BY <1>1 DEF n
<1>5. n * LongestCall \in Nat
  BY <1>1, <1>2 DEF n
<1>6. QED
  BY <1>1, <1>3, <1>4, <1>5 DEF n, Waited, Turn

LEMMA LineFits ==
  ASSUME NEW q \in Seq(Caller), IsInjective(q)
  PROVE  Len(q) \in Nat /\ Len(q) <= Cardinality(Caller)
<1>1. Len(q) \in Nat /\ DOMAIN q = 1..Len(q) /\ q \in [1..Len(q) -> Caller]
  BY LenProperties
<1>2. q \in Injection(1..Len(q), Caller)
  BY <1>1 DEF IsInjective, Injection
<1>3. Cardinality(1..Len(q)) <= Cardinality(Caller)
  BY <1>2, FS_Injection, DoorsAssumption
<1>4. Cardinality(1..Len(q)) = Len(q)
  BY <1>1, FS_Interval
<1>5. QED
  BY <1>1, <1>3, <1>4

(* A line without its i-th.                                                *)
Without(q, i, n) ==
  /\ n \in Seq(Caller)
  /\ Len(n) = Len(q) - 1
  /\ \A j \in 1..Len(n) : n[j] = IF j < i THEN q[j] ELSE q[j + 1]

LEMMA RemovedWithout ==
  ASSUME NEW q \in Seq(Caller), NEW i \in 1..Len(q)
  PROVE  Without(q, i, RemoveAt(q, i))
<1> DEFINE n == RemoveAt(q, i)
           front == SubSeq(q, 1, i - 1)
           back == SubSeq(q, i + 1, Len(q))
<1>1. Len(q) \in Nat
  BY LenProperties
<1>2. front \in Seq(Caller) /\ Len(front) = i - 1 /\ \A j \in 1 .. i - 1 : front[j] = q[j]
  BY <1>1
<1>3. /\ back \in Seq(Caller)
      /\ Len(back) = Len(q) - i
      /\ \A j \in 1 .. Len(q) - i : back[j] = q[i + j]
  BY <1>1
<1>4. n = front \o back
  BY DEF RemoveAt
<1> HIDE DEF front, back, n
<1>5. /\ n \in Seq(Caller)
      /\ Len(n) = Len(front) + Len(back)
      /\ \A j \in 1 .. Len(front) + Len(back) :
           n[j] = IF j <= Len(front) THEN front[j] ELSE back[j - Len(front)]
  BY <1>2, <1>3, <1>4, ConcatProperties
<1>6. ASSUME NEW j \in 1..Len(n)
      PROVE  n[j] = IF j < i THEN q[j] ELSE q[j + 1]
  <2>1. CASE j < i
    BY <1>1, <1>2, <1>3, <1>5, <2>1
  <2>2. CASE ~ (j < i)
    <3>1. n[j] = back[j - (i - 1)] /\ j - (i - 1) \in 1 .. Len(q) - i
      BY <1>1, <1>2, <1>3, <1>5, <2>2
    <3>2. i + (j - (i - 1)) = j + 1
      BY <1>1, <1>2, <1>3, <1>5
    <3>3. QED
      BY <1>3, <2>2, <3>1, <3>2
  <2>3. QED
    BY <2>1, <2>2
<1>7. QED
  BY <1>1, <1>2, <1>3, <1>5, <1>6 DEF Without, n

LEMMA TailWithout ==
  ASSUME NEW q \in Seq(Caller), q # <<>>
  PROVE  Len(q) \in Nat \ {0} /\ Head(q) = q[1] /\ Without(q, 1, Tail(q))
<1>1. Len(q) \in Nat \ {0} /\ Head(q) = q[1]
  BY LenProperties, HeadTailProperties
<1>2. /\ Tail(q) \in Seq(Caller)
      /\ Len(Tail(q)) = Len(q) - 1
      /\ \A i \in 1 .. Len(Tail(q)) : Tail(q)[i] = q[i + 1]
  BY HeadTailProperties
<1>3. QED
  BY <1>1, <1>2 DEF Without

(* Where each of the others has come from.                                 *)
LEMMA WithoutOne ==
  ASSUME NEW q \in Seq(Caller), IsInjective(q), NEW i \in 1..Len(q), NEW n, Without(q, i, n)
  PROVE  /\ n \in Seq(Caller) /\ IsInjective(n)
         /\ ToSet(n) = ToSet(q) \ {q[i]}
         /\ \A j \in 1..Len(n) : \E k \in {j, j + 1} :
              /\ k \in 1..Len(q) /\ k # i /\ n[j] = q[k]
              /\ k = j => j < i
<1> DEFINE from(j) == IF j < i THEN j ELSE j + 1
<1>1. /\ Len(q) \in Nat /\ DOMAIN q = 1..Len(q)
      /\ n \in Seq(Caller) /\ Len(n) = Len(q) - 1 /\ DOMAIN n = 1..Len(n)
  BY LenProperties DEF Without
<1>2. \A j \in 1..Len(n) : from(j) \in 1..Len(q) /\ from(j) # i /\ n[j] = q[from(j)]
  BY <1>1 DEF Without
<1>3. \A j, k \in 1..Len(n) : from(j) = from(k) => j = k
  BY <1>1
<1>4. \A k \in 1..Len(q) : k # i => \E j \in 1..Len(n) : k = from(j)
  <2> SUFFICES ASSUME NEW k \in 1..Len(q), k # i PROVE \E j \in 1..Len(n) : k = from(j)
    OBVIOUS
  <2>1. CASE k < i
    BY <1>1, <2>1
  <2>2. CASE k > i
    <3>1. k - 1 \in 1..Len(n) /\ k = from(k - 1)
      BY <1>1, <2>2
    <3>2. QED
      BY <3>1
  <2>3. QED
    BY <1>1, <2>1, <2>2
<1>5. \A j \in 1..Len(n) : from(j) \in {j, j + 1} /\ (from(j) = j => j < i)
  BY <1>1
<1> HIDE DEF from
<1>6. \A j, k \in 1..Len(q) : q[j] = q[k] => j = k
  BY <1>1 DEF IsInjective
<1>7. IsInjective(n)
  <2>1. ASSUME NEW j \in 1..Len(n), NEW k \in 1..Len(n), n[j] = n[k] PROVE j = k
    BY <1>2, <1>3, <1>6, <2>1
  <2>2. QED
    BY <1>1, <2>1 DEF IsInjective
<1>8. \A x : x \in ToSet(n) <=> x \in ToSet(q) \ {q[i]}
  <2>1. ASSUME NEW x \in ToSet(n) PROVE x \in ToSet(q) \ {q[i]}
    <3>1. PICK j \in 1..Len(n) : x = n[j]
      BY <1>1 DEF ToSet
    <3>2. x = q[from(j)] /\ from(j) \in 1..Len(q) /\ from(j) # i
      BY <1>2, <3>1
    <3>3. QED
      BY <1>1, <1>6, <3>2 DEF ToSet
  <2>2. ASSUME NEW x \in ToSet(q) \ {q[i]} PROVE x \in ToSet(n)
    <3>1. PICK k \in 1..Len(q) : x = q[k]
      BY <1>1 DEF ToSet
    <3>2. k # i
      BY <2>2, <3>1
    <3>3. PICK j \in 1..Len(n) : k = from(j)
      BY <1>4, <3>2
    <3>4. x = n[j]
      BY <1>2, <3>1, <3>3
    <3>5. QED
      BY <1>1, <3>4 DEF ToSet
  <2>3. QED
    BY <2>1, <2>2
<1>9. ToSet(n) = ToSet(q) \ {q[i]}
  BY <1>8
<1>10. \A j \in 1..Len(n) : \E k \in {j, j + 1} :
         k \in 1..Len(q) /\ k # i /\ n[j] = q[k] /\ (k = j => j < i)
  BY <1>2, <1>5
<1>11. QED
  BY <1>1, <1>7, <1>9, <1>10

(* A newcomer at the end.                                                  *)
LEMMA WithOneMore ==
  ASSUME NEW q \in Seq(Caller), IsInjective(q), NEW r \in Caller, r \notin ToSet(q)
  PROVE  /\ Append(q, r) \in Seq(Caller) /\ IsInjective(Append(q, r))
         /\ ToSet(Append(q, r)) = ToSet(q) \cup {r}
         /\ Len(Append(q, r)) = Len(q) + 1 /\ Append(q, r)[Len(q) + 1] = r
         /\ \A i \in 1..Len(q) : Append(q, r)[i] = q[i]
<1> DEFINE n == Append(q, r)
<1>1. Len(q) \in Nat /\ DOMAIN q = 1..Len(q)
  BY LenProperties
<1>2. /\ n \in Seq(Caller) /\ Len(n) = Len(q) + 1 /\ DOMAIN n = 1..(Len(q) + 1)
      /\ n[Len(q) + 1] = r /\ \A i \in 1..Len(q) : n[i] = q[i]
  BY <1>1, AppendProperties, LenProperties
<1> HIDE DEF n
<1>3. \A i \in 1..Len(q) : q[i] # r
  BY <1>1 DEF ToSet
<1>4. IsInjective(n)
  BY <1>1, <1>2, <1>3 DEF IsInjective
<1>5. ToSet(n) = ToSet(q) \cup {r}
  BY <1>1, <1>2 DEF ToSet
<1>6. QED
  BY <1>1, <1>2, <1>4, <1>5 DEF n

(* Who is in line, and where.                                              *)
LEMMA PlaceInLine ==
  ASSUME InLine, NEW r \in Caller, caller[r] # Idle
  PROVE  Place(r) \in 1..Len(line) /\ line[Place(r)] = r
<1>1. \E i \in DOMAIN line : line[i] = r
  BY DEF InLine, ToSet
<1>2. Place(r) \in DOMAIN line /\ line[Place(r)] = r
  BY <1>1 DEF Place
<1>3. QED
  BY <1>2, LenProperties DEF InLine

-----------------------------------------------------------------------------
(* The steps.                                                              *)

LEMMA AskedTypes ==
  /\ Idle \in Asked /\ ~Idle.did /\ Idle.op = "idle"
  /\ \A c \in Asked : c.since \in Nat /\ c.did \in BOOLEAN
  /\ \A c \in Asked : c # Idle <=> c.op # "idle"
  /\ \A op \in {"unlock", "light", "status"} \cup Part, since \in Nat, did \in BOOLEAN :
       /\ [op |-> op, since |-> since, did |-> did] \in Asked
       /\ [op |-> op, since |-> since, did |-> did] # Idle
<1>1. \A op \in {"unlock", "light", "status"} \cup Part : op # "idle"
  BY DEF Part
<1>2. \A op, since, did : [op |-> op, since |-> since, did |-> did] = Idle => op = "idle"
  BY DEF Idle
<1>3. Idle \in Asked /\ Idle.did = FALSE /\ Idle.op = "idle" /\ Idle.since \in Nat
  BY DEF Asked, Idle
<1>4. ASSUME NEW c \in Asked
      PROVE  c.since \in Nat /\ c.did \in BOOLEAN /\ (c # Idle <=> c.op # "idle")
  <2>1. CASE c = Idle
    BY <1>3, <2>1
  <2>2. CASE c \in [op : {"unlock", "light", "status"} \cup Part, since : Nat, did : BOOLEAN]
    <3>1. c.since \in Nat /\ c.did \in BOOLEAN /\ c.op # "idle"
      BY <1>1, <2>2
    <3>2. QED
      BY <1>3, <3>1
  <2>3. QED
    BY <2>1, <2>2 DEF Asked
<1>5. ASSUME NEW op \in {"unlock", "light", "status"} \cup Part, NEW since \in Nat,
             NEW did \in BOOLEAN
      PROVE  /\ [op |-> op, since |-> since, did |-> did] \in Asked
             /\ [op |-> op, since |-> since, did |-> did] # Idle
  BY <1>1, <1>2 DEF Asked
<1>6. QED
  BY <1>3, <1>4, <1>5

(* Whoever stands one place further up may have waited a turn longer.      *)
LEMMA OneUp ==
  ASSUME NEW c \in Asked, NEW k \in 2..Cardinality(Caller), NEW o \in 0..LongestCall, NEW p \in Nat,
         NotTooLong(c, k, o)
  PROVE  NotTooLong(c, k - 1, p)
<1>1. /\ Waited(k) \in Nat /\ LongestCall \in Nat /\ Turn \in Nat
      /\ Waited(k - 1) = Waited(k) + LongestCall
  BY Turns
<1>2. ~c.did /\ c.since \in Nat /\ Window \in Nat
  BY AskedTypes, DoorsAssumption DEF NotTooLong
<1>3. QED
  BY <1>1, <1>2 DEF NotTooLong

(* Those who stay when somebody leaves the line.                           *)
LEMMA ThoseWhoStay ==
  ASSUME DoorsInv, NEW i \in 1..Len(line), NEW n, Without(line, i, n),
         NEW o \in Nat, i # 1 => o = out
  PROVE  /\ n \in Seq(Caller) /\ IsInjective(n)
         /\ ToSet(n) = ToSet(line) \ {line[i]}
         /\ \A j \in 1..Len(n) : n[j] \in Caller /\ n[j] # line[i] /\ NotTooLong(caller[n[j]], j, o)
<1>1. line \in Seq(Caller) /\ IsInjective(line) /\ Len(line) \in Nat
  BY LenProperties DEF DoorsInv, InLine
<1>2. /\ n \in Seq(Caller) /\ IsInjective(n)
      /\ ToSet(n) = ToSet(line) \ {line[i]}
      /\ \A j \in 1..Len(n) : \E k \in {j, j + 1} :
           /\ k \in 1..Len(line) /\ k # i /\ n[j] = line[k]
           /\ k = j => j < i
  BY <1>1, WithoutOne
<1>3. Len(line) <= Cardinality(Caller) /\ Cardinality(Caller) \in Nat
  BY <1>1, LineFits, Turns
<1>4. ASSUME NEW j \in 1..Len(n)
      PROVE  n[j] \in Caller /\ n[j] # line[i] /\ NotTooLong(caller[n[j]], j, o)
  <2>1. n[j] \in Caller /\ n[j] \in ToSet(n) /\ j \in Nat
    BY <1>2, LenProperties DEF ToSet
  <2>2. PICK k \in {j, j + 1} : k \in 1..Len(line) /\ n[j] = line[k] /\ (k = j => j < i)
    BY <1>2
  <2>3. NotTooLong(caller[n[j]], k, out) /\ caller[n[j]] \in Asked /\ out \in 0..LongestCall
    BY <2>1, <2>2 DEF DoorsInv
  <2>4. CASE k = j
    <3>1. o = out
      BY <1>1, <2>1, <2>2, <2>4
    <3>2. QED
      BY <1>2, <2>1, <2>3, <2>4, <3>1
  <2>5. CASE k = j + 1
    <3>1. k \in 2..Cardinality(Caller) /\ k - 1 = j
      BY <1>1, <1>3, <2>1, <2>2, <2>5
    <3>2. NotTooLong(caller[n[j]], k - 1, o)
      BY <2>3, <3>1, OneUp
    <3>3. QED
      BY <1>2, <2>1, <3>1, <3>2
  <2>6. QED
    BY <2>2, <2>4, <2>5
<1>5. QED
  BY <1>2, <1>4

(* A request ends, at the panel or before its turn.                        *)
LEMMA EndGood ==
  ASSUME DoorsInv, NEW r \in Caller, caller[r] # Idle, NEW row, End(r, row),
         ProofAges', InventoryOK'
  PROVE  DoorsInv'
<1> DEFINE i == Place(r)
<1>1. i \in 1..Len(line) /\ line[i] = r
  BY PlaceInLine DEF DoorsInv
<1>2. /\ caller' = [caller EXCEPT ![r] = Idle]
      /\ line' = RemoveAt(line, i)
      /\ out' = IF r = Head(line) THEN 0 ELSE out
  BY DEF End
<1>3. line \in Seq(Caller) /\ IsInjective(line) /\ line # <<>> /\ Len(line) \in Nat
      /\ DOMAIN line = 1..Len(line)
  BY <1>1, LenProperties DEF DoorsInv, InLine
<1> HIDE DEF i
<1>4. Without(line, i, line')
  BY <1>1, <1>2, <1>3, RemovedWithout
<1>5. Head(line) = line[1] /\ (r = Head(line) <=> i = 1)
  BY <1>1, <1>3, TailWithout DEF IsInjective
<1>6. out' \in 0..LongestCall /\ (i # 1 => out' = out) /\ out' \in Nat
  BY <1>2, <1>5, Turns DEF DoorsInv
<1>7. /\ line' \in Seq(Caller) /\ IsInjective(line')
      /\ ToSet(line') = ToSet(line) \ {r}
      /\ \A j \in 1..Len(line') : /\ line'[j] \in Caller /\ line'[j] # r
                                  /\ NotTooLong(caller[line'[j]], j, out')
  BY <1>1, <1>4, <1>6, ThoseWhoStay
<1>8. /\ caller' \in [Caller -> Asked]
      /\ caller'[r] = Idle /\ \A q \in Caller : q # r => caller'[q] = caller[q]
  BY <1>2, AskedTypes DEF DoorsInv
<1>9. InLine'
  BY <1>7, <1>8 DEF DoorsInv, InLine
<1>10. \A j \in 1..Len(line') : NotTooLong(caller'[line'[j]], j, out')
  BY <1>7, <1>8
<1>11. (\A j \in 1..Len(line) : NotTooLong(caller[line[j]], j, out))'
  BY <1>10 DEF NotTooLong, Waited
<1>12. QED
  BY <1>6, <1>8, <1>9, <1>11 DEF DoorsInv

(* A newcomer, at the end of a line it fits in.                            *)
LEMMA NewcomerFits ==
  ASSUME NEW q \in Seq(Caller), IsInjective(q), NEW r \in Caller, r \notin ToSet(q)
  PROVE  Len(q) + 1 \in 1..Cardinality(Caller)
<1>1. /\ Append(q, r) \in Seq(Caller) /\ IsInjective(Append(q, r))
      /\ Len(Append(q, r)) = Len(q) + 1
  BY WithOneMore
<1>2. Len(Append(q, r)) <= Cardinality(Caller) /\ Len(q) \in Nat /\ Cardinality(Caller) \in Nat
  BY <1>1, LineFits, LenProperties, Turns
<1>3. QED
  BY <1>1, <1>2

(* A line with a newcomer, of whom nothing is late yet.                    *)
LEMMA JoinedLine ==
  ASSUME NEW q \in Seq(Caller), IsInjective(q), NEW r \in Caller, r \notin ToSet(q),
         NEW f \in [Caller -> Asked], NEW o \in Nat,
         \A j \in 1..Len(q) : NotTooLong(f[q[j]], j, o),
         ~f[r].did, f[r].op = "unlock" => f[r].since <= Window,
         f[r].op = "outputs" => f[r].since <= LongestCall,
         f[r].op = "triggers" => f[r].since <= LongestCall + Turn
  PROVE  \A j \in 1..Len(Append(q, r)) : NotTooLong(f[Append(q, r)[j]], j, o)
<1> DEFINE k == Len(q) + 1
<1>1. /\ Len(Append(q, r)) = k /\ Append(q, r)[k] = r
      /\ \A j \in 1..Len(q) : Append(q, r)[j] = q[j]
      /\ Len(q) \in Nat
  BY WithOneMore, LenProperties
<1>2. k \in 1..Cardinality(Caller)
  BY NewcomerFits
<1>3. Waited(k) \in Nat /\ LongestCall \in Nat /\ Turn \in Nat /\ Window \in Nat
  BY <1>2, Turns, DoorsAssumption
<1>4. f[r].since \in Nat
  BY AskedTypes
<1>5. NotTooLong(f[r], k, o)
  BY <1>3, <1>4 DEF NotTooLong
<1>6. QED
  BY <1>1, <1>5

LEMMA JoinGood ==
  ASSUME DoorsInv, NEW r \in Caller, caller[r] = Idle,
         NEW op \in {"unlock", "light", "status", "doors"}, NEW since \in Nat,
         op = "unlock" => since <= Window,
         Join(r, op, since), UNCHANGED <<proofVars, inventory>>
  PROVE  DoorsInv'
<1> DEFINE c == [op |-> op, since |-> since, did |-> FALSE]
<1>1. /\ caller' = [caller EXCEPT ![r] = c]
      /\ line' = Append(line, r) /\ out' = out
  BY DEF Join
<1>2. c \in Asked /\ c # Idle /\ c.op = op /\ c.since = since /\ ~c.did
  BY AskedTypes DEF Part
<1> HIDE DEF c
<1>3. /\ caller' \in [Caller -> Asked]
      /\ caller'[r] = c /\ \A q \in Caller : q # r => caller'[q] = caller[q]
  BY <1>1, <1>2 DEF DoorsInv
<1>4. line \in Seq(Caller) /\ IsInjective(line) /\ r \notin ToSet(line) /\ out \in Nat
  BY Turns DEF DoorsInv, InLine
<1>5. /\ line' \in Seq(Caller) /\ IsInjective(line') /\ ToSet(line') = ToSet(line) \cup {r}
  BY <1>1, <1>4, WithOneMore
<1>6. InLine'
  BY <1>2, <1>3, <1>5 DEF DoorsInv, InLine
<1>7. \A j \in 1..Len(line) : line[j] \in Caller /\ line[j] # r
  BY <1>4, LenProperties DEF ToSet
<1>8. \A j \in 1..Len(line) : NotTooLong(caller'[line[j]], j, out)
  BY <1>3, <1>7 DEF DoorsInv
<1>9. \A j \in 1..Len(Append(line, r)) : NotTooLong(caller'[Append(line, r)[j]], j, out)
  BY <1>2, <1>3, <1>4, <1>8, JoinedLine
<1>10. (\A j \in 1..Len(line) : NotTooLong(caller[line[j]], j, out))'
  BY <1>1, <1>9 DEF NotTooLong, Waited
<1>11. ProofAges' /\ InventoryOK'
  BY DEF DoorsInv, ProofAges, InventoryOK, proofVars
<1>12. QED
  BY <1>1, <1>3, <1>6, <1>10, <1>11 DEF DoorsInv

(* The next call of the request whose turn it was.                         *)
LEMMA GoOnGood ==
  ASSUME DoorsInv, line # <<>>, NEW op \in {"light"} \cup Part,
         GoOn(Head(line), op), UNCHANGED <<proofVars, inventory>>,
         op = "outputs" => caller[Head(line)].since <= LongestCall,
         op = "triggers" => caller[Head(line)].since <= LongestCall + Turn
  PROVE  DoorsInv'
<1> DEFINE r == Head(line)
           n == Tail(line)
           s == IF op \in Part THEN caller[r].since ELSE 0
           c == [op |-> op, since |-> s, did |-> FALSE]
<1>1. /\ caller' = [caller EXCEPT ![r] = c]
      /\ line' = Append(n, r) /\ out' = 0
  BY DEF GoOn
<1>2. line \in Seq(Caller) /\ IsInjective(line) /\ Len(line) \in Nat \ {0}
      /\ r = line[1] /\ Without(line, 1, n) /\ r \in Caller /\ r \in ToSet(line)
  BY TailWithout, LenProperties DEF DoorsInv, InLine, ToSet
<1>3. s \in Nat
  BY <1>2, AskedTypes DEF DoorsInv
<1>4. c \in Asked /\ c # Idle /\ c.op = op /\ c.since = s /\ ~c.did
  BY <1>3, AskedTypes
<1>5. /\ op = "outputs" => s <= LongestCall
      /\ op = "triggers" => s <= LongestCall + Turn
      /\ op # "unlock"
  BY DEF Part
<1> HIDE DEF c, s, r, n
<1>6. /\ caller' \in [Caller -> Asked]
      /\ caller'[r] = c /\ \A q \in Caller : q # r => caller'[q] = caller[q]
  BY <1>1, <1>2, <1>4 DEF DoorsInv
<1>7. /\ n \in Seq(Caller) /\ IsInjective(n)
      /\ ToSet(n) = ToSet(line) \ {r}
      /\ \A j \in 1..Len(n) : n[j] \in Caller /\ n[j] # r /\ NotTooLong(caller[n[j]], j, 0)
  BY <1>2, ThoseWhoStay
<1>8. r \notin ToSet(n)
  BY <1>7
<1>9. line' \in Seq(Caller) /\ IsInjective(line') /\ ToSet(line') = ToSet(n) \cup {r}
  BY <1>1, <1>2, <1>7, <1>8, WithOneMore
<1>10. InLine'
  BY <1>2, <1>4, <1>6, <1>7, <1>9 DEF DoorsInv, InLine
<1>11. \A j \in 1..Len(n) : NotTooLong(caller'[n[j]], j, 0)
  BY <1>6, <1>7
<1>12. \A j \in 1..Len(Append(n, r)) : NotTooLong(caller'[Append(n, r)[j]], j, 0)
  BY <1>2, <1>4, <1>5, <1>6, <1>7, <1>8, <1>11, JoinedLine
<1>13. (\A j \in 1..Len(line) : NotTooLong(caller[line[j]], j, out))'
  BY <1>1, <1>12 DEF NotTooLong, Waited
<1>14. ProofAges' /\ InventoryOK'
  BY DEF DoorsInv, ProofAges, InventoryOK, proofVars
<1>15. out' \in 0..LongestCall
  BY <1>1, Turns
<1>16. QED
  BY <1>6, <1>10, <1>13, <1>14, <1>15 DEF DoorsInv

LEMMA PerformGood ==
  ASSUME DoorsInv, Perform
  PROVE  DoorsInv'
<1> DEFINE r == Head(line)
           s == IF caller[r].op = "doors" THEN 0 ELSE caller[r].since
           c == [caller[r] EXCEPT !.did = TRUE, !.since = s]
<1>1. /\ line # <<>> /\ ~caller[r].did
      /\ UNCHANGED <<proofVars, line, out, inventory>>
  BY DEF Perform
<1>2. line \in Seq(Caller) /\ IsInjective(line) /\ Len(line) \in Nat \ {0}
      /\ r = line[1] /\ r \in Caller /\ r \in ToSet(line) /\ DOMAIN line = 1..Len(line)
  BY <1>1, TailWithout, LenProperties DEF DoorsInv, InLine, ToSet
<1>3. caller[r] \in Asked /\ caller[r] # Idle
  BY <1>2 DEF DoorsInv, InLine
<1>4. /\ caller[r] \in [op : {"unlock", "light", "status"} \cup Part, since : Nat, did : BOOLEAN]
      /\ caller[r].since \in Nat
  BY <1>3 DEF Asked
<1>5. /\ c \in Asked /\ c.op = caller[r].op /\ c.did
      /\ c.since = IF caller[r].op = "doors" THEN 0 ELSE caller[r].since
  BY <1>4 DEF Asked
<1>6. caller' = [caller EXCEPT ![r] = c]
  BY DEF Perform, DoorsInv
<1> HIDE DEF c, s, r
<1>7. /\ caller' \in [Caller -> Asked]
      /\ caller'[r] = c /\ \A q \in Caller : q # r => caller'[q] = caller[q]
  BY <1>2, <1>5, <1>6 DEF DoorsInv
<1>8. c # Idle
  BY <1>5, AskedTypes
<1>9. InLine'
  BY <1>1, <1>3, <1>7, <1>8 DEF DoorsInv, InLine
<1>10. NotTooLong(caller[r], 1, out)
  BY <1>2 DEF DoorsInv
<1>11. NotTooLong(c, 1, out)
  BY <1>5, <1>10, Turns DEF NotTooLong, DoorsInv
<1>12. ASSUME NEW j \in 1..Len(line) PROVE NotTooLong(caller'[line[j]], j, out)
  <2>1. CASE j = 1
    BY <1>2, <1>7, <1>11, <2>1
  <2>2. CASE j # 1
    <3>1. line[j] \in Caller /\ line[j] # r
      BY <1>2, <2>2 DEF IsInjective
    <3>2. QED
      BY <1>7, <3>1 DEF DoorsInv
  <2>3. QED
    BY <2>1, <2>2
<1>13. (\A j \in 1..Len(line) : NotTooLong(caller[line[j]], j, out))'
  BY <1>1, <1>12 DEF NotTooLong, Waited
<1>14. ProofAges' /\ InventoryOK'
  BY <1>1 DEF DoorsInv, ProofAges, InventoryOK, proofVars
<1>15. QED
  BY <1>1, <1>7, <1>9, <1>13, <1>14 DEF DoorsInv

LEMMA LaterAge ==
  ASSUME NEW age \in Nat, NEW last \in Nat
  PROVE  Later(age, last) \in Nat /\ Later(age, last) <= age + 1
BY DEF Later

LEMMA OneTickOn ==
  ASSUME NEW c \in Asked, NEW d \in Asked, d.op = c.op, d.did = c.did, d.since <= c.since + 1,
         NEW i \in 1..Cardinality(Caller), NEW o \in Nat, NotTooLong(c, i, o)
  PROVE  NotTooLong(d, i, o + 1)
<1>1. /\ c.since \in Nat /\ d.since \in Nat /\ Waited(i) \in Nat
      /\ Turn \in Nat /\ LongestCall \in Nat /\ Window \in Nat
  BY AskedTypes, Turns, DoorsAssumption
<1>2. QED
  BY <1>1 DEF NotTooLong

LEMMA TickGood ==
  ASSUME DoorsInv, Tick
  PROVE  DoorsInv'
<1> DEFINE grown(c) == IF c.op \in Part \cup {"unlock"}
                       THEN [c EXCEPT !.since = Later(@, Late)] ELSE c
<1>0. Window \in Nat /\ InventoryTTL \in Nat \ {0} /\ Turn \in Nat /\ LongestCall \in Nat
      /\ Late \in Nat /\ Aged \in Nat
  BY Turns, DoorsAssumption DEF Late, Aged
<1>1. /\ line' = line /\ caller' = [r \in Caller |-> grown(caller[r])]
      /\ line # <<>> => out < LongestCall
      /\ out' = IF line = <<>> THEN 0 ELSE out + 1
  BY DEF Tick
<1>2. ASSUME NEW c \in Asked
      PROVE  /\ grown(c) \in Asked /\ grown(c).op = c.op /\ grown(c).did = c.did
             /\ grown(c).since <= c.since + 1
             /\ grown(c) = Idle <=> c = Idle
  <2>1. CASE c.op \in Part \cup {"unlock"}
    <3> DEFINE s == Later(c.since, Late)
    <3>1. s \in Nat /\ s <= c.since + 1
      BY <1>0, AskedTypes, LaterAge
    <3>2. c \in [op : {"unlock", "light", "status"} \cup Part, since : Nat, did : BOOLEAN]
      BY <2>1 DEF Asked, Idle, Part
    <3>3. grown(c) = [c EXCEPT !.since = s]
      BY <2>1
    <3> HIDE DEF s, grown
    <3>4. /\ grown(c) \in [op : {"unlock", "light", "status"} \cup Part, since : Nat, did : BOOLEAN]
          /\ grown(c).op = c.op /\ grown(c).did = c.did /\ grown(c).since = s
      BY <3>1, <3>2, <3>3
    <3>5. grown(c) \in Asked
      BY <3>4 DEF Asked
    <3>6. QED
      BY <3>1, <3>4, <3>5, AskedTypes
  <2>2. CASE c.op \notin Part \cup {"unlock"}
    BY <2>2, AskedTypes
  <2>3. QED
    BY <2>1, <2>2
<1> HIDE DEF grown
<1>3. caller' \in [Caller -> Asked] /\ \A r \in Caller : caller'[r] = grown(caller[r])
  BY <1>1, <1>2 DEF DoorsInv
<1>4. out' \in 0..LongestCall
  BY <1>0, <1>1 DEF DoorsInv
<1>5. InLine'
  BY <1>1, <1>2, <1>3 DEF DoorsInv, InLine
<1>6. ASSUME NEW j \in 1..Len(line) PROVE NotTooLong(caller'[line[j]], j, out')
  <2> DEFINE c == caller[line[j]]
  <2>1. line \in Seq(Caller) /\ IsInjective(line) /\ Len(line) \in Nat /\ line[j] \in Caller
    BY LenProperties DEF DoorsInv, InLine
  <2>2. j \in 1..Cardinality(Caller) /\ out' = out + 1 /\ out \in Nat
    BY <1>0, <1>1, <2>1, LineFits, Turns DEF DoorsInv
  <2>3. Waited(j) \in Nat
    BY <2>2, Turns
  <2>4. /\ c \in Asked /\ c.since \in Nat /\ NotTooLong(c, j, out)
        /\ caller'[line[j]] = grown(c)
    BY <1>3, <2>1, AskedTypes DEF DoorsInv
  <2> HIDE DEF c
  <2>5. /\ grown(c) \in Asked /\ grown(c).op = c.op /\ grown(c).did = c.did
        /\ grown(c).since <= c.since + 1 /\ grown(c).since \in Nat
    BY <1>2, <2>4, AskedTypes
  <2>6. QED
    BY <2>2, <2>4, <2>5, OneTickOn
<1>7. (\A j \in 1..Len(line) : NotTooLong(caller[line[j]], j, out))'
  BY <1>1, <1>6 DEF NotTooLong, Waited
<1>8. ProofAges'
  <2>1. proved' = [u \in User |-> IF proved[u] = Nobody THEN Nobody
                                  ELSE Later(proved[u], Window + 1)]
    BY DEF Tick, GrowOld
  <2>2. ASSUME NEW u \in User, proved[u] # Nobody PROVE Later(proved[u], Window + 1) \in Nat
    <3>1. proved[u] \in Nat
      BY <2>2 DEF DoorsInv, ProofAges
    <3>2. Window + 1 \in Nat
      BY <1>0
    <3>3. QED
      BY <3>1, <3>2, LaterAge
  <2>3. QED
    BY <2>1, <2>2 DEF ProofAges
<1>9. InventoryOK'
  <2>1. CASE inventory = Nobody \/ Expired(inventory.age + 1)
    BY <2>1 DEF Tick, InventoryOK
  <2>2. CASE inventory # Nobody /\ ~Expired(inventory.age + 1)
    <3> DEFINE a == inventory.age
               o == Later(inventory.oldest, Aged)
    <3>1. /\ a \in Nat /\ inventory.oldest \in Nat
          /\ inventory.oldest <= a + LongestCall + 2 * Turn
      BY <2>2 DEF DoorsInv, InventoryOK
    <3>2. inventory' = [age |-> a + 1, oldest |-> o]
      BY <2>2 DEF Tick
    <3>3. o \in Nat /\ o <= inventory.oldest + 1
      BY <1>0, <3>1, LaterAge
    <3>4. a + 1 < InventoryTTL
      BY <1>0, <2>2, <3>1 DEF Expired
    <3> HIDE DEF a, o
    <3>5. inventory'.age = a + 1 /\ inventory'.oldest = o
      BY <3>2
    <3>6. o <= (a + 1) + LongestCall + 2 * Turn
      BY <1>0, <3>1, <3>3
    <3>7. Turn' = Turn
      BY DEF Turn
    <3>8. QED
      BY <3>1, <3>3, <3>4, <3>5, <3>6 DEF InventoryOK
  <2>3. QED
    BY <2>1, <2>2
<1>10. QED
  BY <1>3, <1>4, <1>5, <1>7, <1>8, <1>9 DEF DoorsInv

LEMMA RestartGood ==
  ASSUME DoorsInv, Restart
  PROVE  DoorsInv'
<1>1. /\ caller' = [r \in Caller |-> Idle] /\ line' = <<>> /\ out' = 0
      /\ inventory' = Nobody /\ proved' = [u \in User |-> Nobody]
  BY DEF Restart, Forget
<1>2. caller' \in [Caller -> Asked] /\ \A r \in Caller : caller'[r] = Idle
  BY <1>1, AskedTypes
<1>3. InLine'
  BY <1>1, <1>2 DEF InLine, IsInjective, ToSet
<1>4. ProofAges' /\ InventoryOK' /\ out' \in 0..LongestCall
  BY <1>1, Turns DEF ProofAges, InventoryOK
<1>5. (\A j \in 1..Len(line) : NotTooLong(caller[line[j]], j, out))'
  BY <1>1
<1>6. QED
  BY <1>2, <1>3, <1>4, <1>5 DEF DoorsInv

(* Steps that only touch the proofs, or nothing at all.                    *)
LEMMA ElsewhereGood ==
  ASSUME DoorsInv, ProofAges', UNCHANGED <<caller, line, out, inventory>>
  PROVE  DoorsInv'
<1>1. InLine' /\ InventoryOK'
  BY DEF DoorsInv, InLine, InventoryOK, Turn
<1>2. (\A j \in 1..Len(line) : NotTooLong(caller[line[j]], j, out))'
  BY DEF DoorsInv, NotTooLong, Waited, Turn
<1>3. QED
  BY <1>1, <1>2 DEF DoorsInv

(* Whoever is at the panel.                                                *)
LEMMA AtThePanel ==
  ASSUME DoorsInv, line # <<>>
  PROVE  /\ Head(line) \in Caller /\ caller[Head(line)] # Idle
         /\ caller[Head(line)] \in Asked
         /\ NotTooLong(caller[Head(line)], 1, out)
         /\ Waited(1) + LongestCall <= Turn /\ Waited(1) \in Nat
<1>1. /\ line \in Seq(Caller) /\ IsInjective(line) /\ Len(line) \in Nat \ {0}
      /\ Head(line) = line[1] /\ Head(line) \in Caller /\ Head(line) \in ToSet(line)
  BY TailWithout, LenProperties DEF DoorsInv, InLine, ToSet
<1>2. 1 \in 1..Len(line) /\ 1 \in 1..Cardinality(Caller)
  BY <1>1, LineFits, Turns
<1>3. QED
  BY <1>1, <1>2, Turns DEF DoorsInv, InLine

LEMMA StepGood ==
  ASSUME DoorsInv, [Next]_vars
  PROVE  DoorsInv'
<1>1. ASSUME NEW r \in Caller, NEW u \in User, AskUnlock(r, u) PROVE DoorsInv'
  <2>1. proved[u] \in Nat /\ proved[u] <= Window
    BY <1>1 DEF AskUnlock, MayUnlock, RecentlyProved, DoorsInv, ProofAges
  <2>2. QED
    BY <1>1, <2>1, JoinGood DEF AskUnlock
<1>2. ASSUME NEW r \in Caller, AskLight(r) PROVE DoorsInv'
  BY <1>2, JoinGood DEF AskLight
<1>3. ASSUME NEW r \in Caller, AskInventory(r) PROVE DoorsInv'
  BY <1>3, JoinGood DEF AskInventory
<1>4. ASSUME NEW r \in Caller, AskStatus(r) PROVE DoorsInv'
  BY <1>4, JoinGood DEF AskStatus
<1>5. ASSUME UNCHANGED <<proofVars, inventory>> PROVE ProofAges' /\ InventoryOK'
  BY <1>5 DEF DoorsInv, ProofAges, InventoryOK, proofVars
<1>6. ASSUME NEW r \in Caller, GiveUp(r) PROVE DoorsInv'
  <2>1. caller[r] # Idle
    <3>1. caller[r].op \in Part /\ Idle.op = "idle"
      BY <1>6, AskedTypes DEF GiveUp
    <3>2. "idle" \notin Part
      BY DEF Part
    <3>3. QED
      BY <3>1, <3>2
  <2>2. QED
    BY <1>5, <1>6, <2>1, EndGood DEF GiveUp
<1>7. CASE Perform
  BY <1>7, PerformGood
<1>8. ASSUME NEW lit \in BOOLEAN, Unlocked(lit) PROVE DoorsInv'
  <2>1. line # <<>> /\ UNCHANGED <<proofVars, inventory>>
    BY <1>8 DEF Unlocked, Replied
  <2>2. CASE lit
    <3>1. GoOn(Head(line), "light")
      BY <1>8, <2>2 DEF Unlocked
    <3>2. QED
      BY <2>1, <3>1, GoOnGood
  <2>3. CASE ~lit
    <3>1. End(Head(line), "written")
      BY <1>8, <2>3 DEF Unlocked
    <3>2. QED
      BY <1>5, <2>1, <3>1, AtThePanel, EndGood
  <2>4. QED
    BY <2>2, <2>3
<1>9. CASE Lit
  BY <1>5, <1>9, AtThePanel, EndGood DEF Lit, Replied
<1>10. CASE ReadStatus
  <2>1. line # <<>> /\ UNCHANGED <<proofVars, inventory>>
    BY <1>10 DEF ReadStatus, Replied
  <2>2. CASE inventory = Nobody
    <3>1. GoOn(Head(line), "doors") /\ "doors" \in Part
      BY <1>10, <2>2 DEF ReadStatus, Part
    <3>2. QED
      BY <2>1, <3>1, GoOnGood
  <2>3. CASE inventory # Nobody
    <3>1. End(Head(line), "written")
      BY <1>10, <2>3 DEF ReadStatus
    <3>2. QED
      BY <1>5, <2>1, <3>1, AtThePanel, EndGood
  <2>4. QED
    BY <2>2, <2>3
<1>11. CASE ReadPart
  <2> DEFINE c == caller[Head(line)]
  <2>1. /\ line # <<>> /\ UNCHANGED <<proofVars, inventory>>
        /\ c.did /\ c.op \in {"doors", "outputs"}
        /\ GoOn(Head(line), IF c.op = "doors" THEN "outputs" ELSE "triggers")
    BY <1>11 DEF ReadPart, Replied
  <2>2. /\ NotTooLong(c, 1, out) /\ c \in Asked /\ out \in 0..LongestCall
        /\ Waited(1) + LongestCall <= Turn /\ Waited(1) \in Nat
    BY <2>1, AtThePanel DEF DoorsInv
  <2>3. c.since \in Nat /\ LongestCall \in Nat /\ Turn \in Nat
    BY <2>2, AskedTypes, Turns
  <2> HIDE DEF c
  <2>4. /\ c.op = "doors" => c.since <= LongestCall
        /\ c.op = "outputs" => c.since <= LongestCall + Turn
    BY <2>1, <2>2, <2>3 DEF NotTooLong
  <2>5. CASE c.op = "doors"
    <3>1. GoOn(Head(line), "outputs") /\ "outputs" \in Part
      BY <2>1, <2>5 DEF Part
    <3>2. QED
      BY <2>1, <2>4, <2>5, <3>1, GoOnGood DEF c
  <2>6. CASE c.op = "outputs"
    <3>1. GoOn(Head(line), "triggers") /\ "triggers" \in Part
      BY <2>1, <2>6 DEF Part
    <3>2. QED
      BY <2>1, <2>4, <2>6, <3>1, GoOnGood DEF c
  <2>7. QED
    BY <2>1, <2>5, <2>6
<1>12. CASE ReadAll
  <2> DEFINE c == caller[Head(line)]
  <2>1. /\ line # <<>> /\ UNCHANGED proofVars
        /\ c.op = "triggers"
        /\ End(Head(line), "written")
        /\ inventory' = [age |-> 0, oldest |-> c.since]
    BY <1>12 DEF ReadAll, Replied
  <2>2. /\ NotTooLong(c, 1, out) /\ c \in Asked /\ out \in 0..LongestCall
        /\ Waited(1) + LongestCall <= Turn /\ Waited(1) \in Nat
    BY <2>1, AtThePanel DEF DoorsInv
  <2>3. c.since \in Nat /\ LongestCall \in Nat /\ Turn \in Nat /\ InventoryTTL \in Nat \ {0}
    BY <2>2, AskedTypes, Turns, DoorsAssumption
  <2> HIDE DEF c
  <2>4. c.since <= LongestCall + 2 * Turn
    BY <2>1, <2>2, <2>3 DEF NotTooLong
  <2>5. inventory'.age = 0 /\ inventory'.oldest = c.since
    BY <2>1
  <2>6. Turn' = Turn
    BY DEF Turn
  <2>7. InventoryOK'
    BY <2>3, <2>4, <2>5, <2>6 DEF InventoryOK
  <2>8. ProofAges'
    BY <2>1 DEF DoorsInv, ProofAges, proofVars
  <2>9. QED
    BY <2>1, <2>7, <2>8, AtThePanel, EndGood
<1>13. CASE Fail
  BY <1>5, <1>13, AtThePanel, EndGood DEF Fail
<1>14. CASE ProofMoves
  <2>1. ProofAges'
    BY <1>14 DEF ProofMoves, Enrol, Withdraw, Prove, DoorsInv, ProofAges
  <2>2. QED
    BY <1>14, <2>1, ElsewhereGood DEF ProofMoves
<1>15. CASE Restart
  BY <1>15, RestartGood
<1>16. CASE Tick
  BY <1>16, TickGood
<1>17. CASE RowRefused
  BY <1>5, <1>17, AtThePanel, EndGood DEF RowRefused, Replied
<1>18. CASE ActAnyway
  BY <1>18, ElsewhereGood DEF ActAnyway, proofVars, DoorsInv, ProofAges
<1>19. CASE UNCHANGED vars
  BY <1>19, ElsewhereGood DEF vars, proofVars, DoorsInv, ProofAges
<1>20. QED
  BY <1>1, <1>2, <1>3, <1>4, <1>6, <1>7, <1>8, <1>9, <1>10, <1>11, <1>12, <1>13, <1>14,
     <1>15, <1>16, <1>17, <1>18, <1>19 DEF Next

LEMMA StartGood == Init => DoorsInv
<1> SUFFICES ASSUME Init PROVE DoorsInv
  OBVIOUS
<1>1. /\ caller = [r \in Caller |-> Idle] /\ line = <<>> /\ out = 0
      /\ inventory = Nobody /\ proved = [u \in User |-> Nobody]
  BY DEF Init, InitProof
<1>2. caller \in [Caller -> Asked] /\ \A r \in Caller : caller[r] = Idle
  BY <1>1, AskedTypes
<1>3. InLine
  BY <1>1, <1>2 DEF InLine, IsInjective, ToSet
<1>4. ProofAges /\ InventoryOK /\ out \in 0..LongestCall
  BY <1>1, Turns DEF ProofAges, InventoryOK
<1>5. \A j \in 1..Len(line) : NotTooLong(caller[line[j]], j, out)
  BY <1>1
<1>6. QED
  BY <1>2, <1>3, <1>4, <1>5 DEF DoorsInv

(* How the panel's one line bounds the age of everything that waits in it. *)
THEOREM DoorsInvariance == Spec => []DoorsInv
BY StartGood, StepGood, PTL DEF Spec

(* Whoever asked unlock_door for a door on a recent proof has the door open*)
(* or has been told that it failed within the window and one turn at the   *)
(* panel, in whatever order unlock_door and the pages reach it.  What the  *)
(* panel does with a request nobody waits for any more has no bound.       *)
THEOREM UnlocksAlwaysTimely == Spec => []UnlocksAreTimely
<1>1. DoorsInv => UnlocksAreTimely
  <2> SUFFICES ASSUME DoorsInv, NEW r \in Caller, caller[r].op = "unlock"
               PROVE  caller[r].since <= Window + Turn
    BY DEF UnlocksAreTimely
  <2>1. line \in Seq(Caller) /\ IsInjective(line) /\ caller[r] # Idle /\ Len(line) \in Nat
    BY LenProperties DEF DoorsInv, InLine, Idle
  <2>2. PICK i \in 1..Len(line) : line[i] = r
    BY <2>1, PlaceInLine DEF DoorsInv
  <2>3. i \in 1..Cardinality(Caller)
    BY <2>1, LineFits, Turns
  <2>4. /\ Waited(i) \in Nat /\ Waited(i) + LongestCall <= Turn
        /\ LongestCall \in Nat /\ Turn \in Nat /\ Window \in Nat
    BY <2>3, Turns, DoorsAssumption
  <2>5. caller[r].since \in Nat /\ NotTooLong(caller[r], i, out) /\ out \in 0..LongestCall
    BY <2>2, AskedTypes DEF DoorsInv
  <2>6. QED
    BY <2>4, <2>5 DEF NotTooLong
<1>2. QED
  BY <1>1, DoorsInvariance, PTL

(* The names and the buttons that pages show were read from the panel no   *)
(* longer ago than the time to live and the longest a refresh can take.    *)
THEOREM InventoryAlwaysRecent == Spec => []InventoryIsRecent
<1>1. DoorsInv => InventoryIsRecent
  BY Turns, DoorsAssumption DEF DoorsInv, InventoryOK, InventoryIsRecent
<1>2. QED
  BY <1>1, DoorsInvariance, PTL

(* Doors is built on what Passkeys implements: its proofs are RecentProof's*)
(* in every step.                                                          *)
THEOREM DoorsKeepRecentProof == Spec => ProofSpec
<1>1. Init => InitProof
  BY DEF Init
<1>2. [Next]_vars => [NextProof]_proofVars
  <2> SUFFICES ASSUME [Next]_vars PROVE NextProof \/ UNCHANGED proofVars
    OBVIOUS
  <2>1. CASE ProofMoves
    BY <2>1 DEF ProofMoves, NextProof
  <2>2. CASE Restart
    BY <2>2 DEF Restart, NextProof
  <2>3. CASE Tick
    BY <2>3 DEF Tick, NextProof
  <2>4. CASE ~ (ProofMoves \/ Restart \/ Tick)
    BY <2>4 DEF Next, vars, proofVars, AskUnlock, AskLight, AskInventory, AskStatus, GiveUp,
                Perform, Unlocked, Lit, ReadStatus, ReadPart, ReadAll, Fail, Replied,
                RowRefused, ActAnyway
  <2>5. QED
    BY <2>1, <2>2, <2>3, <2>4
<1>3. QED
  BY <1>1, <1>2, PTL DEF Spec, ProofSpec
=============================================================================
