--------------------------- MODULE DeviceCommands ---------------------------
(***************************************************************************)
(* Overriding the occupancy of a thermostat and starting a timed bypass:   *)
(* the commands of api.py that take several writes, and the route by which *)
(* a manager writes any one of their points on its own.  Each write is a   *)
(* transaction of its own (the gate serialises writes, not commands), its  *)
(* acknowledgement may be lost after it was applied, and a command that    *)
(* misses one stops there.  Two people, or two tabs, may command the same  *)
(* thermostat at once.                                                     *)
(***************************************************************************)
EXTENDS Naturals, Sequences

CONSTANTS
  Request,      \* commands under way at once
  Forced,       \* the occupancy states an override may force
  NoOverride,   \* OccupancyState.NO_OVERRIDE
  Minutes,      \* the durations a bypass may ask for
  MaxCommands   \* commands given in one behaviour (bound)

ASSUME CommandsAssumption ==
  /\ NoOverride \notin Forced
  /\ Minutes \subseteq Nat \ {0}
  /\ MaxCommands \in Nat

VARIABLES
  device,    \* the points of the thermostat
  cache,     \* what the pages show of them
  command,   \* what each request is in the middle of
  given,     \* commands given so far
  crossed,   \* kinds of command whose writes may have crossed, since one ran alone
  cut,       \* kinds of command that may have stopped half way, since one ran alone
  byHand,    \* kinds of command a point of which was written singly, since one ran alone
  missed     \* a command failed, or its refresh did, since the last refresh

commandVars == <<device, cache, command, given, crossed, cut, byHand, missed>>

State == Forced \cup {NoOverride}
Duration == {0} \cup Minutes

(* network_override_enable, occupancy_override; bypass_duration_cfg,       *)
(* bypass_minutes, bypass_enable.                                          *)
Points == [gate : {0, 1}, state : State, cfg : Duration, minutes : Duration, bypass : {0, 1}]
Untouched == [gate |-> 0, state |-> NoOverride, cfg |-> 0, minutes |-> 0, bypass |-> 0]

(* heard: durations anybody has written since the command was given.       *)
NoCommand == [phase |-> "idle", kind |-> "override", all |-> <<>>, left |-> <<>>,
         alone |-> FALSE, heard |-> {}]

InitCommands ==
  /\ device = Untouched
  /\ cache = Untouched
  /\ command = [r \in Request |-> NoCommand]
  /\ given = 0
  /\ crossed = {}
  /\ cut = {}
  /\ byHand = {}
  /\ missed = FALSE

Set(p, v) == [point |-> p, value |-> v]

(* Mutant: the gate closes first.                                          *)
OverrideGateFirst(s) == <<Set("gate", IF s = NoOverride THEN 0 ELSE 1), Set("state", s)>>

(* An override is inert until the gate is open, so the gate opens first;   *)
(* handing back to the schedule closes it last.                            *)
OverrideWrites(s) ==
  IF s = NoOverride THEN <<Set("state", s), Set("gate", 0)>>
                    ELSE <<Set("gate", 1), Set("state", s)>>

(* Mutant: the timer is started before it is told how long to run.         *)
BypassEnableFirst(m) ==
  IF m = 0 THEN <<Set("minutes", 0), Set("bypass", 0)>>
           ELSE <<Set("bypass", 1), Set("cfg", m), Set("minutes", m)>>

(* Mutant: the duration goes to the point the naming suggests, and the     *)
(* configured one is left when there is one.                               *)
BypassByName(m) ==
  IF m = 0 THEN <<Set("minutes", 0), Set("bypass", 0)>>
  ELSE IF device.cfg # 0 THEN <<Set("minutes", m), Set("bypass", 1)>>
  ELSE <<Set("cfg", m), Set("minutes", m), Set("bypass", 1)>>

(* The duration goes before the enable, or the timer starts with whatever  *)
(* was there; cancelling leaves it alone.                                  *)
BypassWrites(m) ==
  IF m = 0 THEN <<Set("minutes", 0), Set("bypass", 0)>>
           ELSE <<Set("cfg", m), Set("minutes", m), Set("bypass", 1)>>

Busy == {r \in Request : command[r].phase # "idle"}
Beside(r, kind) == {q \in Busy \ {r} : command[q].kind = kind /\ command[q].phase = "writing"}

(* One write, through POST /devices/{id}/points/{key}.                     *)
Single(writes) == Len(writes) = 1

(* A command starts; beside another of its kind, neither is alone, and a   *)
(* single write never counts as a command that puts both sides right.      *)
Give(r, kind, writes) ==
  /\ r \notin Busy
  /\ given < MaxCommands
  /\ given' = given + 1
  /\ command' = [q \in Request |->
       IF q = r THEN [phase |-> "writing", kind |-> kind, all |-> writes, left |-> writes,
                      alone |-> Beside(r, kind) = {} /\ ~Single(writes), heard |-> {}]
       ELSE [command[q] EXCEPT !.alone = @ /\ q \notin Beside(r, kind)]]
  /\ crossed' = IF Beside(r, kind) = {} THEN crossed ELSE crossed \cup {kind}
  /\ byHand' = IF Single(writes) THEN byHand \cup {kind} ELSE byHand
  /\ UNCHANGED <<device, cache, cut, missed>>

Override(r, s) == Give(r, "override", OverrideWrites(s))
Bypass(r, m) == Give(r, "bypass", BypassWrites(m))

(* What may be written: a point, and a value the point takes.              *)
Write ==
  [point : {"gate", "bypass"}, value : {0, 1}] \cup [point : {"state"}, value : State]
    \cup [point : {"cfg", "minutes"}, value : Duration]

KindOf(w) == IF w.point \in {"gate", "state"} THEN "override" ELSE "bypass"
WritePoint(r, w) == Give(r, KindOf(w), <<w>>)

(* apply_local_write: of the durations a bypass notes the one, a single    *)
(* write whatever it wrote.                                                *)
Noted(writes) ==
  [p \in DOMAIN cache |->
     IF (p # "cfg" \/ Single(writes)) /\ \E i \in DOMAIN writes : writes[i].point = p
     THEN LET i == CHOOSE j \in DOMAIN writes : writes[j].point = p IN writes[i].value
     ELSE cache[p]]

Carry(w) == device' = [device EXCEPT ![w.point] = w.value]
Hear(w, q) == IF w.point = "cfg" /\ q \in Busy THEN command[q].heard \cup {w.value}
              ELSE command[q].heard

(* The points a command of a kind has to write to put both sides right.    *)
Whole(kind) == IF kind = "override" THEN {"gate", "state"} ELSE {"cfg", "minutes"}

(* The last acknowledgement makes a command good: what crossed, was cut or *)
(* was set by hand before a command that ran alone and wrote every point   *)
(* is put right.  A single write is over with it; nothing is read again.   *)
Acknowledged(r) ==
  LET c == command[r]
      w == Head(c.left)
      last == Len(c.left) = 1
      clean == last /\ c.alone /\ Whole(c.kind) \subseteq {c.all[i].point : i \in DOMAIN c.all}
      put(kinds) == IF clean THEN kinds \ {c.kind} ELSE kinds
  IN /\ c.phase = "writing"
     /\ Carry(w)
     /\ command' = [q \in Request |->
          IF q # r THEN [command[q] EXCEPT !.heard = Hear(w, q)]
          ELSE IF Single(c.all) THEN NoCommand
          ELSE [c EXCEPT !.left = Tail(@), !.heard = Hear(w, r),
                         !.phase = IF last THEN "settling" ELSE "writing"]]
     /\ cache' = IF last THEN Noted(c.all) ELSE cache
     /\ crossed' = put(crossed)
     /\ cut' = put(cut)
     /\ byHand' = put(byHand)
     /\ UNCHANGED <<given, missed>>

(* No acknowledgement, the write applied or not: 503, and no further write.*)
Unacknowledged(r, applied) ==
  LET c == command[r]
      w == Head(c.left)
  IN /\ c.phase = "writing"
     /\ IF applied THEN Carry(w) ELSE UNCHANGED device
     /\ command' = [q \in Request |->
          IF q = r THEN NoCommand
          ELSE IF applied THEN [command[q] EXCEPT !.heard = Hear(w, q)] ELSE command[q]]
     /\ cut' = cut \cup {c.kind}
     /\ missed' = TRUE
     /\ UNCHANGED <<cache, given, crossed, byHand>>

(* Mutant: the page keeps what was asked for.                              *)
SettleHopeful(r, answered) ==
  /\ command[r].phase = "settling"
  /\ missed' = ~answered
  /\ command' = [command EXCEPT ![r] = NoCommand]
  /\ UNCHANGED <<device, cache, given, crossed, cut, byHand>>

(* settle_and_refresh: two seconds later the thermostat is read again and  *)
(* the page drawn, or the next poll is left to find out.                   *)
Settle(r, answered) ==
  /\ command[r].phase = "settling"
  /\ cache' = IF answered THEN device ELSE cache
  /\ missed' = ~answered
  /\ command' = [command EXCEPT ![r] = NoCommand]
  /\ UNCHANGED <<device, given, crossed, cut, byHand>>

(* The service dies; when it is back its first poll fills the cache.       *)
RestartCommands ==
  /\ cut' = cut \cup {command[r].kind : r \in {q \in Request : command[q].phase = "writing"}}
  /\ command' = [r \in Request |-> NoCommand]
  /\ cache' = device
  /\ missed' = FALSE
  /\ UNCHANGED <<device, given, crossed, byHand>>

NextCommand ==
  \/ \E r \in Request :
       \/ \E s \in State : Override(r, s)
       \/ \E m \in Duration : Bypass(r, m)
       \/ \E w \in Write : WritePoint(r, w)
       \/ Acknowledged(r)
       \/ \E applied \in BOOLEAN : Unacknowledged(r, applied)
       \/ \E answered \in BOOLEAN : Settle(r, answered)
  \/ RestartCommands

CommandsSpec == InitCommands /\ [][NextCommand]_commandVars

------------------------------------------------------------------------------
Kind == {"override", "bypass"}
Command == [phase : {"idle", "writing", "settling"}, kind : Kind, all : Seq(Write),
            left : Seq(Write), alone : BOOLEAN, heard : SUBSET Duration]

CommandsTypeOK ==
  /\ {device, cache} \subseteq Points
  /\ command \in [Request -> Command]
  /\ given \in 0..MaxCommands
  /\ crossed \subseteq Kind
  /\ cut \subseteq Kind
  /\ byHand \subseteq Kind
  /\ missed \in BOOLEAN

(* "The device is left as it was found": no override lies behind a closed  *)
(* gate, to take hold when the next command opens it.  No override or      *)
(* release leaves one there, lost or half done; only two that cross can,   *)
(* or a manager who writes the gate or the state on its own, and the next  *)
(* override or release that runs alone puts that right.                    *)
NoOverrideLiesInWait ==
  device.gate = 0 /\ device.state # NoOverride => "override" \in crossed \cup byHand

(* A bypass never starts its timer on a duration from before: the one it   *)
(* runs for was asked for by it, or by somebody who asked meanwhile (a     *)
(* manager who writes the duration alone included).  The enabling point    *)
(* written on its own is not a bypass: it starts with what is there.       *)
TimerIsFresh ==
  [][\A r \in Request :
       ( /\ device.bypass = 0
         /\ device'.bypass = 1
         /\ command[r].left # <<>>
         /\ command'[r].left # command[r].left
         /\ ~Single(command[r].all) )
       => device.cfg \in command[r].heard]_commandVars

(* The two durations "never disagree on inspection" (api.py) while a       *)
(* bypass is set and none is being written, but for commands that crossed  *)
(* or were cut short, and points a manager wrote singly.                   *)
DurationsAgree ==
  ( /\ device.minutes # 0
    /\ "bypass" \notin crossed \cup cut \cup byHand
    /\ \A r \in Busy : command[r].kind = "bypass" => command[r].phase = "settling" )
  => device.cfg = device.minutes

(* When nobody is waiting for an answer the page shows what the device     *)
(* holds, whatever order the commands and the single writes went in, and   *)
(* though a single write reads nothing back, unless somebody was told of a *)
(* failure or a refresh went unanswered.                                   *)
PageIsHonest ==
  Busy = {} /\ ~missed => cache = device
=============================================================================
