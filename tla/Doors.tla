-------------------------------- MODULE Doors --------------------------------
(***************************************************************************)
(* Doors, lights and the panel's inventory: truportal.py, as the routes of *)
(* api.py use it.  The panel is called by one request at a time, in the    *)
(* order they asked: a call is made under an asyncio.Lock and lasts at     *)
(* most LongestCall ticks.  What a handler does between two calls is one   *)
(* step.  A request the panel has been sent outlives the call: the client  *)
(* may give up, or the service die, and the panel act on it all the same.  *)
(* The proof that opens a door is RecentProof's, which Passkeys implements.*)
(***************************************************************************)
EXTENDS RecentProof, Sequences, FiniteSets, SequencesExt

CONSTANTS
  Caller,         \* requests that may be talking to the panel at once
  InventoryTTL,   \* TruPortal._inventory_ttl, in ticks
  LongestCall     \* how long one call may last, in ticks: httpx gives TruPortal._timeout to
                  \* connecting, to sending and to each piece of the reply, one by one

ASSUME DoorsAssumption ==
  /\ Nobody \notin Nat
  /\ {Window, LongestCall} \subseteq Nat
  /\ InventoryTTL \in Nat \ {0}
  /\ IsFiniteSet(Caller)

VARIABLES
  caller,      \* what each request is in the middle of
  line,        \* TruPortal._lock: its holder, then who waits for it
  out,         \* how long the holder's call has lasted
  inventory,   \* TruPortal._inventory, while it is used: ages of it and its oldest part
  adrift,      \* unlocks sent to the panel whose call is over: what became of their rows
  offRecord    \* doors that opened without an audit row: what became of it

vars == <<proofVars, caller, line, out, inventory, adrift, offRecord>>

Part == {"doors", "outputs", "triggers"}

(* What becomes of the audit row of an unlock: it is written, it is lost,  *)
(* the store refusing it or the service dying first, or it is left out by  *)
(* the handler.                                                            *)
Row == {"written", "lost", "left out"}

(* The longest turn at the panel: everybody's call, one's own the last.    *)
Turn == Cardinality(Caller) * LongestCall
Late == Window + LongestCall + 2 * Turn + 1
Aged == InventoryTTL + LongestCall + 2 * Turn + 1

(* since: ticks since the proof that allowed an unlock, or since a refresh *)
(* of the inventory made its first call; did: the panel has acted on it.   *)
Idle == [op |-> "idle", since |-> 0, did |-> FALSE]

Init ==
  /\ InitProof
  /\ caller = [r \in Caller |-> Idle]
  /\ line = <<>>
  /\ out = 0
  /\ inventory = Nobody
  /\ adrift = {}
  /\ offRecord = {}

------------------------------------------------------------------------------
(* The panel's lock: asked for, and handed to whoever is next.             *)

Join(r, op, since) ==
  /\ caller' = [caller EXCEPT ![r] = [op |-> op, since |-> since, did |-> FALSE]]
  /\ line' = Append(line, r)
  /\ UNCHANGED out

Place(r) == CHOOSE i \in DOMAIN line : line[i] = r

(* What becomes of a door when the call that is to open it is over: the    *)
(* panel has acted, and the row is what it is, or it may have the request  *)
(* and act on it yet.                                                      *)
LeaveDoor(r, row) ==
  IF caller[r].op # "unlock" THEN UNCHANGED <<adrift, offRecord>>
  ELSE IF caller[r].did THEN offRecord' = offRecord \cup ({row} \ {"written"}) /\ UNCHANGED adrift
  ELSE adrift' \in {adrift, adrift \cup {row}} /\ UNCHANGED offRecord

(* Mutant: a request that ends before the panel has answered, by a fault   *)
(* or by giving up, does not release the lock.                             *)
EndUnreleased(r, row) ==
  /\ caller' = [caller EXCEPT ![r] = Idle]
  /\ line' = IF caller[r].did THEN RemoveAt(line, Place(r)) ELSE line
  /\ out' = IF caller[r].did /\ r = Head(line) THEN 0 ELSE out
  /\ LeaveDoor(r, row)

(* A request ends, its audit row written, lost or left out.                *)
End(r, row) ==
  /\ caller' = [caller EXCEPT ![r] = Idle]
  /\ line' = RemoveAt(line, Place(r))
  /\ out' = IF r = Head(line) THEN 0 ELSE out
  /\ LeaveDoor(r, row)

(* Mutant: the lock is kept from one call of a request to its next.        *)
GoOnWithTheLock(r, op) ==
  /\ caller' = [caller EXCEPT ![r] = [op |-> op, did |-> FALSE,
                                   since |-> IF op \in Part THEN caller[r].since ELSE 0]]
  /\ out' = 0
  /\ UNCHANGED <<line, adrift, offRecord>>

(* Its next call queues behind whoever waits.                              *)
GoOn(r, op) ==
  /\ caller' = [caller EXCEPT ![r] = [op |-> op, did |-> FALSE,
                                   since |-> IF op \in Part THEN caller[r].since ELSE 0]]
  /\ line' = Append(Tail(line), r)
  /\ out' = 0
  /\ UNCHANGED <<adrift, offRecord>>

------------------------------------------------------------------------------
(* require_recent_verification, where passkeys are configured: a passkey is*)
(* still needed, not only the proof it made.                               *)
MayUnlock(u) == u \in enrolled /\ RecentlyProved(u)

(* unlock_door, of a door on the user's list.                              *)
AskUnlock(r, u) ==
  /\ caller[r] = Idle
  /\ MayUnlock(u)
  /\ Join(r, "unlock", proved[u])
  /\ UNCHANGED <<proofVars, inventory, adrift, offRecord>>

(* fire_lighting *)
AskLight(r) ==
  /\ caller[r] = Idle
  /\ Join(r, "light", 0)
  /\ UNCHANGED <<proofVars, inventory, adrift, offRecord>>

(* Mutant: an inventory is used one tick too long.                         *)
ExpiredLate(age) == age > InventoryTTL

Expired(age) == age >= InventoryTTL

(* inventory(), when there is none: three calls, one after the other.      *)
AskInventory(r) ==
  /\ caller[r] = Idle
  /\ inventory = Nobody
  /\ Join(r, "doors", 0)
  /\ UNCHANGED <<proofVars, inventory, adrift, offRecord>>

(* access_status: the doors' live state first, then the inventory for their*)
(* names, read only if there is none by then.                              *)
AskStatus(r) ==
  /\ caller[r] = Idle
  /\ Join(r, "status", 0)
  /\ UNCHANGED <<proofVars, inventory, adrift, offRecord>>

(* The panel acts on the call of the request that holds the lock.          *)
Perform ==
  /\ line # <<>>
  /\ LET r == Head(line)
     IN /\ ~caller[r].did
        /\ caller' = [caller EXCEPT ![r].did = TRUE,
                                    ![r].since = IF caller[r].op = "doors" THEN 0 ELSE @]
  /\ UNCHANGED <<proofVars, line, out, inventory, adrift, offRecord>>

Replied(ops) ==
  /\ line # <<>>
  /\ caller[Head(line)].did
  /\ caller[Head(line)].op \in ops
  /\ UNCHANGED proofVars

(* The door opened: a row, then a tenant's own corridor if one has lights. *)
(* The store may refuse the row, and the request ends with that.           *)
Unlocked(lit) ==
  /\ Replied({"unlock"})
  /\ IF lit THEN GoOn(Head(line), "light") ELSE End(Head(line), "written")
  /\ UNCHANGED inventory

RowRefused ==
  /\ Replied({"unlock"})
  /\ End(Head(line), "lost")
  /\ UNCHANGED inventory

Lit ==
  /\ Replied({"light"})
  /\ End(Head(line), "written")
  /\ UNCHANGED inventory

(* The live state is shown, not kept.                                      *)
ReadStatus ==
  /\ Replied({"status"})
  /\ IF inventory = Nobody THEN GoOn(Head(line), "doors") ELSE End(Head(line), "written")
  /\ UNCHANGED inventory

ReadPart ==
  /\ Replied({"doors", "outputs"})
  /\ GoOn(Head(line), IF caller[Head(line)].op = "doors" THEN "outputs" ELSE "triggers")
  /\ UNCHANGED inventory

(* The inventory is replaced when all of it has been read.                 *)
ReadAll ==
  /\ Replied({"triggers"})
  /\ End(Head(line), "written")
  /\ inventory' = [age |-> 0, oldest |-> caller[Head(line)].since]

(* Mutant: no failed act is recorded, as in fire_lighting.                 *)
RecordsNoFailure(op) == FALSE

(* The acts that leave a row also when the call fails.                     *)
RecordsFailure(op) == op = "unlock"

(* Refused, no reply, timed out: the panel may have acted all the same, or *)
(* have the request and act on it later.  A failed unlock has its row too. *)
Fail ==
  /\ line # <<>>
  /\ \E row \in IF RecordsFailure(caller[Head(line)].op) THEN {"written", "lost"}
               ELSE {"left out"} :
       End(Head(line), row)
  /\ UNCHANGED <<proofVars, inventory>>

(* The panel acts on a request nobody waits for any more.                  *)
ActAnyway ==
  /\ \E row \in adrift :
       /\ adrift' = adrift \ {row}
       /\ offRecord' = offRecord \cup ({row} \ {"written"})
  /\ UNCHANGED <<proofVars, caller, line, out, inventory>>

(* access_buttons gives its reading of the inventory up after a budget of  *)
(* three seconds, wherever that has got to.                                *)
GiveUp(r) ==
  /\ caller[r].op \in Part
  /\ End(r, "left out")
  /\ UNCHANGED <<proofVars, inventory>>

------------------------------------------------------------------------------
(* Proofs come and go as RecentProof says.                                 *)
ProofMoves ==
  /\ \E u \in User : Enrol(u) \/ Withdraw(u) \/ Prove(u)
  /\ UNCHANGED <<caller, line, out, inventory, adrift, offRecord>>

(* What the service held in memory is gone; the row of an unlock is written*)
(* after the panel's reply, and an unlock at the panel dies without.       *)
Restart ==
  /\ Forget
  /\ caller' = [r \in Caller |-> Idle]
  /\ line' = <<>>
  /\ out' = 0
  /\ inventory' = Nobody
  /\ IF line = <<>> THEN UNCHANGED <<adrift, offRecord>> ELSE LeaveDoor(Head(line), "lost")

(* A call that has lasted its longest ends before time goes on.            *)
Tick ==
  /\ line # <<>> => out < LongestCall
  /\ GrowOld
  /\ out' = IF line = <<>> THEN 0 ELSE out + 1
  /\ caller' = [r \in Caller |-> IF caller[r].op \in Part \cup {"unlock"}
                                 THEN [caller[r] EXCEPT !.since = Later(@, Late)]
                                 ELSE caller[r]]
  /\ inventory' = IF inventory = Nobody \/ Expired(inventory.age + 1) THEN Nobody
                  ELSE [age |-> inventory.age + 1, oldest |-> Later(inventory.oldest, Aged)]
  /\ UNCHANGED <<line, adrift, offRecord>>

Next ==
  \/ \E r \in Caller, u \in User : AskUnlock(r, u)
  \/ \E r \in Caller : AskLight(r) \/ AskInventory(r) \/ AskStatus(r) \/ GiveUp(r)
  \/ Perform
  \/ \E lit \in BOOLEAN : Unlocked(lit)
  \/ RowRefused
  \/ Lit
  \/ ReadStatus
  \/ ReadPart
  \/ ReadAll
  \/ Fail
  \/ ActAnyway
  \/ ProofMoves
  \/ Restart
  \/ Tick

(* Whoever has a turn at the panel uses it: its reply, its fault or the    *)
(* client's timeouts end the call.                                         *)
Spec == Init /\ [][Next]_vars
             /\ WF_vars(Unlocked(FALSE) \/ Lit \/ ReadStatus \/ ReadPart \/ ReadAll \/ Fail)

------------------------------------------------------------------------------
(* The panel is asked to open a door while the proof was recent, or at most*)
(* one turn at the panel later, whoever was ahead in the line and however  *)
(* slow each call: past that the user has the door open, or has been told  *)
(* that it failed.  When the panel acts on a request it was sent is its own*)
(* matter (ActAnyway), and no code bounds it.                              *)
UnlocksAreTimely ==
  \A r \in Caller : caller[r].op = "unlock" => caller[r].since <= Window + Turn

(* Every door that opened has a row, whether or not the panel's reply came,*)
(* and also when the panel opened it after the client had given up: an     *)
(* unlock whose outcome is unknown is recorded as one that failed.  Only   *)
(* the death of the service at that moment and a store that refuses the row*)
(* leave one without.                                                      *)
OpeningsAreOnRecord == offRecord \subseteq {"lost"}

(* What is shown as the panel's was read from it within the time to live   *)
(* and the time a refresh takes between its first call and its last, also  *)
(* when refreshes overlap, fail in the middle or are given up.             *)
InventoryIsRecent ==
  inventory # Nobody => inventory.oldest < InventoryTTL + LongestCall + 2 * Turn

(* Whoever asks for the panel is done with it some day: nobody keeps the   *)
(* lock, not even a page that gives up in the middle of a call.            *)
PanelIsNeverStuck == \A r \in Caller : caller[r] # Idle ~> caller[r] = Idle
=============================================================================
