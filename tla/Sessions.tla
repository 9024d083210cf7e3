------------------------------ MODULE Sessions ------------------------------
(***************************************************************************)
(* Signing in: auth.py behind the login, password and user routes of       *)
(* api.py, with the command-line administration of useradmin.py as a       *)
(* second process on the same database.                                    *)
(*                                                                         *)
(* scrypt takes a third of a second, so a login, a change of password and  *)
(* a reset each run in a worker thread, a statement at a time, between a   *)
(* check before (the throttle) and an effect after (the new session) that  *)
(* run on the event loop.  Of failed attempts it is kept how many are no   *)
(* older than each age.  A password is a number: the n-th one an account   *)
(* was given.                                                              *)
(***************************************************************************)
EXTENDS Integers, FiniteSets, TLC

CONSTANTS
  User, Client,
  Request,       \* logins and changes of password at work at once
  Admin,         \* administrators at work at once, in the browser or at the command line
  Token,         \* session cookies in use at once (bound)
  NoSession,
  MaxAttempts,   \* LoginThrottle.max_attempts
  Window,        \* LoginThrottle.window_seconds, in ticks
  MaxPassword    \* passwords an account is given in one behaviour (bound)

ASSUME SessionsAssumption ==
  /\ User # {} /\ Client # {}
  /\ Request \cap Admin = {}
  /\ {MaxAttempts, Window} \subseteq Nat \ {0}
  /\ MaxPassword \in Nat
  /\ IsFiniteSet(Request)

VARIABLES
  account,    \* app_user: password, old (hash of an earlier cost), active, mustChange
  session,    \* the session table; under and fate are kept for the properties
  attempts,   \* LoginThrottle._attempts: failures of at most each age, per user and client
  task,       \* what each of them is in the middle of
  latest,     \* the password last given to the account, and
  giver,      \*   on whose act
  legacy      \* accounts whose hash was of an earlier cost at the start

vars == <<account, session, attempts, task, latest, giver, legacy>>

Worker == Request \cup Admin
Age == 0..(Window - 1)
Password == 0..MaxPassword

Account == [password : Password, old : BOOLEAN, active : BOOLEAN, mustChange : BOOLEAN]
Session == [user : User, under : Password,
            fate : {"valid", "doomed", "raced", "spared"}]

(* A password is given to an account by its owner's own choice (who says so*)
(* at the command line by --no-change-required), by somebody else, or by   *)
(* the reset of an administrator's own account, which generates it.        *)
Giver == {"owner", "other", "self"}
Phase == {"idle", "asked", "verified", "refused", "accepted", "hashed", "revoking"}
Task == [phase : Phase, kind : {"login", "change", "reset", "deactivate"},
         user : User, client : Client, typed : Password, forced : BOOLEAN,
         giver : Giver, cli : BOOLEAN, row : Account, overtaken : BOOLEAN]

Blank == [password |-> 0, old |-> FALSE, active |-> FALSE, mustChange |-> FALSE]
Idle == [phase |-> "idle", kind |-> "login", user |-> CHOOSE u \in User : TRUE,
         client |-> CHOOSE c \in Client : TRUE, typed |-> 0, forced |-> FALSE,
         giver |-> "owner", cli |-> FALSE, row |-> Blank, overtaken |-> FALSE]

NoFailures == [a \in Age |-> 0]

(* An account is created by somebody else, with a generated password.      *)
Init ==
  /\ legacy \in SUBSET User
  /\ account = [u \in User |-> [password |-> 0, old |-> u \in legacy,
                                active |-> TRUE, mustChange |-> TRUE]]
  /\ session = [k \in Token |-> NoSession]
  /\ attempts = [k \in User \X Client |-> NoFailures]
  /\ task = [w \in Worker |-> Idle]
  /\ latest = [u \in User |-> 0]
  /\ giver = [u \in User |-> "other"]

Live(k) == session[k] # NoSession
SessionsOf(u) == {k \in Token : Live(k) /\ session[k].user = u}

(* What resolve_session accepts; then what may use the account: both the   *)
(* API, by current_user, and the pages but /ui/password, by                *)
(* force_password_change, ask for a password that need not be changed.     *)
Resolves(k) == Live(k) /\ account[session[k].user].active
MayUse(k) == Resolves(k) /\ ~account[session[k].user].mustChange

------------------------------------------------------------------------------
(* The throttle. *)

Failures(key) == attempts[key][Window - 1]
Blocked(key) == Failures(key) >= MaxAttempts

(* Mutant: two appends to one list, as an earlier version of it did.       *)
RecordFailureTwice(key) ==
  attempts' = [attempts EXCEPT ![key] = [a \in Age |-> attempts[key][a] + 2]]

RecordFailure(key) ==
  attempts' = [attempts EXCEPT ![key] = [a \in Age |-> attempts[key][a] + 1]]

Clear(key) == attempts' = [attempts EXCEPT ![key] = NoFailures]

(* Mutant: an attempt while locked out counts as one more failure.         *)
ThrottledCounts(u, c) ==
  /\ Blocked(<<u, c>>)
  /\ attempts' = [attempts EXCEPT ![<<u, c>>] = [a \in Age |-> MaxAttempts]]
  /\ UNCHANGED <<account, session, task, latest, giver, legacy>>

(* A blocked attempt is answered, and counts for nothing. *)
Throttled(u, c) ==
  /\ Blocked(<<u, c>>)
  /\ UNCHANGED vars

------------------------------------------------------------------------------
(* The worker threads. *)

Become(w, t) == task' = [task EXCEPT ![w] = t]

StartLogin(r, u, c, p) ==
  /\ task[r].phase = "idle"
  /\ ~Blocked(<<u, c>>)
  /\ Become(r, [Idle EXCEPT !.phase = "asked", !.kind = "login", !.user = u,
                            !.client = c, !.typed = p])
  /\ UNCHANGED <<account, session, attempts, latest, giver, legacy>>

(* The owner asks for a new password, naming the current one.              *)
StartChange(r, k, p) ==
  /\ task[r].phase = "idle"
  /\ Resolves(k)
  /\ Become(r, [Idle EXCEPT !.phase = "asked", !.kind = "change",
                            !.user = session[k].user, !.typed = p])
  /\ UNCHANGED <<account, session, attempts, latest, giver, legacy>>

(* An administrator's reset or deactivation: neither reads the account.    *)
Administer(a, u, kind, cli, forced, by) ==
  /\ task[a].phase = "idle"
  /\ Become(a, [Idle EXCEPT !.phase = "hashed", !.kind = kind, !.user = u,
                            !.cli = cli, !.forced = forced, !.giver = by])
  /\ UNCHANGED <<account, session, attempts, latest, giver, legacy>>

(* set_password forces a change unless the actor is the account's owner; an*)
(* administrator who resets the own account is signed in to it.            *)
StartReset(a, u, own) ==
  /\ own => \E k \in Token : MayUse(k) /\ session[k].user = u
  /\ Administer(a, u, "reset", FALSE, ~own, IF own THEN "self" ELSE "other")
StartDeactivation(a, u) == Administer(a, u, "deactivate", FALSE, FALSE, "other")

(* At the command line the forced change may be waived.                    *)
StartPasswdCommand(a, u, waived) ==
  Administer(a, u, "reset", TRUE, ~waived, IF waived THEN "owner" ELSE "other")
StartDeactivateCommand(a, u) == Administer(a, u, "deactivate", TRUE, FALSE, "other")

(* Mutant: every login hashes the password again.                          *)
NeedsRehashAlways(row) == TRUE

NeedsRehash(row) == row.old

(* verify_password: a hash of either format opens to its password only.    *)
Opens(typed, row) == row.password = typed

(* The row is read, then the password verified against what was read.  A   *)
(* change goes on to hash the new password, a login to note the login.     *)
Verify(w) ==
  LET t == task[w]
      row == account[t.user]
      ok == Opens(t.typed, row) /\ (t.kind = "login" => row.active)
  IN /\ t.phase = "asked"
     /\ Become(w, [t EXCEPT !.row = IF ok /\ t.kind = "login" THEN row ELSE Blank,
                            !.phase = CASE ~ok -> "refused"
                                        [] ok /\ t.kind = "login" -> "verified"
                                        [] OTHER -> "hashed"])
     /\ UNCHANGED <<account, session, attempts, latest, giver, legacy>>

(* Mutant: the row is written back as it was read.                         *)
StampWholeRow(r) ==
  /\ task[r].phase = "verified"
  /\ account' = [account EXCEPT ![task[r].user].mustChange = task[r].row.mustChange]
  /\ Become(r, [task[r] EXCEPT !.phase = "accepted", !.row = Blank])
  /\ UNCHANGED <<session, attempts, latest, giver, legacy>>

(* The rest of authenticate: a hash of an earlier cost is replaced by one  *)
(* of the password just verified, and the row is stamped and committed.    *)
Stamp(r) ==
  /\ task[r].phase = "verified"
  /\ account' = IF NeedsRehash(task[r].row)
                THEN [account EXCEPT ![task[r].user].password = task[r].typed,
                                     ![task[r].user].old = FALSE]
                ELSE account
  /\ Become(r, [task[r] EXCEPT !.phase = "accepted", !.row = Blank])
  /\ UNCHANGED <<session, attempts, latest, giver, legacy>>

(* Sessions the change is meant to end, requests it comes too late for.    *)
Doom(u) ==
  session' = [k \in Token |-> IF k \in SessionsOf(u)
                              THEN [session[k] EXCEPT !.fate = "doomed"] ELSE session[k]]
Overtakes(t, u) ==
  /\ t.user = u
  /\ \/ t.phase \in {"verified", "accepted"}
     \/ t.kind = "change" /\ t.phase \in {"asked", "hashed", "revoking"}

(* Another process waits for the service's open statements; the one UPDATE *)
(* sets the hash and the flag together.                                    *)
Replace(w) ==
  LET t == task[w]
      u == t.user
      p == latest[u] + 1
  IN /\ t.phase = "hashed"
     /\ t.kind # "deactivate"
     /\ p \in Password
     /\ account' = [account EXCEPT ![u].password = p, ![u].old = FALSE, ![u].mustChange = t.forced]
     /\ latest' = [latest EXCEPT ![u] = p]
     /\ giver' = [giver EXCEPT ![u] = t.giver]
     /\ Doom(u)
     /\ task' = [v \in Worker |->
          IF v = w THEN [t EXCEPT !.phase = "revoking", !.typed = p]
          ELSE [task[v] EXCEPT !.overtaken = @ \/ Overtakes(task[v], u)]]
     /\ UNCHANGED <<attempts, legacy>>

Deactivate(w) ==
  LET u == task[w].user
  IN /\ task[w].phase = "hashed"
     /\ task[w].kind = "deactivate"
     /\ account' = [account EXCEPT ![u].active = FALSE]
     /\ Doom(u)
     /\ task' = [v \in Worker |->
          IF v = w THEN [task[w] EXCEPT !.phase = "revoking"]
          ELSE [task[v] EXCEPT !.overtaken = @ \/ Overtakes(task[v], u)]]
     /\ UNCHANGED <<attempts, latest, giver, legacy>>

(* Mutant: one session is deleted, not all of the account's.               *)
RevokeOne(w) ==
  LET t == task[w]
  IN /\ t.phase = "revoking"
     /\ \E gone \in SessionsOf(t.user) \cup {CHOOSE k \in Token : TRUE} :
          session' = [session EXCEPT ![gone] = NoSession]
     /\ Become(w, IF t.kind = "change" THEN [t EXCEPT !.phase = "accepted"] ELSE Idle)
     /\ UNCHANGED <<account, attempts, latest, giver, legacy>>

(* The sessions go in a transaction of their own.  Only an owner's change  *)
(* goes on, to give the browser it came from a new session.                *)
RevokeAll(w) ==
  LET t == task[w]
  IN /\ t.phase = "revoking"
     /\ session' = [k \in Token |-> IF k \in SessionsOf(t.user) THEN NoSession ELSE session[k]]
     /\ Become(w, IF t.kind = "change" THEN [t EXCEPT !.phase = "accepted"] ELSE Idle)
     /\ UNCHANGED <<account, attempts, latest, giver, legacy>>

------------------------------------------------------------------------------
(* Back on the event loop. *)

Refuse(r) ==
  /\ task[r].phase = "refused"
  /\ IF task[r].kind = "login" THEN RecordFailure(<<task[r].user, task[r].client>>)
                               ELSE UNCHANGED attempts
  /\ Become(r, Idle)
  /\ UNCHANGED <<account, session, latest, giver, legacy>>

(* create_session: a cookie for whoever was let in.                        *)
NewSession(t) ==
  [user |-> t.user, under |-> t.typed, fate |-> IF t.overtaken THEN "raced" ELSE "valid"]

Admit(r, k) ==
  LET t == task[r]
  IN /\ t.phase = "accepted"
     /\ ~Live(k)
     /\ IF t.kind = "login" THEN Clear(<<t.user, t.client>>) ELSE UNCHANGED attempts
     /\ session' = [session EXCEPT ![k] = NewSession(t)]
     /\ Become(r, Idle)
     /\ UNCHANGED <<account, latest, giver, legacy>>

(* Signing out, or the end of the session's life: an expired row opens     *)
(* nothing, whether or not a request has already deleted it.               *)
EndSession(k) ==
  /\ Live(k)
  /\ session' = [session EXCEPT ![k] = NoSession]
  /\ UNCHANGED <<account, attempts, task, latest, giver, legacy>>

(* The service dies and comes back: its requests and the throttle's memory *)
(* are gone, the database is not, and a command runs on.                   *)
Restart ==
  /\ attempts' = [k \in User \X Client |-> NoFailures]
  /\ task' = [w \in Worker |-> IF task[w].cli THEN task[w] ELSE Idle]
  /\ session' = [k \in Token |->
       IF /\ Live(k)
          /\ session[k].fate = "doomed"
          /\ ~\E a \in Admin : /\ task[a].phase = "revoking"
                               /\ task[a].cli
                               /\ task[a].user = session[k].user
       THEN [session[k] EXCEPT !.fate = "spared"] ELSE session[k]]
  /\ UNCHANGED <<account, latest, giver, legacy>>

Tick ==
  /\ attempts' = [k \in User \X Client |->
       [a \in Age |-> IF a = 0 THEN 0 ELSE attempts[k][a - 1]]]
  /\ UNCHANGED <<account, session, task, latest, giver, legacy>>

Next ==
  \/ \E u \in User, c \in Client : Throttled(u, c)
  \/ \E r \in Request, u \in User, c \in Client, p \in Password : StartLogin(r, u, c, p)
  \/ \E r \in Request, k \in Token, p \in Password : StartChange(r, k, p)
  \/ \E a \in Admin, u \in User :
       \/ \E own \in BOOLEAN : StartReset(a, u, own)
       \/ \E waived \in BOOLEAN : StartPasswdCommand(a, u, waived)
       \/ StartDeactivation(a, u)
       \/ StartDeactivateCommand(a, u)
  \/ \E r \in Request : Verify(r) \/ Stamp(r) \/ Refuse(r)
  \/ \E w \in Worker : Replace(w) \/ RevokeAll(w)
  \/ \E a \in Admin : Deactivate(a)
  \/ \E r \in Request, k \in Token : Admit(r, k)
  \/ \E k \in Token : EndSession(k)
  \/ Restart
  \/ Tick

Spec == Init /\ [][Next]_vars

Symmetry == Permutations(Request) \cup Permutations(Token)

------------------------------------------------------------------------------
TypeOK ==
  /\ account \in [User -> Account]
  /\ session \in [Token -> Session \cup {NoSession}]
  /\ attempts \in [User \X Client -> [Age -> Nat]]
  /\ task \in [Worker -> Task]
  /\ latest \in [User -> Password]
  /\ giver \in [User -> Giver]
  /\ legacy \subseteq User

(* The check of the throttle and the record of a failure are a third of a  *)
(* second apart: concurrent requests overshoot the limit, by no more than  *)
(* one each.                                                               *)
GuessesAreBounded ==
  \A key \in User \X Client : Failures(key) <= MaxAttempts - 1 + Cardinality(Request)

(* A lockout ends with its window: no failure is younger than the lockout  *)
(* but that of a login let past the check before it; trying again does not *)
(* prolong it.                                                             *)
InFlight(key) ==
  \E r \in Request : task[r].kind = "login" /\ <<task[r].user, task[r].client>> = key
                                          /\ task[r].phase = "refused"
LockoutEnds ==
  [][\A key \in User \X Client :
       Blocked(key) /\ ~InFlight(key) => attempts'[key][0] <= attempts[key][0]]_vars

(* "Changing a password kills existing sessions": a session that does not  *)
(* stand under the latest password of an active account is about to go, or *)
(* comes from a request that was already past the password check when the  *)
(* change was made, or was spared by a restart between the change and the  *)
(* revocation.                                                             *)
SessionsAreAccountedFor ==
  \A k \in Token : Live(k) =>
    LET s == session[k]
    IN \/ s.user \in legacy
       \/ s.under = latest[s.user] /\ account[s.user].active
       \/ /\ s.fate = "doomed"
          /\ \E w \in Worker : task[w].phase = "revoking" /\ task[w].user = s.user
       \/ s.fate \in {"raced", "spared"}

(* The login that upgrades a hash writes what it verified, not what is     *)
(* stored by then: only for an account with such a hash can a login bring  *)
(* a replaced password back.                                               *)
LatestPasswordOpens == \A u \in User \ legacy : account[u].password = latest[u]

(* A password somebody else gave an account has to be changed before the   *)
(* account can be used, by the API or its pages, whatever logins, changes  *)
(* and resets were in flight when it was given.  Not so the password that  *)
(* an administrator's reset of the own account generates, although         *)
(* README.md:523-525 and the reply (api.py:1299) say it has to be.         *)
OwesAChange ==
  \A k \in Token : MayUse(k) => giver[session[k].user] # "other"
=============================================================================
