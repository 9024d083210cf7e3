-------------------------- MODULE Sessions_proofs ---------------------------
(***************************************************************************)
(* Proofs about Sessions, for any accounts, any number of requests and     *)
(* administrators at work at once, in both processes, and any number of    *)
(* passwords.                                                              *)
(*                                                                         *)
(* The argument: a request past the password check either still holds the  *)
(* password and the active account it was let in for, or was overtaken by  *)
(* the change that took them away, and a session inherits which.           *)
(***************************************************************************)
EXTENDS Sessions, FiniteSetTheorems, TLAPS

(* What was proved to a request still stands.                              *)
Stands(t) == t.typed = latest[t.user] /\ account[t.user].active

(* What is known of a task at each phase.                                  *)
TaskOK(t) ==
  /\ t.phase = "verified" =>
       t.kind = "login" /\ (t.user \notin legacy => ~t.row.old)
  /\ t.phase \in {"verified", "accepted"} =>
       t.user \in legacy \/ t.overtaken \/ Stands(t)
  /\ t.kind = "change" /\ t.phase \in {"asked", "hashed"} =>
       t.overtaken \/ account[t.user].active
  /\ t.kind = "change" /\ t.phase = "revoking" => t.overtaken \/ Stands(t)
  /\ t.kind # "deactivate" /\ t.giver = "other" => t.forced

TasksOK == \A w \in Worker : TaskOK(task[w])

(* The flag in the account, and hashes of an earlier cost.                 *)
AccountsOK ==
  /\ \A u \in User : giver[u] = "other" => account[u].mustChange
  /\ \A u \in User \ legacy : ~account[u].old

(* The inductive invariant.                                                *)
SessionsInv ==
  /\ TypeOK
  /\ TasksOK
  /\ AccountsOK
  /\ SessionsAreAccountedFor
  /\ LatestPasswordOpens

LEMMA IdleKeeps ==
  /\ Idle \in Task
  /\ Idle.phase = "idle" /\ Idle.kind = "login" /\ Idle.giver = "owner" /\ ~Idle.overtaken
<1> DEFINE u == CHOOSE u \in User : TRUE
           c == CHOOSE c \in Client : TRUE
<1>1. u \in User /\ c \in Client
  BY SessionsAssumption
<1> HIDE DEF u, c
<1>2. Idle = [phase |-> "idle", kind |-> "login", user |-> u, client |-> c,
              typed |-> 0, forced |-> FALSE, giver |-> "owner", cli |-> FALSE,
              row |-> Blank, overtaken |-> FALSE]
  BY DEF Idle, u, c
<1>3. 0 \in Password
  BY SessionsAssumption DEF Password
<1>4. Blank \in Account
  BY <1>3 DEF Blank, Account
<1>5. QED
  BY <1>1, <1>2, <1>3, <1>4 DEF Task, Phase, Giver

LEMMA IdleOK == TaskOK(Idle)
  BY IdleKeeps DEF TaskOK

(* A step that takes one task on and leaves accounts and sessions alone.   *)
LEMMA TaskStep ==
  ASSUME SessionsInv, NEW w \in Worker, NEW t \in Task, TaskOK(t), Become(w, t),
         task[w].phase # "revoking", attempts' \in [User \X Client -> [Age -> Nat]],
         UNCHANGED <<account, session, latest, giver, legacy>>
  PROVE  SessionsInv'
<1>1. /\ task' = [task EXCEPT ![w] = t]
      /\ \A v \in Worker : task'[v] = IF v = w THEN t ELSE task[v]
  BY DEF Become, SessionsInv, TypeOK
<1>2. TypeOK'
  BY <1>1 DEF SessionsInv, TypeOK
<1>3. TasksOK'
  BY <1>1 DEF SessionsInv, TasksOK, TaskOK, Stands
<1>4. AccountsOK' /\ LatestPasswordOpens'
  BY DEF SessionsInv, AccountsOK, LatestPasswordOpens
<1>5. SessionsAreAccountedFor'
  <2> SUFFICES ASSUME NEW k \in Token, Live(k)
               PROVE  \/ session[k].user \in legacy
                      \/ /\ session[k].under = latest[session[k].user]
                         /\ account[session[k].user].active
                      \/ /\ session[k].fate = "doomed"
                         /\ \E v \in Worker : /\ task'[v].phase = "revoking"
                                              /\ task'[v].user = session[k].user
                      \/ session[k].fate \in {"raced", "spared"}
    BY DEF SessionsAreAccountedFor, Live
  <2>1. \A v \in Worker : task[v].phase = "revoking" => task'[v] = task[v]
    BY <1>1
  <2>2. QED
    BY <2>1 DEF SessionsInv, SessionsAreAccountedFor
<1>6. QED
  BY <1>2, <1>3, <1>4, <1>5 DEF SessionsInv

LEMMA Unchanging ==
  ASSUME SessionsInv, UNCHANGED attempts
  PROVE  attempts' \in [User \X Client -> [Age -> Nat]]
  BY DEF SessionsInv, TypeOK

LEMMA StartLoginGood ==
  ASSUME SessionsInv, NEW r \in Request, NEW u \in User, NEW c \in Client,
         NEW p \in Password, StartLogin(r, u, c, p)
  PROVE  SessionsInv'
<1> DEFINE t == [Idle EXCEPT !.phase = "asked", !.kind = "login", !.user = u,
                             !.client = c, !.typed = p]
<1>1. t \in Task /\ t.phase = "asked" /\ t.kind = "login" /\ t.giver = "owner"
  BY IdleKeeps DEF Task, Phase
<1>2. r \in Worker /\ task[r].phase = "idle" /\ Become(r, t)
      /\ UNCHANGED <<account, session, attempts, latest, giver, legacy>>
  BY DEF StartLogin, Worker
<1> HIDE DEF t
<1>3. TaskOK(t)
  BY <1>1 DEF TaskOK
<1>4. QED
  BY <1>1, <1>2, <1>3, Unchanging, TaskStep

LEMMA StartChangeGood ==
  ASSUME SessionsInv, NEW r \in Request, NEW k \in Token, NEW p \in Password,
         StartChange(r, k, p)
  PROVE  SessionsInv'
<1> DEFINE u == session[k].user
           t == [Idle EXCEPT !.phase = "asked", !.kind = "change", !.user = u, !.typed = p]
<1>1. u \in User /\ account[u].active
  BY DEF StartChange, Resolves, Live, SessionsInv, TypeOK, Session
<1>2. r \in Worker /\ task[r].phase = "idle" /\ Become(r, t)
      /\ UNCHANGED <<account, session, attempts, latest, giver, legacy>>
  BY DEF StartChange, Worker
<1> HIDE DEF u
<1>3. /\ t \in Task /\ t.phase = "asked" /\ t.kind = "change" /\ t.user = u
      /\ t.giver = "owner"
  BY <1>1, IdleKeeps DEF Task, Phase
<1> HIDE DEF t
<1>4. TaskOK(t)
  BY <1>1, <1>3 DEF TaskOK
<1>5. QED
  BY <1>2, <1>3, <1>4, Unchanging, TaskStep

LEMMA AdministerGood ==
  ASSUME SessionsInv, NEW a \in Admin, NEW u \in User,
         NEW kind \in {"reset", "deactivate"}, NEW cli \in BOOLEAN, NEW forced \in BOOLEAN,
         NEW by \in Giver, kind = "reset" /\ by = "other" => forced,
         Administer(a, u, kind, cli, forced, by)
  PROVE  SessionsInv'
<1> DEFINE t == [Idle EXCEPT !.phase = "hashed", !.kind = kind, !.user = u,
                             !.cli = cli, !.forced = forced, !.giver = by]
<1>1. /\ t \in Task /\ t.phase = "hashed" /\ t.kind = kind
      /\ t.forced = forced /\ t.giver = by
  BY IdleKeeps DEF Task, Phase
<1>2. a \in Worker /\ task[a].phase = "idle" /\ Become(a, t)
      /\ UNCHANGED <<account, session, attempts, latest, giver, legacy>>
  BY DEF Administer, Worker
<1> HIDE DEF t
<1>3. TaskOK(t)
  BY <1>1 DEF TaskOK
<1>4. QED
  BY <1>1, <1>2, <1>3, Unchanging, TaskStep

LEMMA VerifyGood ==
  ASSUME SessionsInv, NEW r \in Request, Verify(r)
  PROVE  SessionsInv'
<1> DEFINE t == task[r]
           row == account[t.user]
           ok == Opens(t.typed, row) /\ (t.kind = "login" => row.active)
           next == [t EXCEPT !.row = IF ok /\ t.kind = "login" THEN row ELSE Blank,
                             !.phase = CASE ~ok -> "refused"
                                         [] ok /\ t.kind = "login" -> "verified"
                                         [] OTHER -> "hashed"]
<1>1. /\ r \in Worker /\ t.phase = "asked" /\ Become(r, next)
      /\ UNCHANGED <<account, session, attempts, latest, giver, legacy>>
  BY DEF Verify, Worker
<1>2. t \in Task /\ TaskOK(t) /\ t.user \in User /\ row \in Account
  BY <1>1 DEF SessionsInv, TypeOK, TasksOK, Task
<1>3. Blank \in Account
  BY SessionsAssumption DEF Blank, Account, Password
<1>4. t.user \notin legacy => ~row.old /\ row.password = latest[t.user]
  BY <1>2 DEF SessionsInv, AccountsOK, LatestPasswordOpens
<1>5. CASE ~ok
  <2> DEFINE n == [t EXCEPT !.row = Blank, !.phase = "refused"]
  <2>1. /\ n \in Task /\ n.phase = "refused" /\ n.kind = t.kind
        /\ n.giver = t.giver /\ n.forced = t.forced
    BY <1>2, <1>3 DEF Task, Phase
  <2>2. next = n
    BY <1>5
  <2> HIDE DEF next, n
  <2>3. TaskOK(n)
    BY <1>2, <2>1 DEF TaskOK
  <2>4. QED
    BY <1>1, <2>1, <2>2, <2>3, Unchanging, TaskStep
<1>6. CASE ok /\ t.kind = "login"
  <2> DEFINE n == [t EXCEPT !.row = row, !.phase = "verified"]
  <2>1. /\ n \in Task /\ n.phase = "verified" /\ n.kind = "login" /\ n.row = row
        /\ n.user = t.user /\ n.typed = t.typed /\ n.giver = t.giver /\ n.forced = t.forced
    BY <1>2, <1>6 DEF Task, Phase
  <2>2. next = n
    BY <1>6
  <2>3. t.typed = row.password /\ row.active
    BY <1>6 DEF Opens
  <2> HIDE DEF next, n
  <2>4. TaskOK(n)
    BY <1>2, <1>4, <1>6, <2>1, <2>3 DEF TaskOK, Stands
  <2>5. QED
    BY <1>1, <2>1, <2>2, <2>4, Unchanging, TaskStep
<1>7. CASE ok /\ t.kind # "login"
  <2> DEFINE n == [t EXCEPT !.row = Blank, !.phase = "hashed"]
  <2>1. /\ n \in Task /\ n.phase = "hashed" /\ n.kind = t.kind
        /\ n.user = t.user /\ n.overtaken = t.overtaken
        /\ n.giver = t.giver /\ n.forced = t.forced
    BY <1>2, <1>3 DEF Task, Phase
  <2>2. next = n
    BY <1>7
  <2> HIDE DEF next, n
  <2>3. TaskOK(n)
    BY <1>1, <1>2, <2>1 DEF TaskOK
  <2>4. QED
    BY <1>1, <2>1, <2>2, <2>3, Unchanging, TaskStep
<1>8. QED
  BY <1>5, <1>6, <1>7

LEMMA RefuseGood ==
  ASSUME SessionsInv, NEW r \in Request, Refuse(r)
  PROVE  SessionsInv'
<1>1. r \in Worker /\ task[r].phase = "refused" /\ Become(r, Idle)
      /\ UNCHANGED <<account, session, latest, giver, legacy>>
  BY DEF Refuse, Worker
<1>2. attempts' \in [User \X Client -> [Age -> Nat]]
  <2> DEFINE key == <<task[r].user, task[r].client>>
             more == [a \in Age |-> attempts[key][a] + 1]
  <2>1. key \in User \X Client
    BY <1>1 DEF SessionsInv, TypeOK, Task
  <2>2. attempts \in [User \X Client -> [Age -> Nat]]
    BY DEF SessionsInv, TypeOK
  <2>3. attempts' = attempts \/ attempts' = [attempts EXCEPT ![key] = more]
    BY DEF Refuse, RecordFailure
  <2> HIDE DEF key
  <2>4. more \in [Age -> Nat]
    BY <2>1, <2>2
  <2> HIDE DEF more
  <2>5. QED
    BY <2>1, <2>2, <2>3, <2>4
<1>3. QED
  BY <1>1, <1>2, IdleKeeps, IdleOK, TaskStep

(* Only an account whose hash was of an earlier cost is written to.        *)
LEMMA StampGood ==
  ASSUME SessionsInv, NEW r \in Request, Stamp(r)
  PROVE  SessionsInv'
<1> DEFINE t == task[r]
           n == [t EXCEPT !.phase = "accepted", !.row = Blank]
<1>1. /\ r \in Worker /\ t.phase = "verified" /\ task' = [task EXCEPT ![r] = n]
      /\ UNCHANGED <<session, attempts, latest, giver, legacy>>
  BY DEF Stamp, Worker, Become
<1>2. t \in Task /\ TaskOK(t) /\ t.user \in User /\ t.typed \in Password
  BY <1>1 DEF SessionsInv, TypeOK, TasksOK, Task
<1>3. Blank \in Account
  BY SessionsAssumption DEF Blank, Account, Password
<1>4. /\ n \in Task /\ n.phase = "accepted" /\ n.user = t.user /\ n.typed = t.typed
      /\ n.overtaken = t.overtaken /\ n.kind = "login" /\ t.kind = "login"
      /\ n.giver = t.giver /\ n.forced = t.forced
  BY <1>1, <1>2, <1>3 DEF Task, Phase, TaskOK
<1>5. \A v \in Worker : task'[v] = IF v = r THEN n ELSE task[v]
  BY <1>1 DEF SessionsInv, TypeOK
<1>6. /\ account' \in [User -> Account]
      /\ \A u \in User : /\ account'[u].active = account[u].active
                         /\ account'[u].mustChange = account[u].mustChange
                         /\ u \notin legacy => account'[u] = account[u]
  <2>1. CASE NeedsRehash(t.row)
    <3>1. t.user \in legacy
      BY <1>1, <1>2, <2>1 DEF TaskOK, NeedsRehash
    <3>2. account' = [account EXCEPT ![t.user].password = t.typed, ![t.user].old = FALSE]
      BY <2>1 DEF Stamp
    <3>3. account \in [User -> Account]
      BY DEF SessionsInv, TypeOK
    <3> HIDE DEF t
    <3>4. QED
      BY <1>2, <3>1, <3>2, <3>3 DEF Account
  <2>2. CASE ~NeedsRehash(t.row)
    BY <2>2 DEF Stamp, SessionsInv, TypeOK
  <2>3. QED
    BY <2>1, <2>2
<1> HIDE DEF n, t
<1>7. TypeOK'
  BY <1>1, <1>4, <1>6 DEF SessionsInv, TypeOK
<1>8. n.user \in legacy \/ n.overtaken \/ (n.typed = latest[n.user] /\ account'[n.user].active)
  BY <1>1, <1>2, <1>4, <1>6 DEF TaskOK, Stands
<1>9. TasksOK'
  <2> SUFFICES ASSUME NEW v \in Worker PROVE TaskOK(task[v])'
    BY DEF TasksOK
  <2>1. CASE v = r
    BY <1>1, <1>2, <1>4, <1>5, <1>8, <2>1 DEF TaskOK, Stands
  <2>2. CASE v # r
    <3>1. task'[v] = task[v] /\ TaskOK(task[v]) /\ task[v] \in Task
      BY <1>5, <2>2 DEF SessionsInv, TasksOK, TypeOK
    <3>2. task[v].user \in User
      BY <3>1 DEF Task
    <3>3. QED
      BY <1>1, <1>6, <3>1, <3>2 DEF TaskOK, Stands
  <2>3. QED
    BY <2>1, <2>2
<1>10. AccountsOK' /\ LatestPasswordOpens'
  BY <1>1, <1>6 DEF SessionsInv, AccountsOK, LatestPasswordOpens
<1>11. SessionsAreAccountedFor'
  <2> SUFFICES ASSUME NEW k \in Token, Live(k)
               PROVE  \/ session[k].user \in legacy
                      \/ /\ session[k].under = latest[session[k].user]
                         /\ account'[session[k].user].active
                      \/ /\ session[k].fate = "doomed"
                         /\ \E v \in Worker : /\ task'[v].phase = "revoking"
                                              /\ task'[v].user = session[k].user
                      \/ session[k].fate \in {"raced", "spared"}
    BY <1>1 DEF SessionsAreAccountedFor, Live
  <2>1. \A v \in Worker : task[v].phase = "revoking" => task'[v] = task[v]
    BY <1>1, <1>5 DEF t
  <2>2. session[k].user \in User
    BY DEF Live, SessionsInv, TypeOK, Session
  <2>3. QED
    BY <1>6, <2>1, <2>2 DEF SessionsInv, SessionsAreAccountedFor
<1>12. QED
  BY <1>7, <1>9, <1>10, <1>11 DEF SessionsInv

(* The task w goes on with n; the ones that come too late are told.        *)
OvertakeOthers(w, u, n) ==
  task' = [v \in Worker |->
    IF v = w THEN n ELSE [task[v] EXCEPT !.overtaken = @ \/ Overtakes(task[v], u)]]

(* A change to the account u: its sessions are doomed, and whoever was let *)
(* in before is overtaken.                                                 *)
LEMMA OvertakeStep ==
  ASSUME SessionsInv, NEW w \in Worker, NEW u \in User, NEW n \in Task,
         n.phase = "revoking", n.user = u, task[w].phase = "hashed",
         n.kind = "change" => n.overtaken \/ (n.typed = latest'[u] /\ account'[u].active),
         OvertakeOthers(w, u, n),
         Doom(u), UNCHANGED <<attempts, legacy>>,
         account' \in [User -> Account], latest' \in [User -> Password],
         n.kind # "deactivate" /\ n.giver = "other" => n.forced,
         giver' \in [User -> Giver], AccountsOK', LatestPasswordOpens',
         \A x \in User \ {u} : account'[x] = account[x] /\ latest'[x] = latest[x]
  PROVE  SessionsInv'
<1>1. ASSUME NEW v \in Worker, v # w
      PROVE  /\ task[v] \in Task /\ task'[v] \in Task
             /\ task'[v].phase = task[v].phase /\ task'[v].kind = task[v].kind
             /\ task'[v].user = task[v].user /\ task'[v].typed = task[v].typed
             /\ task'[v].row = task[v].row
             /\ task'[v].giver = task[v].giver /\ task'[v].forced = task[v].forced
             /\ task[v].overtaken => task'[v].overtaken
             /\ Overtakes(task[v], u) => task'[v].overtaken
  <2>1. task[v] \in Task
    BY DEF SessionsInv, TypeOK
  <2>2. Overtakes(task[v], u) \in BOOLEAN
    BY DEF Overtakes
  <2>3. task'[v] = [task[v] EXCEPT !.overtaken = @ \/ Overtakes(task[v], u)]
    BY <1>1 DEF OvertakeOthers
  <2>4. QED
    BY <2>1, <2>2, <2>3 DEF Task
<1>2. task'[w] = n /\ task' \in [Worker -> Task]
  BY <1>1 DEF OvertakeOthers
<1>3. ASSUME NEW k \in Token
      PROVE  /\ session'[k] \in Session \cup {NoSession}
             /\ Live(k)' => /\ Live(k) /\ session'[k].user = session[k].user
                            /\ session'[k].under = session[k].under
             /\ Live(k)' /\ session[k].user = u => session'[k].fate = "doomed"
             /\ Live(k)' /\ session[k].user # u => session'[k] = session[k]
  <2>1. session[k] \in Session \cup {NoSession}
    BY DEF SessionsInv, TypeOK
  <2>2. CASE k \in SessionsOf(u)
    <3>1. Live(k) /\ session[k].user = u /\ session[k] \in Session
      BY <2>1, <2>2 DEF SessionsOf, Live
    <3>2. session'[k] = [session[k] EXCEPT !.fate = "doomed"]
      BY <2>2 DEF Doom
    <3>3. QED
      BY <3>1, <3>2 DEF Session
  <2>3. CASE k \notin SessionsOf(u)
    <3>1. session'[k] = session[k]
      BY <2>3 DEF Doom
    <3>2. Live(k) => session[k].user # u
      BY <2>3 DEF SessionsOf
    <3>3. QED
      BY <2>1, <3>1, <3>2 DEF Live
  <2>4. QED
    BY <2>2, <2>3
<1>4. session' \in [Token -> Session \cup {NoSession}]
  <2>1. session' = [k \in Token |-> session'[k]]
    BY DEF Doom
  <2>2. QED
    BY <1>3, <2>1
<1>5. TypeOK'
  BY <1>2, <1>4 DEF SessionsInv, TypeOK
<1>6. TasksOK'
  <2> SUFFICES ASSUME NEW v \in Worker PROVE TaskOK(task[v])'
    BY DEF TasksOK
  <2>1. CASE v = w
    BY <1>2, <2>1 DEF TaskOK, Stands
  <2>2. CASE v # w /\ task[v].user = u
    BY <1>1, <2>2 DEF SessionsInv, TasksOK, TaskOK, Overtakes
  <2>3. CASE v # w /\ task[v].user # u
    <3>1. task[v].user \in User \ {u} /\ TaskOK(task[v])
      BY <1>1, <2>3 DEF Task, SessionsInv, TasksOK
    <3>2. QED
      BY <1>1, <2>3, <3>1 DEF TaskOK, Stands
  <2>4. QED
    BY <2>1, <2>2, <2>3
<1>7. SessionsAreAccountedFor'
  <2> SUFFICES ASSUME NEW k \in Token, Live(k)'
               PROVE  LET s == session'[k]
                      IN \/ s.user \in legacy
                         \/ s.under = latest'[s.user] /\ account'[s.user].active
                         \/ /\ s.fate = "doomed"
                            /\ \E v \in Worker : /\ task'[v].phase = "revoking"
                                                 /\ task'[v].user = s.user
                         \/ s.fate \in {"raced", "spared"}
    BY DEF SessionsAreAccountedFor
  <2>1. CASE session[k].user = u
    BY <1>2, <1>3, <2>1
  <2>2. CASE session[k].user # u
    <3>1. Live(k) /\ session'[k] = session[k]
      BY <1>3, <2>2
    <3>2. session[k].user \in User \ {u}
      BY <2>2, <3>1 DEF Live, SessionsInv, TypeOK, Session
    <3>3. \A v \in Worker :
            task[v].phase = "revoking" =>
              task'[v].phase = "revoking" /\ task'[v].user = task[v].user
      BY <1>1
    <3>4. QED
      BY <3>1, <3>2, <3>3 DEF SessionsInv, SessionsAreAccountedFor
  <2>3. QED
    BY <2>1, <2>2
<1>8. QED
  BY <1>5, <1>6, <1>7 DEF SessionsInv

LEMMA ReplaceGood ==
  ASSUME SessionsInv, NEW w \in Worker, Replace(w)
  PROVE  SessionsInv'
<1> DEFINE t == task[w]
           u == t.user
           p == latest[u] + 1
           n == [t EXCEPT !.phase = "revoking", !.typed = p]
<1>1. t \in Task /\ u \in User /\ TaskOK(t)
      /\ t.forced \in BOOLEAN /\ t.giver \in Giver
  BY DEF SessionsInv, TypeOK, TasksOK, Task
<1>2. /\ t.phase = "hashed" /\ p \in Password
      /\ account' = [account EXCEPT ![u].password = p, ![u].old = FALSE,
                                    ![u].mustChange = t.forced]
      /\ latest' = [latest EXCEPT ![u] = p]
      /\ giver' = [giver EXCEPT ![u] = t.giver]
      /\ t.giver = "other" => t.forced
      /\ Doom(u)
      /\ OvertakeOthers(w, u, n)
      /\ UNCHANGED <<attempts, legacy>>
  BY <1>1 DEF Replace, OvertakeOthers, TaskOK
<1>3. /\ n \in Task /\ n.phase = "revoking" /\ n.user = u /\ n.kind = t.kind
      /\ n.typed = p /\ n.overtaken = t.overtaken
      /\ n.giver = t.giver /\ n.forced = t.forced
  BY <1>1, <1>2 DEF Task, Phase
<1>4. /\ account \in [User -> Account] /\ latest \in [User -> Password]
      /\ giver \in [User -> Giver]
  BY DEF SessionsInv, TypeOK
<1>5. n.kind = "change" => n.overtaken \/ account[u].active
  BY <1>1, <1>2, <1>3 DEF TaskOK
<1> DEFINE f == t.forced
           by == t.giver
<1> HIDE DEF n, p, u, f, by
<1>6. account' = [account EXCEPT ![u].password = p, ![u].old = FALSE, ![u].mustChange = f]
  BY <1>2 DEF f
<1>7. /\ f \in BOOLEAN /\ by \in Giver /\ giver' = [giver EXCEPT ![u] = by]
      /\ by = "other" => f
      /\ n.kind # "deactivate" /\ n.giver = "other" => n.forced
  BY <1>1, <1>2, <1>3 DEF f, by
<1> HIDE DEF t
<1>8. /\ account' \in [User -> Account] /\ latest' \in [User -> Password]
      /\ giver' \in [User -> Giver]
      /\ account'[u].password = p /\ ~account'[u].old /\ account'[u].mustChange = f
      /\ account'[u].active = account[u].active
      /\ latest'[u] = p /\ giver'[u] = by
      /\ \A x \in User \ {u} : /\ account'[x] = account[x] /\ latest'[x] = latest[x]
                               /\ giver'[x] = giver[x]
  <2> DEFINE a == account[u]
             b == [a EXCEPT !.password = p, !.old = FALSE, !.mustChange = f]
  <2>1. account' = [account EXCEPT ![u] = b]
    BY <1>1, <1>4, <1>6
  <2>2. a \in Account
    BY <1>1, <1>4
  <2>3. p \in Password /\ f \in BOOLEAN
    BY <1>2, <1>7
  <2> HIDE DEF a
  <2>4. /\ b \in Account /\ b.password = p /\ ~b.old /\ b.mustChange = f
        /\ b.active = a.active
    <3>1. b.old = FALSE /\ b.mustChange = f /\ b.password = p /\ b.active = a.active
      BY <2>2 DEF Account
    <3>2. b \in Account
      BY <2>2, <2>3 DEF Account
    <3>3. QED
      BY <3>1, <3>2
  <2> HIDE DEF b
  <2>5. /\ account' \in [User -> Account] /\ account'[u] = b
        /\ \A x \in User \ {u} : account'[x] = account[x]
    BY <1>1, <1>4, <2>1, <2>4
  <2>6. /\ latest' \in [User -> Password] /\ latest'[u] = p
        /\ \A x \in User \ {u} : latest'[x] = latest[x]
    BY <1>1, <1>2, <1>4, <2>3
  <2>7. /\ giver' \in [User -> Giver] /\ giver'[u] = by
        /\ \A x \in User \ {u} : giver'[x] = giver[x]
    BY <1>1, <1>4, <1>7
  <2>8. QED
    BY <2>4, <2>5, <2>6, <2>7 DEF a
<1>9. AccountsOK' /\ LatestPasswordOpens'
  BY <1>2, <1>7, <1>8 DEF SessionsInv, AccountsOK, LatestPasswordOpens
<1>10. QED
  BY <1>1, <1>2, <1>3, <1>5, <1>7, <1>8, <1>9, OvertakeStep DEF t

LEMMA DeactivateGood ==
  ASSUME SessionsInv, NEW w \in Admin, Deactivate(w)
  PROVE  SessionsInv'
<1> DEFINE t == task[w]
           u == t.user
           n == [t EXCEPT !.phase = "revoking"]
<1>1. w \in Worker /\ t \in Task /\ u \in User
  BY DEF SessionsInv, TypeOK, Task, Worker
<1>2. /\ t.phase = "hashed" /\ t.kind = "deactivate"
      /\ account' = [account EXCEPT ![u].active = FALSE]
      /\ Doom(u)
      /\ OvertakeOthers(w, u, n)
      /\ UNCHANGED <<attempts, latest, giver, legacy>>
  BY DEF Deactivate, OvertakeOthers
<1>3. n \in Task /\ n.phase = "revoking" /\ n.user = u /\ n.kind = "deactivate"
  BY <1>1, <1>2 DEF Task, Phase
<1>4. /\ account \in [User -> Account] /\ latest \in [User -> Password]
      /\ giver \in [User -> Giver]
  BY DEF SessionsInv, TypeOK
<1> HIDE DEF n, u
<1>5. /\ account' \in [User -> Account]
      /\ \A x \in User : /\ account'[x].password = account[x].password
                         /\ account'[x].old = account[x].old
                         /\ account'[x].mustChange = account[x].mustChange
                         /\ x # u => account'[x] = account[x]
  BY <1>1, <1>2, <1>4 DEF Account
<1>6. AccountsOK' /\ LatestPasswordOpens'
  BY <1>2, <1>5 DEF SessionsInv, AccountsOK, LatestPasswordOpens
<1>7. QED
  BY <1>1, <1>2, <1>3, <1>4, <1>5, <1>6, OvertakeStep

LEMMA RevokeAllGood ==
  ASSUME SessionsInv, NEW w \in Worker, RevokeAll(w)
  PROVE  SessionsInv'
<1> DEFINE t == task[w]
           n == IF t.kind = "change" THEN [t EXCEPT !.phase = "accepted"] ELSE Idle
<1>1. /\ t.phase = "revoking" /\ task' = [task EXCEPT ![w] = n]
      /\ session' = [k \in Token |-> IF k \in SessionsOf(t.user) THEN NoSession ELSE session[k]]
      /\ UNCHANGED <<account, attempts, latest, giver, legacy>>
  BY DEF RevokeAll, Become
<1>2. t \in Task /\ TaskOK(t)
  BY DEF SessionsInv, TypeOK, TasksOK
<1>3. n \in Task /\ TaskOK(n)
  <2>1. CASE t.kind = "change"
    <3> DEFINE a == [t EXCEPT !.phase = "accepted"]
    <3>1. /\ a \in Task /\ a.phase = "accepted" /\ a.user = t.user /\ a.typed = t.typed
          /\ a.overtaken = t.overtaken /\ a.kind = t.kind
          /\ a.giver = t.giver /\ a.forced = t.forced
      BY <1>2 DEF Task, Phase
    <3>2. n = a
      BY <2>1
    <3> HIDE DEF a, n
    <3>3. TaskOK(a)
      BY <1>1, <1>2, <2>1, <3>1 DEF TaskOK, Stands
    <3>4. QED
      BY <3>1, <3>2, <3>3
  <2>2. CASE t.kind # "change"
    BY <2>2, IdleKeeps, IdleOK
  <2>3. QED
    BY <2>1, <2>2
<1> HIDE DEF n
<1>4. \A v \in Worker : task'[v] = IF v = w THEN n ELSE task[v]
  BY <1>1 DEF SessionsInv, TypeOK
<1>5. \A k \in Token : Live(k)' => /\ Live(k) /\ session'[k] = session[k]
                                   /\ session[k].user # t.user
  BY <1>1 DEF Live, SessionsOf
<1>6. TypeOK'
  BY <1>1, <1>3 DEF SessionsInv, TypeOK
<1>7. TasksOK'
  BY <1>1, <1>3, <1>4 DEF SessionsInv, TasksOK, TaskOK, Stands
<1>8. AccountsOK' /\ LatestPasswordOpens'
  BY <1>1 DEF SessionsInv, AccountsOK, LatestPasswordOpens
<1>9. SessionsAreAccountedFor'
  BY <1>1, <1>4, <1>5 DEF SessionsInv, SessionsAreAccountedFor
<1>10. QED
  BY <1>6, <1>7, <1>8, <1>9 DEF SessionsInv

LEMMA AdmitGood ==
  ASSUME SessionsInv, NEW r \in Request, NEW k \in Token, Admit(r, k)
  PROVE  SessionsInv'
<1> DEFINE t == task[r]
           n == NewSession(t)
<1>1. /\ r \in Worker /\ t.phase = "accepted" /\ task' = [task EXCEPT ![r] = Idle]
      /\ session' = [session EXCEPT ![k] = n]
      /\ UNCHANGED <<account, latest, giver, legacy>>
  BY DEF Admit, Become, Worker
<1>2. t \in Task /\ TaskOK(t)
  BY <1>1 DEF SessionsInv, TypeOK, TasksOK
<1>3. /\ n \in Session /\ n.user = t.user /\ n.under = t.typed
      /\ t.overtaken => n.fate = "raced"
  BY <1>2 DEF NewSession, Session, Task
<1>4. n.user \in legacy \/ n.fate = "raced"
        \/ (n.under = latest[n.user] /\ account[n.user].active)
  BY <1>1, <1>2, <1>3 DEF TaskOK, Stands
<1> HIDE DEF n
<1>5. /\ \A v \in Worker : task'[v] = IF v = r THEN Idle ELSE task[v]
      /\ \A j \in Token : session'[j] = IF j = k THEN n ELSE session[j]
  BY <1>1 DEF SessionsInv, TypeOK
<1>6. attempts' \in [User \X Client -> [Age -> Nat]]
  <2> DEFINE key == <<t.user, t.client>>
  <2>1. key \in User \X Client
    BY <1>2 DEF Task
  <2>2. attempts \in [User \X Client -> [Age -> Nat]] /\ NoFailures \in [Age -> Nat]
    BY DEF SessionsInv, TypeOK, NoFailures
  <2>3. attempts' = attempts \/ attempts' = [attempts EXCEPT ![key] = NoFailures]
    BY DEF Admit, Clear
  <2> HIDE DEF key
  <2>4. QED
    BY <2>1, <2>2, <2>3
<1>7. TypeOK'
  BY <1>1, <1>3, <1>6, IdleKeeps DEF SessionsInv, TypeOK
<1>8. TasksOK'
  BY <1>1, <1>5, IdleKeeps DEF SessionsInv, TasksOK, TaskOK, Stands
<1>9. AccountsOK' /\ LatestPasswordOpens'
  BY <1>1 DEF SessionsInv, AccountsOK, LatestPasswordOpens
<1>10. SessionsAreAccountedFor'
  BY <1>1, <1>4, <1>5 DEF SessionsInv, SessionsAreAccountedFor, Live
<1>11. QED
  BY <1>7, <1>8, <1>9, <1>10 DEF SessionsInv

LEMMA EndSessionGood ==
  ASSUME SessionsInv, NEW k \in Token, EndSession(k)
  PROVE  SessionsInv'
<1>1. /\ session' = [session EXCEPT ![k] = NoSession]
      /\ UNCHANGED <<account, attempts, task, latest, giver, legacy>>
  BY DEF EndSession
<1>2. TypeOK'
  BY <1>1 DEF SessionsInv, TypeOK
<1>3. TasksOK' /\ AccountsOK' /\ LatestPasswordOpens'
  BY <1>1 DEF SessionsInv, TasksOK, TaskOK, Stands, AccountsOK, LatestPasswordOpens
<1>4. \A j \in Token : Live(j)' => Live(j) /\ session'[j] = session[j]
  BY <1>1 DEF Live, SessionsInv, TypeOK
<1>5. SessionsAreAccountedFor'
  BY <1>1, <1>4 DEF SessionsInv, SessionsAreAccountedFor
<1>6. QED
  BY <1>2, <1>3, <1>5 DEF SessionsInv

(* A session that was to be revoked by a request that died is spared.      *)
LEMMA RestartGood ==
  ASSUME SessionsInv, Restart
  PROVE  SessionsInv'
<1>1. UNCHANGED <<account, latest, giver, legacy>>
  BY DEF Restart
<1>2. \A w \in Worker : task'[w] = IF task[w].cli THEN task[w] ELSE Idle
  BY DEF Restart
<1>3. task' \in [Worker -> Task]
  BY IdleKeeps DEF Restart, SessionsInv, TypeOK
<1>4. attempts' \in [User \X Client -> [Age -> Nat]]
  BY DEF Restart, NoFailures
<1> DEFINE Revoking(u) == \E a \in Admin : /\ task[a].phase = "revoking"
                                           /\ task[a].cli
                                           /\ task[a].user = u
<1>5. ASSUME NEW k \in Token
      PROVE  /\ session'[k] \in Session \cup {NoSession}
             /\ Live(k)' => /\ Live(k) /\ session'[k].user = session[k].user
                            /\ session'[k].under = session[k].under
                            /\ \/ session'[k].fate = "spared"
                               \/ /\ session'[k].fate = session[k].fate
                                  /\ session[k].fate = "doomed" => Revoking(session[k].user)
  <2>1. session[k] \in Session \cup {NoSession}
    BY DEF SessionsInv, TypeOK
  <2>2. CASE Live(k) /\ session[k].fate = "doomed" /\ ~Revoking(session[k].user)
    <3>1. session'[k] = [session[k] EXCEPT !.fate = "spared"]
      BY <2>2 DEF Restart
    <3>2. session[k] \in Session
      BY <2>1, <2>2 DEF Live
    <3>3. QED
      BY <2>2, <3>1, <3>2 DEF Session
  <2>3. CASE ~(Live(k) /\ session[k].fate = "doomed" /\ ~Revoking(session[k].user))
    <3>1. session'[k] = session[k]
      BY <2>3 DEF Restart
    <3>2. QED
      BY <2>1, <2>3, <3>1 DEF Live
  <2>4. QED
    BY <2>2, <2>3
<1>6. session' \in [Token -> Session \cup {NoSession}]
  <2>1. session' = [k \in Token |-> session'[k]]
    BY DEF Restart
  <2>2. QED
    BY <1>5, <2>1
<1>7. TypeOK'
  BY <1>1, <1>3, <1>4, <1>6 DEF SessionsInv, TypeOK
<1>8. TasksOK'
  BY <1>1, <1>2, IdleKeeps DEF SessionsInv, TasksOK, TaskOK, Stands
<1>9. AccountsOK' /\ LatestPasswordOpens'
  BY <1>1 DEF SessionsInv, AccountsOK, LatestPasswordOpens
<1>10. \A u \in User : Revoking(u) =>
         \E w \in Worker : task'[w].phase = "revoking" /\ task'[w].user = u
  BY <1>2 DEF Worker
<1>11. SessionsAreAccountedFor'
  <2> SUFFICES ASSUME NEW k \in Token, Live(k)'
               PROVE  LET s == session'[k]
                      IN \/ s.user \in legacy
                         \/ s.under = latest[s.user] /\ account[s.user].active
                         \/ /\ s.fate = "doomed"
                            /\ \E w \in Worker : /\ task'[w].phase = "revoking"
                                                 /\ task'[w].user = s.user
                         \/ s.fate \in {"raced", "spared"}
    BY <1>1 DEF SessionsAreAccountedFor
  <2> HIDE DEF Revoking
  <2>1. session'[k].user \in User
    BY <1>6 DEF Live, Session
  <2>2. QED
    BY <1>5, <1>10, <2>1 DEF SessionsInv, SessionsAreAccountedFor
<1>12. QED
  BY <1>7, <1>8, <1>9, <1>11 DEF SessionsInv

LEMMA TickGood ==
  ASSUME SessionsInv, Tick
  PROVE  SessionsInv'
<1>1. UNCHANGED <<account, session, task, latest, giver, legacy>>
  BY DEF Tick
<1>2. attempts' \in [User \X Client -> [Age -> Nat]]
  <2>1. ASSUME NEW key \in User \X Client, NEW a \in Age
        PROVE  (IF a = 0 THEN 0 ELSE attempts[key][a - 1]) \in Nat
    <3>1. Window \in Nat \ {0}
      BY SessionsAssumption
    <3>2. a \in Nat /\ (a # 0 => a - 1 \in Age)
      BY <3>1 DEF Age
    <3>3. attempts[key] \in [Age -> Nat]
      BY DEF SessionsInv, TypeOK
    <3> HIDE DEF Age
    <3>4. CASE a = 0
      BY <3>4
    <3>5. CASE a # 0
      BY <3>2, <3>3, <3>5
    <3>6. QED
      BY <3>4, <3>5
  <2> DEFINE older(key) == [a \in Age |-> IF a = 0 THEN 0 ELSE attempts[key][a - 1]]
  <2>2. \A key \in User \X Client : older(key) \in [Age -> Nat]
    BY <2>1
  <2>3. attempts' = [key \in User \X Client |-> older(key)]
    BY DEF Tick
  <2> HIDE DEF older
  <2>4. QED
    BY <2>2, <2>3
<1>3. TypeOK'
  BY <1>1, <1>2 DEF SessionsInv, TypeOK
<1>4. /\ TasksOK' /\ AccountsOK' /\ LatestPasswordOpens' /\ SessionsAreAccountedFor'
  BY <1>1 DEF SessionsInv, TasksOK, TaskOK, Stands, AccountsOK, LatestPasswordOpens,
              SessionsAreAccountedFor, Live
<1>5. QED
  BY <1>3, <1>4 DEF SessionsInv

LEMMA StutterGood ==
  ASSUME SessionsInv, UNCHANGED vars
  PROVE  SessionsInv'
BY DEF vars, SessionsInv, TypeOK, TasksOK, TaskOK, Stands, AccountsOK,
       LatestPasswordOpens, SessionsAreAccountedFor, Live

LEMMA NextGood ==
  ASSUME SessionsInv, [Next]_vars
  PROVE  SessionsInv'
<1>1. ASSUME NEW u \in User, NEW c \in Client, Throttled(u, c)
      PROVE  SessionsInv'
  BY <1>1, StutterGood DEF Throttled
<1>2. ASSUME NEW a \in Admin, NEW u \in User,
             StartDeactivation(a, u) \/ StartDeactivateCommand(a, u)
      PROVE  SessionsInv'
  BY <1>2, AdministerGood DEF StartDeactivation, StartDeactivateCommand, Giver
<1>3. ASSUME NEW a \in Admin, NEW u \in User, NEW mine \in BOOLEAN,
             StartReset(a, u, mine) \/ StartPasswdCommand(a, u, mine)
      PROVE  SessionsInv'
  <2>1. CASE mine
    BY <1>3, <2>1, AdministerGood DEF StartReset, StartPasswdCommand, Giver
  <2>2. CASE ~mine
    BY <1>3, <2>2, AdministerGood DEF StartReset, StartPasswdCommand, Giver
  <2>3. QED
    BY <2>1, <2>2
<1>4. CASE \E u \in User, c \in Client : Throttled(u, c)
  BY <1>1, <1>4
<1>5. CASE \E r \in Request, u \in User, c \in Client, p \in Password : StartLogin(r, u, c, p)
  BY <1>5, StartLoginGood
<1>6. CASE \E r \in Request, k \in Token, p \in Password : StartChange(r, k, p)
  BY <1>6, StartChangeGood
<1>7. CASE \E a \in Admin, u \in User :
             \/ \E own \in BOOLEAN : StartReset(a, u, own)
             \/ \E waived \in BOOLEAN : StartPasswdCommand(a, u, waived)
             \/ StartDeactivation(a, u) \/ StartDeactivateCommand(a, u)
  BY <1>2, <1>3, <1>7
<1>8. CASE \E r \in Request : Verify(r) \/ Stamp(r) \/ Refuse(r)
  BY <1>8, VerifyGood, StampGood, RefuseGood
<1>9. CASE \E w \in Worker : Replace(w) \/ RevokeAll(w)
  BY <1>9, ReplaceGood, RevokeAllGood
<1>10. CASE \E a \in Admin : Deactivate(a)
  BY <1>10, DeactivateGood
<1>11. CASE \E r \in Request, k \in Token : Admit(r, k)
  BY <1>11, AdmitGood
<1>12. CASE \E k \in Token : EndSession(k)
  BY <1>12, EndSessionGood
<1>13. QED
  BY <1>4, <1>5, <1>6, <1>7, <1>8, <1>9, <1>10, <1>11, <1>12,
     RestartGood, TickGood, StutterGood DEF Next
-----------------------------------------------------------------------------
(* In every reachable state what a request was let in for still stands, or *)
(* the request was overtaken by the change that took it away.              *)
THEOREM SessionsInvariance == Spec => []SessionsInv
<1>1. Init => SessionsInv
  <2> SUFFICES ASSUME Init PROVE SessionsInv
    OBVIOUS
  <2>1. 0 \in Password
    BY SessionsAssumption DEF Password
  <2>2. legacy \subseteq User
    BY DEF Init
  <2>3. account \in [User -> Account]
    BY <2>1 DEF Init, Account
  <2>4. TypeOK
    BY <2>1, <2>2, <2>3, IdleKeeps DEF Init, TypeOK, NoFailures, Giver
  <2>5. TasksOK
    BY IdleKeeps DEF Init, TasksOK, TaskOK
  <2>6. AccountsOK /\ LatestPasswordOpens /\ SessionsAreAccountedFor
    BY DEF Init, AccountsOK, LatestPasswordOpens, SessionsAreAccountedFor, Live
  <2>7. QED
    BY <2>4, <2>5, <2>6 DEF SessionsInv
<1>2. SessionsInv /\ [Next]_vars => SessionsInv'
  BY NextGood
<1>3. QED
  BY <1>1, <1>2, PTL DEF Spec

(* Every session of an account whose password was changed, or that was     *)
(* deactivated, is about to be revoked, comes from a request overtaken by  *)
(* the change, or was spared by a restart in the middle of it.             *)
THEOREM EverySessionAccountedFor == Spec => []SessionsAreAccountedFor
<1>1. SessionsInv => SessionsAreAccountedFor
  BY DEF SessionsInv
<1>2. QED
  BY <1>1, SessionsInvariance, PTL

(* authenticate's upgrade of a hash never brings back a password that was  *)
(* replaced meanwhile, for an account whose hash was up to date.           *)
THEOREM LatestPasswordAlwaysOpens == Spec => []LatestPasswordOpens
<1>1. SessionsInv => LatestPasswordOpens
  BY DEF SessionsInv
<1>2. QED
  BY <1>1, SessionsInvariance, PTL

(* No session calls the API or opens a page while the account's password   *)
(* is one that somebody else gave it: the forced change decided before the *)
(* third of a second of hashing is the one stored with the hash, and no    *)
(* login, waived command or own reset in flight takes it back.             *)
THEOREM NobodySkipsTheChange == Spec => []OwesAChange
<1>1. SessionsInv => OwesAChange
  <2> SUFFICES ASSUME SessionsInv, NEW k \in Token, Live(k),
                      ~account[session[k].user].mustChange
               PROVE  giver[session[k].user] # "other"
    BY DEF OwesAChange, MayUse, Resolves
  <2>1. session[k].user \in User
    BY DEF Live, SessionsInv, TypeOK, Session
  <2>2. QED
    BY <2>1 DEF SessionsInv, AccountsOK
<1>2. QED
  BY <1>1, SessionsInvariance, PTL

(* A lockout runs out: while an account is locked for a client, no failure *)
(* is counted but that of a login that was let past the check before.      *)
THEOREM LockoutsEnd == Spec => LockoutEnds
<1> DEFINE Quiet ==
      \A key \in User \X Client :
        Blocked(key) /\ ~InFlight(key) => attempts'[key][0] <= attempts[key][0]
<1>1. SessionsInv /\ [Next]_vars => [Quiet]_vars
  <2> SUFFICES ASSUME SessionsInv, Next, NEW key \in User \X Client, ~InFlight(key)
               PROVE  attempts'[key][0] <= attempts[key][0]
    BY DEF Quiet
  <2>1. /\ attempts \in [User \X Client -> [Age -> Nat]] /\ 0 \in Age
        /\ attempts[key][0] \in Nat
    <3>1. 0 \in Age
      BY SessionsAssumption DEF Age
    <3>2. attempts \in [User \X Client -> [Age -> Nat]]
      BY DEF SessionsInv, TypeOK
    <3>3. QED
      BY <3>1, <3>2
  <2>2. UNCHANGED attempts => attempts'[key][0] <= attempts[key][0]
    BY <2>1
  <2>3. ASSUME NEW r \in Request, Refuse(r)
        PROVE  attempts'[key][0] <= attempts[key][0]
    <3> DEFINE own == <<task[r].user, task[r].client>>
    <3>1. CASE task[r].kind = "login"
      <4>1. own # key
        BY <2>3, <3>1 DEF Refuse, InFlight
      <4>2. attempts'[key] = attempts[key]
        <5> DEFINE more == [a \in Age |-> attempts[own][a] + 1]
        <5>1. attempts' = [attempts EXCEPT ![own] = more]
          BY <2>3, <3>1 DEF Refuse, RecordFailure
        <5> HIDE DEF own, more
        <5>2. QED
          BY <2>1, <4>1, <5>1
      <4>3. QED
        BY <2>1, <4>2
    <3>2. CASE task[r].kind # "login"
      BY <2>2, <2>3, <3>2 DEF Refuse
    <3>3. QED
      BY <3>1, <3>2
  <2>4. ASSUME NEW r \in Request, NEW k \in Token, Admit(r, k)
        PROVE  attempts'[key][0] <= attempts[key][0]
    <3> DEFINE own == <<task[r].user, task[r].client>>
    <3>1. attempts' = attempts \/ attempts' = [attempts EXCEPT ![own] = NoFailures]
      BY <2>4 DEF Admit, Clear
    <3>2. NoFailures[0] = 0
      BY <2>1 DEF NoFailures
    <3> HIDE DEF own
    <3>3. attempts'[key] = attempts[key] \/ attempts'[key] = NoFailures
      BY <2>1, <3>1
    <3>4. QED
      BY <2>1, <3>2, <3>3
  <2>5. ASSUME Tick \/ Restart
        PROVE  attempts'[key][0] <= attempts[key][0]
    <3>1. attempts'[key][0] = 0
      BY <2>1, <2>5 DEF Tick, Restart, NoFailures
    <3>2. QED
      BY <2>1, <3>1
  <2>6. QED
    BY <2>2, <2>3, <2>4, <2>5
       DEF Next, vars, Throttled, StartLogin, StartChange, StartReset, StartDeactivation,
           StartPasswdCommand, StartDeactivateCommand, Administer, Verify, Stamp, Replace,
           RevokeAll, Deactivate, EndSession
<1>2. QED
  BY <1>1, SessionsInvariance, PTL DEF Spec, LockoutEnds, Quiet
-----------------------------------------------------------------------------
(* Logins that were let past the throttle and are not done: each may still *)
(* record one failure.                                                     *)
Guessing(key) == {r \in Request : /\ task[r].kind = "login"
                                  /\ task[r].phase \in {"asked", "refused"}
                                  /\ <<task[r].user, task[r].client>> = key}

(* What the throttle remembers, with what may be added to it.              *)
ThrottleInv ==
  \A key \in User \X Client :
    /\ \A a \in Age \ {0} : attempts[key][a - 1] <= attempts[key][a]
    /\ Failures(key) + Cardinality(Guessing(key)) <= MaxAttempts - 1 + Cardinality(Request)

LEMMA Counts ==
  ASSUME SessionsInv, NEW key \in User \X Client
  PROVE  /\ Window - 1 \in Age /\ 0 \in Age
         /\ Failures(key) \in Nat
         /\ IsFiniteSet(Guessing(key)) /\ Cardinality(Guessing(key)) \in Nat
         /\ Cardinality(Guessing(key)) <= Cardinality(Request)
         /\ Cardinality(Request) \in Nat /\ MaxAttempts \in Nat
<1>1. Window - 1 \in Age /\ 0 \in Age /\ MaxAttempts \in Nat
  BY SessionsAssumption DEF Age
<1>2. Failures(key) \in Nat
  BY <1>1 DEF Failures, SessionsInv, TypeOK
<1>3. Guessing(key) \in SUBSET Request
  BY DEF Guessing
<1>4. QED
  BY <1>1, <1>2, <1>3, SessionsAssumption, FS_Subset, FS_CardinalityType

(* A step that lets nobody past the throttle and records no failure.       *)
LEMMA QuietStep ==
  ASSUME SessionsInv, ThrottleInv, SessionsInv',
         \A key \in User \X Client :
           /\ Guessing(key)' \subseteq Guessing(key)
           /\ \/ attempts'[key] = attempts[key]
              \/ attempts'[key] = NoFailures
              \/ attempts'[key] = [a \in Age |-> IF a = 0 THEN 0 ELSE attempts[key][a - 1]]
  PROVE  ThrottleInv'
<1> SUFFICES ASSUME NEW key \in User \X Client
             PROVE  /\ \A a \in Age \ {0} : attempts'[key][a - 1] <= attempts'[key][a]
                    /\ Failures(key)' + Cardinality(Guessing(key)')
                         <= MaxAttempts - 1 + Cardinality(Request)
  BY DEF ThrottleInv
<1>1. /\ attempts[key] \in [Age -> Nat]
      /\ \A a \in Age \ {0} : attempts[key][a - 1] <= attempts[key][a]
  BY DEF SessionsInv, TypeOK, ThrottleInv
<1>2. \A a \in Age : a \in Nat /\ (a # 0 => a - 1 \in Age)
  BY SessionsAssumption DEF Age
<1>3. Cardinality(Guessing(key)') <= Cardinality(Guessing(key))
  BY Counts, FS_Subset
<1>4. Failures(key)' <= Failures(key)
      /\ \A a \in Age \ {0} : attempts'[key][a - 1] <= attempts'[key][a]
  <2>1. Window - 1 \in Age /\ 0 \in Age
    BY Counts
  <2>2. CASE attempts'[key] = attempts[key]
    BY <1>1, <2>1, <2>2 DEF Failures
  <2>3. CASE attempts'[key] = NoFailures
    BY <1>1, <1>2, <2>1, <2>3 DEF Failures, NoFailures
  <2>4. CASE attempts'[key] = [a \in Age |-> IF a = 0 THEN 0 ELSE attempts[key][a - 1]]
    <3>1. \A a \in Age : attempts'[key][a] = IF a = 0 THEN 0 ELSE attempts[key][a - 1]
      BY <2>4
    <3>2. Failures(key)' <= Failures(key)
      BY <1>1, <1>2, <2>1, <3>1 DEF Failures
    <3>3. ASSUME NEW a \in Age \ {0}
          PROVE  attempts'[key][a - 1] <= attempts'[key][a]
      <4>1. a - 1 \in Age
        BY <1>2
      <4>2. CASE a = 1
        BY <1>1, <2>1, <3>1, <4>2
      <4>3. CASE a # 1
        BY <1>1, <1>2, <3>1, <4>1, <4>3
      <4>4. QED
        BY <4>2, <4>3
    <3>4. QED
      BY <3>2, <3>3
  <2>5. QED
    BY <2>2, <2>3, <2>4
<1>5. Failures(key) + Cardinality(Guessing(key)) <= MaxAttempts - 1 + Cardinality(Request)
  BY DEF ThrottleInv
<1>6. /\ Failures(key) \in Nat /\ Failures(key)' \in Nat
      /\ Cardinality(Guessing(key)) \in Nat /\ Cardinality(Guessing(key)') \in Nat
      /\ Cardinality(Request) \in Nat /\ MaxAttempts \in Nat
  <2>1. Failures(key)' \in Nat
    BY Counts DEF Failures, SessionsInv, TypeOK
  <2>2. IsFiniteSet(Guessing(key)')
    BY <1>3, Counts, FS_Subset
  <2>3. QED
    BY <2>1, <2>2, Counts, FS_CardinalityType
<1>7. QED
  BY <1>3, <1>4, <1>5, <1>6

(* The check: whoever passes it finds fewer failures than the limit, and   *)
(* there are no more guesses at work than requests.                        *)
LEMMA StartLoginThrottled ==
  ASSUME SessionsInv, ThrottleInv, NEW r \in Request, NEW u \in User, NEW c \in Client,
         NEW p \in Password, StartLogin(r, u, c, p)
  PROVE  ThrottleInv'
<1> SUFFICES ASSUME NEW key \in User \X Client
             PROVE  Failures(key) + Cardinality(Guessing(key)')
                         <= MaxAttempts - 1 + Cardinality(Request)
  BY DEF ThrottleInv, StartLogin, Failures
<1>1. \A q \in Request : q # r => task'[q] = task[q]
  BY DEF StartLogin, Become, SessionsInv, TypeOK, Worker
<1>2. CASE key = <<u, c>>
  <2>1. Failures(key) <= MaxAttempts - 1
    BY <1>2, Counts DEF StartLogin, Blocked
  <2>2. Guessing(key)' \in SUBSET Request
    BY DEF Guessing
  <2>3. Cardinality(Guessing(key)') <= Cardinality(Request)
        /\ Cardinality(Guessing(key)') \in Nat
    BY <2>2, SessionsAssumption, FS_Subset, FS_CardinalityType
  <2>4. QED
    BY <2>1, <2>3, Counts
<1>3. CASE key # <<u, c>>
  <2>1. task'[r].user = u /\ task'[r].client = c
    <3>1. task'[r] = [Idle EXCEPT !.phase = "asked", !.kind = "login", !.user = u,
                                  !.client = c, !.typed = p]
      BY DEF StartLogin, Become, SessionsInv, TypeOK, Worker
    <3>2. QED
      BY <3>1 DEF Idle
  <2>2. Guessing(key)' \subseteq Guessing(key)
    BY <1>1, <1>3, <2>1 DEF Guessing
  <2>3. Cardinality(Guessing(key)') <= Cardinality(Guessing(key))
        /\ Cardinality(Guessing(key)') \in Nat
    BY <2>2, Counts, FS_Subset, FS_CardinalityType
  <2>4. QED
    BY <2>3, Counts DEF ThrottleInv
<1>4. QED
  BY <1>2, <1>3

(* The record: a failure is counted by a request that had room kept for it.*)
LEMMA RefuseThrottled ==
  ASSUME SessionsInv, ThrottleInv, SessionsInv', NEW r \in Request, Refuse(r)
  PROVE  ThrottleInv'
<1> DEFINE own == <<task[r].user, task[r].client>>
<1>1. /\ task'[r] = Idle /\ \A q \in Request : q # r => task'[q] = task[q]
      /\ task[r].phase = "refused"
  BY DEF Refuse, Become, SessionsInv, TypeOK, Worker
<1>2. \A key \in User \X Client : Guessing(key)' = Guessing(key) \ {r}
  BY <1>1, IdleKeeps DEF Guessing
<1>3. CASE task[r].kind # "login"
  BY <1>2, <1>3, QuietStep DEF Refuse
<1>4. CASE task[r].kind = "login"
  <2> SUFFICES ASSUME NEW key \in User \X Client
               PROVE  /\ \A a \in Age \ {0} : attempts'[key][a - 1] <= attempts'[key][a]
                      /\ Failures(key)' + Cardinality(Guessing(key)')
                           <= MaxAttempts - 1 + Cardinality(Request)
    BY DEF ThrottleInv
  <2> DEFINE more == [a \in Age |-> attempts[own][a] + 1]
  <2>1. attempts' = [attempts EXCEPT ![own] = more]
    BY <1>4 DEF Refuse, RecordFailure
  <2>2. /\ attempts \in [User \X Client -> [Age -> Nat]]
        /\ \A a \in Age \ {0} : attempts[key][a - 1] <= attempts[key][a]
    BY DEF SessionsInv, TypeOK, ThrottleInv
  <2>3. \A a \in Age : a \in Nat /\ (a # 0 => a - 1 \in Age)
    BY SessionsAssumption DEF Age
  <2>4. CASE key = own
    <3>1. attempts'[key] = more
      BY <2>1, <2>2, <2>4
    <3>2. \A a \in Age : attempts'[key][a] = attempts[key][a] + 1
      BY <2>4, <3>1
    <3>3. \A a \in Age \ {0} : attempts'[key][a - 1] <= attempts'[key][a]
      BY <2>2, <2>3, <3>2
    <3>4. Failures(key)' = Failures(key) + 1
      BY <3>2, Counts DEF Failures
    <3>5. r \in Guessing(key)
      BY <1>1, <1>4, <2>4 DEF Guessing
    <3>6. Cardinality(Guessing(key)') = Cardinality(Guessing(key)) - 1
      BY <1>2, <3>5, Counts, FS_RemoveElement
    <3>7. QED
      BY <3>3, <3>4, <3>6, Counts DEF ThrottleInv
  <2>5. CASE key # own
    <3> HIDE DEF own
    <3>1. attempts'[key] = attempts[key]
      BY <2>1, <2>2, <2>5
    <3>2. Cardinality(Guessing(key)') <= Cardinality(Guessing(key))
          /\ Cardinality(Guessing(key)') \in Nat
      BY <1>2, Counts, FS_Subset, FS_CardinalityType
    <3>3. Failures(key)' = Failures(key)
      BY <3>1 DEF Failures
    <3>4. QED
      BY <2>2, <3>1, <3>2, <3>3, Counts DEF ThrottleInv
  <2>6. QED
    BY <2>4, <2>5
<1>5. QED
  BY <1>3, <1>4

(* No other step of a request, or of an administrator, is a guess.         *)
LEMMA NoNewGuess ==
  ASSUME SessionsInv, [Next]_vars,
         ~\E r \in Request, u \in User, c \in Client, p \in Password : StartLogin(r, u, c, p),
         NEW key \in User \X Client
  PROVE  Guessing(key)' \subseteq Guessing(key)
<1>1. ASSUME NEW w \in Worker, NEW t \in Task, Become(w, t),
             t.kind = "login" /\ t.phase \in {"asked", "refused"} =>
               /\ task[w].kind = "login" /\ task[w].phase \in {"asked", "refused"}
               /\ t.user = task[w].user /\ t.client = task[w].client
      PROVE  Guessing(key)' \subseteq Guessing(key)
  <2>1. \A v \in Worker : task'[v] = IF v = w THEN t ELSE task[v]
    BY <1>1 DEF Become, SessionsInv, TypeOK
  <2>2. QED
    BY <1>1, <2>1 DEF Guessing, Worker
<1>2. ASSUME NEW w \in Worker, Become(w, Idle) PROVE Guessing(key)' \subseteq Guessing(key)
  BY <1>1, <1>2, IdleKeeps
<1>3. \A w \in Worker : task[w] \in Task
  BY DEF SessionsInv, TypeOK
<1>4. ASSUME NEW r \in Request, NEW k \in Token, NEW p \in Password, StartChange(r, k, p)
      PROVE  Guessing(key)' \subseteq Guessing(key)
  <2> DEFINE t == [Idle EXCEPT !.phase = "asked", !.kind = "change",
                               !.user = session[k].user, !.typed = p]
  <2>1. session[k].user \in User
    BY <1>4 DEF StartChange, Resolves, Live, SessionsInv, TypeOK, Session
  <2>2. t \in Task /\ t.kind = "change" /\ Become(r, t)
    BY <1>4, <2>1, IdleKeeps DEF Task, Phase, StartChange
  <2> HIDE DEF t
  <2>3. QED
    BY <1>1, <2>2 DEF Worker
<1>5. ASSUME NEW a \in Admin, NEW u \in User, NEW kind \in {"reset", "deactivate"},
             NEW cli \in BOOLEAN, NEW forced \in BOOLEAN, NEW by \in Giver,
             Administer(a, u, kind, cli, forced, by)
      PROVE  Guessing(key)' \subseteq Guessing(key)
  <2> DEFINE t == [Idle EXCEPT !.phase = "hashed", !.kind = kind, !.user = u,
                               !.cli = cli, !.forced = forced, !.giver = by]
  <2>1. t \in Task /\ t.phase = "hashed" /\ Become(a, t)
    BY <1>5, IdleKeeps DEF Task, Phase, Administer
  <2> HIDE DEF t
  <2>2. QED
    BY <1>1, <2>1 DEF Worker
<1>6. ASSUME NEW r \in Request, Verify(r)
      PROVE  Guessing(key)' \subseteq Guessing(key)
  <2>1. PICK row \in Account, phase \in {"refused", "verified", "hashed"} :
          Become(r, [task[r] EXCEPT !.row = row, !.phase = phase])
    <3> DEFINE t == task[r]
               row == account[t.user]
               ok == Opens(t.typed, row) /\ (t.kind = "login" => row.active)
               n == IF ok /\ t.kind = "login" THEN row ELSE Blank
               ph == CASE ~ok -> "refused"
                       [] ok /\ t.kind = "login" -> "verified"
                       [] OTHER -> "hashed"
    <3>1. Become(r, [task[r] EXCEPT !.row = n, !.phase = ph])
      BY <1>6 DEF Verify
    <3>2. ph \in {"refused", "verified", "hashed"}
      BY DEF Opens
    <3>3. row \in Account /\ Blank \in Account
      BY <1>3, SessionsAssumption DEF SessionsInv, TypeOK, Task, Worker, Blank, Account, Password
    <3>4. n \in Account
      BY <3>3
    <3> HIDE DEF n, ph
    <3>5. QED
      BY <3>1, <3>2, <3>4
  <2> DEFINE t == [task[r] EXCEPT !.row = row, !.phase = phase]
  <2>2. /\ t \in Task /\ t.user = task[r].user /\ t.client = task[r].client
        /\ t.kind = task[r].kind
    BY <1>3 DEF Task, Phase, Worker
  <2>3. task[r].phase = "asked" /\ r \in Worker
    BY <1>6 DEF Verify, Worker
  <2>4. Become(r, t)
    BY <2>1
  <2> HIDE DEF t
  <2>5. QED
    BY <1>1, <2>2, <2>3, <2>4
<1>7. ASSUME NEW r \in Request, Stamp(r)
      PROVE  Guessing(key)' \subseteq Guessing(key)
  <2> DEFINE t == [task[r] EXCEPT !.phase = "accepted", !.row = Blank]
  <2>1. Blank \in Account
    BY SessionsAssumption DEF Blank, Account, Password
  <2>2. r \in Worker /\ Become(r, t)
    BY <1>7 DEF Stamp, Worker
  <2>3. t \in Task /\ t.phase = "accepted"
    BY <1>3, <2>1, <2>2 DEF Task, Phase
  <2> HIDE DEF t
  <2>4. QED
    BY <1>1, <2>2, <2>3
<1>8. ASSUME NEW w \in Worker, Replace(w) \/ Deactivate(w)
      PROVE  Guessing(key)' \subseteq Guessing(key)
  <2>1. \A v \in Worker : v # w => /\ task'[v].kind = task[v].kind
                                   /\ task'[v].phase = task[v].phase
                                   /\ task'[v].user = task[v].user
                                   /\ task'[v].client = task[v].client
    <3>1. CASE Replace(w)
      BY <1>3, <3>1 DEF Replace, Task
    <3>2. CASE Deactivate(w)
      BY <1>3, <3>2 DEF Deactivate, Task
    <3>3. QED
      BY <1>8, <3>1, <3>2
  <2>2. task'[w].phase = "revoking"
    BY <1>3, <1>8 DEF Replace, Deactivate, Task
  <2>3. QED
    BY <2>1, <2>2 DEF Guessing, Worker
<1>9. ASSUME NEW w \in Worker, RevokeAll(w)
      PROVE  Guessing(key)' \subseteq Guessing(key)
  <2>1. CASE task[w].kind = "change"
    <3> DEFINE t == [task[w] EXCEPT !.phase = "accepted"]
    <3>1. t \in Task /\ t.phase = "accepted" /\ Become(w, t)
      BY <1>3, <1>9, <2>1 DEF RevokeAll, Task, Phase
    <3> HIDE DEF t
    <3>2. QED
      BY <1>1, <3>1
  <2>2. CASE task[w].kind # "change"
    BY <1>2, <1>9, <2>2 DEF RevokeAll
  <2>3. QED
    BY <2>1, <2>2
<1>10. ASSUME Restart PROVE Guessing(key)' \subseteq Guessing(key)
  <2>1. \A v \in Worker : task'[v] = IF task[v].cli THEN task[v] ELSE Idle
    BY <1>10 DEF Restart
  <2>2. QED
    BY <2>1, IdleKeeps DEF Guessing, Worker
<1>11. ASSUME UNCHANGED task PROVE Guessing(key)' \subseteq Guessing(key)
  BY <1>11 DEF Guessing
<1>12. CASE \E a \in Admin, u \in User :
              \/ \E own \in BOOLEAN : StartReset(a, u, own)
              \/ \E waived \in BOOLEAN : StartPasswdCommand(a, u, waived)
              \/ StartDeactivation(a, u) \/ StartDeactivateCommand(a, u)
  BY <1>5, <1>12 DEF StartReset, StartDeactivation, StartPasswdCommand, StartDeactivateCommand,
                     Giver
<1>13. CASE \/ \E r \in Request : Refuse(r)
            \/ \E r \in Request, k \in Token : Admit(r, k)
  BY <1>2, <1>13 DEF Refuse, Admit, Worker
<1>14. CASE \/ \E u \in User, c \in Client : Throttled(u, c)
            \/ \E k \in Token : EndSession(k)
            \/ Tick
            \/ UNCHANGED vars
  BY <1>11, <1>14 DEF Throttled, EndSession, Tick, vars
<1>15. QED
  BY <1>4, <1>6, <1>7, <1>8, <1>9, <1>10, <1>12, <1>13, <1>14 DEF Next, Worker

LEMMA ThrottleGood ==
  ASSUME SessionsInv, ThrottleInv, [Next]_vars
  PROVE  ThrottleInv'
<1>1. SessionsInv'
  BY NextGood
<1>2. CASE \E r \in Request, u \in User, c \in Client, p \in Password : StartLogin(r, u, c, p)
  BY <1>2, StartLoginThrottled
<1>3. CASE \E r \in Request : Refuse(r)
  BY <1>1, <1>3, RefuseThrottled
<1>4. CASE /\ ~\E r \in Request, u \in User, c \in Client, p \in Password :
                 StartLogin(r, u, c, p)
           /\ ~\E r \in Request : Refuse(r)
  <2>1. ASSUME NEW key \in User \X Client
        PROVE  \/ attempts'[key] = attempts[key]
               \/ attempts'[key] = NoFailures
               \/ attempts'[key] = [a \in Age |-> IF a = 0 THEN 0 ELSE attempts[key][a - 1]]
    <3>1. attempts \in [User \X Client -> [Age -> Nat]]
      BY DEF SessionsInv, TypeOK
    <3>2. ASSUME NEW r \in Request, NEW k \in Token, Admit(r, k)
          PROVE  attempts'[key] = attempts[key] \/ attempts'[key] = NoFailures
      <4> DEFINE own == <<task[r].user, task[r].client>>
      <4>1. attempts' = attempts \/ attempts' = [attempts EXCEPT ![own] = NoFailures]
        BY <3>2 DEF Admit, Clear
      <4> HIDE DEF own
      <4>2. QED
        BY <3>1, <4>1
    <3>3. QED
      BY <1>4, <3>2
         DEF Next, vars, Throttled, StartChange, StartReset, StartDeactivation,
             StartPasswdCommand, StartDeactivateCommand, Administer, Verify, Stamp, Replace,
             RevokeAll, Deactivate, EndSession, Restart, Tick
  <2>2. \A key \in User \X Client : Guessing(key)' \subseteq Guessing(key)
    BY <1>4, NoNewGuess
  <2>3. QED
    BY <1>1, <2>1, <2>2, QuietStep
<1>5. QED
  BY <1>2, <1>3, <1>4

(* However many logins run at once, a password is guessed at most one time *)
(* per login at work past the limit before the account is locked.          *)
THEOREM GuessesAlwaysBounded == Spec => []GuessesAreBounded
<1>1. Init => ThrottleInv
  <2> SUFFICES ASSUME Init, NEW key \in User \X Client
               PROVE  /\ \A a \in Age \ {0} : attempts[key][a - 1] <= attempts[key][a]
                      /\ Failures(key) + Cardinality(Guessing(key))
                           <= MaxAttempts - 1 + Cardinality(Request)
    BY DEF ThrottleInv
  <2>1. \A a \in Age : attempts[key][a] = 0 /\ (a # 0 => a - 1 \in Age)
    BY SessionsAssumption DEF Init, NoFailures, Age
  <2>2. Guessing(key) = {}
    BY IdleKeeps DEF Init, Guessing, Worker
  <2>3. Cardinality(Guessing(key)) = 0
    BY <2>2, FS_EmptySet
  <2>4. Window - 1 \in Age /\ MaxAttempts \in Nat \ {0} /\ Cardinality(Request) \in Nat
    BY SessionsAssumption, FS_CardinalityType DEF Age
  <2>5. QED
    BY <2>1, <2>3, <2>4 DEF Failures
<1>2. SessionsInv /\ ThrottleInv => GuessesAreBounded
  <2> SUFFICES ASSUME SessionsInv, ThrottleInv, NEW key \in User \X Client
               PROVE  Failures(key) <= MaxAttempts - 1 + Cardinality(Request)
    BY DEF GuessesAreBounded
  <2>1. QED
    BY Counts DEF ThrottleInv
<1>3. SessionsInv /\ ThrottleInv /\ [Next]_vars => ThrottleInv'
  BY ThrottleGood
<1>4. QED
  BY <1>1, <1>2, <1>3, SessionsInvariance, PTL DEF Spec
=============================================================================
