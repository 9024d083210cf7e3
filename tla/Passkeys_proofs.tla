-------------------------- MODULE Passkeys_proofs ---------------------------
(***************************************************************************)
(* Proofs about Passkeys, for any users and phones, any lifetimes and any  *)
(* number of challenges: an answer is used once, a verification is as      *)
(* fresh as its scan, and the whole implements RecentProof.                *)
(*                                                                         *)
(* The argument is about ids.  They are never given twice, so an answer    *)
(* whose challenge has gone can never be accepted again (SpentIsGone), and *)
(* a phone that has an owner has used up its only registration.            *)
(***************************************************************************)
EXTENDS Passkeys, TLAPS

Key == User \X Purpose
Open(k, id) == challenge[k] # Nobody /\ challenge[k].id = id

IdsAreSpent ==
  /\ \A a \in answers : a.id <= issued
  /\ \A k \in Key : challenge[k] # Nobody => challenge[k].id <= issued

(* A used answer's challenge is gone.                                      *)
SpentIsGone == \A a \in answers, k \in Key : a.uses >= 1 => ~Open(k, a.id)

(* A phone signs a challenge after it was issued.                          *)
SignedAfter == \A a \in answers, k \in Key : Open(k, a.id) => a.age <= challenge[k].age

(* A phone registers once, and is somebody's only when it has.             *)
OneRegistration ==
  \A a, b \in answers :
    a.purpose = "register" /\ b.purpose = "register" /\ a.phone = b.phone => a.id = b.id
OwnersRegistered ==
  \A p \in Phone : owner[p] # Nobody =>
    \E a \in answers : a.phone = p /\ a.purpose = "register" /\ a.uses >= 1

(* The inductive invariant.                                                *)
PasskeysInv ==
  /\ TypeOK
  /\ IdsAreSpent
  /\ SpentIsGone
  /\ SignedAfter
  /\ OneRegistration
  /\ OwnersRegistered
  /\ OneUse
  /\ ScansAreFresh

(* The answer after it was used once more.                                 *)
Used(a) == [a EXCEPT !.uses = IF @ < 2 THEN @ + 1 ELSE 2]

LEMMA UsedKeeps ==
  ASSUME NEW a \in Answer
  PROVE  /\ Used(a) \in Answer
         /\ Used(a).phone = a.phone /\ Used(a).id = a.id /\ Used(a).purpose = a.purpose
         /\ Used(a).count = a.count /\ Used(a).age = a.age
         /\ Used(a).uses >= 1
         /\ a.uses = 0 => Used(a).uses = 1
  BY DEF Used, Answer

(* What is accepted was not used before, and is not open afterwards.       *)
LEMMA AcceptedIsNew ==
  ASSUME PasskeysInv, NEW a \in answers, NEW u \in User, NEW purpose \in Purpose,
         Accepts(u, purpose, a.id), Destroy(a.id)
  PROVE  /\ a \in Answer /\ a.uses = 0 /\ a.age <= ChallengeTTL
         /\ \A k \in Key : ~(challenge'[k] # Nobody /\ challenge'[k].id = a.id)
<1>1. a \in Answer /\ <<u, purpose>> \in Key
  BY DEF PasskeysInv, TypeOK, Key
<1>2. Open(<<u, purpose>>, a.id) /\ challenge[<<u, purpose>>].age <= ChallengeTTL
  BY DEF Accepts, Open
<1>3. ~(a.uses >= 1)
  BY <1>1, <1>2 DEF PasskeysInv, SpentIsGone
<1>4. a.uses = 0
  BY <1>1, <1>3 DEF Answer
<1>5. a.age <= challenge[<<u, purpose>>].age
  BY <1>1, <1>2 DEF PasskeysInv, SignedAfter
<1>6. challenge[<<u, purpose>>] \in Challenge
  BY <1>1, <1>2 DEF PasskeysInv, TypeOK, Key, Open
<1>7. a.age <= ChallengeTTL
  BY <1>1, <1>2, <1>5, <1>6, PasskeysAssumption DEF Answer, Challenge
<1>8. \A k \in Key : ~(challenge'[k] # Nobody /\ challenge'[k].id = a.id)
  BY DEF Destroy, Key
<1>9. QED
  BY <1>1, <1>4, <1>7, <1>8

(* Destroying a challenge opens none.                                      *)
LEMMA DestroyKeeps ==
  ASSUME PasskeysInv, NEW id, Destroy(id)
  PROVE  /\ challenge' \in [User \X Purpose -> Challenge \cup {Nobody}]
         /\ \A k \in Key : challenge'[k] # Nobody => challenge'[k] = challenge[k]
  BY DEF Destroy, PasskeysInv, TypeOK, Key

(* An answer that is presented and refused.                                *)
LEMMA RefusedGood ==
  ASSUME PasskeysInv, NEW id, Destroy(id),
         UNCHANGED <<owner, count, counter, issued, answers, verified>>
  PROVE  PasskeysInv'
<1>1. TypeOK'
  BY DestroyKeeps DEF PasskeysInv, TypeOK
<1>2. IdsAreSpent' /\ SpentIsGone' /\ SignedAfter'
  BY DestroyKeeps DEF PasskeysInv, IdsAreSpent, SpentIsGone, SignedAfter, Open
<1>3. OneRegistration' /\ OwnersRegistered' /\ OneUse' /\ ScansAreFresh'
  BY DEF PasskeysInv, OneRegistration, OwnersRegistered, OneUse, ScansAreFresh
<1>4. QED
  BY <1>1, <1>2, <1>3 DEF PasskeysInv

(* An answer that is accepted: everything but whose the passkeys are and   *)
(* what is verified.                                                       *)
LEMMA UseGood ==
  ASSUME PasskeysInv, NEW a \in answers, NEW u \in User, NEW purpose \in Purpose,
         Accepts(u, purpose, a.id), Destroy(a.id), Use(a), UNCHANGED issued
  PROVE  /\ answers' \subseteq Answer
         /\ IdsAreSpent' /\ SpentIsGone' /\ SignedAfter' /\ OneRegistration' /\ OneUse'
         /\ Used(a) \in answers' /\ Used(a).uses >= 1
         /\ \A b \in answers : b.uses >= 1 => b \in answers'
<1> DEFINE c == Used(a)
<1>1. /\ a \in Answer /\ a.uses = 0 /\ a.age <= ChallengeTTL
      /\ \A k \in Key : ~(challenge'[k] # Nobody /\ challenge'[k].id = a.id)
  BY AcceptedIsNew
<1>2. /\ c \in Answer /\ c.phone = a.phone /\ c.id = a.id /\ c.purpose = a.purpose
      /\ c.age = a.age /\ c.uses = 1
  BY <1>1, UsedKeeps
<1>3. answers' = (answers \ {a}) \cup {c}
  BY DEF Use, Used
<1> HIDE DEF c
<1>4. answers \subseteq Answer
  BY DEF PasskeysInv, TypeOK
<1>5. answers' \subseteq Answer
  BY <1>2, <1>3, <1>4
<1>6. \A k \in Key : challenge'[k] # Nobody => challenge'[k] = challenge[k]
  BY DestroyKeeps
<1>7. IdsAreSpent'
  BY <1>2, <1>3, <1>6 DEF PasskeysInv, IdsAreSpent
<1>8. SpentIsGone'
  BY <1>1, <1>2, <1>3, <1>6 DEF PasskeysInv, SpentIsGone, Open
<1>9. SignedAfter'
  BY <1>1, <1>2, <1>3, <1>6 DEF PasskeysInv, SignedAfter, Open
<1>10. OneRegistration'
  BY <1>2, <1>3 DEF PasskeysInv, OneRegistration
<1>11. OneUse'
  BY <1>2, <1>3 DEF PasskeysInv, OneUse
<1>12. \A b \in answers : b.uses >= 1 => b \in answers'
  BY <1>1, <1>3
<1>13. QED
  BY <1>2, <1>3, <1>5, <1>7, <1>8, <1>9, <1>10, <1>11, <1>12 DEF c

(* The phone of an accepted registration was nobody's.                     *)
LEMMA RegistersItsOwn ==
  ASSUME PasskeysInv, NEW a \in answers, NEW u \in User, NEW purpose \in Purpose,
         Accepts(u, purpose, a.id), a.purpose = "register"
  PROVE  owner[a.phone] = Nobody
<1>1. a \in Answer /\ Open(<<u, purpose>>, a.id) /\ <<u, purpose>> \in Key
  BY DEF Accepts, Open, Key, PasskeysInv, TypeOK
<1>2. SUFFICES ASSUME owner[a.phone] # Nobody PROVE FALSE
  OBVIOUS
<1>3. a.phone \in Phone
  BY <1>1 DEF Answer
<1>4. PICK b \in answers : b.phone = a.phone /\ b.purpose = "register" /\ b.uses >= 1
  BY <1>2, <1>3 DEF PasskeysInv, OwnersRegistered
<1>5. b.id = a.id
  BY <1>4 DEF PasskeysInv, OneRegistration
<1>6. QED
  BY <1>1, <1>4, <1>5 DEF PasskeysInv, SpentIsGone

LEMMA RegisterGood ==
  ASSUME PasskeysInv, NEW u \in User, NEW a \in answers, Register(u, a)
  PROVE  PasskeysInv'
<1>1. Destroy(a.id) /\ UNCHANGED <<counter, issued, verified>>
  BY DEF Register
<1>2. CASE ~(Accepts(u, "register", a.id) /\ a.purpose = "register")
  BY <1>1, <1>2, RefusedGood DEF Register
<1>3. CASE Accepts(u, "register", a.id) /\ a.purpose = "register"
  <2>1. /\ owner' = [owner EXCEPT ![a.phone] = u]
        /\ count' = [count EXCEPT ![a.phone] = a.count]
        /\ Use(a)
    BY <1>3 DEF Register
  <2>2. "register" \in Purpose
    BY DEF Purpose
  <2>3. /\ answers' \subseteq Answer
        /\ IdsAreSpent' /\ SpentIsGone' /\ SignedAfter' /\ OneRegistration' /\ OneUse'
        /\ Used(a) \in answers' /\ Used(a).uses >= 1
        /\ \A b \in answers : b.uses >= 1 => b \in answers'
    BY <1>1, <1>3, <2>1, <2>2, UseGood
  <2>4. a \in Answer /\ Used(a).phone = a.phone /\ Used(a).purpose = "register"
    BY <1>3, UsedKeeps DEF PasskeysInv, TypeOK
  <2>5. TypeOK'
    BY <1>1, <2>1, <2>3, <2>4, DestroyKeeps DEF PasskeysInv, TypeOK, Answer
  <2>6. OwnersRegistered'
    <3> SUFFICES ASSUME NEW p \in Phone, owner'[p] # Nobody
                 PROVE  \E b \in answers' : b.phone = p /\ b.purpose = "register" /\ b.uses >= 1
      BY DEF OwnersRegistered
    <3>1. CASE p = a.phone
      BY <2>3, <2>4, <3>1
    <3>2. CASE p # a.phone
      <4>1. owner[p] # Nobody
        BY <2>1, <3>2 DEF PasskeysInv, TypeOK
      <4>2. PICK b \in answers : b.phone = p /\ b.purpose = "register" /\ b.uses >= 1
        BY <4>1 DEF PasskeysInv, OwnersRegistered
      <4>3. QED
        BY <2>3, <4>2
    <3>3. QED
      BY <3>1, <3>2
  <2>7. ScansAreFresh'
    BY <1>1 DEF PasskeysInv, ScansAreFresh
  <2>8. QED
    BY <2>3, <2>5, <2>6, <2>7 DEF PasskeysInv
<1>4. QED
  BY <1>2, <1>3

(* What a phone's answer must be for the server to accept it.              *)
Proves(u, a) ==
  /\ Accepts(u, "authenticate", a.id)
  /\ a.purpose = "authenticate"
  /\ owner[a.phone] = u
  /\ Advances(a.phone, a.count)

LEMMA VerifyGood ==
  ASSUME PasskeysInv, NEW u \in User, NEW a \in answers, Verify(u, a)
  PROVE  PasskeysInv'
<1>1. Destroy(a.id) /\ UNCHANGED <<owner, counter, issued>>
  BY DEF Verify
<1>2. CASE ~Proves(u, a)
  BY <1>1, <1>2, RefusedGood DEF Verify, Proves
<1>3. CASE Proves(u, a)
  <2>1. /\ count' = [count EXCEPT ![a.phone] = a.count]
        /\ verified' = [verified EXCEPT ![u] = [age |-> 0, scan |-> a.age]]
        /\ Use(a)
    BY <1>3 DEF Verify, Proves
  <2>2. "authenticate" \in Purpose /\ Accepts(u, "authenticate", a.id)
    BY <1>3 DEF Purpose, Proves
  <2>3. /\ answers' \subseteq Answer
        /\ IdsAreSpent' /\ SpentIsGone' /\ SignedAfter' /\ OneRegistration' /\ OneUse'
        /\ \A b \in answers : b.uses >= 1 => b \in answers'
    BY <1>1, <2>1, <2>2, UseGood
  <2>4. a \in Answer /\ a.age <= ChallengeTTL
    BY <1>1, <2>2, AcceptedIsNew
  <2>5. [age |-> 0, scan |-> a.age] \in Verification
    BY <2>4, PasskeysAssumption DEF Verification, Answer
  <2>6. TypeOK'
    BY <1>1, <2>1, <2>3, <2>4, <2>5, DestroyKeeps DEF PasskeysInv, TypeOK, Answer
  <2>7. OwnersRegistered'
    BY <1>1, <2>3 DEF PasskeysInv, OwnersRegistered
  <2>8. ScansAreFresh'
    BY <2>1, <2>4, PasskeysAssumption DEF PasskeysInv, TypeOK, ScansAreFresh, Answer
  <2>9. QED
    BY <2>3, <2>6, <2>7, <2>8 DEF PasskeysInv
<1>4. QED
  BY <1>2, <1>3

LEMMA BeginGood ==
  ASSUME PasskeysInv, NEW u \in User, NEW purpose \in Purpose, Begin(u, purpose)
  PROVE  PasskeysInv'
<1> DEFINE n == [id |-> issued + 1, age |-> 0]
<1>1. /\ challenge' = [challenge EXCEPT ![<<u, purpose>>] = n]
      /\ issued' = issued + 1 /\ issued < MaxChallenge /\ issued \in Nat
      /\ UNCHANGED <<owner, count, counter, answers, verified>>
  BY DEF Begin, PasskeysInv, TypeOK
<1>2. n \in Challenge /\ n.id = issued + 1
  BY <1>1, PasskeysAssumption DEF Challenge, Id
<1> HIDE DEF n
<1>3. /\ challenge' \in [User \X Purpose -> Challenge \cup {Nobody}]
      /\ \A k \in Key : challenge'[k] = n \/ challenge'[k] = challenge[k]
  BY <1>1, <1>2 DEF PasskeysInv, TypeOK, Key
<1>4. TypeOK'
  BY <1>1, <1>3 DEF PasskeysInv, TypeOK
<1>5. \A a \in answers : a.id \in Nat /\ a.id <= issued
  BY PasskeysAssumption DEF PasskeysInv, TypeOK, IdsAreSpent, Answer, Id
<1>6. \A k \in Key : challenge[k] # Nobody => challenge[k].id \in Nat /\ challenge[k].id <= issued
  BY PasskeysAssumption DEF PasskeysInv, TypeOK, IdsAreSpent, Challenge, Id, Key
<1>7. IdsAreSpent'
  BY <1>1, <1>2, <1>3, <1>5, <1>6 DEF IdsAreSpent
<1>8. SpentIsGone' /\ SignedAfter'
  BY <1>1, <1>2, <1>3, <1>5 DEF PasskeysInv, SpentIsGone, SignedAfter, Open
<1>9. OneRegistration' /\ OwnersRegistered' /\ OneUse' /\ ScansAreFresh'
  BY <1>1 DEF PasskeysInv, OneRegistration, OwnersRegistered, OneUse, ScansAreFresh
<1>10. QED
  BY <1>4, <1>7, <1>8, <1>9 DEF PasskeysInv

LEMMA SignGood ==
  ASSUME PasskeysInv, NEW p \in Phone, NEW u \in User, NEW purpose \in Purpose,
         Sign(p, u, purpose)
  PROVE  PasskeysInv'
<1> DEFINE c == challenge[<<u, purpose>>]
           n == IF p \in Counting THEN counter[p] + 1 ELSE 0
           b == [phone |-> p, id |-> c.id, purpose |-> purpose,
                 count |-> n, age |-> 0, uses |-> 0]
<1>1. /\ c # Nobody /\ n \in Count
      /\ \A a \in answers : a.id # c.id
      /\ purpose = "register" => \A a \in answers : a.phone # p
      /\ counter' = [counter EXCEPT ![p] = n]
      /\ answers' = answers \cup {b}
      /\ UNCHANGED <<owner, count, issued, challenge, verified>>
  BY DEF Sign
<1>2. <<u, purpose>> \in Key /\ c \in Challenge
  BY <1>1 DEF PasskeysInv, TypeOK, Key
<1>3. c.id \in Id /\ c.id <= issued
  BY <1>1, <1>2 DEF PasskeysInv, IdsAreSpent, Challenge
<1> HIDE DEF c, n
<1>4. b \in Answer
  BY <1>1, <1>3, PasskeysAssumption DEF Answer
<1>5. b.phone = p /\ b.id = c.id /\ b.purpose = purpose /\ b.age = 0 /\ b.uses = 0
  OBVIOUS
<1> HIDE DEF b
<1>6. TypeOK'
  BY <1>1, <1>4 DEF PasskeysInv, TypeOK
<1>7. IdsAreSpent' /\ SpentIsGone'
  BY <1>1, <1>3, <1>5 DEF PasskeysInv, IdsAreSpent, SpentIsGone, Open
<1>8. \A k \in Key : challenge[k] # Nobody => challenge[k].age \in Nat
  BY PasskeysAssumption DEF PasskeysInv, TypeOK, Challenge, Key
<1>9. SignedAfter'
  BY <1>1, <1>5, <1>8 DEF PasskeysInv, SignedAfter, Open
<1>10. OneRegistration'
  BY <1>1, <1>5 DEF PasskeysInv, OneRegistration
<1>11. OwnersRegistered'
  BY <1>1 DEF PasskeysInv, OwnersRegistered
<1>12. OneUse' /\ ScansAreFresh'
  BY <1>1, <1>5 DEF PasskeysInv, OneUse, ScansAreFresh
<1>13. QED
  BY <1>6, <1>7, <1>9, <1>10, <1>11, <1>12 DEF PasskeysInv

LEMMA DeleteGood ==
  ASSUME PasskeysInv, NEW p \in Phone, DeleteCredential(p)
  PROVE  PasskeysInv'
<1>1. UNCHANGED <<count, counter, issued, challenge, answers, verified>>
  BY DEF DeleteCredential
<1>2. TypeOK'
  BY DEF DeleteCredential, PasskeysInv, TypeOK
<1>3. \A q \in Phone : owner'[q] # Nobody => owner[q] # Nobody
  BY DEF DeleteCredential, PasskeysInv, TypeOK
<1>4. OwnersRegistered'
  BY <1>1, <1>3 DEF PasskeysInv, OwnersRegistered
<1>5. IdsAreSpent' /\ SpentIsGone' /\ SignedAfter' /\ OneRegistration' /\ OneUse' /\ ScansAreFresh'
  BY <1>1 DEF PasskeysInv, IdsAreSpent, SpentIsGone, SignedAfter, Open, OneRegistration,
              OneUse, ScansAreFresh
<1>6. QED
  BY <1>2, <1>4, <1>5 DEF PasskeysInv

LEMMA RestartGood ==
  ASSUME PasskeysInv, Restart
  PROVE  PasskeysInv'
<1>1. UNCHANGED <<owner, count, counter, issued, challenge, answers>>
  BY DEF Restart
<1>2. TypeOK' /\ ScansAreFresh'
  BY DEF Restart, PasskeysInv, TypeOK, ScansAreFresh
<1>3. /\ IdsAreSpent' /\ SpentIsGone' /\ SignedAfter' /\ OneRegistration' /\ OneUse'
      /\ OwnersRegistered'
  BY <1>1 DEF PasskeysInv, IdsAreSpent, SpentIsGone, SignedAfter, Open, OneRegistration,
              OneUse, OwnersRegistered
<1>4. QED
  BY <1>2, <1>3 DEF PasskeysInv

(* A challenge, an answer and a verification, a tick older.                *)
OlderAnswer(a) == [a EXCEPT !.age = Later(@, ChallengeTTL + 1)]

LEMMA TickGood ==
  ASSUME PasskeysInv, Tick
  PROVE  PasskeysInv'
<1>1. /\ answers' = {OlderAnswer(a) : a \in answers}
      /\ UNCHANGED <<owner, count, counter, issued>>
  BY DEF Tick, OlderAnswer
<1>2. ASSUME NEW a \in answers
      PROVE  /\ OlderAnswer(a) \in Answer /\ OlderAnswer(a).phone = a.phone
             /\ OlderAnswer(a).id = a.id /\ OlderAnswer(a).purpose = a.purpose
             /\ OlderAnswer(a).uses = a.uses
             /\ OlderAnswer(a).age = Later(a.age, ChallengeTTL + 1)
             /\ a.age \in 0..(ChallengeTTL + 1)
  BY PasskeysAssumption DEF PasskeysInv, TypeOK, Answer, OlderAnswer, Later
<1>3. ASSUME NEW k \in Key, challenge'[k] # Nobody
      PROVE  /\ challenge[k] # Nobody /\ challenge'[k].id = challenge[k].id
             /\ challenge'[k] \in Challenge
             /\ challenge'[k].age = Later(challenge[k].age, ChallengeTTL + 1)
             /\ challenge[k].age \in 0..(ChallengeTTL + 1)
  <2>1. /\ challenge[k] # Nobody /\ challenge[k] \in Challenge
        /\ challenge'[k] = [challenge[k] EXCEPT !.age = Later(@, ChallengeTTL + 1)]
    BY <1>3 DEF Tick, Key, PasskeysInv, TypeOK
  <2>2. QED
    BY <2>1, PasskeysAssumption DEF Challenge, Later
<1>4. ASSUME NEW u \in User, verified'[u] # Nobody
      PROVE  /\ verified[u] # Nobody /\ verified'[u] \in Verification
             /\ verified'[u].scan <= verified'[u].age + ChallengeTTL
  <2>1. /\ verified[u] # Nobody /\ verified[u] \in Verification
        /\ verified'[u] = [age |-> Later(verified[u].age, Window + 1),
                            scan |-> Later(verified[u].scan, ChallengeTTL + Window + 1)]
    BY <1>4 DEF Tick, PasskeysInv, TypeOK
  <2>2. verified[u].scan <= verified[u].age + ChallengeTTL
    BY <2>1 DEF PasskeysInv, ScansAreFresh
  <2>3. QED
    BY <2>1, <2>2, PasskeysAssumption DEF Verification, Later
<1>5. challenge' \in [User \X Purpose -> Challenge \cup {Nobody}]
  <2>1. DOMAIN challenge' = User \X Purpose
        /\ challenge' = [k \in User \X Purpose |-> challenge'[k]]
    BY DEF Tick
  <2>2. QED
    BY <1>3, <2>1 DEF Key
<1>6. verified' \in [User -> Verification \cup {Nobody}]
  <2>1. verified' = [u \in User |-> verified'[u]]
    BY DEF Tick
  <2>2. QED
    BY <1>4, <2>1
<1>7. TypeOK'
  BY <1>1, <1>2, <1>5, <1>6 DEF PasskeysInv, TypeOK
<1> HIDE DEF OlderAnswer
<1>8. IdsAreSpent' /\ SpentIsGone'
  BY <1>1, <1>2, <1>3 DEF PasskeysInv, IdsAreSpent, SpentIsGone, Open
<1>9. SignedAfter'
  <2> SUFFICES ASSUME NEW a \in answers, NEW k \in Key,
                      challenge'[k] # Nobody, challenge'[k].id = a.id
               PROVE  OlderAnswer(a).age <= challenge'[k].age
    BY <1>1, <1>2 DEF SignedAfter, Open
  <2>1. a.age <= challenge[k].age
    BY <1>3 DEF PasskeysInv, SignedAfter, Open
  <2>2. QED
    BY <1>2, <1>3, <2>1, PasskeysAssumption DEF Later
<1>10. OneRegistration' /\ OwnersRegistered' /\ OneUse'
  BY <1>1, <1>2 DEF PasskeysInv, OneRegistration, OwnersRegistered, OneUse
<1>11. ScansAreFresh'
  BY <1>4 DEF ScansAreFresh
<1>12. QED
  BY <1>7, <1>8, <1>9, <1>10, <1>11 DEF PasskeysInv
-----------------------------------------------------------------------------
(* In every reachable state no open challenge has a used answer, and a     *)
(* phone is somebody's only after the one registration it answered.        *)
THEOREM PasskeysInvariance == Spec => []PasskeysInv
<1>1. Init => PasskeysInv
  BY PasskeysAssumption DEF Init, PasskeysInv, TypeOK, Count, IdsAreSpent, SpentIsGone,
     SignedAfter, OneRegistration, OwnersRegistered, OneUse, ScansAreFresh, Key, Open
<1>2. PasskeysInv /\ [Next]_vars => PasskeysInv'
  <2> SUFFICES ASSUME PasskeysInv, [Next]_vars PROVE PasskeysInv'
    OBVIOUS
  <2>1. ASSUME NEW u \in User, RegistrationOptions(u) \/ AuthenticationOptions(u)
        PROVE  PasskeysInv'
    BY <2>1, BeginGood DEF RegistrationOptions, AuthenticationOptions, Purpose
  <2>2. CASE UNCHANGED vars
    BY <2>2 DEF vars, PasskeysInv, TypeOK, IdsAreSpent, SpentIsGone,
       SignedAfter, OneRegistration, OwnersRegistered, OneUse, ScansAreFresh, Open
  <2>3. QED
    BY <2>1, <2>2, SignGood, RegisterGood, VerifyGood, DeleteGood, RestartGood, TickGood
       DEF Next
<1>3. QED
  BY <1>1, <1>2, PTL DEF Spec

(* However often and by whomever an answer is presented, it registers a    *)
(* passkey or verifies its user at most once.                              *)
THEOREM AnswersAreUsedOnce == Spec => []OneUse
<1>1. PasskeysInv => OneUse
  BY DEF PasskeysInv
<1>2. QED
  BY <1>1, PasskeysInvariance, PTL

(* What is_verified counts from the moment of the answer is at most the    *)
(* life of a challenge younger than the touch of the sensor.               *)
THEOREM VerificationsAreFresh == Spec => []ScansAreFresh
<1>1. PasskeysInv => ScansAreFresh
  BY DEF PasskeysInv
<1>2. QED
  BY <1>1, PasskeysInvariance, PTL
-----------------------------------------------------------------------------
(* The refinement of RecentProof.                                          *)

Enrolled == {u \in User : HasPasskey(u)}
Proved == [u \in User |-> IF verified[u] = Nobody THEN Nobody ELSE verified[u].age]

LEMMA EnrolledUnless ==
  ASSUME UNCHANGED owner
  PROVE  Enrolled' = Enrolled
BY DEF Enrolled, HasPasskey

LEMMA ProvedUnless ==
  ASSUME UNCHANGED verified
  PROVE  Proved' = Proved
BY DEF Proved

(* A registration enrols a user and nobody loses a passkey by it.          *)
LEMMA RegisterEnrols ==
  ASSUME PasskeysInv, NEW u \in User, NEW a \in answers, Register(u, a)
  PROVE  Proved' = Proved /\ Enrolled' \in {Enrolled, Enrolled \cup {u}}
<1>1. Proved' = Proved
  BY ProvedUnless DEF Register
<1>2. CASE ~(Accepts(u, "register", a.id) /\ a.purpose = "register")
  BY <1>1, <1>2, EnrolledUnless DEF Register
<1>3. CASE Accepts(u, "register", a.id) /\ a.purpose = "register"
  <2>1. owner' = [owner EXCEPT ![a.phone] = u]
    BY <1>3 DEF Register
  <2>2. "register" \in Purpose
    BY DEF Purpose
  <2>3. owner[a.phone] = Nobody
    BY <1>3, <2>2, RegistersItsOwn
  <2>4. a.phone \in Phone
    BY DEF PasskeysInv, TypeOK, Answer
  <2>5. ASSUME NEW v \in User
        PROVE  HasPasskey(v)' <=> HasPasskey(v) \/ v = u
    <3>1. \A p \in Phone : owner'[p] = IF p = a.phone THEN u ELSE owner[p]
      BY <2>1 DEF PasskeysInv, TypeOK
    <3>2. v # Nobody
      BY PasskeysAssumption
    <3>3. QED
      BY <2>3, <2>4, <3>1, <3>2 DEF HasPasskey
  <2>6. Enrolled' = Enrolled \cup {u}
    BY <2>5 DEF Enrolled
  <2>7. QED
    BY <1>1, <2>6
<1>4. QED
  BY <1>2, <1>3

(* A verification is of an enrolled user.                                  *)
LEMMA VerifyProves ==
  ASSUME PasskeysInv, NEW u \in User, NEW a \in answers, Verify(u, a)
  PROVE  /\ Enrolled' = Enrolled
         /\ Proved' = Proved \/ (u \in Enrolled /\ Proved' = [Proved EXCEPT ![u] = 0])
<1>1. Enrolled' = Enrolled
  BY EnrolledUnless DEF Verify
<1>2. CASE ~Proves(u, a)
  BY <1>1, <1>2, ProvedUnless DEF Verify, Proves
<1>3. CASE Proves(u, a)
  <2> DEFINE n == [age |-> 0, scan |-> a.age]
  <2>1. verified' = [verified EXCEPT ![u] = n] /\ Destroy(a.id)
    BY <1>3 DEF Verify, Proves
  <2>2. a \in Answer
    BY DEF PasskeysInv, TypeOK
  <2>3. n \in Verification /\ n.age = 0
    BY <2>2, PasskeysAssumption DEF Verification, Answer
  <2>4. n # Nobody
    BY <2>3, NobodyAssumption
  <2> HIDE DEF n
  <2>5. Proved' = [Proved EXCEPT ![u] = 0]
    BY <2>1, <2>3, <2>4 DEF Proved, PasskeysInv, TypeOK
  <2>6. u \in Enrolled
    BY <1>3, <2>2 DEF Proves, Enrolled, HasPasskey, Answer
  <2>7. QED
    BY <1>1, <2>5, <2>6
<1>4. QED
  BY <1>2, <1>3

LEMMA DeleteWithdraws ==
  ASSUME PasskeysInv, NEW p \in Phone, DeleteCredential(p)
  PROVE  /\ Proved' = Proved
         /\ \E u \in User : Enrolled' \in {Enrolled, Enrolled \ {u}}
<1>1. Proved' = Proved
  BY ProvedUnless DEF DeleteCredential
<1>2. owner[p] \in User
  BY DEF DeleteCredential, PasskeysInv, TypeOK
<1>3. \A q \in Phone : owner'[q] = IF q = p THEN Nobody ELSE owner[q]
  BY DEF DeleteCredential, PasskeysInv, TypeOK
<1>4. ASSUME NEW v \in User
      PROVE  /\ v # owner[p] => (HasPasskey(v)' <=> HasPasskey(v))
             /\ HasPasskey(owner[p])
             /\ HasPasskey(v)' => HasPasskey(v)
  BY <1>3, PasskeysAssumption DEF HasPasskey
<1>5. Enrolled' \in {Enrolled, Enrolled \ {owner[p]}}
  BY <1>2, <1>4 DEF Enrolled
<1>6. QED
  BY <1>1, <1>2, <1>5

LEMMA TickAges ==
  ASSUME PasskeysInv, Tick
  PROVE  /\ Enrolled' = Enrolled
         /\ Proved' = [u \in User |-> IF Proved[u] = Nobody THEN Nobody
                                       ELSE Later(Proved[u], Window + 1)]
<1>1. Enrolled' = Enrolled
  BY EnrolledUnless DEF Tick
<1>2. ASSUME NEW u \in User
      PROVE  Proved'[u] = IF Proved[u] = Nobody THEN Nobody ELSE Later(Proved[u], Window + 1)
  <2>1. CASE verified[u] = Nobody
    BY <2>1 DEF Tick, Proved
  <2>2. CASE verified[u] # Nobody
    <3> DEFINE v == verified[u]
               n == [age |-> Later(v.age, Window + 1),
                     scan |-> Later(v.scan, ChallengeTTL + Window + 1)]
    <3>1. v \in Verification /\ verified'[u] = n
      BY <2>2 DEF Tick, PasskeysInv, TypeOK
    <3>2. n \in Verification /\ n.age = Later(v.age, Window + 1)
      BY <3>1, PasskeysAssumption DEF Verification, Later
    <3>3. n # Nobody
      BY <3>2, NobodyAssumption
    <3>4. Proved[u] = v.age /\ v.age \in Nat
      BY <2>2, <3>1 DEF Proved, Verification
    <3>5. Proved[u] # Nobody
      BY <3>4, NobodyAssumption
    <3> HIDE DEF n
    <3>6. Proved'[u] = n.age
      BY <3>1, <3>3 DEF Proved
    <3>7. QED
      BY <3>2, <3>4, <3>5, <3>6
  <2>3. QED
    BY <2>1, <2>2
<1>3. Proved' = [u \in User |-> Proved'[u]]
  BY DEF Proved
<1>4. QED
  BY <1>1, <1>2, <1>3

(* Every step is one of RecentProof or leaves its variables alone.         *)
LEMMA StepsAreProofSteps ==
  ASSUME PasskeysInv, [Next]_vars
  PROVE  [Proof!NextProof]_Proof!proofVars
<1>1. CASE UNCHANGED <<Enrolled, Proved>>
  BY <1>1 DEF Proof!proofVars, Enrolled, Proved
<1>2. ASSUME NEW u \in User, RegistrationOptions(u) \/ AuthenticationOptions(u)
      PROVE  UNCHANGED <<Enrolled, Proved>>
  BY <1>2, EnrolledUnless, ProvedUnless DEF RegistrationOptions, AuthenticationOptions, Begin
<1>3. ASSUME NEW p \in Phone, NEW u \in User, NEW purpose \in Purpose, Sign(p, u, purpose)
      PROVE  UNCHANGED <<Enrolled, Proved>>
  BY <1>3, EnrolledUnless, ProvedUnless DEF Sign
<1>4. CASE UNCHANGED vars
  BY <1>1, <1>4, EnrolledUnless, ProvedUnless DEF vars
<1>5. ASSUME NEW u \in User, NEW a \in answers, Register(u, a)
      PROVE  [Proof!NextProof]_Proof!proofVars
  <2>1. Proved' = Proved /\ Enrolled' \in {Enrolled, Enrolled \cup {u}}
    BY <1>5, RegisterEnrols
  <2>2. CASE Enrolled' = Enrolled \cup {u}
    <3>1. Proof!Enrol(u)
      BY <2>1, <2>2 DEF Proof!Enrol, Enrolled, Proved
    <3>2. QED
      BY <3>1 DEF Proof!NextProof
  <2>3. QED
    BY <1>1, <2>1, <2>2
<1>6. ASSUME NEW u \in User, NEW a \in answers, Verify(u, a)
      PROVE  [Proof!NextProof]_Proof!proofVars
  <2>1. /\ Enrolled' = Enrolled
        /\ Proved' = Proved \/ (u \in Enrolled /\ Proved' = [Proved EXCEPT ![u] = 0])
    BY <1>6, VerifyProves
  <2>2. CASE u \in Enrolled /\ Proved' = [Proved EXCEPT ![u] = 0]
    <3>1. Proof!Prove(u)
      BY <2>1, <2>2 DEF Proof!Prove, Enrolled, Proved
    <3>2. QED
      BY <3>1 DEF Proof!NextProof
  <2>3. QED
    BY <1>1, <2>1, <2>2
<1>7. ASSUME NEW p \in Phone, DeleteCredential(p)
      PROVE  [Proof!NextProof]_Proof!proofVars
  <2>1. /\ Proved' = Proved
        /\ \E u \in User : Enrolled' \in {Enrolled, Enrolled \ {u}}
    BY <1>7, DeleteWithdraws
  <2>2. ASSUME NEW u \in User, Enrolled' = Enrolled \ {u}
        PROVE  [Proof!NextProof]_Proof!proofVars
    <3>1. Proof!Withdraw(u)
      BY <2>1, <2>2 DEF Proof!Withdraw, Enrolled, Proved
    <3>2. QED
      BY <3>1 DEF Proof!NextProof
  <2>3. QED
    BY <1>1, <2>1, <2>2
<1>8. ASSUME Restart
      PROVE  [Proof!NextProof]_Proof!proofVars
  <2>1. Proved' = [u \in User |-> Nobody]
    BY <1>8 DEF Restart, Proved
  <2>2. Enrolled' = Enrolled
    BY <1>8, EnrolledUnless DEF Restart
  <2>3. Proof!Forget
    BY <2>1, <2>2 DEF Proof!Forget, Enrolled, Proved
  <2>4. QED
    BY <2>3 DEF Proof!NextProof
<1>9. ASSUME Tick
      PROVE  [Proof!NextProof]_Proof!proofVars
  <2>1. /\ Enrolled' = Enrolled
        /\ Proved' = [u \in User |-> IF Proved[u] = Nobody THEN Nobody
                                      ELSE Later(Proved[u], Window + 1)]
    BY <1>9, TickAges
  <2>2. Proof!GrowOld
    BY <2>1 DEF Proof!GrowOld, Proof!Later, Later, Enrolled, Proved
  <2>3. QED
    BY <2>2 DEF Proof!NextProof
<1>10. QED
  BY <1>1, <1>2, <1>3, <1>4, <1>5, <1>6, <1>7, <1>8, <1>9 DEF Next

(* The passkeys keep the promise the doors are built on: the proof of a    *)
(* user comes from an enrolled user's own answer, grows old with time and  *)
(* is forgotten by a restart, and nothing else touches it.                 *)
THEOREM PasskeysImplementRecentProof == Spec => ImplementsRecentProof
<1>1. Init => Proof!InitProof
  <2> SUFFICES ASSUME Init PROVE Proof!InitProof
    OBVIOUS
  <2>1. Proved = [u \in User |-> Nobody] /\ Enrolled \in SUBSET User
    BY DEF Init, Proved, Enrolled
  <2>2. QED
    BY <2>1 DEF Proof!InitProof, Proved, Enrolled
<1>2. PasskeysInv /\ [Next]_vars => [Proof!NextProof]_Proof!proofVars
  BY StepsAreProofSteps
<1>3. QED
  BY <1>1, <1>2, PasskeysInvariance, PTL DEF Spec, ImplementsRecentProof, Proof!ProofSpec
=============================================================================
