------------------------------ MODULE Passkeys ------------------------------
(***************************************************************************)
(* The passkey that proves somebody is holding the phone now: passkeys.py  *)
(* and its routes in api.py.  A challenge is issued, a phone answers it,   *)
(* and the browser brings the answer back: once, more than once, late or   *)
(* never, through a session of the same user or of another.  The tables    *)
(* survive a restart, the verifications do not.                            *)
(***************************************************************************)
EXTENDS Naturals, FiniteSets

CONSTANTS
  User, Phone,
  Nobody,         \* no user, no challenge, no verification
  Counting,       \* phones whose passkey keeps a signature counter
  ChallengeTTL,   \* CHALLENGE_TTL_SECONDS, in ticks
  Window,         \* VERIFICATION_WINDOW_SECONDS, in ticks
  MaxChallenge    \* challenges issued in one behaviour (bound)

ASSUME PasskeysAssumption ==
  /\ Nobody \notin User
  /\ Counting \subseteq Phone
  /\ {ChallengeTTL, Window, MaxChallenge} \subseteq Nat

VARIABLES
  owner,       \* webauthn_credential: whose passkey a phone's is, or Nobody
  count,       \* its sign_count
  counter,     \* the counter in the phone itself
  issued,      \* challenges issued so far
  challenge,   \* webauthn_challenge: of each user and purpose
  answers,     \* what phones signed, and how often it was accepted
  verified     \* Passkeys._verified_at: ages of the verification and of its scan

vars == <<owner, count, counter, issued, challenge, answers, verified>>

Purpose == {"register", "authenticate"}

(* Ages stop at the first that is too old for anything.                    *)
Later(age, last) == IF age < last THEN age + 1 ELSE last

Id == 1..MaxChallenge
Count == 0..MaxChallenge
Challenge == [id : Id, age : 0..(ChallengeTTL + 1)]
Answer == [phone : Phone, id : Id, purpose : Purpose, count : Count,
           age : 0..(ChallengeTTL + 1), uses : 0..2]
Verification == [age : 0..(Window + 1), scan : 0..(ChallengeTTL + Window + 1)]

ASSUME NobodyAssumption == Nobody \notin Nat \cup Verification

Init ==
  /\ owner = [p \in Phone |-> Nobody]
  /\ count = [p \in Phone |-> 0]
  /\ counter = [p \in Phone |-> 0]
  /\ issued = 0
  /\ challenge = [k \in User \X Purpose |-> Nobody]
  /\ answers = {}
  /\ verified = [u \in User |-> Nobody]

HasPasskey(u) == \E p \in Phone : owner[p] = u

(* The user's earlier challenge of that purpose goes.                      *)
Begin(u, purpose) ==
  /\ issued < MaxChallenge
  /\ issued' = issued + 1
  /\ challenge' = [challenge EXCEPT ![<<u, purpose>>] = [id |-> issued + 1, age |-> 0]]
  /\ UNCHANGED <<owner, count, counter, answers, verified>>

RegistrationOptions(u) == Begin(u, "register")
AuthenticationOptions(u) == HasPasskey(u) /\ Begin(u, "authenticate")

(* A phone answers a challenge it is shown, its owner touching the sensor. *)
(* The passkey it makes when it registers is a new one each time, and is   *)
(* one of the model's phones.                                              *)
Sign(p, u, purpose) ==
  LET c == challenge[<<u, purpose>>]
      n == IF p \in Counting THEN counter[p] + 1 ELSE 0
  IN /\ c # Nobody
     /\ n \in Count
     /\ owner[p] = IF purpose = "authenticate" THEN u ELSE Nobody
     /\ \A a \in answers : a.id # c.id
     /\ purpose = "register" => \A a \in answers : a.phone # p
     /\ counter' = [counter EXCEPT ![p] = n]
     /\ answers' = answers \cup {[phone |-> p, id |-> c.id, purpose |-> purpose,
                                  count |-> n, age |-> 0, uses |-> 0]}
     /\ UNCHANGED <<owner, count, issued, challenge, verified>>

(* Mutant: a challenge stays until the next one replaces it.               *)
DestroyNothing(id) == UNCHANGED challenge

(* _consume_challenge: the challenge goes whosever it is, but only its own *)
(* user can have it accepted, for its purpose and in its time.             *)
Destroy(id) ==
  challenge' = [k \in User \X Purpose |->
                  IF challenge[k] # Nobody /\ challenge[k].id = id THEN Nobody ELSE challenge[k]]

(* Mutant: the challenge's time is not looked at.                          *)
AcceptsForEver(u, purpose, id) ==
  challenge[<<u, purpose>>] # Nobody /\ challenge[<<u, purpose>>].id = id

Accepts(u, purpose, id) ==
  LET c == challenge[<<u, purpose>>]
  IN c # Nobody /\ c.id = id /\ c.age <= ChallengeTTL

(* The signature counter must advance once it has been seen to count.      *)
Advances(p, n) == count[p] # 0 => n > count[p]

Use(a) == answers' = (answers \ {a}) \cup {[a EXCEPT !.uses = IF @ < 2 THEN @ + 1 ELSE 2]}

Register(u, a) ==
  /\ Destroy(a.id)
  /\ IF Accepts(u, "register", a.id) /\ a.purpose = "register"
     THEN /\ owner' = [owner EXCEPT ![a.phone] = u]
          /\ count' = [count EXCEPT ![a.phone] = a.count]
          /\ Use(a)
     ELSE UNCHANGED <<owner, count, answers>>
  /\ UNCHANGED <<counter, issued, verified>>

(* Mutant: the passkey is looked up by its id alone.                       *)
VerifyAnyOwner(u, a) ==
  /\ Destroy(a.id)
  /\ \E v \in User : Accepts(v, "authenticate", a.id)
  /\ a.purpose = "authenticate"
  /\ verified' = [verified EXCEPT ![u] = [age |-> 0, scan |-> a.age]]
  /\ Use(a)
  /\ UNCHANGED <<owner, count, counter, issued>>

Verify(u, a) ==
  /\ Destroy(a.id)
  /\ IF /\ Accepts(u, "authenticate", a.id)
        /\ a.purpose = "authenticate"
        /\ owner[a.phone] = u
        /\ Advances(a.phone, a.count)
     THEN /\ count' = [count EXCEPT ![a.phone] = a.count]
          /\ verified' = [verified EXCEPT ![u] = [age |-> 0, scan |-> a.age]]
          /\ Use(a)
     ELSE UNCHANGED <<count, verified, answers>>
  /\ UNCHANGED <<owner, counter, issued>>

(* delete_credential: a verification already made is left alone.           *)
DeleteCredential(p) ==
  /\ owner[p] # Nobody
  /\ owner' = [owner EXCEPT ![p] = Nobody]
  /\ UNCHANGED <<count, counter, issued, challenge, answers, verified>>

Restart ==
  /\ verified' = [u \in User |-> Nobody]
  /\ UNCHANGED <<owner, count, counter, issued, challenge, answers>>

Tick ==
  /\ challenge' = [k \in User \X Purpose |->
       IF challenge[k] = Nobody THEN Nobody
       ELSE [challenge[k] EXCEPT !.age = Later(@, ChallengeTTL + 1)]]
  /\ answers' = {[a EXCEPT !.age = Later(@, ChallengeTTL + 1)] : a \in answers}
  /\ verified' = [u \in User |->
       IF verified[u] = Nobody THEN Nobody
       ELSE [age |-> Later(verified[u].age, Window + 1),
             scan |-> Later(verified[u].scan, ChallengeTTL + Window + 1)]]
  /\ UNCHANGED <<owner, count, counter, issued>>

Next ==
  \/ \E u \in User : RegistrationOptions(u) \/ AuthenticationOptions(u)
  \/ \E p \in Phone, u \in User, purpose \in Purpose : Sign(p, u, purpose)
  \/ \E u \in User, a \in answers : Register(u, a) \/ Verify(u, a)
  \/ \E p \in Phone : DeleteCredential(p)
  \/ Restart
  \/ Tick

Spec == Init /\ [][Next]_vars

------------------------------------------------------------------------------
TypeOK ==
  /\ owner \in [Phone -> User \cup {Nobody}]
  /\ count \in [Phone -> Count]
  /\ counter \in [Phone -> Count]
  /\ issued \in Nat
  /\ challenge \in [User \X Purpose -> Challenge \cup {Nobody}]
  /\ answers \subseteq Answer
  /\ verified \in [User -> Verification \cup {Nobody}]

(* One touch of the sensor is good for one verification, or registration:  *)
(* "it can only ever be used once" (passkeys.py), however often, however   *)
(* late and by whomever the answer is presented, across restarts.          *)
OneUse == \A a \in answers : a.uses <= 1

(* A verification is as fresh as the scan behind it: nobody can scan now   *)
(* and keep the proof for another day.                                     *)
ScansAreFresh ==
  \A u \in User : verified[u] # Nobody =>
    verified[u].scan <= verified[u].age + ChallengeTTL

(* The promise Doors is built on: only an enrolled user's own touch makes  *)
(* a proof, proofs only grow old, and a restart forgets them.              *)
Proof == INSTANCE RecentProof
           WITH enrolled <- {u \in User : HasPasskey(u)},
                proved <- [u \in User |-> IF verified[u] = Nobody THEN Nobody
                                          ELSE verified[u].age],
                User <- User, Nobody <- Nobody, Window <- Window
ImplementsRecentProof == Proof!ProofSpec
=============================================================================
