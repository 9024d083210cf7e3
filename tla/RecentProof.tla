---------------------------- MODULE RecentProof ----------------------------
(***************************************************************************)
(* What the passkeys promise the door: who has one, and how long ago each  *)
(* user last proved to be holding it.  Passkeys implements this; Doors is  *)
(* built on it.                                                            *)
(***************************************************************************)
EXTENDS Naturals

CONSTANTS
  User,
  Nobody,
  Window    \* VERIFICATION_WINDOW_SECONDS, in ticks

VARIABLES
  enrolled,   \* the users who have a passkey
  proved      \* Passkeys._verified_at: the age of the last proof, or Nobody

proofVars == <<enrolled, proved>>

(* Ages stop at the first that is too old for anything.                    *)
Later(age, last) == IF age < last THEN age + 1 ELSE last

InitProof ==
  /\ enrolled \in SUBSET User
  /\ proved = [u \in User |-> Nobody]

Enrol(u) == enrolled' = enrolled \cup {u} /\ UNCHANGED proved

(* The last passkey of a user goes; a proof made with it is left alone.    *)
Withdraw(u) == enrolled' = enrolled \ {u} /\ UNCHANGED proved

Prove(u) ==
  /\ u \in enrolled
  /\ proved' = [proved EXCEPT ![u] = 0]
  /\ UNCHANGED enrolled

Forget == proved' = [u \in User |-> Nobody] /\ UNCHANGED enrolled

GrowOld ==
  /\ proved' = [u \in User |-> IF proved[u] = Nobody THEN Nobody ELSE Later(proved[u], Window + 1)]
  /\ UNCHANGED enrolled

NextProof ==
  \/ \E u \in User : Enrol(u) \/ Withdraw(u) \/ Prove(u)
  \/ Forget
  \/ GrowOld

ProofSpec == InitProof /\ [][NextProof]_proofVars

RecentlyProved(u) == proved[u] # Nobody /\ proved[u] <= Window
=============================================================================
