--------------------------- MODULE ChallengeManager ---------------------------
(***************************************************************************)
(* The challenges of yma-auth (ChallengeManager, yma-auth/src/             *)
(* challenge.rs): a user is given a challenge, answers it once within its  *)
(* time to live, and holds a bounded number of them.                       *)
(*                                                                         *)
(*   challenges       challenge id -> Challenge                            *)
(*   user_challenges  user id -> ids of the user's challenges              *)
(*                                                                         *)
(* each behind its own parking_lot RwLock.  The generators and             *)
(* cleanup_expired read the clock BEFORE they ask for their first lock and *)
(* take the second one holding the first, the former user_challenges       *)
(* first, the latter challenges first.  Each is three actions: the call,   *)
(* the first lock, the second lock and the return.  verify takes one lock, *)
(* reads the clock under it, and is one action.                            *)
(***************************************************************************)
EXTENDS Naturals, FiniteSets, TLC

CONSTANTS
  Threads,
  Users,
  Ids,                    (* challenge ids: uuids, never drawn twice       *)
  Ttls,                   (* CHALLENGE_TTL_SECONDS, and what callers of    *)
                          (* generate_timed pass                           *)
  MAX_CHALLENGES_PER_USER,
  MaxTime,                (* bound on the clock, for model checking        *)
  NoThread,               (* an unlocked RwLock                            *)
  NoChallenge             (* an id that is not a key of challenges         *)

Challenge == [user_id : Users, expires_at : Nat, used : BOOLEAN]

ASSUME ManagerAssumption ==
  /\ MAX_CHALLENGES_PER_USER \in Nat
  /\ Ttls \subseteq Nat
  /\ NoThread \notin Threads
  /\ NoChallenge \notin Challenge

VARIABLES
  challenges,             (* [Ids -> Challenge], NoChallenge where absent  *)
  user_challenges,        (* [Users -> SUBSET Ids], each user's list       *)
  challenges_lock,        (* the thread holding challenges.write()         *)
  user_challenges_lock,   (* the thread holding user_challenges.write()    *)
  call,                   (* call[t]: t's call in progress                 *)
  issued,                 (* the ids Uuid::new_v4 has returned             *)
  solved,                 (* history: how often verify said Ok(true)       *)
  now                     (* SystemTime::now, in seconds                   *)

vars == <<challenges, user_challenges, challenges_lock, user_challenges_lock,
          call, issued, solved, now>>

NoCall       == [at |-> "none"]
GenerateCall == [at : {"generating", "storing"}, id : Ids,
                 challenge : Challenge]
CleanupCall  == [at : {"cleaning", "sweeping"}, since : Nat]

Init ==
  /\ challenges = [id \in Ids |-> NoChallenge]
  /\ user_challenges = [u \in Users |-> {}]
  /\ challenges_lock = NoThread
  /\ user_challenges_lock = NoThread
  /\ call = [t \in Threads |-> NoCall]
  /\ issued = {}
  /\ solved = [id \in Ids |-> 0]
  /\ now = 0

Live == {id \in Ids : challenges[id] # NoChallenge}

LiveOf(u) == {id \in Live : challenges[id].user_id = u}

-----------------------------------------------------------------------------
(***************************************************************************)
(* generate_hashcash, generate_hmac and generate_timed differ in the       *)
(* answer they expect and in the time to live; then store_challenge.       *)
(***************************************************************************)
\* Mutant of NewChallenge: the remaining time is stored, which can be negative.
NewChallengeRemaining(u, ttl) ==
  [user_id |-> u, expires_at |-> ttl - now, used |-> FALSE]

NewChallenge(u, ttl) ==
  [user_id |-> u, expires_at |-> now + ttl, used |-> FALSE]

Generate(t) ==
  /\ call[t] = NoCall
  /\ \E u \in Users, id \in Ids \ issued, ttl \in Ttls :
       /\ issued' = issued \cup {id}
       /\ call' = [call EXCEPT ![t] = [at |-> "generating", id |-> id,
                                       challenge |-> NewChallenge(u, ttl)]]
  /\ UNCHANGED <<challenges, user_challenges, challenges_lock,
                 user_challenges_lock, solved, now>>

\* Mutant of ListLength: solved challenges do not count.
UnsolvedLength(u) ==
  Cardinality({id \in user_challenges[u] : solved[id] = 0})

ListLength(u) == Cardinality(user_challenges[u])

StoreBegin(t) ==
  LET u == call[t].challenge.user_id
  IN  /\ call[t].at = "generating"
      /\ user_challenges_lock = NoThread
      /\ ListLength(u) < MAX_CHALLENGES_PER_USER
      /\ user_challenges' = [user_challenges EXCEPT ![u] = @ \cup {call[t].id}]
      /\ user_challenges_lock' = t
      /\ call' = [call EXCEPT ![t].at = "storing"]
      /\ UNCHANGED <<challenges, challenges_lock, issued, solved, now>>

\* Mutant of StoreRefused: the id is pushed before the limit is looked at.
StoreRefusedListed(t) ==
  LET u == call[t].challenge.user_id
  IN  /\ call[t].at = "generating"
      /\ user_challenges_lock = NoThread
      /\ ListLength(u) >= MAX_CHALLENGES_PER_USER
      /\ user_challenges' = [user_challenges EXCEPT ![u] = @ \cup {call[t].id}]
      /\ call' = [call EXCEPT ![t] = NoCall]
      /\ UNCHANGED <<challenges, challenges_lock, user_challenges_lock, issued,
                     solved, now>>

StoreRefused(t) ==
  /\ call[t].at = "generating"
  /\ user_challenges_lock = NoThread
  /\ ListLength(call[t].challenge.user_id) >= MAX_CHALLENGES_PER_USER
  /\ call' = [call EXCEPT ![t] = NoCall]
  /\ UNCHANGED <<challenges, user_challenges, challenges_lock,
                 user_challenges_lock, issued, solved, now>>

StoreFinish(t) ==
  /\ call[t].at = "storing"
  /\ challenges_lock = NoThread
  /\ challenges' = [challenges EXCEPT ![call[t].id] = call[t].challenge]
  /\ user_challenges_lock' = NoThread
  /\ call' = [call EXCEPT ![t] = NoCall]
  /\ UNCHANGED <<user_challenges, challenges_lock, issued, solved, now>>

-----------------------------------------------------------------------------
(***************************************************************************)
(* verify.                                                                 *)
(***************************************************************************)
Use(c) == [c EXCEPT !.used = TRUE]

Answerable(c) == ~c.used /\ now < c.expires_at

VerifyRight(t) ==
  /\ call[t] = NoCall
  /\ challenges_lock = NoThread
  /\ \E id \in Live :
       /\ Answerable(challenges[id])
       /\ challenges' = [challenges EXCEPT ![id] = Use(@)]
       /\ solved' = [solved EXCEPT ![id] = @ + 1]
  /\ UNCHANGED <<user_challenges, challenges_lock, user_challenges_lock, call,
                 issued, now>>

\* A wrong answer, or a challenge that is unknown, used or expired.
VerifyWrong(t) ==
  /\ call[t] = NoCall
  /\ challenges_lock = NoThread
  /\ UNCHANGED vars

-----------------------------------------------------------------------------
(***************************************************************************)
(* cleanup_expired, with the clock it read when it was called.             *)
(***************************************************************************)
\* Mutant of Swept: a challenge goes in its last second.
SweptEarly(c, since) == since + 1 >= c.expires_at \/ c.used

Swept(c, since) == since >= c.expires_at \/ c.used

Cleanup(t) ==
  /\ call[t] = NoCall
  /\ call' = [call EXCEPT ![t] = [at |-> "cleaning", since |-> now]]
  /\ UNCHANGED <<challenges, user_challenges, challenges_lock,
                 user_challenges_lock, issued, solved, now>>

CleanupBegin(t) ==
  /\ call[t].at = "cleaning"
  /\ challenges_lock = NoThread
  /\ challenges_lock' = t
  /\ call' = [call EXCEPT ![t].at = "sweeping"]
  /\ UNCHANGED <<challenges, user_challenges, user_challenges_lock, issued,
                 solved, now>>

CleanupFinish(t) ==
  LET gone == {id \in Live : Swept(challenges[id], call[t].since)}
  IN  /\ call[t].at = "sweeping"
      /\ user_challenges_lock = NoThread
      /\ challenges' = [id \in Ids |-> IF id \in gone THEN NoChallenge
                                       ELSE challenges[id]]
      /\ user_challenges' =
           [u \in Users |-> user_challenges[u] \
              {id \in gone : challenges[id].user_id = u}]
      /\ challenges_lock' = NoThread
      /\ call' = [call EXCEPT ![t] = NoCall]
      /\ UNCHANGED <<user_challenges_lock, issued, solved, now>>

Tick ==
  /\ now < MaxTime
  /\ now' = now + 1
  /\ UNCHANGED <<challenges, user_challenges, challenges_lock,
                 user_challenges_lock, call, issued, solved>>

-----------------------------------------------------------------------------
Step(t) == \/ Generate(t)
           \/ StoreBegin(t)
           \/ StoreRefused(t)
           \/ StoreFinish(t)
           \/ VerifyRight(t)
           \/ VerifyWrong(t)
           \/ Cleanup(t)
           \/ CleanupBegin(t)
           \/ CleanupFinish(t)

Next == Tick \/ \E t \in Threads : Step(t)

Spec == Init /\ [][Next]_vars

-----------------------------------------------------------------------------
TypeOK ==
  /\ challenges \in [Ids -> Challenge \cup {NoChallenge}]
  /\ user_challenges \in [Users -> SUBSET Ids]
  /\ challenges_lock \in Threads \cup {NoThread}
  /\ user_challenges_lock \in Threads \cup {NoThread}
  /\ call \in [Threads -> {NoCall} \cup GenerateCall \cup CleanupCall]
  /\ issued \in SUBSET Ids
  /\ solved \in [Ids -> Nat]
  /\ now \in Nat

\* The challenge of u that is on its list and not yet in challenges.
BeingStored(u) ==
  {id \in Ids : \E t \in Threads : /\ call[t].at = "storing"
                                   /\ call[t].id = id
                                   /\ call[t].challenge.user_id = u}

\* The two maps agree: a user's list, which the limit counts, holds the user's
\* stored challenges and the one being stored, in any interleaving of
\* generators, answers and sweeps.
ListMatchesChallenges ==
  \A u \in Users : user_challenges[u] = LiveOf(u) \cup BeingStored(u)

\* No user holds more than MAX_CHALLENGES_PER_USER challenges.
ChallengeCapHolds ==
  \A u \in Users : Cardinality(LiveOf(u)) <= MAX_CHALLENGES_PER_USER

\* A challenge is solved at most once, however its answers race with each
\* other and with the sweep that forgets it.
SolvedOnce == \A id \in Ids : solved[id] <= 1

\* A challenge that can still be answered is never swept, although the sweep
\* uses a clock it read before it waited for its locks.
OpenChallengesStay ==
  [][\A id \in Live : Answerable(challenges[id]) => id \in Live']_vars

(***************************************************************************)
(* The inductive invariant behind the theorems of ChallengeProofs.         *)
(***************************************************************************)
\* A lock is held exactly by the call that is between its two locks.
LocksHeldByCalls ==
  \A t \in Threads :
    /\ challenges_lock = t <=> call[t].at = "sweeping"
    /\ user_challenges_lock = t <=> call[t].at = "storing"

\* The id of a challenge that is not stored yet is issued, unanswered, not in
\* challenges, and one call's own.
NewIdsFresh ==
  /\ Live \subseteq issued
  /\ \A t \in Threads : call[t].at \in {"generating", "storing"} =>
       /\ call[t].id \in issued \ Live
       /\ solved[call[t].id] = 0
       /\ \A s \in Threads \ {t} :
            call[s].at \in {"generating", "storing"} => call[s].id # call[t].id

\* What has been solved was issued and is marked as used for as long as it is
\* stored.
SolvedIsUsed ==
  \A id \in Ids : solved[id] # 0 =>
    id \in issued /\ (id \in Live => challenges[id].used)

\* A sweep never works with a time that is still to come.
SweepsLookBack ==
  \A t \in Threads : call[t].at \in {"cleaning", "sweeping"} => call[t].since <= now

\* The length of a user's list, which is what store_challenge checks.
ListsBounded ==
  \A u \in Users : /\ IsFiniteSet(user_challenges[u])
                   /\ ListLength(u) <= MAX_CHALLENGES_PER_USER

ChallengeInv ==
  /\ TypeOK
  /\ LocksHeldByCalls
  /\ NewIdsFresh
  /\ ListMatchesChallenges
  /\ ListsBounded
  /\ SolvedIsUsed
  /\ SolvedOnce
  /\ SweepsLookBack

-----------------------------------------------------------------------------
\* For TLC: threads, users and ids are interchangeable.
Symmetry ==
  Permutations(Threads) \cup Permutations(Users) \cup Permutations(Ids)
=============================================================================
