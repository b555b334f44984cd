---------------------------- MODULE ChallengeProofs ----------------------------
(***************************************************************************)
(* Proofs about ChallengeManager, for any number of threads, users and     *)
(* ids, any limit and any times to live.                                   *)
(*                                                                         *)
(* The argument: the locks keep a generator that is between its two locks  *)
(* apart from every sweep (LocksHeldByCalls); the id of a challenge that   *)
(* is not stored yet is unknown to everybody else (NewIdsFresh), so the    *)
(* list and the table differ on it alone; and an answer marks what it      *)
(* solves while it holds the table (SolvedIsUsed), so there is no second.  *)
(***************************************************************************)
EXTENDS ChallengeManager, FiniteSetTheorems, TLAPS

USE ManagerAssumption

LEMMA InitChallengeInv == Init => ChallengeInv
<1> SUFFICES ASSUME Init PROVE ChallengeInv
  OBVIOUS
<1>1. TypeOK
  BY DEF Init, TypeOK
<1>2. LocksHeldByCalls /\ SweepsLookBack
  BY DEF Init, LocksHeldByCalls, SweepsLookBack, NoCall
<1>3. NewIdsFresh
  BY DEF Init, NewIdsFresh, Live, NoCall
<1>4. ListMatchesChallenges
  BY DEF Init, ListMatchesChallenges, LiveOf, Live, BeingStored, NoCall
<1>5. ListsBounded
  BY FS_EmptySet DEF Init, ListsBounded, ListLength
<1>6. SolvedIsUsed /\ SolvedOnce
  BY DEF Init, SolvedIsUsed, SolvedOnce
<1> QED
  BY <1>1, <1>2, <1>3, <1>4, <1>5, <1>6 DEF ChallengeInv

(***************************************************************************)
(* What a call carries at each of its places.                              *)
(***************************************************************************)
LEMMA CallTypes ==
  ASSUME TypeOK, NEW t \in Threads
  PROVE  /\ call[t].at \in {"generating", "storing"} =>
              /\ call[t] \in GenerateCall
              /\ call[t].id \in Ids
              /\ call[t].challenge \in Challenge
              /\ call[t].challenge.user_id \in Users
         /\ call[t].at \in {"cleaning", "sweeping"} =>
              call[t] \in CleanupCall /\ call[t].since \in Nat
BY DEF TypeOK, NoCall, GenerateCall, CleanupCall, Challenge

\* A challenge that is marked as used is still a challenge, of the same user
\* and with the same end.
LEMMA UseFacts ==
  ASSUME NEW c \in Challenge
  PROVE  /\ Use(c) \in Challenge
         /\ Use(c) # NoChallenge
         /\ Use(c).user_id = c.user_id
         /\ Use(c).expires_at = c.expires_at
         /\ Use(c).used
BY DEF Use, Challenge

\* Each action keeps the types.
LEMMA NextTypeOK == TypeOK /\ [Next]_vars => TypeOK'
<1> SUFFICES ASSUME TypeOK, [Next]_vars PROVE TypeOK'
  OBVIOUS
<1>1. ASSUME NEW t \in Threads, Generate(t) PROVE TypeOK'
  <2> PICK u \in Users, id \in Ids \ issued, ttl \in Ttls :
         /\ issued' = issued \cup {id}
         /\ call' = [call EXCEPT ![t] = [at |-> "generating", id |-> id,
                                         challenge |-> NewChallenge(u, ttl)]]
    BY <1>1 DEF Generate
  <2>1. [at |-> "generating", id |-> id, challenge |-> NewChallenge(u, ttl)]
          \in GenerateCall
    BY DEF GenerateCall, NewChallenge, Challenge, TypeOK
  <2> QED
    BY <1>1, <2>1 DEF Generate, TypeOK
<1>2. ASSUME NEW t \in Threads, StoreBegin(t) PROVE TypeOK'
  <2>1. call[t] \in GenerateCall /\ call[t].id \in Ids
    BY <1>2, CallTypes DEF StoreBegin
  <2>2. [call[t] EXCEPT !.at = "storing"] \in GenerateCall
    BY <2>1 DEF GenerateCall
  <2>3. call' = [call EXCEPT ![t] = [call[t] EXCEPT !.at = "storing"]]
    BY <1>2 DEF StoreBegin
  <2> QED
    BY <1>2, <2>1, <2>2, <2>3 DEF StoreBegin, TypeOK
<1>3. ASSUME NEW t \in Threads, StoreRefused(t) PROVE TypeOK'
  BY <1>3 DEF StoreRefused, TypeOK
<1>4. ASSUME NEW t \in Threads, StoreFinish(t) PROVE TypeOK'
  BY <1>4, CallTypes DEF StoreFinish, TypeOK
<1>5. ASSUME NEW t \in Threads, VerifyRight(t) PROVE TypeOK'
  <2> PICK id \in Live :
         /\ challenges' = [challenges EXCEPT ![id] = Use(challenges[id])]
         /\ solved' = [solved EXCEPT ![id] = solved[id] + 1]
    BY <1>5 DEF VerifyRight
  <2>1. id \in Ids /\ Use(challenges[id]) \in Challenge
    BY UseFacts DEF Live, TypeOK
  <2> QED
    BY <1>5, <2>1 DEF VerifyRight, TypeOK
<1>6. ASSUME NEW t \in Threads, Cleanup(t) PROVE TypeOK'
  BY <1>6 DEF Cleanup, CleanupCall, TypeOK
<1>7. ASSUME NEW t \in Threads, CleanupBegin(t) PROVE TypeOK'
  <2>1. call[t] \in CleanupCall
    BY <1>7, CallTypes DEF CleanupBegin
  <2>2. [call[t] EXCEPT !.at = "sweeping"] \in CleanupCall
    BY <2>1 DEF CleanupCall
  <2>3. call' = [call EXCEPT ![t] = [call[t] EXCEPT !.at = "sweeping"]]
    BY <1>7 DEF CleanupBegin
  <2> QED
    BY <1>7, <2>2, <2>3 DEF CleanupBegin, TypeOK
<1>8. ASSUME NEW t \in Threads, CleanupFinish(t) PROVE TypeOK'
  BY <1>8 DEF CleanupFinish, TypeOK
<1>9. CASE Tick
  BY <1>9 DEF Tick, TypeOK
<1>10. CASE UNCHANGED vars
  BY <1>10 DEF vars, TypeOK
<1> QED
  BY <1>1, <1>2, <1>3, <1>4, <1>5, <1>6, <1>7, <1>8, <1>9, <1>10
  DEF Next, Step, VerifyWrong

\* Each action keeps the locks with the calls that took them.
LEMMA NextLocks ==
  TypeOK /\ LocksHeldByCalls /\ [Next]_vars => LocksHeldByCalls'
<1> SUFFICES ASSUME TypeOK, LocksHeldByCalls, [Next]_vars
             PROVE LocksHeldByCalls'
  OBVIOUS
<1>1. ASSUME NEW t \in Threads, Generate(t) PROVE LocksHeldByCalls'
  BY <1>1 DEF Generate, LocksHeldByCalls, TypeOK, NoCall
<1>2. ASSUME NEW t \in Threads, StoreBegin(t) PROVE LocksHeldByCalls'
  BY <1>2, CallTypes DEF StoreBegin, LocksHeldByCalls, TypeOK, GenerateCall
<1>3. ASSUME NEW t \in Threads, StoreRefused(t) PROVE LocksHeldByCalls'
  BY <1>3 DEF StoreRefused, LocksHeldByCalls, TypeOK, NoCall
<1>4. ASSUME NEW t \in Threads, StoreFinish(t) PROVE LocksHeldByCalls'
  BY <1>4 DEF StoreFinish, LocksHeldByCalls, TypeOK, NoCall
<1>5. ASSUME NEW t \in Threads, VerifyRight(t) PROVE LocksHeldByCalls'
  BY <1>5 DEF VerifyRight, LocksHeldByCalls
<1>6. ASSUME NEW t \in Threads, Cleanup(t) PROVE LocksHeldByCalls'
  BY <1>6 DEF Cleanup, LocksHeldByCalls, TypeOK, NoCall
<1>7. ASSUME NEW t \in Threads, CleanupBegin(t) PROVE LocksHeldByCalls'
  BY <1>7, CallTypes DEF CleanupBegin, LocksHeldByCalls, TypeOK, CleanupCall
<1>8. ASSUME NEW t \in Threads, CleanupFinish(t) PROVE LocksHeldByCalls'
  BY <1>8 DEF CleanupFinish, LocksHeldByCalls, TypeOK, NoCall
<1>9. CASE Tick
  BY <1>9 DEF Tick, LocksHeldByCalls
<1>10. CASE UNCHANGED vars
  BY <1>10 DEF vars, LocksHeldByCalls
<1> QED
  BY <1>1, <1>2, <1>3, <1>4, <1>5, <1>6, <1>7, <1>8, <1>9, <1>10
  DEF Next, Step, VerifyWrong

\* Each action keeps the ids of new challenges fresh.
LEMMA NextFresh ==
  TypeOK /\ NewIdsFresh /\ SolvedIsUsed /\ [Next]_vars => NewIdsFresh'
<1> SUFFICES ASSUME TypeOK, NewIdsFresh, SolvedIsUsed, [Next]_vars
             PROVE NewIdsFresh'
  OBVIOUS
<1> USE DEF NewIdsFresh, Live
<1>1. ASSUME NEW t \in Threads, Generate(t) PROVE NewIdsFresh'
  BY <1>1 DEF Generate, TypeOK, NoCall, SolvedIsUsed
<1>2. ASSUME NEW t \in Threads, StoreBegin(t) PROVE NewIdsFresh'
  <2>1. call[t] \in GenerateCall
    BY <1>2, CallTypes DEF StoreBegin
  <2>2. /\ call'[t].at = "storing" /\ call'[t].id = call[t].id
        /\ \A s \in Threads \ {t} : call'[s] = call[s]
    BY <1>2, <2>1 DEF StoreBegin, TypeOK, GenerateCall
  <2> QED
    BY <1>2, <2>2 DEF StoreBegin
<1>3. ASSUME NEW t \in Threads, StoreRefused(t) PROVE NewIdsFresh'
  BY <1>3 DEF StoreRefused, TypeOK, NoCall
<1>4. ASSUME NEW t \in Threads, StoreFinish(t) PROVE NewIdsFresh'
  BY <1>4 DEF StoreFinish, TypeOK, NoCall
<1>5. ASSUME NEW t \in Threads, VerifyRight(t) PROVE NewIdsFresh'
  <2> PICK id \in Live :
         /\ challenges' = [challenges EXCEPT ![id] = Use(challenges[id])]
         /\ solved' = [solved EXCEPT ![id] = solved[id] + 1]
    BY <1>5 DEF VerifyRight
  <2>1. Live' = Live
    BY UseFacts DEF TypeOK
  <2>2. \A i \in Ids \ {id} : solved'[i] = solved[i]
    BY DEF TypeOK
  <2> QED
    BY <1>5, <2>1, <2>2, CallTypes DEF VerifyRight
<1>6. ASSUME NEW t \in Threads, Cleanup(t) PROVE NewIdsFresh'
  BY <1>6 DEF Cleanup, TypeOK
<1>7. ASSUME NEW t \in Threads, CleanupBegin(t) PROVE NewIdsFresh'
  <2>1. call[t] \in CleanupCall
    BY <1>7, CallTypes DEF CleanupBegin
  <2>2. /\ call'[t].at = "sweeping"
        /\ \A s \in Threads \ {t} : call'[s] = call[s]
    BY <1>7, <2>1 DEF CleanupBegin, TypeOK, CleanupCall
  <2> QED
    BY <1>7, <2>2 DEF CleanupBegin
<1>8. ASSUME NEW t \in Threads, CleanupFinish(t) PROVE NewIdsFresh'
  BY <1>8 DEF CleanupFinish, TypeOK, NoCall
<1>9. CASE Tick
  BY <1>9 DEF Tick
<1>10. CASE UNCHANGED vars
  BY <1>10 DEF vars
<1> QED
  BY <1>1, <1>2, <1>3, <1>4, <1>5, <1>6, <1>7, <1>8, <1>9, <1>10
  DEF Next, Step, VerifyWrong

(***************************************************************************)
(* Each action keeps the marks in agreement with the answers: only         *)
(* VerifyRight counts an answer, of a challenge that is not marked, and    *)
(* marks it; a sweep forgets; a new challenge is unanswered.               *)
(***************************************************************************)
LEMMA NextSolved ==
  TypeOK /\ NewIdsFresh /\ SolvedIsUsed /\ SolvedOnce /\ [Next]_vars
    => SolvedIsUsed' /\ SolvedOnce'
<1> SUFFICES ASSUME TypeOK, NewIdsFresh, SolvedIsUsed, SolvedOnce, [Next]_vars
             PROVE SolvedIsUsed' /\ SolvedOnce'
  OBVIOUS
<1> USE DEF SolvedIsUsed, SolvedOnce
<1>1. ASSUME NEW t \in Threads, Generate(t) PROVE SolvedIsUsed' /\ SolvedOnce'
  BY <1>1 DEF Generate, Live
<1>2. ASSUME NEW t \in Threads, StoreFinish(t)
      PROVE  SolvedIsUsed' /\ SolvedOnce'
  BY <1>2 DEF StoreFinish, NewIdsFresh, Live, TypeOK
<1>3. ASSUME NEW t \in Threads, VerifyRight(t)
      PROVE  SolvedIsUsed' /\ SolvedOnce'
  <2> PICK id \in Live :
         /\ ~challenges[id].used
         /\ challenges' = [challenges EXCEPT ![id] = Use(challenges[id])]
         /\ solved' = [solved EXCEPT ![id] = solved[id] + 1]
    BY <1>3 DEF VerifyRight, Answerable
  <2>1. /\ id \in Ids /\ id \in issued /\ solved[id] = 0
        /\ challenges[id] \in Challenge
    BY DEF NewIdsFresh, Live, TypeOK
  <2>2. challenges'[id].used /\ solved'[id] = 1
    BY <2>1, UseFacts DEF TypeOK
  <2>3. \A i \in Ids \ {id} : solved'[i] = solved[i]
                              /\ challenges'[i] = challenges[i]
    BY DEF TypeOK
  <2>4. issued' = issued
    BY <1>3 DEF VerifyRight
  <2> QED
    BY <2>1, <2>2, <2>3, <2>4 DEF Live
<1>4. ASSUME NEW t \in Threads, CleanupFinish(t)
      PROVE  SolvedIsUsed' /\ SolvedOnce'
  BY <1>4 DEF CleanupFinish, Live
<1>5. CASE UNCHANGED <<challenges, issued, solved>>
  BY <1>5 DEF Live
<1> QED
  BY <1>1, <1>2, <1>3, <1>4, <1>5
  DEF Next, Step, StoreBegin, StoreRefused, VerifyWrong, Cleanup, CleanupBegin,
      Tick, vars

\* Each action keeps the clocks of the sweeps behind the clock.
LEMMA NextSweeps == TypeOK /\ SweepsLookBack /\ [Next]_vars => SweepsLookBack'
<1> SUFFICES ASSUME TypeOK, SweepsLookBack, [Next]_vars PROVE SweepsLookBack'
  OBVIOUS
<1> USE DEF SweepsLookBack
<1>1. ASSUME NEW t \in Threads, Generate(t) PROVE SweepsLookBack'
  BY <1>1 DEF Generate, TypeOK
<1>2. ASSUME NEW t \in Threads, StoreBegin(t) PROVE SweepsLookBack'
  <2>1. call[t] \in GenerateCall
    BY <1>2, CallTypes DEF StoreBegin
  <2>2. /\ call'[t].at = "storing"
        /\ \A s \in Threads \ {t} : call'[s] = call[s]
    BY <1>2, <2>1 DEF StoreBegin, TypeOK, GenerateCall
  <2> QED
    BY <1>2, <2>2 DEF StoreBegin
<1>3. ASSUME NEW t \in Threads, Cleanup(t) PROVE SweepsLookBack'
  BY <1>3 DEF Cleanup, TypeOK
<1>4. ASSUME NEW t \in Threads, CleanupBegin(t) PROVE SweepsLookBack'
  <2>1. call[t] \in CleanupCall
    BY <1>4, CallTypes DEF CleanupBegin
  <2>2. /\ call'[t].since = call[t].since
        /\ \A s \in Threads \ {t} : call'[s] = call[s]
    BY <1>4, <2>1 DEF CleanupBegin, TypeOK, CleanupCall
  <2> QED
    BY <1>4, <2>2 DEF CleanupBegin
<1>5. ASSUME NEW t \in Threads, call' = [call EXCEPT ![t] = NoCall], now' = now
      PROVE  SweepsLookBack'
  BY <1>5 DEF TypeOK, NoCall
<1>6. CASE Tick
  BY <1>6, CallTypes DEF Tick, TypeOK
<1>7. CASE UNCHANGED <<call, now>>
  BY <1>7
<1> QED
  BY <1>1, <1>2, <1>3, <1>4, <1>5, <1>6, <1>7
  DEF Next, Step, StoreRefused, StoreFinish, VerifyRight, VerifyWrong,
      CleanupFinish, vars

(***************************************************************************)
(* Each action keeps the lists in agreement with the table.                *)
(***************************************************************************)
LEMMA NextLists == ChallengeInv /\ [Next]_vars => ListMatchesChallenges'
<1> SUFFICES ASSUME ChallengeInv, [Next]_vars PROVE ListMatchesChallenges'
  OBVIOUS
<1>0. TypeOK /\ NewIdsFresh /\ LocksHeldByCalls /\ ListMatchesChallenges
  BY DEF ChallengeInv
<1> USE DEF ListMatchesChallenges
<1>1. ASSUME NEW t \in Threads, call[t].at # "storing", call'[t].at # "storing",
             \A s \in Threads \ {t} : call'[s] = call[s]
      PROVE  \A u \in Users : BeingStored(u)' = BeingStored(u)
  BY <1>1 DEF BeingStored
<1>2. ASSUME NEW t \in Threads, call[t].at # "storing", call'[t].at # "storing",
             \A s \in Threads \ {t} : call'[s] = call[s],
             UNCHANGED <<challenges, user_challenges>>
      PROVE  ListMatchesChallenges'
  BY <1>0, <1>1, <1>2 DEF LiveOf, Live
<1>3. ASSUME NEW t \in Threads, Generate(t) PROVE ListMatchesChallenges'
  BY <1>0, <1>2, <1>3 DEF Generate, TypeOK, NoCall
<1>4. ASSUME NEW t \in Threads, StoreBegin(t) PROVE ListMatchesChallenges'
  <2> DEFINE id == call[t].id
             owner == call[t].challenge.user_id
  <2>1. call[t] \in GenerateCall /\ id \in Ids /\ owner \in Users
    BY <1>0, <1>4, CallTypes DEF StoreBegin
  <2>2. /\ call'[t].at = "storing" /\ call'[t].id = id
        /\ call'[t].challenge.user_id = owner
        /\ \A s \in Threads \ {t} : call'[s] = call[s]
    BY <1>0, <1>4, <2>1 DEF StoreBegin, TypeOK, GenerateCall
  <2>3. call[t].at # "storing"
    BY <1>4 DEF StoreBegin
  <2>4. \A u \in Users : BeingStored(u)' = IF u = owner
                                           THEN BeingStored(u) \cup {id}
                                           ELSE BeingStored(u)
    BY <2>1, <2>2, <2>3 DEF BeingStored
  <2>5. \A u \in Users : user_challenges'[u] = IF u = owner
                                               THEN user_challenges[u] \cup {id}
                                               ELSE user_challenges[u]
    BY <1>0, <1>4, <2>1 DEF StoreBegin, TypeOK
  <2>6. \A u \in Users : LiveOf(u)' = LiveOf(u)
    BY <1>4 DEF StoreBegin, LiveOf, Live
  <2> HIDE DEF id, owner
  <2> QED
    BY <1>0, <2>4, <2>5, <2>6
<1>5. ASSUME NEW t \in Threads, StoreRefused(t) PROVE ListMatchesChallenges'
  BY <1>0, <1>2, <1>5 DEF StoreRefused, TypeOK, NoCall
<1>6. ASSUME NEW t \in Threads, StoreFinish(t) PROVE ListMatchesChallenges'
  <2> DEFINE id == call[t].id
             owner == call[t].challenge.user_id
  <2>1. /\ id \in Ids /\ owner \in Users
        /\ call[t].challenge \in Challenge /\ id \notin Live
    BY <1>0, <1>6, CallTypes DEF StoreFinish, NewIdsFresh
  <2>2. \A u \in Users : BeingStored(u) = IF u = owner THEN {id} ELSE {}
    BY <1>0, <1>6, <2>1 DEF StoreFinish, BeingStored, LocksHeldByCalls
  <2>3. \A u \in Users : BeingStored(u)' = {}
    BY <1>0, <1>6 DEF StoreFinish, BeingStored, LocksHeldByCalls, TypeOK, NoCall
  <2>4. \A u \in Users : LiveOf(u)' = IF u = owner THEN LiveOf(u) \cup {id}
                                      ELSE LiveOf(u)
    BY <1>0, <1>6, <2>1 DEF StoreFinish, LiveOf, Live, TypeOK
  <2>5. user_challenges' = user_challenges
    BY <1>6 DEF StoreFinish
  <2> HIDE DEF id, owner
  <2> QED
    BY <1>0, <2>2, <2>3, <2>4, <2>5
<1>7. ASSUME NEW t \in Threads, VerifyRight(t) PROVE ListMatchesChallenges'
  <2> PICK id \in Live :
         challenges' = [challenges EXCEPT ![id] = Use(challenges[id])]
    BY <1>7 DEF VerifyRight
  <2>1. \A u \in Users : LiveOf(u)' = LiveOf(u)
    BY <1>0, UseFacts DEF LiveOf, Live, TypeOK
  <2>2. \A u \in Users : BeingStored(u)' = BeingStored(u)
    BY <1>7 DEF VerifyRight, BeingStored
  <2> QED
    BY <1>0, <1>7, <2>1, <2>2 DEF VerifyRight
<1>8. ASSUME NEW t \in Threads, Cleanup(t) PROVE ListMatchesChallenges'
  BY <1>0, <1>2, <1>8 DEF Cleanup, TypeOK, NoCall
<1>9. ASSUME NEW t \in Threads, CleanupBegin(t) PROVE ListMatchesChallenges'
  <2>1. call[t] \in CleanupCall
    BY <1>0, <1>9, CallTypes DEF CleanupBegin
  <2>2. /\ call'[t].at = "sweeping"
        /\ \A s \in Threads \ {t} : call'[s] = call[s]
    BY <1>0, <1>9, <2>1 DEF CleanupBegin, TypeOK, CleanupCall
  <2> QED
    BY <1>2, <1>9, <2>2 DEF CleanupBegin
<1>10. ASSUME NEW t \in Threads, CleanupFinish(t) PROVE ListMatchesChallenges'
  <2>1. \A s \in Threads : call[s].at # "storing"
    BY <1>0, <1>10 DEF CleanupFinish, LocksHeldByCalls
  <2>2. \A u \in Users : BeingStored(u) = {} /\ BeingStored(u)' = {}
    BY <1>0, <1>10, <2>1 DEF CleanupFinish, BeingStored, TypeOK, NoCall
  <2>3. \A u \in Users : user_challenges[u] = LiveOf(u)
    BY <1>0, <2>2
  <2>4. \A u \in Users : user_challenges'[u] = LiveOf(u)'
    BY <1>10, <2>3 DEF CleanupFinish, LiveOf, Live
  <2> QED
    BY <2>2, <2>4
<1>11. CASE Tick
  BY <1>0, <1>11 DEF Tick, LiveOf, Live, BeingStored
<1>12. CASE UNCHANGED vars
  BY <1>0, <1>12 DEF vars, LiveOf, Live, BeingStored
<1> QED
  BY <1>3, <1>4, <1>5, <1>6, <1>7, <1>8, <1>9, <1>10, <1>11, <1>12
  DEF Next, Step, VerifyWrong

(***************************************************************************)
(* Each action keeps the lists within the limit: only StoreBegin makes one *)
(* longer, by one id, and has looked at its length under the same lock.    *)
(***************************************************************************)
LEMMA NextBounded == ChallengeInv /\ [Next]_vars => ListsBounded'
<1> SUFFICES ASSUME ChallengeInv, [Next]_vars PROVE ListsBounded'
  OBVIOUS
<1>0. TypeOK /\ ListsBounded
  BY DEF ChallengeInv
<1>1. ASSUME \A u \in Users : user_challenges'[u] \in SUBSET user_challenges[u]
      PROVE  ListsBounded'
  <2> SUFFICES ASSUME NEW u \in Users
               PROVE  /\ IsFiniteSet(user_challenges'[u])
                      /\ Cardinality(user_challenges'[u])
                           <= MAX_CHALLENGES_PER_USER
    BY DEF ListsBounded, ListLength
  <2>1. /\ IsFiniteSet(user_challenges'[u])
        /\ Cardinality(user_challenges'[u]) <= Cardinality(user_challenges[u])
    BY <1>0, <1>1, FS_Subset DEF ListsBounded
  <2>2. /\ Cardinality(user_challenges[u]) \in Nat
        /\ Cardinality(user_challenges'[u]) \in Nat
    BY <1>0, <2>1, FS_CardinalityType DEF ListsBounded
  <2> QED
    BY <1>0, <2>1, <2>2 DEF ListsBounded, ListLength
<1>2. ASSUME NEW t \in Threads, StoreBegin(t) PROVE ListsBounded'
  <2> DEFINE owner == call[t].challenge.user_id
             L == user_challenges[owner]
  <2>1. owner \in Users /\ Cardinality(L) < MAX_CHALLENGES_PER_USER
    BY <1>0, <1>2, CallTypes DEF StoreBegin, ListLength
  <2>2. IsFiniteSet(L) /\ Cardinality(L) \in Nat
    BY <1>0, <2>1, FS_CardinalityType DEF ListsBounded
  <2>3. /\ IsFiniteSet(L \cup {call[t].id})
        /\ Cardinality(L \cup {call[t].id})
             = IF call[t].id \in L THEN Cardinality(L) ELSE Cardinality(L) + 1
    BY <2>2, FS_AddElement
  <2>4. Cardinality(L \cup {call[t].id}) <= MAX_CHALLENGES_PER_USER
    BY <2>1, <2>2, <2>3
  <2>5. \A u \in Users : user_challenges'[u] = IF u = owner
                                               THEN L \cup {call[t].id}
                                               ELSE user_challenges[u]
    BY <1>0, <1>2, <2>1 DEF StoreBegin, TypeOK
  <2> HIDE DEF owner, L
  <2> QED
    BY <1>0, <2>3, <2>4, <2>5 DEF ListsBounded, ListLength
<1>3. ASSUME NEW t \in Threads, CleanupFinish(t) PROVE ListsBounded'
  BY <1>0, <1>1, <1>3 DEF CleanupFinish, TypeOK
<1>4. CASE UNCHANGED user_challenges
  BY <1>1, <1>4
<1> QED
  BY <1>2, <1>3, <1>4
  DEF Next, Step, Generate, StoreRefused, StoreFinish, VerifyRight, VerifyWrong,
      Cleanup, CleanupBegin, Tick, vars

\* The locks belong to the calls that took them, lists and table differ only on
\* the challenge being stored, and what has been solved is marked, in every
\* interleaving of generators, answers and sweeps.
THEOREM ChallengeInvariant == Spec => []ChallengeInv
<1>1. ChallengeInv /\ [Next]_vars => ChallengeInv'
  BY NextTypeOK, NextLocks, NextFresh, NextSolved, NextSweeps, NextLists,
     NextBounded DEF ChallengeInv
<1> QED
  BY InitChallengeInv, <1>1, PTL DEF Spec

\* Challenges, lists, locks and calls keep their types.
THEOREM ChallengeTypeCorrect == Spec => []TypeOK
<1>1. ChallengeInv => TypeOK
  BY DEF ChallengeInv
<1> QED
  BY <1>1, ChallengeInvariant, PTL

\* The list the limit is counted on holds the user's stored challenges and the
\* one being stored.
THEOREM ChallengeListsMatch == Spec => []ListMatchesChallenges
<1>1. ChallengeInv => ListMatchesChallenges
  BY DEF ChallengeInv
<1> QED
  BY <1>1, ChallengeInvariant, PTL

\* No user holds more than MAX_CHALLENGES_PER_USER challenges: the table never
\* holds more than the list, whose length store_challenge checks.
THEOREM ChallengeCap == Spec => []ChallengeCapHolds
<1>1. ChallengeInv => ChallengeCapHolds
  <2> SUFFICES ASSUME ChallengeInv, NEW u \in Users
               PROVE  Cardinality(LiveOf(u)) <= MAX_CHALLENGES_PER_USER
    BY DEF ChallengeCapHolds
  <2>1. LiveOf(u) \in SUBSET user_challenges[u]
    BY DEF ChallengeInv, ListMatchesChallenges
  <2>2. /\ IsFiniteSet(user_challenges[u])
        /\ Cardinality(user_challenges[u]) <= MAX_CHALLENGES_PER_USER
    BY DEF ChallengeInv, ListsBounded, ListLength
  <2>3. /\ IsFiniteSet(LiveOf(u))
        /\ Cardinality(LiveOf(u)) <= Cardinality(user_challenges[u])
    BY <2>1, <2>2, FS_Subset
  <2>4. /\ Cardinality(LiveOf(u)) \in Nat
        /\ Cardinality(user_challenges[u]) \in Nat
    BY <2>2, <2>3, FS_CardinalityType
  <2> QED
    BY <2>2, <2>3, <2>4
<1> QED
  BY <1>1, ChallengeInvariant, PTL

\* verify says Ok(true) at most once for a challenge, ever.
THEOREM ChallengeSolvedOnce == Spec => []SolvedOnce
<1>1. ChallengeInv => SolvedOnce
  BY DEF ChallengeInv
<1> QED
  BY <1>1, ChallengeInvariant, PTL

(***************************************************************************)
(* What one step does to a challenge that can still be answered.  A sweep  *)
(* removes what had expired when it read the clock, and the clock has only *)
(* moved on since, so what it removes has expired.                         *)
(***************************************************************************)
LEMMA OpenStays ==
  ASSUME ChallengeInv, [Next]_vars, NEW id \in Live, Answerable(challenges[id])
  PROVE  id \in Live'
<1>0. /\ TypeOK /\ SweepsLookBack /\ NewIdsFresh
      /\ id \in Ids /\ challenges[id] \in Challenge
  BY DEF ChallengeInv, TypeOK, Live
<1>1. ASSUME NEW t \in Threads, StoreFinish(t) PROVE id \in Live'
  BY <1>0, <1>1, CallTypes DEF StoreFinish, Live, TypeOK
<1>2. ASSUME NEW t \in Threads, VerifyRight(t) PROVE id \in Live'
  BY <1>0, <1>2, UseFacts DEF VerifyRight, Live, TypeOK
<1>3. ASSUME NEW t \in Threads, CleanupFinish(t) PROVE id \in Live'
  <2>1. call[t].since \in Nat /\ call[t].since <= now
    BY <1>0, <1>3, CallTypes DEF CleanupFinish, SweepsLookBack
  <2>2. challenges[id].expires_at \in Nat /\ now \in Nat
    BY <1>0 DEF Challenge, TypeOK
  <2>3. ~Swept(challenges[id], call[t].since)
    BY <2>1, <2>2 DEF Swept, Answerable
  <2> QED
    BY <1>0, <1>3, <2>3 DEF CleanupFinish, Live
<1>4. CASE UNCHANGED challenges
  BY <1>4 DEF Live
<1> QED
  BY <1>1, <1>2, <1>3, <1>4
  DEF Next, Step, Generate, StoreBegin, StoreRefused, VerifyWrong, Cleanup,
      CleanupBegin, Tick, vars

\* A challenge that can still be answered is never swept, although a sweep
\* works with a clock it read before it waited for two locks.
THEOREM ChallengesOpenStay == Spec => OpenChallengesStay
<1>1. ChallengeInv /\ [Next]_vars =>
        [\A id \in Live : Answerable(challenges[id]) => id \in Live']_vars
  BY OpenStays
<1> QED
  BY <1>1, ChallengeInvariant, PTL DEF Spec, OpenChallengesStay
=============================================================================
