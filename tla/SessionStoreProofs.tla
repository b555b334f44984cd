-------------------------- MODULE SessionStoreProofs --------------------------
(***************************************************************************)
(* Proofs about SessionStore, for any number of threads, users and ids and *)
(* any cap.                                                                *)
(*                                                                         *)
(* The argument: the two locks make half-done calls exclusive              *)
(* (LocksHeldByCalls), a half-done call owns its id (InFlightIdsFresh), so *)
(* the only ids on which the two maps differ are the ones in flight        *)
(* (IndexMatchesTable); the check of create_session bounds the lists       *)
(* (ListsBounded), and the table is never larger than the lists.           *)
(***************************************************************************)
EXTENDS SessionStore, FiniteSetTheorems, TLAPS

USE StoreAssumption

(***************************************************************************)
(* Initial states.                                                         *)
(***************************************************************************)
LEMMA InitStoreInv == Init => StoreInv
<1> SUFFICES ASSUME Init PROVE StoreInv
  OBVIOUS
<1>1. TypeOK
  BY DEF Init, TypeOK, Call, NoCall
<1>2. LocksHeldByCalls
  BY DEF Init, LocksHeldByCalls, NoCall
<1>3. InFlightIdsFresh
  BY DEF Init, InFlightIdsFresh, NoCall, Live
<1>4. IndexMatchesTable
  BY DEF Init, IndexMatchesTable, InFlight, LiveOf, Live, NoCall
<1>5. ListsBounded
  BY FS_EmptySet DEF Init, ListsBounded
<1> QED
  BY <1>1, <1>2, <1>3, <1>4, <1>5 DEF StoreInv

(***************************************************************************)
(* Each action keeps the types.                                            *)
(***************************************************************************)
LEMMA NextTypeOK == TypeOK /\ [Next]_vars => TypeOK'
<1> SUFFICES ASSUME TypeOK, [Next]_vars PROVE TypeOK'
  OBVIOUS
<1> USE DEF TypeOK
<1>0. NoCall \in Call /\ Live \subseteq Ids
  BY DEF Call, Live
<1>1. ASSUME NEW t \in Threads, CreateBegin(t) PROVE TypeOK'
  <2> PICK u \in Users, id \in Ids \ issued, ttl \in Ttls :
         /\ user_sessions' = [user_sessions EXCEPT ![u] = @ \cup {id}]
         /\ issued' = issued \cup {id}
         /\ call' = [call EXCEPT ![t] = [op |-> "create_session", id |-> id,
                                         session |-> NewSession(u, ttl)]]
    BY <1>1 DEF CreateBegin
  <2>1. [op |-> "create_session", id |-> id, session |-> NewSession(u, ttl)]
          \in Call
    BY DEF Call, CreateCall, NewSession, Session
  <2> QED
    BY <1>1, <2>1 DEF CreateBegin
<1>2. ASSUME NEW t \in Threads, CreateFinish(t) PROVE TypeOK'
  <2>1. call[t] \in CreateCall
    BY <1>2 DEF CreateFinish, Call, NoCall, RemoveCall, RemoveUserCall,
                CleanupCall
  <2> QED
    BY <1>0, <1>2, <2>1 DEF CreateFinish, CreateCall
<1>3. ASSUME NEW t \in Threads, UpdateSession(t) PROVE TypeOK'
  <2> PICK id \in Live, ttl \in Ttls :
         sessions' = [sessions EXCEPT ![id].expires_at = now + ttl]
    BY <1>3 DEF UpdateSession
  <2>1. sessions[id] \in Session
    BY DEF Live
  <2>2. [sessions[id] EXCEPT !.expires_at = now + ttl] \in Session
    BY <2>1 DEF Session
  <2> QED
    BY <1>3, <2>2 DEF UpdateSession
<1>4. ASSUME NEW t \in Threads, RemoveBegin(t) PROVE TypeOK'
  <2> PICK id \in Live :
         /\ sessions' = [sessions EXCEPT ![id] = NoSession]
         /\ call' = [call EXCEPT ![t] = [op |-> "remove_session", id |-> id,
                                         session |-> sessions[id]]]
    BY <1>4 DEF RemoveBegin
  <2>1. [op |-> "remove_session", id |-> id, session |-> sessions[id]] \in Call
    BY DEF Call, RemoveCall, Live
  <2> QED
    BY <1>4, <2>1 DEF RemoveBegin
<1>5. ASSUME NEW t \in Threads, RemoveFinish(t) PROVE TypeOK'
  BY <1>0, <1>5 DEF RemoveFinish
<1>6. ASSUME NEW t \in Threads, RemoveUserBegin(t) PROVE TypeOK'
  BY <1>6 DEF RemoveUserBegin, Call, RemoveUserCall
<1>7. ASSUME NEW t \in Threads, RemoveUserFinish(t) PROVE TypeOK'
  BY <1>0, <1>7 DEF RemoveUserFinish
<1>8. ASSUME NEW t \in Threads, CleanupBegin(t) PROVE TypeOK'
  BY <1>8 DEF CleanupBegin, Call, CleanupCall
<1>9. ASSUME NEW t \in Threads, CleanupFinish(t) PROVE TypeOK'
  BY <1>0, <1>9 DEF CleanupFinish
<1>10. CASE Tick
  BY <1>10 DEF Tick
<1>11. CASE UNCHANGED vars
  BY <1>11 DEF vars
<1> QED
  BY <1>1, <1>2, <1>3, <1>4, <1>5, <1>6, <1>7, <1>8, <1>9, <1>10, <1>11
  DEF Next, Step, Finish, CreateRefused, MissingSession

\* Every reachable state of the store has the declared types.
THEOREM StoreTypeCorrect == Spec => []TypeOK
<1>1. Init => TypeOK
  BY InitStoreInv DEF StoreInv
<1> QED
  BY <1>1, NextTypeOK, PTL DEF Spec

(***************************************************************************)
(* Each action keeps the locks with the calls that took them.              *)
(***************************************************************************)
LEMMA NextLocks ==
  TypeOK /\ LocksHeldByCalls /\ [Next]_vars => LocksHeldByCalls'
<1> SUFFICES ASSUME TypeOK, LocksHeldByCalls, [Next]_vars
             PROVE LocksHeldByCalls'
  OBVIOUS
<1> USE DEF TypeOK, LocksHeldByCalls, NoCall, MayCall
<1>1. ASSUME NEW t \in Threads, CreateBegin(t) PROVE LocksHeldByCalls'
  BY <1>1 DEF CreateBegin
<1>2. ASSUME NEW t \in Threads, CreateFinish(t) PROVE LocksHeldByCalls'
  BY <1>2 DEF CreateFinish
<1>3. ASSUME NEW t \in Threads, UpdateSession(t) PROVE LocksHeldByCalls'
  BY <1>3 DEF UpdateSession
<1>4. ASSUME NEW t \in Threads, RemoveBegin(t) PROVE LocksHeldByCalls'
  BY <1>4 DEF RemoveBegin
<1>5. ASSUME NEW t \in Threads, RemoveFinish(t) PROVE LocksHeldByCalls'
  BY <1>5 DEF RemoveFinish
<1>6. ASSUME NEW t \in Threads, RemoveUserBegin(t) PROVE LocksHeldByCalls'
  BY <1>6 DEF RemoveUserBegin
<1>7. ASSUME NEW t \in Threads, RemoveUserFinish(t) PROVE LocksHeldByCalls'
  BY <1>7 DEF RemoveUserFinish
<1>8. ASSUME NEW t \in Threads, CleanupBegin(t) PROVE LocksHeldByCalls'
  BY <1>8 DEF CleanupBegin
<1>9. ASSUME NEW t \in Threads, CleanupFinish(t) PROVE LocksHeldByCalls'
  BY <1>9 DEF CleanupFinish
<1>10. CASE Tick
  BY <1>10 DEF Tick
<1>11. CASE UNCHANGED vars
  BY <1>11 DEF vars
<1> QED
  BY <1>1, <1>2, <1>3, <1>4, <1>5, <1>6, <1>7, <1>8, <1>9, <1>10, <1>11
  DEF Next, Step, Finish, CreateRefused, MissingSession

(***************************************************************************)
(* Each action keeps the ids in flight fresh.                              *)
(***************************************************************************)
LEMMA NextFresh ==
  TypeOK /\ LocksHeldByCalls /\ InFlightIdsFresh /\ [Next]_vars
    => InFlightIdsFresh'
<1> SUFFICES ASSUME TypeOK, LocksHeldByCalls, InFlightIdsFresh, [Next]_vars
             PROVE InFlightIdsFresh'
  OBVIOUS
<1> USE DEF InFlightIdsFresh, Live, NoCall, MayCall
<1>1. ASSUME NEW t \in Threads, CreateBegin(t) PROVE InFlightIdsFresh'
  BY <1>1 DEF CreateBegin, TypeOK
<1>2. ASSUME NEW t \in Threads, CreateFinish(t) PROVE InFlightIdsFresh'
  BY <1>2 DEF CreateFinish, TypeOK
<1>3. ASSUME NEW t \in Threads, UpdateSession(t) PROVE InFlightIdsFresh'
  BY <1>3 DEF UpdateSession, TypeOK
<1>4. ASSUME NEW t \in Threads, RemoveBegin(t) PROVE InFlightIdsFresh'
  BY <1>4 DEF RemoveBegin, TypeOK
<1>5. ASSUME NEW t \in Threads, RemoveFinish(t) PROVE InFlightIdsFresh'
  BY <1>5 DEF RemoveFinish, TypeOK
<1>6. ASSUME NEW t \in Threads, RemoveUserBegin(t) PROVE InFlightIdsFresh'
  BY <1>6 DEF RemoveUserBegin, TypeOK
<1>7. ASSUME NEW t \in Threads, RemoveUserFinish(t) PROVE InFlightIdsFresh'
  BY <1>7 DEF RemoveUserFinish, TypeOK
<1>8. ASSUME NEW t \in Threads, CleanupBegin(t) PROVE InFlightIdsFresh'
  BY <1>8 DEF CleanupBegin, TypeOK
<1>9. ASSUME NEW t \in Threads, CleanupFinish(t) PROVE InFlightIdsFresh'
  BY <1>9 DEF CleanupFinish, TypeOK
<1>10. CASE Tick
  BY <1>10 DEF Tick
<1>11. CASE UNCHANGED vars
  BY <1>11 DEF vars
<1> QED
  BY <1>1, <1>2, <1>3, <1>4, <1>5, <1>6, <1>7, <1>8, <1>9, <1>10, <1>11
  DEF Next, Step, Finish, CreateRefused, MissingSession

(***************************************************************************)
(* Each action keeps the two maps in agreement.                            *)
(***************************************************************************)
LEMMA NextIndex == StoreInv /\ [Next]_vars => IndexMatchesTable'
<1> SUFFICES ASSUME StoreInv, [Next]_vars PROVE IndexMatchesTable'
  OBVIOUS
<1> USE DEF StoreInv, IndexMatchesTable, InFlight, LiveOf, Live, NoCall,
            MayCall
<1>1. ASSUME NEW t \in Threads, CreateBegin(t) PROVE IndexMatchesTable'
  BY <1>1 DEF CreateBegin, TypeOK, NewSession, InFlightIdsFresh
<1>2. ASSUME NEW t \in Threads, CreateFinish(t) PROVE IndexMatchesTable'
  <2> DEFINE new == call[t].id
             s   == call[t].session
  <2>1. new \in Ids /\ s \in Session /\ s # NoSession
    BY <1>2 DEF CreateFinish, TypeOK, Call, CreateCall, RemoveCall,
                RemoveUserCall, CleanupCall
  <2> SUFFICES ASSUME NEW u \in Users
               PROVE  user_sessions[u] = LiveOf(u)' \cup InFlight(u)'
    BY <1>2 DEF CreateFinish
  <2>2. LiveOf(u)' = IF s.user_id = u THEN LiveOf(u) \cup {new} ELSE LiveOf(u)
    BY <1>2, <2>1 DEF CreateFinish, TypeOK, InFlightIdsFresh
  <2>3. InFlight(u)' = InFlight(u) \ {new}
    BY <1>2, <2>1 DEF CreateFinish, TypeOK, InFlightIdsFresh
  <2>4. new \in InFlight(u) <=> s.user_id = u
    BY <1>2, <2>1 DEF CreateFinish, InFlightIdsFresh
  <2>5. new \notin LiveOf(u)
    BY <1>2 DEF CreateFinish, InFlightIdsFresh
  <2> HIDE DEF LiveOf, InFlight, new, s
  <2> QED
    BY <2>2, <2>3, <2>4, <2>5
<1>3. ASSUME NEW t \in Threads, UpdateSession(t) PROVE IndexMatchesTable'
  BY <1>3 DEF UpdateSession, TypeOK, Session
<1>4. ASSUME NEW t \in Threads, RemoveBegin(t) PROVE IndexMatchesTable'
  BY <1>4 DEF RemoveBegin, TypeOK, InFlightIdsFresh
<1>5. ASSUME NEW t \in Threads, RemoveFinish(t) PROVE IndexMatchesTable'
  BY <1>5 DEF RemoveFinish, TypeOK, InFlightIdsFresh
<1>6. ASSUME NEW t \in Threads, RemoveUserBegin(t) PROVE IndexMatchesTable'
  BY <1>6 DEF RemoveUserBegin, TypeOK
<1>7. ASSUME NEW t \in Threads, RemoveUserFinish(t) PROVE IndexMatchesTable'
  <2> DEFINE owner == call[t].user_id
  <2>1. owner \in Users
    BY <1>7 DEF RemoveUserFinish, TypeOK, Call, RemoveUserCall, CreateCall,
                RemoveCall, CleanupCall
  <2>2. \A r \in Threads :
          call[r].op \notin {"create_session", "remove_session"}
    BY <1>7 DEF RemoveUserFinish, LocksHeldByCalls
  <2>3. \A u \in Users : user_sessions[u] = LiveOf(u)
    BY <2>2
  <2> SUFFICES ASSUME NEW u \in Users
               PROVE  user_sessions'[u] = LiveOf(u)' \cup InFlight(u)'
    OBVIOUS
  <2>4. InFlight(u)' = {}
    BY <1>7, <2>2 DEF RemoveUserFinish, TypeOK
  <2>5. LiveOf(u)' = LiveOf(u) \ LiveOf(owner)
    BY <1>7, <2>1, <2>3 DEF RemoveUserFinish, TypeOK
  <2>6. u = owner \/ LiveOf(u) \cap LiveOf(owner) = {}
    OBVIOUS
  <2>7. user_sessions'[u] = IF u = owner THEN {} ELSE LiveOf(u)
    BY <1>7, <2>1, <2>3 DEF RemoveUserFinish, TypeOK
  <2> HIDE DEF LiveOf, InFlight, owner
  <2> QED
    BY <2>4, <2>5, <2>6, <2>7
<1>8. ASSUME NEW t \in Threads, CleanupBegin(t) PROVE IndexMatchesTable'
  BY <1>8 DEF CleanupBegin, TypeOK
<1>9. ASSUME NEW t \in Threads, CleanupFinish(t) PROVE IndexMatchesTable'
  BY <1>9 DEF CleanupFinish, TypeOK, LocksHeldByCalls
<1>10. CASE Tick
  BY <1>10 DEF Tick
<1>11. CASE UNCHANGED vars
  BY <1>11 DEF vars
<1> QED
  BY <1>1, <1>2, <1>3, <1>4, <1>5, <1>6, <1>7, <1>8, <1>9, <1>10, <1>11
  DEF Next, Step, Finish, CreateRefused, MissingSession

(***************************************************************************)
(* Each action keeps the lists within the cap: only CreateBegin makes a    *)
(* list longer, by one, and it checks the length under the same lock.      *)
(***************************************************************************)
LEMMA NextLists == StoreInv /\ [Next]_vars => ListsBounded'
<1> SUFFICES ASSUME StoreInv, [Next]_vars PROVE ListsBounded'
  OBVIOUS
<1>1. TypeOK /\ ListsBounded
  BY DEF StoreInv
<1>2. ASSUME \A u \in Users : user_sessions'[u] \in SUBSET user_sessions[u]
      PROVE  ListsBounded'
  <2> SUFFICES ASSUME NEW u \in Users
               PROVE  /\ IsFiniteSet(user_sessions'[u])
                      /\ Cardinality(user_sessions'[u])
                           <= MAX_SESSIONS_PER_USER
    BY DEF ListsBounded
  <2>1. /\ IsFiniteSet(user_sessions'[u])
        /\ Cardinality(user_sessions'[u]) <= Cardinality(user_sessions[u])
    BY <1>1, <1>2, FS_Subset DEF ListsBounded
  <2>2. /\ Cardinality(user_sessions[u]) \in Nat
        /\ Cardinality(user_sessions'[u]) \in Nat
    BY <1>1, <2>1, FS_CardinalityType DEF ListsBounded
  <2> QED
    BY <1>1, <2>1, <2>2 DEF ListsBounded
<1>3. ASSUME NEW t \in Threads, CreateBegin(t) PROVE ListsBounded'
  <2> PICK u \in Users, id \in Ids :
         /\ UserSessionCount(u) < MAX_SESSIONS_PER_USER
         /\ user_sessions' = [user_sessions EXCEPT ![u] = @ \cup {id}]
    BY <1>3 DEF CreateBegin
  <2>1. /\ IsFiniteSet(user_sessions[u])
        /\ Cardinality(user_sessions[u]) \in Nat
    BY <1>1, FS_CardinalityType DEF ListsBounded
  <2>2. /\ IsFiniteSet(user_sessions[u] \cup {id})
        /\ Cardinality(user_sessions[u] \cup {id})
             = IF id \in user_sessions[u] THEN Cardinality(user_sessions[u])
               ELSE Cardinality(user_sessions[u]) + 1
    BY <2>1, FS_AddElement
  <2>3. Cardinality(user_sessions[u] \cup {id}) \in Nat
    BY <2>2, FS_CardinalityType
  <2>4. Cardinality(user_sessions[u] \cup {id}) <= MAX_SESSIONS_PER_USER
    BY <2>1, <2>2, <2>3 DEF UserSessionCount
  <2> QED
    BY <1>1, <2>2, <2>4 DEF ListsBounded, TypeOK
<1>4. ASSUME NEW t \in Threads, RemoveFinish(t) PROVE ListsBounded'
  BY <1>1, <1>2, <1>4 DEF RemoveFinish, TypeOK
<1>5. ASSUME NEW t \in Threads, RemoveUserFinish(t) PROVE ListsBounded'
  BY <1>1, <1>2, <1>5 DEF RemoveUserFinish, TypeOK
<1>6. ASSUME NEW t \in Threads, CleanupFinish(t) PROVE ListsBounded'
  BY <1>1, <1>2, <1>6 DEF CleanupFinish, TypeOK
<1>7. CASE UNCHANGED user_sessions
  BY <1>2, <1>7
<1> QED
  BY <1>3, <1>4, <1>5, <1>6, <1>7
  DEF Next, Step, Finish, Tick, CreateFinish, UpdateSession, RemoveBegin,
      RemoveUserBegin, CleanupBegin, CreateRefused, MissingSession, vars

\* The inductive invariant holds in every reachable state: the locks belong to
\* the calls that took them, and the lists and the table differ only on the ids
\* of half-done calls, for any number of threads.
THEOREM StoreInvariant == Spec => []StoreInv
<1>1. StoreInv /\ [Next]_vars => StoreInv'
  BY NextTypeOK, NextLocks, NextFresh, NextIndex, NextLists DEF StoreInv
<1> QED
  BY InitStoreInv, <1>1, PTL DEF Spec

\* The user's list and the table agree up to half-done calls.
THEOREM StoreIndexMatchesTable == Spec => []IndexMatchesTable
<1>1. StoreInv => IndexMatchesTable
  BY DEF StoreInv
<1> QED
  BY <1>1, StoreInvariant, PTL

\* No user ever has more live sessions than MAX_SESSIONS_PER_USER.
THEOREM StoreUserCapHolds == Spec => []UserCapHolds
<1>1. StoreInv => UserCapHolds
  <2> SUFFICES ASSUME StoreInv, NEW u \in Users
               PROVE  Cardinality(LiveOf(u)) <= MAX_SESSIONS_PER_USER
    BY DEF UserCapHolds
  <2>1. LiveOf(u) \in SUBSET user_sessions[u]
    BY DEF StoreInv, IndexMatchesTable
  <2>2. /\ IsFiniteSet(user_sessions[u])
        /\ Cardinality(user_sessions[u]) <= MAX_SESSIONS_PER_USER
    BY DEF StoreInv, ListsBounded
  <2>3. /\ IsFiniteSet(LiveOf(u))
        /\ Cardinality(LiveOf(u)) <= Cardinality(user_sessions[u])
    BY <2>1, <2>2, FS_Subset
  <2>4. Cardinality(LiveOf(u)) \in Nat /\ Cardinality(user_sessions[u]) \in Nat
    BY <2>2, <2>3, FS_CardinalityType
  <2> QED
    BY <2>2, <2>3, <2>4
<1> QED
  BY <1>1, StoreInvariant, PTL

(***************************************************************************)
(* In a state where t is about to finish remove_user_sessions, the list it *)
(* works from is exactly the set of the user's live sessions.              *)
(***************************************************************************)
LEMMA RemoveUserSeesAll ==
  ASSUME StoreInv, NEW t \in Threads, RemoveUserFinish(t)
  PROVE  /\ call[t].user_id \in Users
         /\ user_sessions[call[t].user_id] = LiveOf(call[t].user_id)
<1>1. call[t].user_id \in Users
  BY DEF RemoveUserFinish, StoreInv, TypeOK, Call, NoCall, RemoveUserCall,
         CreateCall, RemoveCall, CleanupCall
<1>2. \A r \in Threads : call[r].op \notin {"create_session", "remove_session"}
  BY DEF RemoveUserFinish, StoreInv, LocksHeldByCalls
<1>3. InFlight(call[t].user_id) = {}
  BY <1>2 DEF InFlight
<1> QED
  BY <1>1, <1>3 DEF StoreInv, IndexMatchesTable

\* The count remove_user_sessions returns is the number of sessions it removed.
THEOREM StoreRemoveUserCountExact == Spec => RemoveUserCountExact
<1>1. ASSUME StoreInv, NEW t \in Threads, RemoveUserFinish(t)
      PROVE  UserSessionCount(call[t].user_id) = Cardinality(Live \ Live')
  <2>1. Live \ Live' = LiveOf(call[t].user_id)
    BY <1>1, RemoveUserSeesAll DEF RemoveUserFinish, Live, LiveOf
  <2> QED
    BY <1>1, <2>1, RemoveUserSeesAll DEF UserSessionCount
<1>2. StoreInv /\ [Next]_vars =>
        [\A t \in Threads :
           RemoveUserFinish(t) =>
             UserSessionCount(call[t].user_id) = Cardinality(Live \ Live')]_vars
  BY <1>1
<1> QED
  BY <1>2, StoreInvariant, PTL DEF Spec, RemoveUserCountExact

(***************************************************************************)
(* Refinement.  The operation of a call takes effect on the registry when  *)
(* the table changes; the other half of the call is a stuttering step.     *)
(***************************************************************************)
LEMMA RegistryInit == Init => Registry!Init
BY DEF Init, Registry!Init, Retired, Live

\* A list that create_session found short enough leaves room in the table when
\* the session is inserted, because the new id is already on the list.
LEMMA RoomAtInsertion ==
  ASSUME StoreInv, NEW t \in Threads, CreateFinish(t)
  PROVE  /\ call[t] \in CreateCall
         /\ call[t].id \in issued \ Live
         /\ Cardinality(LiveOf(call[t].session.user_id)) < MAX_SESSIONS_PER_USER
<1>1. call[t] \in CreateCall
  BY DEF CreateFinish, StoreInv, TypeOK, Call, NoCall, RemoveUserCall,
         RemoveCall, CleanupCall
<1>2. call[t].id \in issued \ Live
  BY DEF CreateFinish, StoreInv, InFlightIdsFresh
<1> DEFINE u == call[t].session.user_id
           L == user_sessions[u]
<1>3. u \in Users /\ call[t].id \in Ids
  BY <1>1 DEF CreateCall, Session
<1>4. LiveOf(u) \in SUBSET (L \ {call[t].id})
  BY <1>2, <1>3 DEF StoreInv, IndexMatchesTable, LiveOf
<1>5. call[t].id \in L
  BY <1>3 DEF StoreInv, IndexMatchesTable, InFlight, CreateFinish
<1>6. IsFiniteSet(L) /\ Cardinality(L) <= MAX_SESSIONS_PER_USER
  BY <1>3 DEF StoreInv, ListsBounded
<1>7. /\ IsFiniteSet(L \ {call[t].id})
      /\ Cardinality(L \ {call[t].id})
           = IF call[t].id \in L THEN Cardinality(L) - 1 ELSE Cardinality(L)
  BY <1>6, FS_RemoveElement
<1>8. /\ IsFiniteSet(LiveOf(u))
      /\ Cardinality(LiveOf(u)) <= Cardinality(L \ {call[t].id})
  BY <1>4, <1>7, FS_Subset
<1>9. /\ Cardinality(L) \in Nat
      /\ Cardinality(L \ {call[t].id}) \in Nat
      /\ Cardinality(LiveOf(u)) \in Nat
  BY <1>6, <1>7, <1>8, FS_CardinalityType
<1>10. Cardinality(LiveOf(u)) < MAX_SESSIONS_PER_USER
  BY <1>5, <1>6, <1>7, <1>8, <1>9
<1> QED
  BY <1>1, <1>2, <1>10

LEMMA RegistryNext == StoreInv /\ [Next]_vars => [Registry!Next]_Registry!vars
<1> SUFFICES ASSUME StoreInv, [Next]_vars
             PROVE  [Registry!Next]_Registry!vars
  OBVIOUS
<1> DEFINE Creating == {id \in Ids : \E t \in Threads :
                          call[t].op = "create_session" /\ call[t].id = id}
<1>0. TypeOK /\ LocksHeldByCalls /\ InFlightIdsFresh
  BY DEF StoreInv
<1>a. Retired = issued \ (Live \cup Creating)
  BY DEF Retired
<1>b. Retired' = issued' \ (Live' \cup Creating')
  BY DEF Retired
<1> USE DEF NoCall, MayCall
<1>1. ASSUME NEW t \in Threads, CreateBegin(t)
      PROVE  UNCHANGED Registry!vars
  BY <1>0, <1>1, <1>a, <1>b
  DEF CreateBegin, TypeOK, InFlightIdsFresh, Live, Registry!vars
<1>2. ASSUME NEW t \in Threads, CreateFinish(t)
      PROVE  Registry!Create(call[t].id)
  <2> DEFINE id == call[t].id
             s  == call[t].session
  <2>1. id \in Ids /\ s \in Session /\ s # NoSession
    BY <1>2, RoomAtInsertion DEF CreateCall
  <2>2. id \notin Live \cup Retired
    BY <1>2, <1>a, <2>1, RoomAtInsertion DEF CreateFinish
  <2>3. sessions'[id] = s
    BY <1>0, <1>2, <2>1 DEF CreateFinish, TypeOK
  <2>4. Creating' = Creating \ {id}
    BY <1>0, <1>2, <2>1 DEF CreateFinish, TypeOK, InFlightIdsFresh
  <2>5. Live' = Live \cup {id}
    BY <1>0, <1>2, <2>1 DEF CreateFinish, TypeOK, Live
  <2>6. id \in Creating /\ issued' = issued
    BY <1>2, <2>1 DEF CreateFinish
  <2>7. Retired' = Retired
    BY <1>a, <1>b, <2>4, <2>5, <2>6
  <2>8. Cardinality(LiveOf(s.user_id)) < MAX_SESSIONS_PER_USER
    BY <1>2, RoomAtInsertion
  <2>9. Registry!Live = Live /\ Registry!LiveOf(s.user_id) = LiveOf(s.user_id)
    BY DEF Registry!Live, Registry!LiveOf, Live, LiveOf
  <2>10. /\ sessions' = [sessions EXCEPT ![id] = s]
         /\ now' = now
    BY <1>2 DEF CreateFinish
  <2>11. s \in Registry!Session
    BY <2>1 DEF Registry!Session, Session
  <2>12. Registry!Cardinality(LiveOf(s.user_id)) = Cardinality(LiveOf(s.user_id))
    BY Zenon DEF Registry!Cardinality, Cardinality
  <2>13. Registry!Create(id)
    <3> HIDE DEF id, s
    <3> QED
      BY <2>2, <2>3, <2>7, <2>8, <2>9, <2>10, <2>11, <2>12
      DEF Registry!Create
  <2> QED
    BY <2>13
<1>3. ASSUME NEW t \in Threads, UpdateSession(t)
      PROVE  \E id \in Ids : Registry!Extend(id)
  <2> PICK id \in Live, ttl \in Ttls :
         sessions' = [sessions EXCEPT ![id].expires_at = now + ttl]
    BY <1>3 DEF UpdateSession
  <2>1. id \in Ids /\ sessions[id] \in Session
    BY <1>0 DEF Live, TypeOK
  <2>2. /\ sessions'[id] \in Session
        /\ sessions'[id].expires_at = now + ttl
    BY <1>0, <2>1 DEF Session, TypeOK
  <2>3. Live' = Live
    BY <1>0, <2>1, <2>2 DEF Live, TypeOK
  <2>4. Retired' = Retired /\ now' = now
    BY <1>3, <1>a, <1>b, <2>3 DEF UpdateSession
  <2> QED
    BY <2>1, <2>2, <2>4
    DEF Registry!Extend, Registry!Live, Registry!Session, Live, Session
<1>4. ASSUME NEW t \in Threads, RemoveBegin(t)
      PROVE  \E id \in Ids : Registry!Remove(id)
  <2> PICK id \in Live :
         /\ sessions' = [sessions EXCEPT ![id] = NoSession]
         /\ call' = [call EXCEPT ![t] = [op |-> "remove_session", id |-> id,
                                         session |-> sessions[id]]]
    BY <1>4 DEF RemoveBegin
  <2>1. id \in Ids /\ id \in issued
    BY <1>0 DEF Live, InFlightIdsFresh
  <2>2. Live' = Live \ {id}
    BY <1>0, <2>1 DEF Live, TypeOK
  <2>3. Creating' = Creating
    BY <1>0, <1>4 DEF RemoveBegin, TypeOK
  <2>4. id \notin Creating
    BY <1>0 DEF InFlightIdsFresh
  <2>5. Retired' = Retired \cup {id} /\ now' = now
    BY <1>4, <1>a, <1>b, <2>1, <2>2, <2>3, <2>4 DEF RemoveBegin
  <2>6. sessions' = [i \in Ids |-> IF i \in {id} THEN NoSession
                                   ELSE sessions[i]]
    BY <1>0, <2>1 DEF TypeOK
  <2> QED
    BY <2>1, <2>5, <2>6
    DEF Registry!Remove, Registry!Drop, Registry!Live, Live
<1>5. ASSUME NEW t \in Threads, RemoveFinish(t)
      PROVE  UNCHANGED Registry!vars
  BY <1>0, <1>5, <1>a, <1>b DEF RemoveFinish, TypeOK, Live, Registry!vars
<1>6. ASSUME NEW t \in Threads, RemoveUserBegin(t)
      PROVE  UNCHANGED Registry!vars
  BY <1>0, <1>6, <1>a, <1>b DEF RemoveUserBegin, TypeOK, Live, Registry!vars
<1>7. ASSUME NEW t \in Threads, RemoveUserFinish(t)
      PROVE  \E u \in Users : Registry!RemoveUser(u)
  <2> DEFINE u == call[t].user_id
  <2>1. u \in Users /\ user_sessions[u] = LiveOf(u)
    BY <1>7, RemoveUserSeesAll
  <2>2. sessions' = [id \in Ids |-> IF id \in LiveOf(u) THEN NoSession
                                    ELSE sessions[id]]
    BY <1>7, <2>1 DEF RemoveUserFinish
  <2>3. Live' = Live \ LiveOf(u)
    BY <1>0, <2>2 DEF Live, LiveOf, TypeOK
  <2>4. Creating' = Creating
    BY <1>0, <1>7 DEF RemoveUserFinish, TypeOK
  <2>5. LiveOf(u) \cap Creating = {} /\ LiveOf(u) \subseteq issued
    BY <1>0 DEF InFlightIdsFresh, LiveOf
  <2>6. Retired' = Retired \cup LiveOf(u) /\ now' = now
    BY <1>7, <1>a, <1>b, <2>3, <2>4, <2>5 DEF RemoveUserFinish, LiveOf
  <2> QED
    BY <2>1, <2>2, <2>6
    DEF Registry!RemoveUser, Registry!Drop, Registry!LiveOf, Registry!Live,
        LiveOf, Live
<1>8. ASSUME NEW t \in Threads, CleanupBegin(t)
      PROVE  UNCHANGED Registry!vars
  BY <1>0, <1>8, <1>a, <1>b DEF CleanupBegin, TypeOK, Live, Registry!vars
<1>9. ASSUME NEW t \in Threads, CleanupFinish(t)
      PROVE  Registry!Cleanup
  <2> DEFINE gone == {id \in Live : now >= sessions[id].expires_at}
  <2>1. sessions' = [id \in Ids |-> IF id \in gone THEN NoSession
                                    ELSE sessions[id]]
    BY <1>9 DEF CleanupFinish, Expired
  <2>2. Live' = Live \ gone
    BY <1>0, <2>1 DEF Live, TypeOK
  <2>3. Creating' = Creating
    BY <1>0, <1>9 DEF CleanupFinish, TypeOK
  <2>4. gone \cap Creating = {} /\ gone \subseteq issued
    BY <1>0 DEF InFlightIdsFresh
  <2>5. Retired' = Retired \cup gone /\ now' = now
    BY <1>9, <1>a, <1>b, <2>2, <2>3, <2>4 DEF CleanupFinish
  <2> QED
    BY <2>1, <2>5 DEF Registry!Cleanup, Registry!Drop, Registry!Live, Live
<1>10. ASSUME Tick PROVE Registry!Tick
  BY <1>10, <1>a, <1>b DEF Tick, Live, Registry!Tick
<1>11. ASSUME UNCHANGED vars PROVE UNCHANGED Registry!vars
  BY <1>11, <1>a, <1>b DEF vars, Live, Registry!vars
<1>12. ASSUME NEW t \in Threads, CreateFinish(t) PROVE Registry!Next
  <2>1. call[t].id \in Ids
    BY <1>12, RoomAtInsertion DEF CreateCall
  <2> QED
    BY <1>2, <1>12, <2>1 DEF Registry!Next
<1> QED
  BY <1>1, <1>3, <1>4, <1>5, <1>6, <1>7, <1>8, <1>9, <1>10, <1>11, <1>12
  DEF Next, Step, Finish, CreateRefused, MissingSession, Registry!Next

\* The two-lock store implements the registry in which every operation is one
\* step: a caller cannot tell that the maps are locked one after the other.
THEOREM StoreImplementsRegistry == Spec => ImplementsRegistry
<1> QED
  BY RegistryInit, RegistryNext, StoreInvariant, PTL
  DEF Spec, ImplementsRegistry, Registry!Spec
=============================================================================
