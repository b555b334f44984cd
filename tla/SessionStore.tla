----------------------------- MODULE SessionStore -----------------------------
(***************************************************************************)
(* The in-memory session store of yma-auth (yma-auth/src/session.rs).      *)
(*                                                                         *)
(* A SessionStore keeps two maps, each behind its own parking_lot RwLock:  *)
(*                                                                         *)
(*   sessions       session id -> Session                                  *)
(*   user_sessions  user id    -> ids of the user's sessions               *)
(*                                                                         *)
(* Every operation that changes both maps takes both write locks, one      *)
(* after the other, and keeps them until it returns.  Another thread can   *)
(* run between the two acquisitions, so each of these operations is two    *)
(* actions here: ...Begin runs from the call to the moment the second lock *)
(* is asked for, ...Finish from its acquisition to the return.  Operations *)
(* that take one lock are one action; their guard is that no call in       *)
(* progress holds that lock.                                               *)
(***************************************************************************)
EXTENDS Naturals, FiniteSets

CONSTANTS
  Threads,                (* threads that share one store                  *)
  Users,
  Ids,                    (* session ids: uuids, never drawn twice         *)
  Ttls,                   (* ttl_seconds arguments callers pass            *)
  Ops,                    (* Ops[t]: the operations thread t calls         *)
  MAX_SESSIONS_PER_USER,
  MaxTime,                (* bound on the clock, for model checking        *)
  NoThread,               (* an unlocked RwLock                            *)
  NoSession               (* an id that is not a key of sessions           *)

Operations == {"create_session", "update_session", "remove_session",
               "remove_user_sessions", "cleanup_expired"}

Session == [user_id : Users, expires_at : Nat]

ASSUME StoreAssumption ==
  /\ MAX_SESSIONS_PER_USER \in Nat
  /\ Ttls \subseteq Nat
  /\ MaxTime \in Nat
  /\ Ops \in [Threads -> SUBSET Operations]
  /\ NoThread \notin Threads
  /\ NoSession \notin Session

VARIABLES
  sessions,               (* [Ids -> Session], NoSession where absent      *)
  user_sessions,          (* [Users -> SUBSET Ids]: the Vec of a user; ids *)
                          (* are pushed once, so its length is the size of *)
                          (* the set; no entry is the empty set            *)
  sessions_lock,          (* the thread holding sessions.write()           *)
  user_sessions_lock,     (* the thread holding user_sessions.write()      *)
  call,                   (* call[t]: t's operation between its two locks  *)
  issued,                 (* the ids Uuid::new_v4 has returned             *)
  now                     (* SystemTime::now, in seconds                   *)

vars == <<sessions, user_sessions, sessions_lock, user_sessions_lock, call,
          issued, now>>

NoCall         == [op |-> "none"]
CreateCall     == [op : {"create_session"}, id : Ids, session : Session]
RemoveCall     == [op : {"remove_session"}, id : Ids, session : Session]
RemoveUserCall == [op : {"remove_user_sessions"}, user_id : Users]
CleanupCall    == [op : {"cleanup_expired"}]
Call == {NoCall} \cup CreateCall \cup RemoveCall \cup RemoveUserCall
          \cup CleanupCall

Init ==
  /\ sessions = [id \in Ids |-> NoSession]
  /\ user_sessions = [u \in Users |-> {}]
  /\ sessions_lock = NoThread
  /\ user_sessions_lock = NoThread
  /\ call = [t \in Threads |-> NoCall]
  /\ issued = {}
  /\ now = 0

(***************************************************************************)
(* The queries of the store.                                               *)
(***************************************************************************)
Live == {id \in Ids : sessions[id] # NoSession}

LiveOf(u) == {id \in Live : sessions[id].user_id = u}

\* Mutant of Expired: the last second of a session counts as expired.
ExpiredEarly(s) == now + 1 >= s.expires_at

Expired(s) == now >= s.expires_at

\* Mutant of UserSessionCount: the limit counts unexpired sessions only.
UnexpiredSessionCount(u) ==
  Cardinality({id \in user_sessions[u] :
                 sessions[id] # NoSession /\ ~Expired(sessions[id])})

UserSessionCount(u) == Cardinality(user_sessions[u])

-----------------------------------------------------------------------------
(***************************************************************************)
(* create_session.  The session is built, its clock read included, under   *)
(* the user_sessions lock and pushed on the user's list before the         *)
(* sessions lock is asked for.                                             *)
(***************************************************************************)
\* Mutant of NewSession: the remaining time is stored, which can be negative.
NewSessionRemaining(u, ttl) == [user_id |-> u, expires_at |-> ttl - now]

NewSession(u, ttl) == [user_id |-> u, expires_at |-> now + ttl]

MayCall(t, op) == call[t] = NoCall /\ op \in Ops[t]

CreateBegin(t) ==
  /\ MayCall(t, "create_session")
  /\ user_sessions_lock = NoThread
  /\ \E u \in Users, id \in Ids \ issued, ttl \in Ttls :
       /\ UserSessionCount(u) < MAX_SESSIONS_PER_USER
       /\ user_sessions' = [user_sessions EXCEPT ![u] = @ \cup {id}]
       /\ issued' = issued \cup {id}
       /\ call' = [call EXCEPT ![t] = [op |-> "create_session", id |-> id,
                                       session |-> NewSession(u, ttl)]]
  /\ user_sessions_lock' = t
  /\ UNCHANGED <<sessions, sessions_lock, now>>

\* The early return: the list is full and the call fails with no effect.
CreateRefused(t) ==
  /\ MayCall(t, "create_session")
  /\ user_sessions_lock = NoThread
  /\ \E u \in Users : UserSessionCount(u) >= MAX_SESSIONS_PER_USER
  /\ UNCHANGED vars

CreateFinish(t) ==
  /\ call[t].op = "create_session"
  /\ sessions_lock = NoThread
  /\ sessions' = [sessions EXCEPT ![call[t].id] = call[t].session]
  /\ user_sessions_lock' = NoThread
  /\ call' = [call EXCEPT ![t] = NoCall]
  /\ UNCHANGED <<user_sessions, sessions_lock, issued, now>>

(***************************************************************************)
(* update_session with a closure that calls extend_ttl (touch and set_data *)
(* write fields nothing reads).  One lock, so one action.                  *)
(***************************************************************************)
UpdateSession(t) ==
  /\ MayCall(t, "update_session")
  /\ sessions_lock = NoThread
  /\ \E id \in Live, ttl \in Ttls :
       sessions' = [sessions EXCEPT ![id].expires_at = now + ttl]
  /\ UNCHANGED <<user_sessions, sessions_lock, user_sessions_lock, call,
                 issued, now>>

(***************************************************************************)
(* remove_session: out of sessions first, then out of the user's list.     *)
(***************************************************************************)
RemoveBegin(t) ==
  /\ MayCall(t, "remove_session")
  /\ sessions_lock = NoThread
  /\ \E id \in Live :
       /\ sessions' = [sessions EXCEPT ![id] = NoSession]
       /\ call' = [call EXCEPT ![t] = [op |-> "remove_session", id |-> id,
                                       session |-> sessions[id]]]
  /\ sessions_lock' = t
  /\ UNCHANGED <<user_sessions, user_sessions_lock, issued, now>>

\* Mutant of RemoveFinish: the id stays on the list.
RemoveFinishKeepsList(t) ==
  /\ call[t].op = "remove_session"
  /\ user_sessions_lock = NoThread
  /\ sessions_lock' = NoThread
  /\ call' = [call EXCEPT ![t] = NoCall]
  /\ UNCHANGED <<sessions, user_sessions, user_sessions_lock, issued, now>>

RemoveFinish(t) ==
  /\ call[t].op = "remove_session"
  /\ user_sessions_lock = NoThread
  /\ user_sessions' =
       [user_sessions EXCEPT ![call[t].session.user_id] = @ \ {call[t].id}]
  /\ sessions_lock' = NoThread
  /\ call' = [call EXCEPT ![t] = NoCall]
  /\ UNCHANGED <<sessions, user_sessions_lock, issued, now>>

\* update_session or remove_session of an id that is not there: false.
MissingSession(t) ==
  /\ MayCall(t, "remove_session") \/ MayCall(t, "update_session")
  /\ sessions_lock = NoThread
  /\ Live # Ids
  /\ UNCHANGED vars

(***************************************************************************)
(* remove_user_sessions: both locks, user_sessions first, then the ids of  *)
(* the user's list leave sessions and the list is dropped.                 *)
(***************************************************************************)
RemoveUserBegin(t) ==
  /\ MayCall(t, "remove_user_sessions")
  /\ user_sessions_lock = NoThread
  /\ \E u \in Users :
       call' = [call EXCEPT ![t] = [op |-> "remove_user_sessions",
                                    user_id |-> u]]
  /\ user_sessions_lock' = t
  /\ UNCHANGED <<sessions, user_sessions, sessions_lock, issued, now>>

RemoveUserFinish(t) ==
  /\ call[t].op = "remove_user_sessions"
  /\ sessions_lock = NoThread
  /\ sessions' = [id \in Ids |->
                    IF id \in user_sessions[call[t].user_id]
                    THEN NoSession ELSE sessions[id]]
  /\ user_sessions' = [user_sessions EXCEPT ![call[t].user_id] = {}]
  /\ user_sessions_lock' = NoThread
  /\ call' = [call EXCEPT ![t] = NoCall]
  /\ UNCHANGED <<sessions_lock, issued, now>>

(***************************************************************************)
(* cleanup_expired: both locks, sessions first.                            *)
(***************************************************************************)
CleanupBegin(t) ==
  /\ MayCall(t, "cleanup_expired")
  /\ sessions_lock = NoThread
  /\ sessions_lock' = t
  /\ call' = [call EXCEPT ![t] = [op |-> "cleanup_expired"]]
  /\ UNCHANGED <<sessions, user_sessions, user_sessions_lock, issued, now>>

CleanupFinish(t) ==
  LET expired_ids == {id \in Live : Expired(sessions[id])}
  IN  /\ call[t].op = "cleanup_expired"
      /\ user_sessions_lock = NoThread
      /\ sessions' = [id \in Ids |-> IF id \in expired_ids
                                     THEN NoSession ELSE sessions[id]]
      /\ user_sessions' =
           [u \in Users |-> user_sessions[u] \
              {id \in expired_ids : sessions[id].user_id = u}]
      /\ sessions_lock' = NoThread
      /\ call' = [call EXCEPT ![t] = NoCall]
      /\ UNCHANGED <<user_sessions_lock, issued, now>>

Tick ==
  /\ now < MaxTime
  /\ now' = now + 1
  /\ UNCHANGED <<sessions, user_sessions, sessions_lock, user_sessions_lock,
                 call, issued>>

-----------------------------------------------------------------------------
Finish(t) == \/ CreateFinish(t)
             \/ RemoveFinish(t)
             \/ RemoveUserFinish(t)
             \/ CleanupFinish(t)

Step(t) == \/ CreateBegin(t)
           \/ CreateRefused(t)
           \/ UpdateSession(t)
           \/ RemoveBegin(t)
           \/ MissingSession(t)
           \/ RemoveUserBegin(t)
           \/ CleanupBegin(t)
           \/ Finish(t)

Next == Tick \/ \E t \in Threads : Step(t)

Spec == Init /\ [][Next]_vars

(***************************************************************************)
(* A thread blocked on a parking_lot lock is eventually handed it if the   *)
(* lock is released again and again (parking_lot's eventual fairness), so  *)
(* the second half of a call is strongly fair.  Nobody is obliged to call  *)
(* the store, and the clock may stand still.                               *)
(***************************************************************************)
FairSpec == Spec /\ \A t \in Threads : SF_vars(Finish(t))

-----------------------------------------------------------------------------
TypeOK ==
  /\ sessions \in [Ids -> Session \cup {NoSession}]
  /\ user_sessions \in [Users -> SUBSET Ids]
  /\ sessions_lock \in Threads \cup {NoThread}
  /\ user_sessions_lock \in Threads \cup {NoThread}
  /\ call \in [Threads -> Call]
  /\ issued \in SUBSET Ids
  /\ now \in Nat

(***************************************************************************)
(* The ids of u that only one of the two maps knows, because a call is     *)
(* between its two locks: a session being created is on the list and not   *)
(* yet in sessions, one being removed is still on the list.                *)
(***************************************************************************)
InFlight(u) ==
  {id \in Ids : \E t \in Threads :
      /\ call[t].op \in {"create_session", "remove_session"}
      /\ call[t].id = id
      /\ call[t].session.user_id = u}

\* A lock is held exactly by the call that took it first: nobody returns with
\* a lock, and no two threads are inside the same lock.
LocksHeldByCalls ==
  \A t \in Threads :
    /\ (sessions_lock = t) <=>
         (call[t].op \in {"remove_session", "cleanup_expired"})
    /\ (user_sessions_lock = t) <=>
         (call[t].op \in {"create_session", "remove_user_sessions"})

\* The two maps of session.rs agree: a user's list holds exactly the user's
\* live sessions and the ones a half-done call is adding or removing.  With no
\* call in progress user_session_count is the number of live sessions.
IndexMatchesTable ==
  \A u \in Users : user_sessions[u] = LiveOf(u) \cup InFlight(u)

\* No user ever has more than MAX_SESSIONS_PER_USER sessions in the table,
\* although create_session counts the list, not the table, and inserts in the
\* table after another thread may have run.
UserCapHolds ==
  \A u \in Users : Cardinality(LiveOf(u)) <= MAX_SESSIONS_PER_USER

\* The ids that were in the table and are not any more.
Retired ==
  issued \ (Live \cup {id \in Ids : \E t \in Threads :
                         call[t].op = "create_session" /\ call[t].id = id})

\* An id between two locks is issued, is not in the table, and belongs to one
\* call: no session is removed while it is being created.
InFlightIdsFresh ==
  /\ Live \subseteq issued
  /\ \A t \in Threads :
       call[t].op \in {"create_session", "remove_session"} =>
         /\ call[t].id \in issued \ Live
         /\ \A s \in Threads \ {t} :
              call[s].op \in {"create_session", "remove_session"} =>
                call[s].id # call[t].id

\* The length of a user's list, which is what create_session checks.
ListsBounded ==
  \A u \in Users :
    /\ IsFiniteSet(user_sessions[u])
    /\ Cardinality(user_sessions[u]) <= MAX_SESSIONS_PER_USER

\* The inductive invariant behind the theorems of SessionStoreProofs.
StoreInv ==
  /\ TypeOK
  /\ LocksHeldByCalls
  /\ InFlightIdsFresh
  /\ IndexMatchesTable
  /\ ListsBounded

\* The number remove_user_sessions returns (the ids it found on the list) is
\* the number of sessions that left the table in that call.
RemoveUserCountExact ==
  [][\A t \in Threads :
       RemoveUserFinish(t) =>
         UserSessionCount(call[t].user_id) = Cardinality(Live \ Live')]_vars

\* The registry of SessionRegistry, on the table alone.
Registry == INSTANCE SessionRegistry WITH retired <- Retired

\* The store implements the registry: each call takes effect at one moment
\* between its two locks and its return, whatever the others are doing.
ImplementsRegistry == Registry!Spec

\* Every call that is between its two locks returns.
CallsReturn ==
  \A t \in Threads : call[t] # NoCall ~> call[t] = NoCall
=============================================================================
