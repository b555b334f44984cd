---------------------------- MODULE SessionRegistry ----------------------------
(***************************************************************************)
(* What a session store promises its callers: one table of sessions, on    *)
(* which every operation acts in a single step.  There is no second map,   *)
(* no lock and no call in progress.                                        *)
(***************************************************************************)
EXTENDS Naturals, FiniteSets

CONSTANTS Users, Ids, MAX_SESSIONS_PER_USER, NoSession

VARIABLES
  sessions,   (* [Ids -> Session], NoSession where there is none            *)
  retired,    (* the ids of sessions that have existed and are gone         *)
  now

vars == <<sessions, retired, now>>

Session == [user_id : Users, expires_at : Nat]

Live == {id \in Ids : sessions[id] # NoSession}

LiveOf(u) == {id \in Live : sessions[id].user_id = u}

Init ==
  /\ sessions = [id \in Ids |-> NoSession]
  /\ retired = {}
  /\ now = 0

\* A session appears under an id no session has had, for a user below the cap.
Create(id) ==
  /\ id \notin Live \cup retired
  /\ sessions'[id] \in Session
  /\ Cardinality(LiveOf(sessions'[id].user_id)) < MAX_SESSIONS_PER_USER
  /\ sessions' = [sessions EXCEPT ![id] = sessions'[id]]
  /\ UNCHANGED <<retired, now>>

\* The expiry of a live session moves; its owner never changes.
Extend(id) ==
  /\ id \in Live
  /\ sessions'[id] \in Session
  /\ sessions' = [sessions EXCEPT ![id].expires_at = sessions'[id].expires_at]
  /\ UNCHANGED <<retired, now>>

Drop(gone) ==
  /\ sessions' = [id \in Ids |-> IF id \in gone THEN NoSession
                                 ELSE sessions[id]]
  /\ retired' = retired \cup gone
  /\ now' = now

Remove(id) == id \in Live /\ Drop({id})

RemoveUser(u) == Drop(LiveOf(u))

Cleanup == Drop({id \in Live : now >= sessions[id].expires_at})

Tick == now' = now + 1 /\ UNCHANGED <<sessions, retired>>

Next ==
  \/ \E id \in Ids : Create(id) \/ Extend(id) \/ Remove(id)
  \/ \E u \in Users : RemoveUser(u)
  \/ Cleanup
  \/ Tick

Spec == Init /\ [][Next]_vars
=============================================================================
