--------------------------- MODULE BruteForceProofs ---------------------------
(***************************************************************************)
(* Proofs about BruteForceGuard, for any number of threads and             *)
(* identifiers, whichever threads share which of them, and any limits.     *)
(*                                                                         *)
(* check decides under the read lock and writes under the write lock.  For *)
(* an identifier that one thread at a time is about, what was decided      *)
(* still stands at the write (VerdictsStand): the others can only clear    *)
(* the record.  That a window is found to be over, and not just begun      *)
(* after the clock was read, needs the order of the clock readings         *)
(* (WindowsBegunBefore).  What is said of all identifiers needs neither.   *)
(***************************************************************************)
EXTENDS BruteForceGuard, TLAPS

USE GuardAssumption

LEMMA InitGuardInv == Init => GuardInv
<1> SUFFICES ASSUME Init PROVE GuardInv
  OBVIOUS
<1> USE DEF Init
<1>1. TypeOK
  BY DEF TypeOK
<1>2. /\ \A t \in Threads : call[t] = NoCall
      /\ \A i \in Identifiers : ~Known(i) /\ burst[i] = 0
  BY DEF Known
<1>3. CallsAreOwn /\ WindowsBegunBefore /\ BurstsCounted /\ VerdictsStand
  BY <1>2 DEF CallsAreOwn, WindowsBegunBefore, BurstsCounted, VerdictsStand,
              InCallFor, Private
<1>4. FailuresCounted /\ LockedOnlyAfterMaxFailures
  BY <1>2 DEF FailuresCounted, LockedOnlyAfterMaxFailures, Private
<1> QED
  BY <1>1, <1>3, <1>4 DEF GuardInv

(***************************************************************************)
(* Operators.                                                              *)
(***************************************************************************)
\* What becomes of a record, field by field.
LEMMA RecordFacts ==
  ASSUME NEW r \in AttemptRecord, NEW since \in Nat
  PROVE  /\ LockRecord(r, since) \in AttemptRecord
         /\ LockRecord(r, since).count = r.count
         /\ LockRecord(r, since).first_attempt_at = r.first_attempt_at
         /\ LockRecord(r, since).locked_until = since + LOCKOUT
         /\ RestartRecord(r, since) \in AttemptRecord
         /\ RestartRecord(r, since).count = 0
         /\ RestartRecord(r, since).first_attempt_at = since
         /\ RestartRecord(r, since).locked_until = r.locked_until
         /\ AddFailure(r, since) \in AttemptRecord
         /\ AddFailure(r, since).locked_until = r.locked_until
         /\ InWindow(r, since) =>
              /\ AddFailure(r, since).count = r.count + 1
              /\ AddFailure(r, since).first_attempt_at = r.first_attempt_at
         /\ ~InWindow(r, since) =>
              /\ AddFailure(r, since).count = 1
              /\ AddFailure(r, since).first_attempt_at = since
<1>1. /\ LockRecord(r, since) \in AttemptRecord
      /\ LockRecord(r, since).count = r.count
      /\ LockRecord(r, since).first_attempt_at = r.first_attempt_at
      /\ LockRecord(r, since).locked_until = since + LOCKOUT
  BY DEF LockRecord, AttemptRecord
<1>2. /\ RestartRecord(r, since) \in AttemptRecord
      /\ RestartRecord(r, since).count = 0
      /\ RestartRecord(r, since).first_attempt_at = since
      /\ RestartRecord(r, since).locked_until = r.locked_until
  BY DEF RestartRecord, AttemptRecord
<1>3. ASSUME InWindow(r, since)
      PROVE  /\ AddFailure(r, since) \in AttemptRecord
             /\ AddFailure(r, since).locked_until = r.locked_until
             /\ AddFailure(r, since).count = r.count + 1
             /\ AddFailure(r, since).first_attempt_at = r.first_attempt_at
  <2>1. AddFailure(r, since) = [r EXCEPT !.count = r.count + 1]
    BY <1>3 DEF AddFailure
  <2> QED
    BY <2>1 DEF AttemptRecord
<1>4. ASSUME ~InWindow(r, since)
      PROVE  /\ AddFailure(r, since) \in AttemptRecord
             /\ AddFailure(r, since).locked_until = r.locked_until
             /\ AddFailure(r, since).count = 1
             /\ AddFailure(r, since).first_attempt_at = since
  BY <1>4 DEF AddFailure, AttemptRecord
<1> QED
  BY <1>1, <1>2, <1>3, <1>4

LEMMA NewRecordFacts ==
  ASSUME NEW since \in Nat
  PROVE  /\ NewRecord(since) \in AttemptRecord
         /\ NewRecord(since).count = 0
         /\ NewRecord(since).first_attempt_at = since
         /\ NewRecord(since).locked_until = 0
BY DEF NewRecord, AttemptRecord

LEMMA KnownRecords ==
  ASSUME TypeOK, NEW i \in Identifiers, Known(i)
  PROVE  records[i] \in AttemptRecord
BY DEF TypeOK, Known

\* What a call carries.
LEMMA CallTypes ==
  ASSUME TypeOK, NEW t \in Threads
  PROVE  /\ call[t] # NoCall =>
              /\ call[t] \in Call
              /\ call[t].id \in Identifiers
              /\ call[t].since \in Nat
         /\ call[t].at \in Reading \cup Writing => call[t] # NoCall
BY DEF TypeOK, Call, NoCall, Reading, Writing

\* A call that goes on to another place keeps its identifier and its clock.
LEMMA GotoFacts ==
  ASSUME TypeOK, NEW t \in Threads, call[t] # NoCall,
         NEW at \in Reading \cup Writing, Goto(t, at)
  PROVE  /\ call' \in [Threads -> Call \cup {NoCall}]
         /\ call'[t].at = at /\ call'[t].id = call[t].id
         /\ call'[t].since = call[t].since /\ call'[t] # NoCall
         /\ \A s \in Threads \ {t} : call'[s] = call[s]
<1>1. call[t] \in Call
  BY CallTypes
<1>2. /\ [call[t] EXCEPT !.at = at] \in Call
      /\ [call[t] EXCEPT !.at = at].at = at
      /\ [call[t] EXCEPT !.at = at].id = call[t].id
      /\ [call[t] EXCEPT !.at = at].since = call[t].since
  BY <1>1 DEF Call
<1>3. \A c \in Call : c # NoCall
  BY DEF Call, NoCall, Reading, Writing
<1>4. call' = [call EXCEPT ![t] = [call[t] EXCEPT !.at = at]]
  BY DEF Goto
<1> QED
  BY <1>2, <1>3, <1>4 DEF TypeOK

LEMMA ReturnFacts ==
  ASSUME TypeOK, NEW t \in Threads, Return(t)
  PROVE  /\ call' \in [Threads -> Call \cup {NoCall}]
         /\ call'[t] = NoCall
         /\ \A s \in Threads \ {t} : call'[s] = call[s]
BY DEF TypeOK, Return

\* Only one thread is about a private identifier.
LEMMA PrivateToOne ==
  ASSUME CallsAreOwn, NEW i \in Private, NEW t \in Threads, NEW r \in Threads,
         InCallFor(t, i), InCallFor(r, i)
  PROVE  t = r
BY DEF CallsAreOwn, Private, InCallFor

(***************************************************************************)
(* Each action keeps the types.                                            *)
(***************************************************************************)
LEMMA NextTypeOK == TypeOK /\ [Next]_vars => TypeOK'
<1> SUFFICES ASSUME TypeOK, [Next]_vars PROVE TypeOK'
  OBVIOUS
<1>1. ASSUME NEW t \in Threads, NEW i \in Targets[t],
             NEW at \in {"checking", "failing", "clearing"}, Begin(t, at, i)
      PROVE  TypeOK'
  <2>1. [at |-> at, id |-> i, since |-> now] \in Call
    BY DEF TypeOK, Call, Reading, Writing
  <2> QED
    BY <1>1, <2>1 DEF Begin, TypeOK
<1>2. ASSUME NEW t \in Threads, call[t].at \in Reading \cup Writing,
             Return(t) \/ (\E at \in Reading \cup Writing : Goto(t, at)),
             readers' \in SUBSET Threads, writer' \in Threads \cup {NoThread},
             UNCHANGED <<records, failed, burst, now>>
      PROVE  TypeOK'
  BY <1>2, CallTypes, GotoFacts, ReturnFacts DEF TypeOK
<1>3. ASSUME NEW t \in Threads,
             FoundLocked(t) \/ FoundOverLimit(t) \/ FoundWindowOver(t)
               \/ FoundNothing(t) \/ CountRemaining(t)
      PROVE  TypeOK'
  BY <1>2, <1>3
  DEF FoundLocked, FoundOverLimit, FoundWindowOver, FoundNothing,
      CountRemaining, Inspecting, TypeOK, Reading, Writing
<1>4. ASSUME NEW t \in Threads, Announce(t) PROVE TypeOK'
  BY <1>4 DEF Announce, TypeOK
<1>5. ASSUME NEW t \in Threads, call[t] # NoCall, NEW r, Update(t, r),
             Known(call[t].id) => r \in AttemptRecord,
             call' \in [Threads -> Call \cup {NoCall}]
      PROVE  TypeOK'
  BY <1>5, CallTypes DEF Update, TypeOK
<1>6. ASSUME NEW t \in Threads, Trip(t) PROVE TypeOK'
  <2>1. call[t] # NoCall /\ call[t].id \in Identifiers /\ call[t].since \in Nat
    BY <1>6, CallTypes DEF Trip, MayWrite, Writing
  <2>2. Known(call[t].id) =>
          LockRecord(records[call[t].id], call[t].since) \in AttemptRecord
    BY <2>1, RecordFacts, KnownRecords
  <2> QED
    BY <1>5, <1>6, <2>1, <2>2, ReturnFacts DEF Trip
<1>7. ASSUME NEW t \in Threads, Restart(t) PROVE TypeOK'
  <2>1. call[t] # NoCall /\ call[t].id \in Identifiers /\ call[t].since \in Nat
    BY <1>7, CallTypes DEF Restart, MayWrite, Writing
  <2>2. Known(call[t].id) =>
          RestartRecord(records[call[t].id], call[t].since) \in AttemptRecord
    BY <2>1, RecordFacts, KnownRecords
  <2>3. call' \in [Threads -> Call \cup {NoCall}]
    BY <1>7, <2>1, GotoFacts DEF Restart, Reading
  <2> QED
    BY <1>5, <1>7, <2>1, <2>2, <2>3 DEF Restart
<1>8. ASSUME NEW t \in Threads, RecordFailure(t) PROVE TypeOK'
  <2> DEFINE i == call[t].id
             r == IF Known(i) THEN records[i] ELSE NewRecord(call[t].since)
  <2>1. i \in Identifiers /\ call[t].since \in Nat
    BY <1>8, CallTypes DEF RecordFailure, MayWrite, Writing
  <2>2. r \in AttemptRecord
    BY <2>1, KnownRecords, NewRecordFacts
  <2>3. AddFailure(r, call[t].since) \in AttemptRecord
    BY <2>1, <2>2, RecordFacts
  <2>4. /\ records' = [records EXCEPT ![i] = AddFailure(r, call[t].since)]
        /\ failed' = [failed EXCEPT ![i] = failed[i] + 1]
        /\ burst' = [burst EXCEPT ![i] = IF call[t].since = now
                                         THEN burst[i] + 1 ELSE burst[i]]
        /\ writer' = NoThread /\ Return(t) /\ UNCHANGED <<readers, now>>
    BY <1>8 DEF RecordFailure
  <2> HIDE DEF i, r
  <2> QED
    BY <2>1, <2>3, <2>4, ReturnFacts DEF TypeOK
<1>9. ASSUME NEW t \in Threads, Clear(t) PROVE TypeOK'
  <2> PICK gone : Forget(gone)
    BY <1>9 DEF Clear
  <2>1. /\ records' \in [Identifiers -> AttemptRecord \cup {NoRecord}]
        /\ failed' \in [Identifiers -> Nat] /\ burst' \in [Identifiers -> Nat]
    BY DEF Forget, TypeOK
  <2> QED
    BY <1>9, <2>1, ReturnFacts DEF Clear, TypeOK
<1>10. CASE Tick
  BY <1>10 DEF Tick, TypeOK
<1>11. CASE UNCHANGED vars
  BY <1>11 DEF vars, TypeOK
<1> QED
  BY <1>1, <1>3, <1>4, <1>6, <1>7, <1>8, <1>9, <1>10, <1>11
  DEF Next, InCall, Check, Failure, Success

(***************************************************************************)
(* Each action keeps the other parts of the invariant.                     *)
(***************************************************************************)
\* Calls end or go on, and none begins.
MovesOn ==
  \A s \in Threads : call'[s] # NoCall =>
    /\ call[s] # NoCall
    /\ call'[s].id = call[s].id
    /\ call'[s].since = call[s].since

LEMMA InCallMovesOn ==
  ASSUME TypeOK, NEW t \in Threads, call[t] # NoCall,
         Return(t) \/ (\E at \in Reading \cup Writing : Goto(t, at))
  PROVE  MovesOn /\ \A s \in Threads \ {t} : call'[s] = call[s]
BY GotoFacts, ReturnFacts DEF MovesOn

\* A step that writes no record keeps everything but what check has found.
LEMMA ReadingKeeps ==
  ASSUME GuardInv, TypeOK', MovesOn, VerdictsStand',
         UNCHANGED <<records, failed, burst, now>>
  PROVE  GuardInv'
<1>1. CallsAreOwn'
  BY DEF GuardInv, CallsAreOwn, MovesOn
<1>2. WindowsBegunBefore'
  BY DEF GuardInv, WindowsBegunBefore, MovesOn, InCallFor, Known
<1>3. BurstsCounted'
  BY DEF GuardInv, BurstsCounted, Known
<1>4. FailuresCounted'
  BY DEF GuardInv, FailuresCounted, Known
<1>5. LockedOnlyAfterMaxFailures'
  BY DEF GuardInv, LockedOnlyAfterMaxFailures, Known
<1> QED
  BY <1>1, <1>2, <1>3, <1>4, <1>5 DEF GuardInv

LEMMA QuietKeeps ==
  ASSUME GuardInv, TypeOK', MovesOn,
         UNCHANGED <<records, failed, burst, now>>,
         \A s \in Threads : call'[s] # NoCall =>
           call'[s].at = call[s].at \/ call'[s].at \notin {"tripping", "restarting"}
  PROVE  GuardInv'
<1>1. VerdictsStand'
  BY DEF GuardInv, VerdictsStand, MovesOn, InCallFor, Known
<1> QED
  BY <1>1, ReadingKeeps

LEMMA BeginKeeps ==
  ASSUME GuardInv, TypeOK', NEW t \in Threads, NEW i \in Targets[t],
         NEW at \in {"checking", "failing", "clearing"}, Begin(t, at, i)
  PROVE  GuardInv'
<1>1. /\ call'[t] = [at |-> at, id |-> i, since |-> now]
      /\ \A s \in Threads \ {t} : call'[s] = call[s]
      /\ UNCHANGED <<records, readers, writer, failed, burst, now>>
  BY DEF Begin, GuardInv, TypeOK
<1>2. CallsAreOwn'
  BY <1>1 DEF GuardInv, TypeOK, CallsAreOwn
<1>3. WindowsBegunBefore'
  BY <1>1 DEF GuardInv, WindowsBegunBefore, InCallFor, Known
<1>4. BurstsCounted'
  BY <1>1 DEF GuardInv, BurstsCounted, Known
<1>5. VerdictsStand'
  BY <1>1 DEF GuardInv, VerdictsStand, InCallFor, Known
<1>6. FailuresCounted'
  BY <1>1 DEF GuardInv, FailuresCounted, Known
<1>7. LockedOnlyAfterMaxFailures'
  BY <1>1 DEF GuardInv, LockedOnlyAfterMaxFailures, Known
<1> QED
  BY <1>2, <1>3, <1>4, <1>5, <1>6, <1>7 DEF GuardInv

LEMMA FoundOverLimitKeeps ==
  ASSUME GuardInv, TypeOK', NEW t \in Threads, FoundOverLimit(t)
  PROVE  GuardInv'
<1> DEFINE i == call[t].id
<1>1. call[t] # NoCall /\ i \in Identifiers /\ call[t].since \in Nat
  BY CallTypes DEF FoundOverLimit, Inspecting, Reading, GuardInv
<1>2. /\ Goto(t, "tripping") /\ UNCHANGED <<records, failed, burst, now>>
      /\ Known(i) /\ records[i].count >= MAX_ATTEMPTS
      /\ ~Locked(records[i], call[t].since)
  BY DEF FoundOverLimit, OverLimit
<1>3. /\ call'[t].at = "tripping" /\ call'[t].id = i
      /\ call'[t].since = call[t].since
      /\ \A s \in Threads \ {t} : call'[s] = call[s]
  BY <1>1, <1>2, GotoFacts DEF GuardInv, Writing
<1>4. failed[i] >= MAX_ATTEMPTS
  <2>1. records[i].count <= failed[i]
    BY <1>1, <1>2 DEF GuardInv, FailuresCounted
  <2>2. records[i].count \in Nat /\ failed[i] \in Nat
    BY <1>1, <1>2, KnownRecords DEF GuardInv, TypeOK, AttemptRecord
  <2> QED
    BY <1>2, <2>1, <2>2
<1>5. MovesOn
  BY <1>1, <1>2, InCallMovesOn DEF GuardInv, Writing
<1> HIDE DEF i
<1>6. VerdictsStand'
  BY <1>2, <1>3, <1>4 DEF GuardInv, VerdictsStand, InCallFor, Known
<1> QED
  BY <1>2, <1>5, <1>6, ReadingKeeps

\* The window began before the call read the clock and was over by then: it is
\* over now, and nothing in it was counted this second.
LEMMA FoundWindowOverKeeps ==
  ASSUME GuardInv, TypeOK', NEW t \in Threads, FoundWindowOver(t)
  PROVE  GuardInv'
<1> DEFINE i == call[t].id
<1>1. call[t] # NoCall /\ i \in Identifiers /\ call[t].since \in Nat
  BY CallTypes DEF FoundWindowOver, Inspecting, Reading, GuardInv
<1>2. /\ Goto(t, "restarting") /\ UNCHANGED <<records, failed, burst, now>>
      /\ Known(i) /\ ~InWindow(records[i], call[t].since)
  BY DEF FoundWindowOver, WindowIsOver
<1>3. /\ call'[t].at = "restarting" /\ call'[t].id = i
      /\ call'[t].since = call[t].since
      /\ \A s \in Threads \ {t} : call'[s] = call[s]
  BY <1>1, <1>2, GotoFacts DEF GuardInv, Writing
<1>4. ASSUME i \in Private PROVE burst[i] = 0
  <2>1. records[i].first_attempt_at <= call[t].since /\ call[t].since <= now
    BY <1>1, <1>2, <1>4
    DEF GuardInv, WindowsBegunBefore, CallsAreOwn, InCallFor
  <2>2. /\ records[i].first_attempt_at \in Nat
        /\ now \in Nat /\ WINDOW \in Nat /\ burst[i] \in Nat
    BY <1>1, <1>2, KnownRecords DEF GuardInv, TypeOK, AttemptRecord
  <2>3. ~InWindow(records[i], now)
    BY <1>1, <1>2, <2>1, <2>2 DEF InWindow
  <2> QED
    BY <1>4, <2>2, <2>3 DEF GuardInv, BurstsCounted
<1>5. MovesOn
  BY <1>1, <1>2, InCallMovesOn DEF GuardInv, Writing
<1> HIDE DEF i
<1>6. VerdictsStand'
  BY <1>2, <1>3, <1>4 DEF GuardInv, VerdictsStand, InCallFor, Known
<1> QED
  BY <1>2, <1>5, <1>6, ReadingKeeps

LEMMA ReadKeeps ==
  ASSUME GuardInv, TypeOK', NEW t \in Threads,
         FoundLocked(t) \/ FoundNothing(t) \/ CountRemaining(t) \/ Announce(t)
  PROVE  GuardInv'
<1>1. CASE FoundLocked(t) \/ CountRemaining(t) \/ FoundNothing(t)
  <2>1. call[t] # NoCall
    BY <1>1, CallTypes
    DEF FoundLocked, CountRemaining, FoundNothing, Inspecting, GuardInv, Reading
  <2>2. /\ UNCHANGED <<records, failed, burst, now>>
        /\ Return(t) \/ Goto(t, "counting")
    BY <1>1 DEF FoundLocked, CountRemaining, FoundNothing
  <2>3. MovesOn /\ \A s \in Threads \ {t} : call'[s] = call[s]
    BY <2>1, <2>2, InCallMovesOn DEF GuardInv, Reading
  <2>4. call'[t] = NoCall \/ call'[t].at = "counting"
    BY <2>1, <2>2, GotoFacts, ReturnFacts DEF GuardInv, Reading
  <2> QED
    BY <2>2, <2>3, <2>4, QuietKeeps
<1>2. CASE Announce(t)
  <2>1. UNCHANGED <<records, call, failed, burst, now>>
    BY <1>2 DEF Announce
  <2> QED
    BY <2>1, QuietKeeps DEF MovesOn
<1> QED
  BY <1>1, <1>2

\* What check writes goes to a record that is there, and to no other.
LEMMA UpdateFacts ==
  ASSUME TypeOK, NEW t \in Threads, call[t] # NoCall, NEW r, Update(t, r),
         Known(call[t].id) => r \in AttemptRecord
  PROVE  /\ UNCHANGED <<failed, burst, now>>
         /\ \A k \in Identifiers :
              /\ Known(k)' <=> Known(k)
              /\ Known(k) => records'[k] = IF k = call[t].id THEN r ELSE records[k]
<1>1. call[t].id \in Identifiers
  BY CallTypes
<1>2. r # NoRecord \/ ~Known(call[t].id)
  OBVIOUS
<1> QED
  BY <1>1, <1>2 DEF Update, Known, TypeOK

LEMMA TripKeeps ==
  ASSUME GuardInv, TypeOK', NEW t \in Threads, Trip(t)
  PROVE  GuardInv'
<1> DEFINE i == call[t].id
           since == call[t].since
           lock == LockRecord(records[i], since)
<1>1. /\ call[t] # NoCall /\ i \in Identifiers /\ since \in Nat
      /\ call[t].at = "tripping" /\ since <= now
  BY CallTypes DEF Trip, MayWrite, Writing, GuardInv, CallsAreOwn
<1>2. MovesOn /\ call'[t] = NoCall /\ \A s \in Threads \ {t} : call'[s] = call[s]
  BY <1>1, InCallMovesOn, ReturnFacts DEF Trip, GuardInv
<1>3. Known(i) => records[i] \in AttemptRecord
  BY <1>1, KnownRecords DEF GuardInv
<1>4. Known(i) =>
        /\ lock \in AttemptRecord
        /\ lock.count = records[i].count
        /\ lock.first_attempt_at = records[i].first_attempt_at
        /\ lock.locked_until = since + LOCKOUT
  <2>1. since \in Nat
    BY <1>1
  <2> HIDE DEF i, since
  <2> QED
    BY <1>3, <2>1, RecordFacts, SMTT(30)
<1>5. /\ UNCHANGED <<failed, burst, now>>
      /\ \A k \in Identifiers :
           /\ Known(k)' <=> Known(k)
           /\ Known(k) => records'[k] = IF k = i THEN lock ELSE records[k]
  BY <1>1, <1>4, UpdateFacts DEF Trip, GuardInv
<1>6. (i \in Private /\ Known(i)) => failed[i] >= MAX_ATTEMPTS
  BY <1>1 DEF GuardInv, VerdictsStand, InCallFor
<1>7. \A s \in Threads, k \in Private :
        InCallFor(s, k)' => k # i /\ InCallFor(s, k) /\ call'[s] = call[s]
  BY <1>1, <1>2, PrivateToOne DEF InCallFor, GuardInv
<1> HIDE DEF i, since, lock
<1>8. \A k \in Identifiers : Known(k) =>
        /\ records'[k].count = records[k].count
        /\ records'[k].first_attempt_at = records[k].first_attempt_at
        /\ k # i => records'[k] = records[k]
  BY <1>4, <1>5
<1>9. Private \subseteq Identifiers
  BY DEF Private
<1>10. CallsAreOwn'
  BY <1>2, <1>5 DEF GuardInv, CallsAreOwn, MovesOn
<1>11. WindowsBegunBefore'
  BY <1>5, <1>7, <1>8, <1>9 DEF GuardInv, WindowsBegunBefore
<1>12. BurstsCounted'
  BY <1>5, <1>8, <1>9 DEF GuardInv, BurstsCounted, InWindow
<1>13. VerdictsStand'
  BY <1>5, <1>7, <1>8, <1>9 DEF GuardInv, VerdictsStand
<1>14. FailuresCounted'
  BY <1>5, <1>8, <1>9 DEF GuardInv, FailuresCounted, BurstsCounted
<1>15. LockedOnlyAfterMaxFailures'
  <2>1. Known(i) => records'[i].locked_until <= now + LOCKOUT
    BY <1>1, <1>4, <1>5 DEF GuardInv, TypeOK
  <2> QED
    BY <1>5, <1>6, <1>8, <1>9, <2>1 DEF GuardInv, LockedOnlyAfterMaxFailures
<1> QED
  BY <1>10, <1>11, <1>12, <1>13, <1>14, <1>15 DEF GuardInv

LEMMA RestartKeeps ==
  ASSUME GuardInv, TypeOK', NEW t \in Threads, Restart(t)
  PROVE  GuardInv'
<1> DEFINE i == call[t].id
           since == call[t].since
           fresh == RestartRecord(records[i], since)
<1>1. /\ call[t] # NoCall /\ i \in Identifiers /\ since \in Nat
      /\ call[t].at = "restarting" /\ since <= now
  BY CallTypes DEF Restart, MayWrite, Writing, GuardInv, CallsAreOwn
<1>2. /\ MovesOn /\ \A s \in Threads \ {t} : call'[s] = call[s]
      /\ call'[t].at = "counting" /\ call'[t].since = since
  BY <1>1, InCallMovesOn, GotoFacts DEF Restart, GuardInv, Reading
<1>3. Known(i) => records[i] \in AttemptRecord
  BY <1>1, KnownRecords DEF GuardInv
<1>4. Known(i) =>
        /\ fresh \in AttemptRecord
        /\ fresh.count = 0
        /\ fresh.first_attempt_at = since
        /\ fresh.locked_until = records[i].locked_until
  <2>1. since \in Nat
    BY <1>1
  <2> HIDE DEF i, since
  <2> QED
    BY <1>3, <2>1, RecordFacts, SMTT(30)
<1>5. /\ UNCHANGED <<failed, burst, now>>
      /\ \A k \in Identifiers :
           /\ Known(k)' <=> Known(k)
           /\ Known(k) => records'[k] = IF k = i THEN fresh ELSE records[k]
  BY <1>1, <1>4, UpdateFacts DEF Restart, GuardInv
<1>6. i \in Private => burst[i] = 0
  BY <1>1 DEF GuardInv, VerdictsStand, InCallFor
<1>7. \A s \in Threads, k \in Private : InCallFor(s, k)' =>
        /\ InCallFor(s, k)
        /\ k # i => s # t /\ call'[s] = call[s]
        /\ k = i => s = t
  BY <1>1, <1>2, PrivateToOne DEF InCallFor, GuardInv, MovesOn
<1> HIDE DEF i, since, fresh
<1>8. \A k \in Identifiers : (Known(k) /\ k # i) => records'[k] = records[k]
  BY <1>5
<1>9. Private \subseteq Identifiers
  BY DEF Private
<1>10. CallsAreOwn'
  BY <1>2, <1>5 DEF GuardInv, CallsAreOwn, MovesOn
<1>11. WindowsBegunBefore'
  <2>1. Known(i) => records'[i].first_attempt_at = since
    BY <1>1, <1>4, <1>5
  <2> QED
    BY <1>1, <1>2, <1>5, <1>7, <1>8, <1>9, <2>1
    DEF GuardInv, WindowsBegunBefore, TypeOK
<1>12. BurstsCounted'
  BY <1>5, <1>6, <1>8, <1>9 DEF GuardInv, BurstsCounted, InWindow
<1>13. VerdictsStand'
  BY <1>2, <1>5, <1>7, <1>8, <1>9 DEF GuardInv, VerdictsStand
<1>14. FailuresCounted'
  <2>1. Known(i) => records'[i].count <= failed[i]
    BY <1>1, <1>4, <1>5 DEF GuardInv, TypeOK
  <2>2. \A k \in Identifiers : Known(k)' => records'[k].count <= failed'[k]
    BY <1>5, <1>8, <2>1 DEF GuardInv, FailuresCounted
  <2> QED
    BY <1>12, <2>2 DEF FailuresCounted, BurstsCounted
<1>15. LockedOnlyAfterMaxFailures'
  <2>1. Known(i) => records'[i].locked_until = records[i].locked_until
    BY <1>1, <1>4, <1>5
  <2> QED
    BY <1>5, <1>8, <1>9, <2>1 DEF GuardInv, LockedOnlyAfterMaxFailures
<1> QED
  BY <1>10, <1>11, <1>12, <1>13, <1>14, <1>15 DEF GuardInv

LEMMA RecordFailureKeeps ==
  ASSUME GuardInv, TypeOK', NEW t \in Threads, RecordFailure(t)
  PROVE  GuardInv'
<1> DEFINE i == call[t].id
           since == call[t].since
           r == IF Known(i) THEN records[i] ELSE NewRecord(since)
           more == AddFailure(r, since)
<1>1. /\ call[t] # NoCall /\ i \in Identifiers /\ since \in Nat
      /\ call[t].at = "failing" /\ since <= now
  BY CallTypes DEF RecordFailure, MayWrite, Writing, GuardInv, CallsAreOwn
<1>2. MovesOn /\ call'[t] = NoCall /\ \A s \in Threads \ {t} : call'[s] = call[s]
  BY <1>1, InCallMovesOn, ReturnFacts DEF RecordFailure, GuardInv
<1>3. /\ r \in AttemptRecord
      /\ ~Known(i) => /\ r.count = 0 /\ r.first_attempt_at = since
                      /\ r.locked_until = 0
  BY <1>1, KnownRecords, NewRecordFacts DEF GuardInv
<1>4. /\ more \in AttemptRecord
      /\ more.locked_until = r.locked_until
      /\ InWindow(r, since) => /\ more.count = r.count + 1
                               /\ more.first_attempt_at = r.first_attempt_at
      /\ ~InWindow(r, since) => more.count = 1 /\ more.first_attempt_at = since
  <2>1. r \in AttemptRecord /\ since \in Nat
    BY <1>1, <1>3
  <2> HIDE DEF r
  <2> QED
    BY <2>1, RecordFacts
<1>5. /\ records'[i] = more /\ failed'[i] = failed[i] + 1
      /\ burst'[i] = IF since = now THEN burst[i] + 1 ELSE burst[i]
      /\ now' = now
      /\ \A k \in Identifiers \ {i} : /\ records'[k] = records[k]
                                      /\ failed'[k] = failed[k]
                                      /\ burst'[k] = burst[k]
  BY <1>1 DEF RecordFailure, GuardInv, TypeOK
<1>6. \A s \in Threads, k \in Private :
        InCallFor(s, k)' => k # i /\ InCallFor(s, k) /\ call'[s] = call[s]
  BY <1>1, <1>2, PrivateToOne DEF InCallFor, GuardInv
<1>7. i \in Private => (Known(i) => records[i].first_attempt_at <= since)
  BY <1>1 DEF GuardInv, WindowsBegunBefore, InCallFor
<1>8. /\ r.count \in Nat /\ r.first_attempt_at \in Nat /\ r.locked_until \in Nat
      /\ more.count \in Nat /\ more.first_attempt_at \in Nat
      /\ now \in Nat /\ failed[i] \in Nat /\ burst[i] \in Nat /\ WINDOW \in Nat
      /\ MAX_ATTEMPTS \in Nat /\ LOCKOUT \in Nat
  BY <1>1, <1>3, <1>4 DEF GuardInv, TypeOK, AttemptRecord
<1>9. Known(i) => r = records[i]
  OBVIOUS
<1> HIDE DEF i, since, r, more
<1>10. /\ Private \subseteq Identifiers
       /\ \A k \in Identifiers : Known(k)' <=> Known(k) \/ k = i
  <2>1. Private \subseteq Identifiers
    BY DEF Private
  <2>2. more # NoRecord
    BY <1>4
  <2> QED
    BY <1>5, <2>1, <2>2 DEF Known
<1>11. more.first_attempt_at <= since
  BY <1>1, <1>4, <1>8 DEF InWindow
<1>12. CallsAreOwn'
  BY <1>2, <1>5 DEF GuardInv, CallsAreOwn, MovesOn
<1>13. WindowsBegunBefore'
  BY <1>1, <1>5, <1>6, <1>8, <1>10, <1>11 DEF GuardInv, WindowsBegunBefore
<1>14. BurstsCounted'
  <2>1. ASSUME i \in Private, burst'[i] > 0
        PROVE  more.count >= burst'[i] /\ InWindow(more, now)
    <3>1. burst[i] > 0 =>
            Known(i) /\ r.count >= burst[i] /\ InWindow(r, now) /\ InWindow(r, since)
      BY <1>1, <1>7, <1>8, <1>9, <2>1 DEF GuardInv, BurstsCounted, InWindow
    <3>2. CASE since = now
      BY <1>1, <1>4, <1>5, <1>8, <1>11, <2>1, <3>1, <3>2 DEF InWindow
    <3>3. CASE since # now
      BY <1>1, <1>4, <1>5, <1>8, <1>11, <2>1, <3>1, <3>3 DEF InWindow
    <3> QED
      BY <3>2, <3>3
  <2>2. ASSUME NEW k \in Private, k # i, burst'[k] > 0
        PROVE  Known(k)' /\ records'[k].count >= burst'[k] /\ InWindow(records'[k], now)
    <3>1. /\ k \in Identifiers \ {i} /\ burst'[k] = burst[k]
          /\ records'[k] = records[k] /\ (Known(k)' <=> Known(k))
      BY <1>5, <1>10, <2>2
    <3> QED
      BY <2>2, <3>1 DEF GuardInv, BurstsCounted
  <2>3. \A k \in Private : burst'[k] > 0 =>
          Known(k)' /\ records'[k].count >= burst'[k] /\ InWindow(records'[k], now)
    BY <1>5, <1>10, <2>1, <2>2
  <2> QED
    BY <1>5, <2>3 DEF BurstsCounted
<1>15. VerdictsStand'
  BY <1>5, <1>6, <1>10 DEF GuardInv, VerdictsStand
<1>16. FailuresCounted'
  <2>1. more.count <= failed[i] + 1
    <3>1. r.count <= failed[i]
      BY <1>1, <1>3, <1>8, <1>9 DEF GuardInv, FailuresCounted
    <3> QED
      BY <1>4, <1>8, <3>1
  <2>2. \A k \in Identifiers : Known(k)' => records'[k].count <= failed'[k]
    BY <1>5, <1>10, <2>1 DEF GuardInv, FailuresCounted
  <2> QED
    BY <1>14, <2>2 DEF FailuresCounted, BurstsCounted
<1>17. LockedOnlyAfterMaxFailures'
  <2>1. /\ more.locked_until <= now + LOCKOUT
        /\ (i \in Private /\ more.locked_until > 0) => failed'[i] >= MAX_ATTEMPTS
    BY <1>1, <1>3, <1>4, <1>5, <1>8, <1>9
    DEF GuardInv, LockedOnlyAfterMaxFailures
  <2> QED
    BY <1>1, <1>5, <1>10, <2>1 DEF GuardInv, LockedOnlyAfterMaxFailures
<1> QED
  BY <1>12, <1>13, <1>14, <1>15, <1>16, <1>17 DEF GuardInv

\* Clearing forgets records, and with them what was to be shown of them.
LEMMA ClearKeeps ==
  ASSUME GuardInv, TypeOK', NEW t \in Threads, Clear(t)
  PROVE  GuardInv'
<1> PICK gone : Forget(gone)
  BY DEF Clear
<1>1. call[t] # NoCall
  BY CallTypes DEF Clear, MayWrite, Writing, GuardInv
<1>2. MovesOn /\ call'[t] = NoCall /\ \A s \in Threads \ {t} : call'[s] = call[s]
  BY <1>1, InCallMovesOn, ReturnFacts DEF Clear, GuardInv
<1>3. /\ now' = now
      /\ \A k \in Identifiers :
           \/ ~Known(k)' /\ failed'[k] = 0 /\ burst'[k] = 0
           \/ /\ records'[k] = records[k] /\ (Known(k)' <=> Known(k))
              /\ failed'[k] = failed[k] /\ burst'[k] = burst[k]
  BY DEF Forget, Clear, Known
<1>4. Private \subseteq Identifiers
  BY DEF Private
<1>5. \A s \in Threads, k \in Private :
        InCallFor(s, k)' => InCallFor(s, k) /\ call'[s] = call[s]
  BY <1>2 DEF InCallFor
<1>6. CallsAreOwn'
  BY <1>2, <1>3 DEF GuardInv, CallsAreOwn, MovesOn
<1>7. WindowsBegunBefore'
  BY <1>3, <1>4, <1>5 DEF GuardInv, WindowsBegunBefore
<1>8. BurstsCounted'
  BY <1>3, <1>4 DEF GuardInv, BurstsCounted
<1>9. VerdictsStand'
  BY <1>3, <1>4, <1>5 DEF GuardInv, VerdictsStand
<1>10. FailuresCounted'
  BY <1>3, <1>4 DEF GuardInv, FailuresCounted
<1>11. LockedOnlyAfterMaxFailures'
  BY <1>3, <1>4 DEF GuardInv, LockedOnlyAfterMaxFailures
<1> QED
  BY <1>6, <1>7, <1>8, <1>9, <1>10, <1>11 DEF GuardInv

LEMMA TickKeeps ==
  ASSUME GuardInv, TypeOK', Tick
  PROVE  GuardInv'
<1>1. /\ UNCHANGED <<records, call, failed>> /\ now' = now + 1 /\ now \in Nat
      /\ \A k \in Identifiers : burst'[k] = 0
  BY DEF Tick, GuardInv, TypeOK
<1>2. Private \subseteq Identifiers
  BY DEF Private
<1>3. CallsAreOwn'
  BY <1>1, CallTypes DEF GuardInv, CallsAreOwn
<1>4. WindowsBegunBefore'
  <2>1. \A k \in Identifiers : Known(k) => records[k].first_attempt_at \in Nat
    BY KnownRecords DEF GuardInv, AttemptRecord
  <2> QED
    BY <1>1, <1>2, <2>1 DEF GuardInv, WindowsBegunBefore, InCallFor, Known
<1>5. BurstsCounted'
  BY <1>1, <1>2 DEF BurstsCounted
<1>6. VerdictsStand'
  BY <1>1, <1>2 DEF GuardInv, VerdictsStand, InCallFor, Known
<1>7. FailuresCounted'
  BY <1>1, <1>2 DEF GuardInv, FailuresCounted, Known
<1>8. LockedOnlyAfterMaxFailures'
  <2>1. \A k \in Identifiers : Known(k) => records[k].locked_until \in Nat
    BY KnownRecords DEF GuardInv, AttemptRecord
  <2> QED
    BY <1>1, <1>2, <2>1 DEF GuardInv, LockedOnlyAfterMaxFailures, Known
<1> QED
  BY <1>3, <1>4, <1>5, <1>6, <1>7, <1>8 DEF GuardInv

LEMMA NextGuardInv == GuardInv /\ [Next]_vars => GuardInv'
<1> SUFFICES ASSUME GuardInv, [Next]_vars PROVE GuardInv'
  OBVIOUS
<1>1. TypeOK'
  BY NextTypeOK DEF GuardInv
<1>2. ASSUME NEW t \in Threads, NEW i \in Targets[t],
             Check(t, i) \/ Failure(t, i) \/ Success(t, i)
      PROVE  GuardInv'
  BY <1>1, <1>2, BeginKeeps DEF Check, Failure, Success
<1>3. ASSUME NEW t \in Threads, InCall(t) PROVE GuardInv'
  BY <1>1, <1>3, ReadKeeps, FoundOverLimitKeeps, FoundWindowOverKeeps,
     TripKeeps, RestartKeeps, RecordFailureKeeps, ClearKeeps
  DEF InCall
<1>4. CASE Tick
  BY <1>1, <1>4, TickKeeps
<1>5. CASE UNCHANGED vars
  BY <1>1, <1>5, QuietKeeps DEF vars, MovesOn
<1> QED
  BY <1>2, <1>3, <1>4, <1>5 DEF Next

(***************************************************************************)
(* Theorems.                                                               *)
(***************************************************************************)
\* The inductive invariant: what check read before it let go of its lock is
\* still so when it writes, for an identifier only one thread is about.
THEOREM BruteForceInvariant == Spec => []GuardInv
<1>1. Init => GuardInv
  BY InitGuardInv
<1>2. GuardInv /\ [Next]_vars => GuardInv'
  BY NextGuardInv
<1> QED
  BY <1>1, <1>2, PTL DEF Spec

\* Every variable keeps its type, the counts and the clock readings included.
THEOREM BruteForceTypeCorrect == Spec => []TypeOK
<1>1. GuardInv => TypeOK
  BY DEF GuardInv
<1> QED
  BY <1>1, BruteForceInvariant, PTL

\* The failures a thread reports and records are not thrown away by a window
\* that check restarts (unless calls for one identifier overlap), and no record
\* ever counts more failures than were reported since it was cleared.
THEOREM BruteForceFailuresCounted == Spec => []FailuresCounted
<1>1. GuardInv => FailuresCounted
  BY DEF GuardInv
<1> QED
  BY <1>1, BruteForceInvariant, PTL

\* Without overlapping calls an identifier is locked only for MAX_ATTEMPTS
\* failures since it was last cleared; and no lock, with overlapping calls or
\* without, outlasts lockout_duration.
THEOREM BruteForceLockedOnlyAfterMax == Spec => []LockedOnlyAfterMaxFailures
<1>1. GuardInv => LockedOnlyAfterMaxFailures
  BY DEF GuardInv
<1> QED
  BY <1>1, BruteForceInvariant, PTL

\* A step of check, record_failure or the clock never shortens the lock of an
\* identifier only one thread is about: check locks again only a record whose
\* lock was over when it looked, and which nobody has locked since.
THEOREM BruteForceLockNeverShortened == Spec => LockNeverShortened
<1> DEFINE Keeps == \A i \in Private : (Known(i) /\ Known(i)') =>
                      records'[i].locked_until >= records[i].locked_until
<1>1. GuardInv /\ [Next]_vars => Keeps
  <2> SUFFICES ASSUME GuardInv, [Next]_vars, NEW i \in Private, Known(i), Known(i)'
               PROVE  records'[i].locked_until >= records[i].locked_until
    OBVIOUS
  <2>1. /\ i \in Identifiers /\ records[i] \in AttemptRecord
        /\ records[i].locked_until \in Nat
    BY KnownRecords DEF GuardInv, Private, AttemptRecord
  <2>2. ASSUME NEW t \in Threads, NEW k \in Targets[t],
               Check(t, k) \/ Failure(t, k) \/ Success(t, k)
        PROVE  records'[i] = records[i]
    BY <2>2 DEF Check, Failure, Success, Begin
  <2>3. ASSUME NEW t \in Threads,
               FoundLocked(t) \/ FoundOverLimit(t) \/ FoundWindowOver(t)
                 \/ FoundNothing(t) \/ CountRemaining(t) \/ Announce(t)
        PROVE  records'[i] = records[i]
    BY <2>3 DEF FoundLocked, FoundOverLimit, FoundWindowOver, FoundNothing,
                CountRemaining, Announce
  <2>4. ASSUME NEW t \in Threads,
               call[t].at \in {"tripping", "restarting", "failing"}
        PROVE  /\ call[t] # NoCall /\ call[t].id \in Identifiers
               /\ call[t].since \in Nat
    BY <2>4, CallTypes DEF GuardInv, Writing
  <2>5. ASSUME NEW t \in Threads, Trip(t)
        PROVE  records'[i].locked_until >= records[i].locked_until
    <3>1. call[t].at = "tripping"
      BY <2>5 DEF Trip, MayWrite
    <3>2. CASE call[t].id = i
      <4>1. /\ records' = [records EXCEPT ![i] = LockRecord(records[i], call[t].since)]
            /\ ~Locked(records[i], call[t].since)
        BY <2>4, <2>5, <3>1, <3>2
        DEF Trip, Update, GuardInv, VerdictsStand, InCallFor
      <4>2. call[t].since \in Nat
        BY <2>4, <3>1
      <4>3. LockRecord(records[i], call[t].since).locked_until = call[t].since + LOCKOUT
        BY <2>1, <4>2, RecordFacts
      <4>4. records'[i].locked_until = call[t].since + LOCKOUT
        BY <2>1, <4>1, <4>3 DEF GuardInv, TypeOK
      <4> QED
        BY <2>1, <4>1, <4>2, <4>4 DEF Locked
    <3>3. CASE call[t].id # i
      BY <2>1, <2>4, <2>5, <3>1, <3>3 DEF Trip, Update, GuardInv, TypeOK
    <3> QED
      BY <3>2, <3>3
  <2>6. ASSUME NEW t \in Threads, Restart(t)
        PROVE  records'[i].locked_until >= records[i].locked_until
    <3>1. call[t].at = "restarting"
      BY <2>6 DEF Restart, MayWrite
    <3>2. CASE call[t].id = i
      <4>1. records' = [records EXCEPT ![i] = RestartRecord(records[i], call[t].since)]
        BY <2>6, <3>2 DEF Restart, Update
      <4>2. call[t].since \in Nat
        BY <2>4, <3>1
      <4>3. RestartRecord(records[i], call[t].since).locked_until = records[i].locked_until
        BY <2>1, <4>2, RecordFacts
      <4> QED
        BY <2>1, <4>1, <4>3 DEF GuardInv, TypeOK
    <3>3. CASE call[t].id # i
      BY <2>1, <2>4, <2>6, <3>1, <3>3 DEF Restart, Update, GuardInv, TypeOK
    <3> QED
      BY <3>2, <3>3
  <2>7. ASSUME NEW t \in Threads, RecordFailure(t)
        PROVE  records'[i].locked_until >= records[i].locked_until
    <3>1. call[t].at = "failing"
      BY <2>7 DEF RecordFailure, MayWrite
    <3>2. CASE call[t].id = i
      <4>1. records' = [records EXCEPT ![i] = AddFailure(records[i], call[t].since)]
        BY <2>7, <3>2 DEF RecordFailure
      <4>2. call[t].since \in Nat
        BY <2>4, <3>1
      <4>3. AddFailure(records[i], call[t].since).locked_until = records[i].locked_until
        BY <2>1, <4>2, RecordFacts
      <4> QED
        BY <2>1, <4>1, <4>3 DEF GuardInv, TypeOK
    <3>3. CASE call[t].id # i
      BY <2>1, <2>4, <2>7, <3>1, <3>3 DEF RecordFailure, GuardInv, TypeOK
    <3> QED
      BY <3>2, <3>3
  <2>8. ASSUME NEW t \in Threads, Clear(t) PROVE records'[i] = records[i]
    BY <2>1, <2>8 DEF Clear, Forget, Known
  <2>9. (Tick \/ UNCHANGED vars) => records'[i] = records[i]
    BY DEF Tick, vars
  <2> QED
    BY <2>1, <2>2, <2>3, <2>5, <2>6, <2>7, <2>8, <2>9 DEF Next, InCall
<1> QED
  BY <1>1, BruteForceInvariant, PTL DEF Spec, LockNeverShortened
=============================================================================
