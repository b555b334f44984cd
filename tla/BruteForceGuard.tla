---------------------------- MODULE BruteForceGuard ----------------------------
(***************************************************************************)
(* The login guard of yma-auth (BruteForceGuard, yma-auth/src/             *)
(* brute_force.rs): failures are counted per identifier in a fixed window, *)
(* and check locks an identifier that has reached the limit.               *)
(*                                                                         *)
(* One parking_lot RwLock protects the records.  A call reads the clock    *)
(* first, then waits for the lock; check decides under the read lock,      *)
(* drops it, and writes what it decided under the write lock; or, when     *)
(* there is nothing to write, it keeps its read guard and reads a second   *)
(* time (remaining_attempts).  A thread that wants to write announces      *)
(* itself, after which no read lock is given out, and waits until the      *)
(* readers have left: this is how parking_lot keeps writers from starving. *)
(*                                                                         *)
(* now - first_attempt_at is a u64 subtraction.  With a stale now it       *)
(* wraps, in a release build, to a number beyond every window.             *)
(***************************************************************************)
EXTENDS Naturals

CONSTANTS
  Threads,
  Identifiers,
  Targets,                (* Targets[t]: the identifiers t's calls are     *)
                          (* about; clear_all is about all of them         *)
  MAX_ATTEMPTS,
  LOCKOUT,                (* lockout_duration                              *)
  WINDOW,                 (* window_seconds                                *)
  MaxTime,                (* bound on the clock, for model checking        *)
  MaxFailures,            (* bound on the failures callers report          *)
  NoThread,
  NoRecord                (* an identifier that is not a key of records    *)

\* locked_until is 0 for None: both say that nothing is locked now.
AttemptRecord == [count : Nat, first_attempt_at : Nat, locked_until : Nat]

ASSUME GuardAssumption ==
  /\ Targets \in [Threads -> SUBSET Identifiers]
  /\ MAX_ATTEMPTS \in Nat \ {0}
  /\ LOCKOUT \in Nat
  /\ WINDOW \in Nat
  /\ NoThread \notin Threads
  /\ NoRecord \notin AttemptRecord

VARIABLES
  records,                (* [Identifiers -> AttemptRecord or NoRecord]    *)
  readers,                (* the threads that keep a read guard            *)
  writer,                 (* the thread that has announced it will write   *)
  call,                   (* call[t]: t's call in progress                 *)
  failed,                 (* history: failures counted since the           *)
                          (* identifier was last cleared                   *)
  burst,                  (* history: those reported and counted in the    *)
                          (* current second                                *)
  now                     (* SystemTime::now, in seconds                   *)

vars == <<records, readers, writer, call, failed, burst, now>>

NoCall  == [at |-> "none"]
Reading == {"checking", "counting"}
Writing == {"tripping", "restarting", "failing", "clearing"}
Call    == [at : Reading \cup Writing, id : Identifiers, since : Nat]

Init ==
  /\ records = [i \in Identifiers |-> NoRecord]
  /\ readers = {}
  /\ writer = NoThread
  /\ call = [t \in Threads |-> NoCall]
  /\ failed = [i \in Identifiers |-> 0]
  /\ burst = [i \in Identifiers |-> 0]
  /\ now = 0

-----------------------------------------------------------------------------
(***************************************************************************)
(* What a record says at a time, and what becomes of it.                   *)
(***************************************************************************)
InWindow(r, since) ==
  since >= r.first_attempt_at /\ since - r.first_attempt_at <= WINDOW

Locked(r, since) == since < r.locked_until

\* Mutant of OverLimit: off by one.
NearLimit(r, since) == InWindow(r, since) /\ r.count + 1 >= MAX_ATTEMPTS

OverLimit(r, since) == InWindow(r, since) /\ r.count >= MAX_ATTEMPTS

LockRecord(r, since) == [r EXCEPT !.locked_until = since + LOCKOUT]

RestartRecord(r, since) ==
  [r EXCEPT !.count = 0, !.first_attempt_at = since]

NewRecord(since) ==
  [count |-> 0, first_attempt_at |-> since, locked_until |-> 0]

\* Mutants of AddFailure: a new window starts with no failure, or at a time
\* that can be negative.
AddFailureLost(r, since) ==
  IF InWindow(r, since) THEN [r EXCEPT !.count = @ + 1]
  ELSE [r EXCEPT !.count = 0, !.first_attempt_at = since]

AddFailureBackdated(r, since) ==
  IF InWindow(r, since) THEN [r EXCEPT !.count = @ + 1]
  ELSE [r EXCEPT !.count = 1, !.first_attempt_at = since - 2 * WINDOW - 1]

AddFailure(r, since) ==
  IF InWindow(r, since) THEN [r EXCEPT !.count = @ + 1]
  ELSE [r EXCEPT !.count = 1, !.first_attempt_at = since]

Known(i) == records[i] # NoRecord

-----------------------------------------------------------------------------
(***************************************************************************)
(* A call begins: it reads the clock.                                      *)
(***************************************************************************)
Begin(t, at, i) ==
  /\ call[t] = NoCall
  /\ call' = [call EXCEPT ![t] = [at |-> at, id |-> i, since |-> now]]
  /\ UNCHANGED <<records, readers, writer, failed, burst, now>>

Check(t, i) == Begin(t, "checking", i)

Failure(t, i) == failed[i] < MaxFailures /\ Begin(t, "failing", i)

\* record_success and reset; clear_all does the same to every identifier.
Success(t, i) == Begin(t, "clearing", i)

Return(t) == call' = [call EXCEPT ![t] = NoCall]

Goto(t, at) == call' = [call EXCEPT ![t].at = at]

-----------------------------------------------------------------------------
(***************************************************************************)
(* check, under its first read lock.                                       *)
(***************************************************************************)
Inspecting(t) == call[t].at = "checking" /\ writer = NoThread

FoundLocked(t) ==
  /\ Inspecting(t)
  /\ Known(call[t].id) /\ Locked(records[call[t].id], call[t].since)
  /\ Return(t)
  /\ UNCHANGED <<records, readers, writer, failed, burst, now>>

FoundOverLimit(t) ==
  /\ Inspecting(t)
  /\ Known(call[t].id)
  /\ ~Locked(records[call[t].id], call[t].since)
  /\ OverLimit(records[call[t].id], call[t].since)
  /\ Goto(t, "tripping")
  /\ UNCHANGED <<records, readers, writer, failed, burst, now>>

WindowIsOver(r, since) == ~InWindow(r, since) /\ r.count > 0

FoundWindowOver(t) ==
  /\ Inspecting(t)
  /\ Known(call[t].id)
  /\ ~Locked(records[call[t].id], call[t].since)
  /\ WindowIsOver(records[call[t].id], call[t].since)
  /\ Goto(t, "restarting")
  /\ UNCHANGED <<records, readers, writer, failed, burst, now>>

\* Nothing to write: the guard is kept and remaining_attempts is asked for.
FoundNothing(t) ==
  /\ Inspecting(t)
  /\ Known(call[t].id) =>
       /\ ~Locked(records[call[t].id], call[t].since)
       /\ ~OverLimit(records[call[t].id], call[t].since)
       /\ ~WindowIsOver(records[call[t].id], call[t].since)
  /\ readers' = readers \cup {t}
  /\ Goto(t, "counting")
  /\ UNCHANGED <<records, writer, failed, burst, now>>

\* remaining_attempts takes the read lock (for the second time, if t has kept
\* its guard), and check answers Allowed.
CountRemaining(t) ==
  /\ call[t].at = "counting"
  /\ writer = NoThread
  /\ readers' = readers \ {t}
  /\ Return(t)
  /\ UNCHANGED <<records, writer, failed, burst, now>>

-----------------------------------------------------------------------------
(***************************************************************************)
(* The write lock, and what is done under it.                              *)
(***************************************************************************)
Announce(t) ==
  /\ call[t].at \in Writing
  /\ writer = NoThread
  /\ writer' = t
  /\ UNCHANGED <<records, readers, call, failed, burst, now>>

MayWrite(t, at) == writer = t /\ readers = {} /\ call[t].at = at

\* The locks and windows that check writes go to whatever record is there now.
Update(t, r) ==
  /\ records' = IF Known(call[t].id)
                THEN [records EXCEPT ![call[t].id] = r]
                ELSE records
  /\ writer' = NoThread
  /\ UNCHANGED <<readers, failed, burst, now>>

Trip(t) ==
  /\ MayWrite(t, "tripping")
  /\ Update(t, LockRecord(records[call[t].id], call[t].since))
  /\ Return(t)

Restart(t) ==
  /\ MayWrite(t, "restarting")
  /\ Update(t, RestartRecord(records[call[t].id], call[t].since))
  /\ Goto(t, "counting")

RecordFailure(t) ==
  LET i == call[t].id
      r == IF Known(i) THEN records[i] ELSE NewRecord(call[t].since)
  IN  /\ MayWrite(t, "failing")
      /\ records' = [records EXCEPT ![i] = AddFailure(r, call[t].since)]
      /\ failed' = [failed EXCEPT ![i] = @ + 1]
      /\ burst' = [burst EXCEPT ![i] = IF call[t].since = now THEN @ + 1
                                      ELSE @]
      /\ writer' = NoThread
      /\ Return(t)
      /\ UNCHANGED <<readers, now>>

Forget(gone) ==
  /\ records' = [i \in Identifiers |-> IF i \in gone THEN NoRecord
                                       ELSE records[i]]
  /\ failed' = [i \in Identifiers |-> IF i \in gone THEN 0 ELSE failed[i]]
  /\ burst' = [i \in Identifiers |-> IF i \in gone THEN 0 ELSE burst[i]]

Clear(t) ==
  /\ MayWrite(t, "clearing")
  /\ Forget({call[t].id}) \/ Forget(Identifiers)
  /\ writer' = NoThread
  /\ Return(t)
  /\ UNCHANGED <<readers, now>>

Tick ==
  /\ now < MaxTime
  /\ now' = now + 1
  /\ burst' = [i \in Identifiers |-> 0]
  /\ UNCHANGED <<records, readers, writer, call, failed>>

-----------------------------------------------------------------------------
InCall(t) == \/ FoundLocked(t)
             \/ FoundOverLimit(t)
             \/ FoundWindowOver(t)
             \/ FoundNothing(t)
             \/ CountRemaining(t)
             \/ Announce(t)
             \/ Trip(t)
             \/ Restart(t)
             \/ RecordFailure(t)
             \/ Clear(t)

Next ==
  \/ Tick
  \/ \E t \in Threads :
       \/ \E i \in Targets[t] : Check(t, i) \/ Failure(t, i) \/ Success(t, i)
       \/ InCall(t)

Spec == Init /\ [][Next]_vars

-----------------------------------------------------------------------------
TypeOK ==
  /\ records \in [Identifiers -> AttemptRecord \cup {NoRecord}]
  /\ readers \in SUBSET Threads
  /\ writer \in Threads \cup {NoThread}
  /\ call \in [Threads -> Call \cup {NoCall}]
  /\ failed \in [Identifiers -> Nat]
  /\ burst \in [Identifiers -> Nat]
  /\ now \in Nat

(***************************************************************************)
(* check acts on what it read before it let go of its lock.  What follows  *)
(* holds of the identifiers that one thread at a time is about, whatever   *)
(* the others do to theirs, and fails when two calls for one identifier    *)
(* overlap.                                                                *)
(***************************************************************************)
Private ==
  {i \in Identifiers :
     \E t \in Threads : \A r \in Threads : i \in Targets[r] <=> r = t}

\* An identifier is locked only for MAX_ATTEMPTS failures since it was last
\* cleared; and no lock, of whichever identifier, lasts longer than
\* lockout_duration from now.
LockedOnlyAfterMaxFailures ==
  /\ \A i \in Private :
       (Known(i) /\ records[i].locked_until > 0) => failed[i] >= MAX_ATTEMPTS
  /\ \A i \in Identifiers : Known(i) => records[i].locked_until <= now + LOCKOUT

\* The failures reported and recorded in the current second are all counted:
\* no other call has thrown them away.  And nobody, overlapping calls or not, is
\* counted more failures than were reported since the identifier was cleared.
FailuresCounted ==
  /\ \A i \in Private : burst[i] > 0 => records[i].count >= burst[i]
  /\ \A i \in Identifiers : Known(i) => records[i].count <= failed[i]

\* A lock is lifted only by clearing the identifier, and never shortened.
LockNeverShortened ==
  [][\A i \in Private :
       (Known(i) /\ Known(i)') =>
         records'[i].locked_until >= records[i].locked_until]_vars

-----------------------------------------------------------------------------
(***************************************************************************)
(* The inductive invariant behind the theorems of BruteForceProofs.        *)
(***************************************************************************)
InCallFor(t, i) == call[t] # NoCall /\ call[t].id = i

\* A call is about one of its thread's identifiers and has read the clock.
CallsAreOwn ==
  \A t \in Threads : call[t] # NoCall =>
    call[t].id \in Targets[t] /\ call[t].since <= now

\* The window of a private identifier began before the call about it read the
\* clock, so there the subtraction never wraps.
WindowsBegunBefore ==
  \A i \in Private : Known(i) =>
    /\ records[i].first_attempt_at <= now
    /\ \A t \in Threads :
         InCallFor(t, i) => records[i].first_attempt_at <= call[t].since

\* The failures of this second are in a window that is open.
BurstsCounted ==
  \A i \in Private : burst[i] > 0 =>
    Known(i) /\ records[i].count >= burst[i] /\ InWindow(records[i], now)

\* What check read before it let go of its lock is still so when it writes.
VerdictsStand ==
  \A t \in Threads, i \in Private : InCallFor(t, i) =>
    /\ (call[t].at = "tripping" /\ Known(i)) =>
         failed[i] >= MAX_ATTEMPTS /\ ~Locked(records[i], call[t].since)
    /\ call[t].at = "restarting" => burst[i] = 0

GuardInv ==
  /\ TypeOK
  /\ CallsAreOwn
  /\ WindowsBegunBefore
  /\ BurstsCounted
  /\ VerdictsStand
  /\ FailuresCounted
  /\ LockedOnlyAfterMaxFailures
=============================================================================
