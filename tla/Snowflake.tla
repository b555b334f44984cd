------------------------------- MODULE Snowflake -------------------------------
(***************************************************************************)
(* The distributed id generator of yma-id (SnowflakeGenerator,             *)
(* yma-id/src/lib.rs).                                                     *)
(*                                                                         *)
(* Each generator is used through &mut self and reads the wall clock of    *)
(* its own node.  next_id is one action, except when the sequence of a     *)
(* millisecond is used up: then it spins on the clock and calls itself,    *)
(* and the clock moves between the three readings.                         *)
(*                                                                         *)
(* Timestamps are milliseconds since the custom epoch, which all the       *)
(* generators of a deployment share.                                       *)
(***************************************************************************)
EXTENDS Integers, FiniteSets

CONSTANTS
  Generators,
  Worker,               (* [Generators -> 0..1023]                         *)
  Datacenter,           (* [Generators -> 0..31]                           *)
  MAX_SEQUENCE,
  Unsteady,             (* the generators whose clock may be set back      *)
  MaxTime               (* bound on the clocks, for model checking         *)

MAX_WORKER_ID == 1023
MAX_DATACENTER_ID == 31

ASSUME GeneratorAssumption ==
  /\ Worker \in [Generators -> 0..MAX_WORKER_ID]
  /\ Datacenter \in [Generators -> 0..MAX_DATACENTER_ID]
  /\ MAX_SEQUENCE \in Nat
  /\ Unsteady \subseteq Generators
  /\ MaxTime \in Nat

VARIABLES
  clock,                (* clock[g]: the wall clock of g's node            *)
  last_timestamp,
  sequence,
  at,                   (* where g is in next_id: "idle" between calls,    *)
                        (* "spinning" in the loop, "retrying" after it     *)
  emitted,              (* the ids handed out so far                       *)
  repeated              (* the ids handed out more than once by one        *)
                        (* generator                                       *)

vars == <<clock, last_timestamp, sequence, at, emitted, repeated>>

(***************************************************************************)
(* An id before it is packed: who made it, when, and the sequence number.  *)
(***************************************************************************)
Id == [gen : Generators, ts : Nat, seq : 0..MAX_SEQUENCE]

Init ==
  /\ clock \in [Generators -> 0..MaxTime]
  /\ last_timestamp = [g \in Generators |-> -1]
  /\ sequence = [g \in Generators |-> 0]
  /\ at = [g \in Generators |-> "idle"]
  /\ emitted = {}
  /\ repeated = {}

-----------------------------------------------------------------------------
(***************************************************************************)
(* next_id.  InNextId: the call, or the recursive call after the loop, is  *)
(* about to read the clock.                                                *)
(***************************************************************************)
InNextId(g) == at[g] \in {"idle", "retrying"}

Return(g, seq) ==
  LET id == [gen |-> g, ts |-> clock[g], seq |-> seq]
  IN  /\ sequence' = [sequence EXCEPT ![g] = seq]
      /\ last_timestamp' = [last_timestamp EXCEPT ![g] = clock[g]]
      /\ at' = [at EXCEPT ![g] = "idle"]
      /\ emitted' = emitted \cup {id}
      /\ repeated' = IF id \in emitted THEN repeated \cup {id} ELSE repeated
      /\ UNCHANGED clock

\* The clock is behind the last id: an error, and nothing changes.
ClockBehind(g) ==
  /\ InNextId(g)
  /\ clock[g] < last_timestamp[g]
  /\ at' = [at EXCEPT ![g] = "idle"]
  /\ UNCHANGED <<clock, last_timestamp, sequence, emitted, repeated>>

\* Mutant of NewMillisecond: the clock is not compared with the last id's.
NewMillisecondAnyClock(g) ==
  InNextId(g) /\ clock[g] # last_timestamp[g] /\ Return(g, 0)

NewMillisecond(g) ==
  /\ InNextId(g)
  /\ clock[g] > last_timestamp[g]
  /\ Return(g, 0)

\* Mutant of SameMillisecond: off by one at the end of the sequence.
SameMillisecondPastEnd(g) ==
  /\ InNextId(g)
  /\ clock[g] = last_timestamp[g]
  /\ sequence[g] <= MAX_SEQUENCE
  /\ Return(g, sequence[g] + 1)

SameMillisecond(g) ==
  /\ InNextId(g)
  /\ clock[g] = last_timestamp[g]
  /\ sequence[g] + 1 <= MAX_SEQUENCE
  /\ Return(g, sequence[g] + 1)

\* The sequence is used up: it is left one past its limit and the loop starts.
SequenceExhausted(g) ==
  /\ InNextId(g)
  /\ clock[g] = last_timestamp[g]
  /\ sequence[g] + 1 > MAX_SEQUENCE
  /\ sequence' = [sequence EXCEPT ![g] = @ + 1]
  /\ at' = [at EXCEPT ![g] = "spinning"]
  /\ UNCHANGED <<clock, last_timestamp, emitted, repeated>>

\* Mutant of SpinEnds: the loop stops in the exhausted millisecond.
SpinEndsEarly(g) ==
  /\ at[g] = "spinning"
  /\ clock[g] >= last_timestamp[g]
  /\ sequence' = [sequence EXCEPT ![g] = 0]
  /\ at' = [at EXCEPT ![g] = "retrying"]
  /\ UNCHANGED <<clock, last_timestamp, emitted, repeated>>

\* The loop has read a later clock: sequence is reset and next_id is called
\* again.  last_timestamp is still the exhausted millisecond.
SpinEnds(g) ==
  /\ at[g] = "spinning"
  /\ clock[g] > last_timestamp[g]
  /\ sequence' = [sequence EXCEPT ![g] = 0]
  /\ at' = [at EXCEPT ![g] = "retrying"]
  /\ UNCHANGED <<clock, last_timestamp, emitted, repeated>>

\* The wall clock of g's node moves: forward, or back when it is set.
ClockMoves(g) ==
  /\ \E ms \in 0..MaxTime :
       /\ ms # clock[g]
       /\ ms > clock[g] \/ g \in Unsteady
       /\ clock' = [clock EXCEPT ![g] = ms]
  /\ UNCHANGED <<last_timestamp, sequence, at, emitted, repeated>>

Step(g) == \/ ClockBehind(g)
           \/ NewMillisecond(g)
           \/ SameMillisecond(g)
           \/ SequenceExhausted(g)
           \/ SpinEnds(g)
           \/ ClockMoves(g)

Next == \E g \in Generators : Step(g)

Spec == Init /\ [][Next]_vars

-----------------------------------------------------------------------------
(***************************************************************************)
(* The packed id: (ts << 22) | (datacenter << 17) | (worker << 12) |       *)
(* sequence.  Above the 12 sequence bits the node occupies bits 12 and up: *)
(* worker_id has 10 bits there, and datacenter_id is shifted by 5 more, so *)
(* the two overlap; both end below bit 22, where the timestamp begins.     *)
(* The node field is the set of its bits that are one.                     *)
(***************************************************************************)
PowersOfTwo == <<1, 2, 4, 8, 16, 32, 64, 128, 256, 512>>

Bits(n) == {b \in 0..9 : (n \div PowersOfTwo[b + 1]) % 2 = 1}

\* Mutant of NodeField: the data centre is shifted by one bit less.
NodeFieldTight(g) == Bits(Worker[g]) \cup {b + 4 : b \in Bits(Datacenter[g])}

NodeField(g) == Bits(Worker[g]) \cup {b + 5 : b \in Bits(Datacenter[g])}

Packed(id) == <<id.ts, NodeField(id.gen), id.seq>>
-----------------------------------------------------------------------------
TypeOK ==
  /\ clock \in [Generators -> Nat]
  /\ last_timestamp \in [Generators -> Nat \cup {-1}]
  /\ sequence \in [Generators -> 0..MAX_SEQUENCE + 1]
  /\ at \in [Generators -> {"idle", "spinning", "retrying"}]
  /\ emitted \in SUBSET Id
  /\ repeated \in SUBSET Id

\* A generator whose clock does not go back never hands out an id twice.
NoRepeats == \A id \in repeated : id.gen \in Unsteady

\* Whatever the clock does, an id that is handed out for the first time is
\* greater than all ids of its generator before it.
Before(a, b) == a.ts < b.ts \/ (a.ts = b.ts /\ a.seq < b.seq)

IdsIncrease ==
  [][\A new \in emitted' \ emitted, old \in emitted :
       old.gen = new.gen => Before(old, new)]_vars

\* When two ids pack to the same number, their workers agree modulo 32, and in
\* the data centre as well if neither worker id is above 31: these are all the
\* collisions there are among the worker ids that new admits.
PackedIdsTell ==
  \A a, b \in emitted : Packed(a) = Packed(b) =>
    /\ Worker[a.gen] % 32 = Worker[b.gen] % 32
    /\ (Worker[a.gen] < 32 /\ Worker[b.gen] < 32) =>
         Datacenter[a.gen] = Datacenter[b.gen]

\* Lines 37 (fields of 41, 5, 10 and 12 bits) and 56 (worker ids of 0 to 1023)
\* say of nodes that differ: their ids differ.  It fails above worker 31.
PackedIdsUnique ==
  \A a, b \in emitted : Packed(a) = Packed(b) => a = b

-----------------------------------------------------------------------------
(***************************************************************************)
(* The invariant behind IdsIncrease.  An id of g is at or before           *)
(* (last_timestamp, sequence), except after the loop, when sequence has    *)
(* been reset: then every id of that millisecond has been handed out, so   *)
(* nothing new can come from it.                                           *)
(***************************************************************************)
LastId(g, seq) == [gen |-> g, ts |-> last_timestamp[g], seq |-> seq]

Drained(g) == \A q \in 0..MAX_SEQUENCE : LastId(g, q) \in emitted

SequenceEmitted ==
  \A g \in Generators :
    last_timestamp[g] # -1 =>
      \A q \in 0..MAX_SEQUENCE : q <= sequence[g] => LastId(g, q) \in emitted

IdsBehind ==
  \A id \in emitted :
    \/ id.ts < last_timestamp[id.gen]
    \/ /\ id.ts = last_timestamp[id.gen]
       /\ id.seq <= sequence[id.gen] \/ Drained(id.gen)

SpinningIsExhausted ==
  \A g \in Generators :
    /\ at[g] = "spinning" <=> sequence[g] = MAX_SEQUENCE + 1
    /\ at[g] # "idle" => last_timestamp[g] # -1

SnowflakeInv == TypeOK /\ SequenceEmitted /\ IdsBehind /\ SpinningIsExhausted

(***************************************************************************)
(* What a clock adds when it does not go back, and NoRepeats needs: the    *)
(* retry after the loop reads a clock past last_timestamp.                 *)
(***************************************************************************)
ClockAhead ==
  \A g \in Generators \ Unsteady :
    /\ clock[g] >= last_timestamp[g]
    /\ at[g] = "retrying" => clock[g] > last_timestamp[g]
    /\ at[g] = "idle" =>
         \A id \in emitted :
           (id.gen = g /\ id.ts = last_timestamp[g]) => id.seq <= sequence[g]
=============================================================================
