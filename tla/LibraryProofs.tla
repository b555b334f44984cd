----------------------------- MODULE LibraryProofs -----------------------------
(***************************************************************************)
(* What the libraries promise that share nothing: the ids of yma-id, the   *)
(* functions on texts, roles and requests, versions of the interface,      *)
(* health checks, pages of the audit log and of searches.                  *)
(* What the functions compute they compute by recursion, over a text, a    *)
(* list, a trie or a body; what a recursion gives is proved by induction   *)
(* on the numbers, as membership in a set that holds zero and with every   *)
(* number the next one.                                                    *)
(***************************************************************************)
EXTENDS Snowflake, TextFilters, AccessRules, RequestFilters,
        HealthMetrics, SearchClient, SequenceTheorems, FiniteSetTheorems,
        WellFoundedInduction, TLAPS

(***************************************************************************)
(* Ids.                                                                    *)
(***************************************************************************)
\* No generator has handed out anything yet.
LEMMA InitInv == Init => SnowflakeInv
<1> SUFFICES ASSUME Init PROVE SnowflakeInv
  OBVIOUS
<1> USE GeneratorAssumption DEF Init
<1>1. TypeOK
  BY DEF TypeOK
<1>2. SequenceEmitted /\ IdsBehind /\ SpinningIsExhausted
  BY DEF SequenceEmitted, IdsBehind, SpinningIsExhausted
<1> QED
  BY <1>1, <1>2 DEF SnowflakeInv

\* An id is handed out at the clock's reading with a sequence number that
\* continues the millisecond or starts a later one.
Continues(g, seq) ==
  \/ clock[g] > last_timestamp[g] /\ seq = 0
  \/ /\ clock[g] = last_timestamp[g]
     /\ seq = sequence[g] + 1
     /\ seq <= MAX_SEQUENCE

\* Handing out an id keeps the invariant.
LEMMA ReturnKeepsInv ==
  ASSUME NEW g \in Generators, NEW seq \in 0..MAX_SEQUENCE,
         SnowflakeInv, InNextId(g), Continues(g, seq), Return(g, seq)
  PROVE  SnowflakeInv'
<1> DEFINE id == [gen |-> g, ts |-> clock[g], seq |-> seq]
<1> USE GeneratorAssumption DEF SnowflakeInv
<1>0. clock[g] \in Nat /\ last_timestamp[g] \in Nat \cup {-1}
      /\ sequence[g] \in 0..MAX_SEQUENCE + 1
  BY DEF TypeOK
<1>1. /\ last_timestamp' = [last_timestamp EXCEPT ![g] = clock[g]]
      /\ sequence' = [sequence EXCEPT ![g] = seq]
      /\ at' = [at EXCEPT ![g] = "idle"]
      /\ emitted' = emitted \cup {id}
      /\ clock' = clock
  BY DEF Return
<1>2. TypeOK'
  <2>1. id \in Id
    BY <1>0 DEF Id
  <2>2. repeated' \in SUBSET Id
    BY <2>1 DEF Return, TypeOK
  <2> QED
    BY <1>0, <1>1, <2>1, <2>2 DEF TypeOK
<1>3. \A h \in Generators :
        /\ last_timestamp'[h] = IF h = g THEN clock[g] ELSE last_timestamp[h]
        /\ sequence'[h] = IF h = g THEN seq ELSE sequence[h]
  BY <1>1 DEF TypeOK
<1>4. SequenceEmitted'
  <2> SUFFICES ASSUME NEW h \in Generators, last_timestamp'[h] # -1,
                      NEW q \in 0..MAX_SEQUENCE, q <= sequence'[h]
               PROVE  LastId(h, q)' \in emitted'
    BY DEF SequenceEmitted
  <2>1. CASE h # g
    BY <2>1, <1>1, <1>3 DEF SequenceEmitted, LastId
  <2>2. CASE h = g /\ q = seq
    BY <2>2, <1>1, <1>3 DEF LastId
  <2>3. CASE h = g /\ q # seq
    <3>1. clock[g] = last_timestamp[g] /\ q <= sequence[g]
      BY <2>3, <1>0, <1>3 DEF Continues
    <3>2. LastId(g, q) \in emitted
      BY <3>1, <1>0 DEF SequenceEmitted
    <3> QED
      BY <3>1, <3>2, <2>3, <1>1, <1>3 DEF LastId
  <2> QED
    BY <2>1, <2>2, <2>3
<1>5. IdsBehind'
  <2> SUFFICES ASSUME NEW i \in emitted'
               PROVE  \/ i.ts < last_timestamp'[i.gen]
                      \/ /\ i.ts = last_timestamp'[i.gen]
                         /\ i.seq <= sequence'[i.gen] \/ Drained(i.gen)'
    BY DEF IdsBehind
  <2>1. i.gen \in Generators /\ i.ts \in Nat /\ i.seq \in 0..MAX_SEQUENCE
    BY <1>2 DEF TypeOK, Id
  <2>2. CASE i = id
    BY <2>2, <1>3, <1>0
  <2>3. CASE i \in emitted /\ i.gen # g
    <3>1. Drained(i.gen) => Drained(i.gen)'
      BY <1>1, <1>3, <2>1, <2>3 DEF Drained, LastId
    <3> QED
      BY <3>1, <2>1, <2>3, <1>3 DEF IdsBehind
  <2>4. CASE i \in emitted /\ i.gen = g
    <3>1. CASE i.ts < clock[g]
      BY <3>1, <2>4, <1>3
    <3>2. CASE ~(i.ts < clock[g])
      <4>1. /\ i.ts = last_timestamp[g]
            /\ clock[g] = last_timestamp[g]
            /\ seq = sequence[g] + 1
        BY <3>2, <2>1, <2>4, <1>0 DEF IdsBehind, Continues
      <4>2. CASE i.seq <= sequence[g]
        BY <4>1, <4>2, <2>1, <2>4, <1>0, <1>3
      <4>3. CASE Drained(g)
        <5>1. Drained(g)'
          BY <4>1, <4>3, <1>1, <1>3 DEF Drained, LastId
        <5> QED
          BY <5>1, <4>1, <2>4, <1>3
      <4> QED
        BY <4>1, <4>2, <4>3, <2>1, <2>4, <1>0 DEF IdsBehind
    <3> QED
      BY <3>1, <3>2
  <2> QED
    BY <2>2, <2>3, <2>4, <1>1
<1>6. SpinningIsExhausted'
  BY <1>0, <1>1, <1>3 DEF SpinningIsExhausted, TypeOK
<1> QED
  BY <1>2, <1>4, <1>5, <1>6

\* Where a returning step starts from.
LEMMA ReturningSteps ==
  ASSUME NEW g \in Generators, SnowflakeInv,
         NewMillisecond(g) \/ SameMillisecond(g)
  PROVE  \E seq \in 0..MAX_SEQUENCE :
           InNextId(g) /\ Continues(g, seq) /\ Return(g, seq)
<1>0. sequence[g] \in Nat /\ MAX_SEQUENCE \in Nat
  BY GeneratorAssumption DEF SnowflakeInv, TypeOK
<1>1. CASE NewMillisecond(g)
  BY <1>0, <1>1 DEF NewMillisecond, Continues
<1>2. CASE SameMillisecond(g)
  BY <1>0, <1>2 DEF SameMillisecond, Continues
<1> QED
  BY <1>1, <1>2

\* Every step keeps the invariant.
LEMMA NextKeepsInv == SnowflakeInv /\ [Next]_vars => SnowflakeInv'
<1> SUFFICES ASSUME SnowflakeInv, [Next]_vars PROVE SnowflakeInv'
  OBVIOUS
<1> USE GeneratorAssumption
<1>1. CASE UNCHANGED vars
  BY <1>1 DEF vars, SnowflakeInv, TypeOK, SequenceEmitted, IdsBehind,
              SpinningIsExhausted, Drained, LastId
<1>2. ASSUME NEW g \in Generators, Step(g) PROVE SnowflakeInv'
  <2>1. CASE NewMillisecond(g) \/ SameMillisecond(g)
    BY <2>1, ReturningSteps, ReturnKeepsInv
  <2>2. CASE ClockMoves(g)
    <3>1. TypeOK'
      BY <2>2 DEF ClockMoves, SnowflakeInv, TypeOK
    <3> QED
      BY <2>2, <3>1 DEF ClockMoves, SnowflakeInv, SequenceEmitted, IdsBehind,
                        SpinningIsExhausted, Drained, LastId
  <2>3. CASE ClockBehind(g)
    <3>1. TypeOK' /\ SpinningIsExhausted'
      BY <2>3 DEF ClockBehind, InNextId, SnowflakeInv, TypeOK,
                  SpinningIsExhausted
    <3> QED
      BY <2>3, <3>1 DEF ClockBehind, SnowflakeInv, SequenceEmitted, IdsBehind,
                        Drained, LastId
  <2>4. CASE SequenceExhausted(g)
    <3>0. /\ sequence[g] = MAX_SEQUENCE
          /\ last_timestamp[g] # -1
      BY <2>4 DEF SequenceExhausted, InNextId, SnowflakeInv, TypeOK,
                  SpinningIsExhausted
    <3>1. TypeOK' /\ SpinningIsExhausted'
      BY <2>4, <3>0 DEF SequenceExhausted, InNextId, SnowflakeInv, TypeOK,
                        SpinningIsExhausted
    <3>2. SequenceEmitted'
      BY <2>4, <3>0 DEF SequenceExhausted, SnowflakeInv, TypeOK,
                        SequenceEmitted, LastId
    <3>3. IdsBehind'
      BY <2>4, <3>0 DEF SequenceExhausted, SnowflakeInv, TypeOK, Id,
                        IdsBehind, Drained, LastId
    <3> QED
      BY <3>1, <3>2, <3>3 DEF SnowflakeInv
  <2>5. CASE SpinEnds(g)
    <3>0. /\ sequence[g] = MAX_SEQUENCE + 1
          /\ last_timestamp[g] # -1
      BY <2>5 DEF SpinEnds, SnowflakeInv, SpinningIsExhausted
    <3>1. TypeOK' /\ SpinningIsExhausted'
      BY <2>5, <3>0 DEF SpinEnds, SnowflakeInv, TypeOK, SpinningIsExhausted
    <3>2. SequenceEmitted'
      BY <2>5, <3>0 DEF SpinEnds, SnowflakeInv, TypeOK, SequenceEmitted, LastId
    <3>3. Drained(g) /\ Drained(g)'
      BY <2>5, <3>0 DEF SpinEnds, SnowflakeInv, TypeOK, SequenceEmitted,
                        Drained, LastId
    <3>4. IdsBehind'
      BY <2>5, <3>3 DEF SpinEnds, SnowflakeInv, TypeOK, Id, IdsBehind, Drained,
                        LastId
    <3> QED
      BY <3>1, <3>2, <3>4 DEF SnowflakeInv
  <2> QED
    BY <1>2, <2>1, <2>2, <2>3, <2>4, <2>5 DEF Step
<1> QED
  BY <1>1, <1>2 DEF Next

\* The invariant of next_id: what the generators have handed out lies at or
\* before their last timestamp and sequence, whatever the clocks do.
THEOREM SnowflakeInvariant == Spec => []SnowflakeInv
  BY InitInv, NextKeepsInv, PTL DEF Spec

\* Clocks, timestamps, sequences and ids keep their types; a sequence is never
\* more than one past its limit.
THEOREM SnowflakeTypeCorrect == Spec => []TypeOK
<1>1. SnowflakeInv => TypeOK
  BY DEF SnowflakeInv
<1> QED
  BY <1>1, SnowflakeInvariant, PTL

-----------------------------------------------------------------------------
\* The id that a step hands out comes after all before it of its generator.
LEMMA StepIncreases ==
  SnowflakeInv /\ [Next]_vars =>
    \A new \in emitted' \ emitted, old \in emitted :
      old.gen = new.gen => Before(old, new)
<1> SUFFICES ASSUME SnowflakeInv, [Next]_vars,
                    NEW new \in emitted' \ emitted, NEW old \in emitted,
                    old.gen = new.gen
             PROVE  Before(old, new)
  OBVIOUS
<1> USE GeneratorAssumption
<1>1. PICK g \in Generators : NewMillisecond(g) \/ SameMillisecond(g)
  BY DEF Next, Step, vars, ClockBehind, SequenceExhausted, SpinEnds, ClockMoves
<1>2. PICK seq \in 0..MAX_SEQUENCE :
        InNextId(g) /\ Continues(g, seq) /\ Return(g, seq)
  BY <1>1, ReturningSteps
<1>3. new = [gen |-> g, ts |-> clock[g], seq |-> seq]
  BY <1>2 DEF Return
<1>4. /\ old.ts \in Nat /\ old.seq \in 0..MAX_SEQUENCE /\ old.gen = g
      /\ old = [gen |-> g, ts |-> old.ts, seq |-> old.seq]
  BY <1>3 DEF SnowflakeInv, TypeOK, Id
<1>5. /\ clock[g] \in Nat
      /\ last_timestamp[g] \in Nat \cup {-1}
      /\ sequence[g] \in 0..MAX_SEQUENCE + 1
  BY DEF SnowflakeInv, TypeOK
<1>6. old.ts < clock[g] \/ (clock[g] = last_timestamp[g] /\ old.ts = clock[g])
  BY <1>2, <1>4, <1>5 DEF SnowflakeInv, IdsBehind, Continues
<1>7. CASE old.ts < clock[g]
  BY <1>7, <1>3, <1>4 DEF Before
<1>8. CASE clock[g] = last_timestamp[g] /\ old.ts = clock[g]
  <2>1. seq = sequence[g] + 1
    BY <1>8, <1>2, <1>5 DEF Continues
  <2>2. ~Drained(g)
    <3>1. LastId(g, seq) = new
      BY <1>3, <1>8 DEF LastId
    <3> QED
      BY <3>1 DEF Drained
  <2>3. old.seq <= sequence[g]
    BY <2>2, <1>4, <1>8, <1>5 DEF SnowflakeInv, IdsBehind
  <2> QED
    BY <2>1, <2>3, <1>3, <1>4, <1>5, <1>8 DEF Before
<1> QED
  BY <1>6, <1>7, <1>8

\* Whatever the clocks do, an id handed out for the first time is greater than
\* all ids of its generator before it.
THEOREM SnowflakeIdsIncrease == Spec => IdsIncrease
<1>1. SnowflakeInv /\ [Next]_vars =>
        [\A new \in emitted' \ emitted, old \in emitted :
           old.gen = new.gen => Before(old, new)]_vars
  BY StepIncreases
<1> QED
  BY <1>1, SnowflakeInvariant, PTL DEF Spec, IdsIncrease

-----------------------------------------------------------------------------
\* A generator whose clock is steady stays at or behind it, and repeats no id.
LEMMA StepKeepsClockAhead ==
  SnowflakeInv /\ ClockAhead /\ NoRepeats /\ [Next]_vars
    => ClockAhead' /\ NoRepeats'
<1> SUFFICES ASSUME SnowflakeInv, ClockAhead, NoRepeats, [Next]_vars
             PROVE  ClockAhead' /\ NoRepeats'
  OBVIOUS
<1> USE GeneratorAssumption
<1>0. /\ TypeOK
      /\ MAX_SEQUENCE \in Nat
  BY DEF SnowflakeInv
<1>1. CASE UNCHANGED vars
  BY <1>1 DEF vars, ClockAhead, NoRepeats
<1>2. ASSUME NEW g \in Generators, Step(g) PROVE ClockAhead' /\ NoRepeats'
  <2>0. /\ clock[g] \in Nat
        /\ last_timestamp[g] \in Nat \cup {-1}
        /\ sequence[g] \in 0..MAX_SEQUENCE + 1
    BY <1>0 DEF TypeOK
  <2>1. CASE NewMillisecond(g) \/ SameMillisecond(g)
    <3>1. PICK seq \in 0..MAX_SEQUENCE :
            InNextId(g) /\ Continues(g, seq) /\ Return(g, seq)
      BY <2>1, ReturningSteps
    <3> DEFINE id == [gen |-> g, ts |-> clock[g], seq |-> seq]
    <3>2. g \notin Unsteady =>
            \A i \in emitted :
              i.gen = g => i.ts < clock[g] \/ (i.ts = clock[g] /\ i.seq < seq)
      <4> SUFFICES ASSUME g \notin Unsteady, NEW i \in emitted, i.gen = g
                   PROVE  i.ts < clock[g] \/ (i.ts = clock[g] /\ i.seq < seq)
        OBVIOUS
      <4>1. i.ts \in Nat /\ i.seq \in 0..MAX_SEQUENCE
        BY <1>0 DEF TypeOK, Id
      <4>2. i.ts <= last_timestamp[g]
        BY <4>1, <2>0 DEF SnowflakeInv, IdsBehind
      <4>3. CASE clock[g] > last_timestamp[g]
        BY <4>1, <4>2, <4>3, <2>0
      <4>4. CASE clock[g] = last_timestamp[g] /\ seq = sequence[g] + 1
        <5>1. at[g] = "idle"
          BY <4>4, <3>1, <2>0 DEF InNextId, ClockAhead
        <5>2. i.ts = last_timestamp[g] => i.seq <= sequence[g]
          BY <5>1 DEF ClockAhead
        <5> QED
          BY <4>1, <4>2, <4>4, <5>2, <2>0
      <4> QED
        BY <3>1, <4>3, <4>4 DEF Continues
    <3>3. g \notin Unsteady => id \notin emitted
      BY <3>2, <2>0
    <3>4. NoRepeats'
      BY <3>1, <3>3 DEF Return, NoRepeats
    <3>5. /\ last_timestamp' = [last_timestamp EXCEPT ![g] = clock[g]]
          /\ sequence' = [sequence EXCEPT ![g] = seq]
          /\ at' = [at EXCEPT ![g] = "idle"]
          /\ emitted' = emitted \cup {id}
          /\ clock' = clock
      BY <3>1 DEF Return
    <3>6. ClockAhead'
      <4> SUFFICES ASSUME NEW h \in Generators \ Unsteady
                   PROVE  /\ clock'[h] >= last_timestamp'[h]
                          /\ at'[h] = "retrying" =>
                               clock'[h] > last_timestamp'[h]
                          /\ at'[h] = "idle" =>
                               \A i \in emitted' :
                                 (i.gen = h /\ i.ts = last_timestamp'[h])
                                   => i.seq <= sequence'[h]
        BY DEF ClockAhead
      <4>1. CASE h = g
        <5>1. \A i \in emitted :
                (i.gen = g /\ i.ts = clock[g]) => i.seq <= seq
          <6> SUFFICES ASSUME NEW i \in emitted, i.gen = g, i.ts = clock[g]
                       PROVE  i.seq <= seq
            OBVIOUS
          <6>1. i.seq \in 0..MAX_SEQUENCE
            BY <1>0 DEF TypeOK, Id
          <6> QED
            BY <6>1, <3>2, <4>1, <2>0
        <5> QED
          BY <4>1, <5>1, <3>5, <1>0, <2>0 DEF TypeOK
      <4>2. CASE h # g
        BY <4>2, <3>5, <1>0 DEF TypeOK, ClockAhead
      <4> QED
        BY <4>1, <4>2
    <3> QED
      BY <3>4, <3>6
  <2>2. CASE ClockMoves(g)
    <3>1. /\ UNCHANGED <<last_timestamp, sequence, at, emitted, repeated>>
          /\ \A h \in Generators \ Unsteady :
               clock[h] \in Nat /\ clock'[h] \in Nat /\ clock'[h] >= clock[h]
      BY <2>2, <1>0 DEF ClockMoves, TypeOK
    <3>2. \A h \in Generators : last_timestamp[h] \in Int
      BY <1>0 DEF TypeOK
    <3> QED
      BY <3>1, <3>2 DEF ClockAhead, NoRepeats
  <2>3. CASE ClockBehind(g)
    BY <2>3, <1>0, <2>0 DEF ClockBehind, ClockAhead, NoRepeats, TypeOK
  <2>4. CASE SequenceExhausted(g)
    BY <2>4, <1>0 DEF SequenceExhausted, ClockAhead, NoRepeats, TypeOK
  <2>5. CASE SpinEnds(g)
    BY <2>5, <1>0 DEF SpinEnds, ClockAhead, NoRepeats, TypeOK
  <2> QED
    BY <1>2, <2>1, <2>2, <2>3, <2>4, <2>5 DEF Step
<1> QED
  BY <1>1, <1>2 DEF Next

\* A generator whose clock does not go back never hands out an id twice,
\* whatever the clocks of the others do.
THEOREM SnowflakeNoRepeats == Spec => []NoRepeats
<1>1. Init => ClockAhead /\ NoRepeats
  BY GeneratorAssumption DEF Init, ClockAhead, NoRepeats
<1>2. SnowflakeInv /\ ClockAhead /\ NoRepeats /\ [Next]_vars
        => ClockAhead' /\ NoRepeats'
  BY StepKeepsClockAhead
<1> QED
  BY <1>1, <1>2, SnowflakeInvariant, PTL DEF Spec

-----------------------------------------------------------------------------
(***************************************************************************)
(* The node field.  A number below 32 has bits 0 to 4 only and is the      *)
(* number of its bits, so the worker id modulo 32 can be read off the      *)
(* field of a node, and the data centre off that of a worker below 32.     *)
(***************************************************************************)
LEMMA BitsOfSmallNumbers ==
  ASSUME NEW n \in 0..31
  PROVE  /\ 0 \in Bits(n) <=> n % 2 = 1
         /\ 1 \in Bits(n) <=> (n \div 2) % 2 = 1
         /\ 2 \in Bits(n) <=> (n \div 4) % 2 = 1
         /\ 3 \in Bits(n) <=> (n \div 8) % 2 = 1
         /\ 4 \in Bits(n) <=> (n \div 16) % 2 = 1
         /\ Bits(n) \subseteq 0..4
<1>1. /\ PowersOfTwo[1] = 1 /\ PowersOfTwo[2] = 2 /\ PowersOfTwo[3] = 4
      /\ PowersOfTwo[4] = 8 /\ PowersOfTwo[5] = 16 /\ PowersOfTwo[6] = 32
      /\ PowersOfTwo[7] = 64 /\ PowersOfTwo[8] = 128 /\ PowersOfTwo[9] = 256
      /\ PowersOfTwo[10] = 512
  BY DEF PowersOfTwo
<1>2. ASSUME NEW b \in 5..9 PROVE b \notin Bits(n)
  <2>1. b = 5 \/ b = 6 \/ b = 7 \/ b = 8 \/ b = 9
    OBVIOUS
  <2>2. n \div 32 = 0 /\ n \div 64 = 0 /\ n \div 128 = 0 /\ n \div 256 = 0
        /\ n \div 512 = 0
    OBVIOUS
  <2> QED
    BY <1>1, <2>1, <2>2 DEF Bits
<1>3. Bits(n) \subseteq 0..4
  BY <1>2 DEF Bits
<1>4. n \div 1 = n
  OBVIOUS
<1> QED
  BY <1>1, <1>3, <1>4 DEF Bits

\* Numbers below 32 with the same bits are the same.
LEMMA BitsMakeTheNumber ==
  ASSUME NEW m \in 0..31, NEW n \in 0..31, Bits(m) = Bits(n)
  PROVE  m = n
<1>1. /\ m % 2 = n % 2
      /\ (m \div 2) % 2 = (n \div 2) % 2
      /\ (m \div 4) % 2 = (n \div 4) % 2
      /\ (m \div 8) % 2 = (n \div 8) % 2
      /\ (m \div 16) % 2 = (n \div 16) % 2
  <2>1. \A k \in Int : k % 2 = 0 \/ k % 2 = 1
    OBVIOUS
  <2> QED
    BY <2>1, BitsOfSmallNumbers
<1> QED
  BY <1>1

\* The five lowest bits of a worker id are those of its remainder by 32.
LEMMA LowBits ==
  ASSUME NEW w \in 0..1023, NEW b \in 0..4
  PROVE  b \in Bits(w) <=> b \in Bits(w % 32)
<1>1. /\ PowersOfTwo[1] = 1 /\ PowersOfTwo[2] = 2 /\ PowersOfTwo[3] = 4
      /\ PowersOfTwo[4] = 8 /\ PowersOfTwo[5] = 16
  BY DEF PowersOfTwo
<1>2. /\ (w \div 1) % 2 = ((w % 32) \div 1) % 2
      /\ (w \div 2) % 2 = ((w % 32) \div 2) % 2
      /\ (w \div 4) % 2 = ((w % 32) \div 4) % 2
      /\ (w \div 8) % 2 = ((w % 32) \div 8) % 2
      /\ (w \div 16) % 2 = ((w % 32) \div 16) % 2
  BY SMT
<1>3. (w \div PowersOfTwo[b + 1]) % 2 = ((w % 32) \div PowersOfTwo[b + 1]) % 2
  <2>1. b + 1 = 1 \/ b + 1 = 2 \/ b + 1 = 3 \/ b + 1 = 4 \/ b + 1 = 5
    OBVIOUS
  <2> QED
    BY <1>1, <1>2, <2>1
<1> QED
  BY <1>3 DEF Bits

\* What two nodes with one field have in common: the worker ids modulo 32, and
\* the data centre where neither worker id reaches into it.
LEMMA NodeFieldTells ==
  ASSUME NEW g \in Generators, NEW h \in Generators,
         NodeField(g) = NodeField(h)
  PROVE  /\ Worker[g] % 32 = Worker[h] % 32
         /\ (Worker[g] < 32 /\ Worker[h] < 32) => Datacenter[g] = Datacenter[h]
<1>1. /\ Worker[g] \in 0..1023 /\ Worker[h] \in 0..1023
      /\ Datacenter[g] \in 0..31 /\ Datacenter[h] \in 0..31
  BY GeneratorAssumption DEF MAX_WORKER_ID, MAX_DATACENTER_ID
<1>2. Worker[g] % 32 \in 0..31 /\ Worker[h] % 32 \in 0..31
  <2>1. \A w \in 0..1023 : w % 32 \in 0..31
    OBVIOUS
  <2> QED
    BY <1>1, <2>1
<1>3. /\ Bits(Worker[g] % 32) \subseteq 0..4 /\ Bits(Worker[h] % 32) \subseteq 0..4
      /\ Bits(Datacenter[g]) \subseteq 0..4 /\ Bits(Datacenter[h]) \subseteq 0..4
  BY <1>1, <1>2, BitsOfSmallNumbers
<1>4. ASSUME NEW i \in Generators, NEW b \in 0..4, Bits(Datacenter[i]) \subseteq 0..4
      PROVE  b \in NodeField(i) <=> b \in Bits(Worker[i])
  BY <1>4 DEF NodeField
<1>5. \A b \in 0..4 : b \in Bits(Worker[g] % 32) <=> b \in Bits(Worker[h] % 32)
  BY <1>1, <1>3, <1>4, LowBits
<1>6. Worker[g] % 32 = Worker[h] % 32
  BY <1>2, <1>3, <1>5, BitsMakeTheNumber
<1>7. ASSUME Worker[g] < 32, Worker[h] < 32
      PROVE  Datacenter[g] = Datacenter[h]
  <2>1. Worker[g] \in 0..31 /\ Worker[h] \in 0..31
    <3>1. ASSUME NEW i \in Generators, Worker[i] \in 0..1023, Worker[i] < 32
          PROVE  Worker[i] \in 0..31
      <4> DEFINE m == Worker[i]
      <4>1. m \in 0..1023 /\ m < 32
        BY <3>1
      <4> HIDE DEF m
      <4>2. m \in 0..31
        BY <4>1, SMT
      <4> QED
        BY <4>2 DEF m
    <3>2. Worker[g] \in 0..31
      BY <1>1, <1>7, <3>1
    <3>3. Worker[h] \in 0..31
      BY <1>1, <1>7, <3>1
    <3> QED
      BY <3>2, <3>3
  <2>2. Bits(Worker[g]) \subseteq 0..4 /\ Bits(Worker[h]) \subseteq 0..4
    BY <2>1, BitsOfSmallNumbers
  <2>3. ASSUME NEW i \in Generators, NEW b \in 0..4,
               Bits(Worker[i]) \subseteq 0..4, Bits(Datacenter[i]) \subseteq 0..4
        PROVE  b + 5 \in NodeField(i) <=> b \in Bits(Datacenter[i])
    BY <2>3 DEF NodeField
  <2>4. Bits(Datacenter[g]) = Bits(Datacenter[h])
    BY <1>3, <2>2, <2>3
  <2> QED
    BY <1>1, <2>4, BitsMakeTheNumber
<1> QED
  BY <1>6, <1>7

\* Whatever worker ids a deployment uses, and whatever its clocks do: two ids
\* that pack to one number are of workers that agree modulo 32, and of one data
\* centre if neither worker id is above 31.
THEOREM SnowflakePackedIdsTell == Spec => []PackedIdsTell
<1>1. SnowflakeInv => PackedIdsTell
  <2> SUFFICES ASSUME SnowflakeInv, NEW a \in emitted, NEW b \in emitted,
                      Packed(a) = Packed(b)
               PROVE  /\ Worker[a.gen] % 32 = Worker[b.gen] % 32
                      /\ (Worker[a.gen] < 32 /\ Worker[b.gen] < 32) =>
                           Datacenter[a.gen] = Datacenter[b.gen]
    BY DEF PackedIdsTell
  <2>1. a.gen \in Generators /\ b.gen \in Generators
    BY DEF SnowflakeInv, TypeOK, Id
  <2>2. NodeField(a.gen) = NodeField(b.gen)
    BY DEF Packed
  <2> QED
    BY <2>1, <2>2, NodeFieldTells
<1> QED
  BY <1>1, SnowflakeInvariant, PTL

-----------------------------------------------------------------------------
(***************************************************************************)
(* Functions defined by recursion.  The library states how they compute    *)
(* for operators; here the step of a recursion is a function, so that the  *)
(* lemmas can be cited for the recursions of the model.                    *)
(***************************************************************************)

\* Induction on the numbers, over the set of those a statement is true of.
LEMMA Induction ==
  ASSUME NEW S, 0 \in S, \A n \in Nat : n \in S => n + 1 \in S
  PROVE  Nat \subseteq S
<1> DEFINE R == {ij \in Nat \X Nat : ij[1] < ij[2]}
           Out == Nat \ S
<1>1. IsWellFoundedOn(R, Nat)
  BY NatLessThanWellFounded DEF OpToRel
<1> SUFFICES ASSUME Out # {} PROVE FALSE
  OBVIOUS
<1>2. PICK m \in Out : \A i \in Out : ~(<<i, m>> \in R)
  <2>1. Out \in SUBSET Nat
    OBVIOUS
  <2> HIDE DEF R, Out
  <2> QED
    BY <1>1, <2>1, WFMin
<1>3. m \in Nat /\ m # 0 /\ m - 1 \in Nat
  OBVIOUS
<1>4. ASSUME m - 1 \in Out PROVE FALSE
  <2>1. <<m - 1, m>> \in R
    BY <1>3
  <2> HIDE DEF R, Out
  <2> QED
    BY <1>2, <1>4, <2>1
<1> QED
  BY <1>3, <1>4

\* g computes the first k values of a recursion.
Recurs(g, k, X, base, step) ==
  /\ g \in [0..k -> X]
  /\ g[0] = base
  /\ \A i \in 1..k : g[i] = step[<<i, g[i - 1]>>]

\* A recursion along the numbers up to n computes what its step says.
LEMMA Recursion ==
  ASSUME NEW n \in Nat, NEW X, NEW base \in X, NEW step \in [(1..n) \X X -> X]
  PROVE  \E g : Recurs(g, n, X, base, step)
<1> DEFINE S == {k \in Nat : k <= n => \E g : Recurs(g, k, X, base, step)}
<1>1. 0 \in S
  <2>1. Recurs([i \in 0..0 |-> base], 0, X, base, step)
    BY DEF Recurs
  <2> QED
    BY <2>1
<1>2. ASSUME NEW k \in Nat, k \in S PROVE k + 1 \in S
  <2> SUFFICES ASSUME k + 1 <= n PROVE \E g : Recurs(g, k + 1, X, base, step)
    BY k + 1 \in Nat
  <2>1. PICK g : Recurs(g, k, X, base, step)
    BY <1>2
  <2> DEFINE h == [i \in 0..(k + 1) |-> IF i = k + 1 THEN step[<<k + 1, g[k]>>] ELSE g[i]]
  <2>2. g[k] \in X /\ k + 1 \in 1..n
    BY <2>1 DEF Recurs
  <2>3. step[<<k + 1, g[k]>>] \in X
    BY <2>2
  <2>4. h \in [0..(k + 1) -> X]
    BY <2>1, <2>3 DEF Recurs
  <2>5. h[0] = base
    BY <2>1 DEF Recurs
  <2>6. ASSUME NEW i \in 1..(k + 1) PROVE h[i] = step[<<i, h[i - 1]>>]
    <3>1. CASE i = k + 1
      <4>1. h[i] = step[<<k + 1, g[k]>>] /\ h[i - 1] = g[k]
        BY <3>1
      <4> QED
        BY <3>1, <4>1
    <3>2. CASE i # k + 1
      <4>1. i \in 1..k /\ i - 1 \in 0..k
        BY <3>2
      <4>2. h[i] = g[i] /\ h[i - 1] = g[i - 1]
        BY <4>1
      <4> QED
        BY <2>1, <4>1, <4>2 DEF Recurs
    <3> QED
      BY <3>1, <3>2
  <2>7. Recurs(h, k + 1, X, base, step)
    <3> HIDE DEF h
    <3> QED
      BY <2>4, <2>5, <2>6 DEF Recurs
  <2> QED
    BY <2>7
<1>3. Nat \subseteq S
  <2> HIDE DEF S
  <2> QED
    BY <1>1, <1>2, Induction
<1> QED
  BY <1>3

\* The largest of a set of indices.
LEMMA LargestIndex ==
  ASSUME NEW n \in Nat, NEW s \in SUBSET (1..n), s # {}
  PROVE  /\ Max(s) \in s
         /\ \A i \in s : i <= Max(s)
<1> DEFINE S == {k \in Nat : \A t \in SUBSET (1..k) : t # {} => \E m \in t : \A i \in t : i <= m}
<1>1. 0 \in S
  <2>1. 1..0 = {}
    OBVIOUS
  <2> QED
    BY <2>1
<1>2. ASSUME NEW k \in Nat, k \in S PROVE k + 1 \in S
  <2> SUFFICES ASSUME NEW t \in SUBSET (1..(k + 1)), t # {}
               PROVE  \E m \in t : \A i \in t : i <= m
    OBVIOUS
  <2>1. CASE k + 1 \in t
    BY <2>1
  <2>2. CASE k + 1 \notin t
    <3>1. t \in SUBSET (1..k)
      BY <2>2
    <3> QED
      BY <1>2, <3>1
  <2> QED
    BY <2>1, <2>2
<1>3. Nat \subseteq S
  <2> HIDE DEF S
  <2> QED
    BY <1>1, <1>2, Induction
<1>4. \E m \in s : \A i \in s : i <= m
  BY <1>3
<1> QED
  BY <1>4 DEF Max

\* g computes the fold over the sets of the first k indices.
Folds(g, k, X, base, step) ==
  /\ g \in [SUBSET (1..k) -> X]
  /\ g[{}] = base
  /\ \A s \in SUBSET (1..k) :
       s # {} => g[s] = step[<<Max(s), g[s \ {Max(s)}]>>]

\* A fold over the indices of a sequence, largest first taken out, computes
\* what its step says.
LEMMA FoldRecursion ==
  ASSUME NEW n \in Nat, NEW X, NEW base \in X, NEW step \in [(1..n) \X X -> X]
  PROVE  \E g : Folds(g, n, X, base, step)
<1> DEFINE S == {k \in Nat : k <= n => \E g : Folds(g, k, X, base, step)}
<1>1. 0 \in S
  <2>1. SUBSET (1..0) = {{}}
    OBVIOUS
  <2>2. Folds([s \in SUBSET (1..0) |-> base], 0, X, base, step)
    BY <2>1 DEF Folds
  <2> QED
    BY <2>2
<1>2. ASSUME NEW k \in Nat, k \in S PROVE k + 1 \in S
  <2> SUFFICES ASSUME k + 1 <= n PROVE \E g : Folds(g, k + 1, X, base, step)
    BY k + 1 \in Nat
  <2>1. PICK g : Folds(g, k, X, base, step)
    BY <1>2
  <2> DEFINE h == [s \in SUBSET (1..(k + 1)) |->
                     IF k + 1 \in s THEN step[<<k + 1, g[s \ {k + 1}]>>] ELSE g[s]]
  <2>2. ASSUME NEW s \in SUBSET (1..(k + 1))
        PROVE  /\ k + 1 \notin s => s \in SUBSET (1..k)
               /\ s \ {k + 1} \in SUBSET (1..k)
               /\ k + 1 \in s => Max(s) = k + 1
    <3>1. k + 1 \notin s => s \in SUBSET (1..k)
      OBVIOUS
    <3>2. s \ {k + 1} \in SUBSET (1..k)
      OBVIOUS
    <3>3. ASSUME k + 1 \in s PROVE Max(s) = k + 1
      <4>1. /\ Max(s) \in s
            /\ \A i \in s : i <= Max(s)
        BY <3>3, k + 1 \in Nat, LargestIndex
      <4>2. Max(s) \in 1..(k + 1) /\ k + 1 <= Max(s)
        BY <3>3, <4>1
      <4> QED
        BY <4>2
    <3> QED
      BY <3>1, <3>2, <3>3
  <2>3. h \in [SUBSET (1..(k + 1)) -> X]
    <3>1. ASSUME NEW s \in SUBSET (1..(k + 1)) PROVE h[s] \in X
      <4>1. k + 1 \in 1..n /\ g[s \ {k + 1}] \in X
        BY <2>1, <2>2 DEF Folds
      <4>2. step[<<k + 1, g[s \ {k + 1}]>>] \in X
        BY <4>1
      <4>3. k + 1 \notin s => g[s] \in X
        BY <2>1, <2>2 DEF Folds
      <4> QED
        BY <4>2, <4>3
    <3> QED
      BY <3>1
  <2>4. h[{}] = base
    BY <2>1 DEF Folds
  <2>5. ASSUME NEW s \in SUBSET (1..(k + 1)), s # {}
        PROVE  h[s] = step[<<Max(s), h[s \ {Max(s)}]>>]
    <3>1. CASE k + 1 \in s
      <4>1. Max(s) = k + 1 /\ s \ {k + 1} \in SUBSET (1..k)
        BY <2>2, <3>1
      <4>2. h[s] = step[<<k + 1, g[s \ {k + 1}]>>]
        BY <3>1
      <4>3. h[s \ {k + 1}] = g[s \ {k + 1}]
        BY <4>1
      <4> QED
        BY <4>1, <4>2, <4>3
    <3>2. CASE k + 1 \notin s
      <4>1. s \in SUBSET (1..k)
        BY <2>2, <3>2
      <4>2. h[s] = g[s] /\ h[s \ {Max(s)}] = g[s \ {Max(s)}]
        BY <3>2
      <4>3. g[s] = step[<<Max(s), g[s \ {Max(s)}]>>]
        BY <2>1, <2>5, <4>1 DEF Folds
      <4> QED
        BY <4>2, <4>3
    <3> QED
      BY <3>1, <3>2
  <2>6. Folds(h, k + 1, X, base, step)
    <3> HIDE DEF h
    <3> QED
      BY <2>3, <2>4, <2>5 DEF Folds
  <2> QED
    BY <2>6
<1>3. Nat \subseteq S
  <2> HIDE DEF S
  <2> QED
    BY <1>1, <1>2, Induction
<1> QED
  BY <1>3

\* The largest of the first numbers is the last.
LEMMA LastOfRange ==
  ASSUME NEW k \in Nat
  PROVE  /\ 1..(k + 1) # {}
         /\ Max(1..(k + 1)) = k + 1
         /\ (1..(k + 1)) \ {k + 1} = 1..k
<1>1. k + 1 \in 1..(k + 1) /\ \A i \in 1..(k + 1) : k + 1 >= i
  OBVIOUS
<1>2. \A m \in 1..(k + 1) : (\A i \in 1..(k + 1) : m >= i) => m = k + 1
  OBVIOUS
<1>3. Max(1..(k + 1)) = k + 1
  BY ONLY <1>1, <1>2 DEF Max
<1> QED
  BY <1>1, <1>3

\* Along the first indices such a fold goes from left to right.
LEMMA FoldAlong ==
  ASSUME NEW n \in Nat, NEW X, NEW base \in X, NEW step \in [(1..n) \X X -> X], NEW it,
         it[{}] = base,
         \A s \in SUBSET (1..n) :
           s # {} /\ it[s \ {Max(s)}] \in X =>
             it[s] = step[<<Max(s), it[s \ {Max(s)}]>>],
         NEW p, p = [i \in 0..n |-> it[1..i]]
  PROVE  Recurs(p, n, X, base, step)
<1> DEFINE S == {k \in Nat : k <= n => it[1..k] \in X}
<1>1. ASSUME NEW k \in Nat, k < n, it[1..k] \in X
      PROVE  it[1..(k + 1)] = step[<<k + 1, it[1..k]>>] /\ it[1..(k + 1)] \in X
  <2>1. (1..(k + 1)) \in SUBSET (1..n)
    BY <1>1
  <2>2. /\ 1..(k + 1) # {}
        /\ Max(1..(k + 1)) = k + 1
        /\ (1..(k + 1)) \ {k + 1} = 1..k
    BY LastOfRange
  <2>3. k + 1 \in 1..n
    BY <1>1
  <2>4. it[1..(k + 1)] = step[<<k + 1, it[1..k]>>]
    BY <1>1, <2>1, <2>2
  <2> QED
    BY <1>1, <2>3, <2>4
<1>2. 0 \in S
  <2>1. 1..0 = {}
    OBVIOUS
  <2> QED
    BY <2>1
<1>3. ASSUME NEW k \in Nat, k \in S PROVE k + 1 \in S
  <2>1. CASE k + 1 <= n
    <3>1. k < n /\ it[1..k] \in X
      BY <1>3, <2>1
    <3>2. it[1..(k + 1)] \in X
      BY <1>1, <3>1
    <3> QED
      BY <3>2
  <2>2. CASE ~(k + 1 <= n)
    BY <2>2
  <2> QED
    BY <2>1, <2>2
<1>4. Nat \subseteq S
  <2> HIDE DEF S
  <2> QED
    BY <1>2, <1>3, Induction
<1>5. \A k \in 0..n : it[1..k] \in X
  BY <1>4
<1>6. p[0] = base
  <2>1. 1..0 = {}
    OBVIOUS
  <2> QED
    BY <2>1
<1>7. ASSUME NEW i \in 1..n PROVE p[i] = step[<<i, p[i - 1]>>]
  <2>1. i - 1 \in Nat /\ i - 1 < n /\ (i - 1) + 1 = i
    OBVIOUS
  <2> QED
    BY <1>1, <1>5, <2>1
<1> QED
  BY <1>5, <1>6, <1>7 DEF Recurs

-----------------------------------------------------------------------------
(***************************************************************************)
(* Inputs that are cleaned, names of files, passwords, the tables of roles *)
(* and statuses, tokens and headers.                                       *)
(***************************************************************************)
\* The smallest of a set of numbers.
LEMMA SmallestNumber ==
  ASSUME NEW s \in SUBSET Nat, s # {}
  PROVE  /\ Min(s) \in s
         /\ \A i \in s : Min(s) <= i
<1> DEFINE S == {k \in Nat : (\E i \in s : i <= k) => \E m \in s : \A i \in s : m <= i}
<1>1. 0 \in S
  OBVIOUS
<1>2. ASSUME NEW k \in Nat, k \in S PROVE k + 1 \in S
  <2> SUFFICES ASSUME NEW j \in s, j <= k + 1
               PROVE  \E m \in s : \A i \in s : m <= i
    BY k + 1 \in Nat
  <2>1. CASE \E i \in s : i <= k
    BY <1>2, <2>1
  <2>2. CASE ~\E i \in s : i <= k
    <3>1. \A i \in s : j <= i
      BY <2>2
    <3> QED
      BY <3>1
  <2> QED
    BY <2>1, <2>2
<1>3. Nat \subseteq S
  <2> HIDE DEF S
  <2> QED
    BY <1>1, <1>2, Induction
<1>4. PICK j \in s : TRUE
  OBVIOUS
<1>5. \E m \in s : \A i \in s : m <= i
  <2>1. j \in S
    BY <1>3, <1>4
  <2> QED
    BY <1>4, <2>1
<1> QED
  BY <1>5 DEF Min

\* A piece of a sequence.
LEMMA Piece ==
  ASSUME NEW X, NEW s \in Seq(X), NEW m \in Nat, NEW n \in Nat,
         1 <= m, m <= n + 1, n <= Len(s)
  PROVE  /\ SubSeq(s, m, n) \in Seq(X)
         /\ Len(SubSeq(s, m, n)) = n - m + 1
         /\ \A i \in 1..(n - m + 1) : SubSeq(s, m, n)[i] = s[m + i - 1]
<1>1. \A i \in m..n : s[i] \in X
  BY LenProperties, ElementOfSeq
<1>2. /\ SubSeq(s, m, n) \in Seq(X)
      /\ Len(SubSeq(s, m, n)) = IF m <= n THEN n - m + 1 ELSE 0
      /\ \A i \in 1..(n - m + 1) : SubSeq(s, m, n)[i] = s[m + i - 1]
  <2>1. m \in Int /\ n \in Int
    OBVIOUS
  <2> QED
    BY <1>1, <2>1, SubSeqProperties
<1> QED
  BY <1>2

\* What is trimmed begins and ends with something solid.
LEMMA TrimFacts ==
  ASSUME NEW X, NEW s \in Seq(X)
  PROVE  /\ Trim(s) \in Seq(X)
         /\ Trim(s) # <<>> => /\ Trim(s)[1] # Space
                              /\ Trim(s)[Len(Trim(s))] # Space
<1> DEFINE solid == {i \in DOMAIN s : s[i] # Space}
<1>1. DOMAIN s = 1..Len(s) /\ Len(s) \in Nat
  BY LenProperties
<1>2. CASE solid = {}
  BY <1>2, EmptySeq DEF Trim
<1>3. CASE solid # {}
  <2>1. Min(solid) \in solid /\ Max(solid) \in solid /\ Min(solid) <= Max(solid)
    <3>1. solid \in SUBSET Nat /\ solid \in SUBSET (1..Len(s))
      BY <1>1
    <3> HIDE DEF solid
    <3>2. Max(solid) \in solid
      BY <1>1, <1>3, <3>1, LargestIndex
    <3>3. Min(solid) \in solid /\ \A i \in solid : Min(solid) <= i
      BY <1>3, <3>1, SmallestNumber
    <3> QED
      BY <3>2, <3>3
  <2> DEFINE a == Min(solid)
             b == Max(solid)
  <2>2. /\ a \in Nat /\ b \in Nat /\ 1 <= a /\ a <= b /\ b <= Len(s)
        /\ s[a] # Space /\ s[b] # Space
    BY <1>1, <2>1
  <2>3. Trim(s) = SubSeq(s, a, b)
    BY <1>3 DEF Trim
  <2> HIDE DEF a, b
  <2>4. /\ SubSeq(s, a, b) \in Seq(X)
        /\ Len(SubSeq(s, a, b)) = b - a + 1
        /\ \A i \in 1..(b - a + 1) : SubSeq(s, a, b)[i] = s[a + i - 1]
    BY <2>2, Piece, a <= b + 1
  <2>5. 1 \in 1..(b - a + 1) /\ b - a + 1 \in 1..(b - a + 1)
        /\ a + 1 - 1 = a /\ a + (b - a + 1) - 1 = b
    BY <2>2
  <2> QED
    BY <2>2, <2>3, <2>4, <2>5
<1> QED
  BY <1>2, <1>3

\* What begins and ends with something solid is trimmed.
LEMMA TrimmedStays ==
  ASSUME NEW X, NEW t \in Seq(X),
         t # <<>> => t[1] # Space /\ t[Len(t)] # Space
  PROVE  Trim(t) = t
<1> DEFINE solid == {i \in DOMAIN t : t[i] # Space}
<1>1. DOMAIN t = 1..Len(t) /\ Len(t) \in Nat
  BY LenProperties
<1>2. CASE t = <<>>
  <2>1. solid = {}
    BY <1>1, <1>2, EmptySeq
  <2> QED
    BY <1>2, <2>1 DEF Trim
<1>3. CASE t # <<>>
  <2>1. Len(t) \in Nat /\ 1 <= Len(t)
    BY <1>3, EmptySeq
  <2>2. 1 \in solid /\ Len(t) \in solid /\ solid \in SUBSET Nat /\ solid \in SUBSET (1..Len(t))
    BY <1>1, <1>3, <2>1
  <2> HIDE DEF solid
  <2>3. Min(solid) \in solid /\ \A i \in solid : Min(solid) <= i
    BY <2>2, SmallestNumber
  <2>4. Max(solid) \in solid /\ \A i \in solid : i <= Max(solid)
    BY <2>1, <2>2, LargestIndex
  <2>5. Min(solid) = 1 /\ Max(solid) = Len(t)
    <3>1. Min(solid) \in 1..Len(t) /\ Max(solid) \in 1..Len(t)
      BY <2>2, <2>3, <2>4
    <3>2. Min(solid) <= 1 /\ Len(t) <= Max(solid)
      BY <2>2, <2>3, <2>4
    <3> QED
      BY <2>1, <3>1, <3>2
  <2>6. Trim(t) = SubSeq(t, 1, Len(t))
    BY <2>2, <2>5 DEF Trim, solid
  <2> QED
    BY <2>6, SubSeqFull
<1> QED
  BY <1>2, <1>3

\* What was cleaned stays as it is, unless the cut left a space at its end.
LEMMA InputsStayClean ==
  ASSUME MaxInput \in Nat, NEW X, NEW s \in Seq(X) PROVE InputsCleaned(s)
<1> DEFINE t == Trim(s)
           clean == SanitizeInput(s)
<1>1. t \in Seq(X) /\ (t # <<>> => t[1] # Space /\ t[Len(t)] # Space)
  BY TrimFacts
<1>2. Len(t) \in Nat
  BY <1>1, LenProperties
<1>3. CASE ~(Len(t) > MaxInput)
  <2>1. clean = t
    BY <1>3 DEF SanitizeInput
  <2>2. Trim(t) = t
    BY <1>1, TrimmedStays
  <2>3. SanitizeInput(t) = t
    <3> HIDE DEF t
    <3> QED
      BY <1>3, <2>2 DEF SanitizeInput
  <2> HIDE DEF t, clean
  <2> QED
    BY <1>2, <1>3, <2>1, <2>3 DEF InputsCleaned, clean
<1>4. CASE Len(t) > MaxInput
  <2>1. clean = SubSeq(t, 1, MaxInput)
    BY <1>4 DEF SanitizeInput
  <2> HIDE DEF t, clean
  <2>2. /\ clean \in Seq(X)
        /\ Len(clean) = MaxInput
        /\ \A i \in 1..MaxInput : clean[i] = t[i]
    <3>1. /\ SubSeq(t, 1, MaxInput) \in Seq(X)
          /\ Len(SubSeq(t, 1, MaxInput)) = MaxInput - 1 + 1
          /\ \A i \in 1..(MaxInput - 1 + 1) : SubSeq(t, 1, MaxInput)[i] = t[1 + i - 1]
      BY <1>1, <1>2, <1>4, Piece, 1 \in Nat, 1 <= MaxInput + 1, MaxInput <= Len(t)
    <3>2. MaxInput - 1 + 1 = MaxInput /\ \A i \in 1..MaxInput : 1 + i - 1 = i
      OBVIOUS
    <3> QED
      BY <2>1, <3>1, <3>2
  <2>3. ASSUME Last(clean) # Space PROVE SanitizeInput(clean) = clean
    <3>1. clean # <<>> => clean[1] # Space /\ clean[Len(clean)] # Space
      <4> SUFFICES ASSUME clean # <<>> PROVE clean[1] # Space /\ clean[Len(clean)] # Space
        OBVIOUS
      <4>1. 1 \in 1..MaxInput
        BY <2>2, EmptySeq
      <4>2. clean[1] = t[1] /\ t # <<>>
        BY <1>2, <1>4, <2>2, <4>1, EmptySeq
      <4> QED
        BY <1>1, <2>3, <4>2 DEF Last
    <3>2. Trim(clean) = clean
      BY <2>2, <3>1, TrimmedStays
    <3> QED
      BY <2>2, <3>2 DEF SanitizeInput
  <2>4. Len(Trim(s)) > MaxInput
    BY <1>4 DEF t
  <2> QED
    BY <2>2, <2>3, <2>4 DEF InputsCleaned, clean
<1> QED
  BY <1>2, <1>3, <1>4

\* A safe name is one component, that is neither the directory nor its parent.
LEMMA FilenamesAreSafe ==
  ASSUME NEW X, NEW name \in Seq(X) PROVE FilenamesHold(name)
<1> SUFFICES ASSUME IsSafeFilename(name)
             PROVE  /\ Components(name) = {name}
                    /\ name \notin {<<>>, <<Period>>, <<Period, Period>>}
  BY DEF FilenamesHold
<1>1. /\ name # <<>> /\ name[1] # Period
      /\ \A i \in DOMAIN name : name[i] \notin {Slash, Backslash, Nul}
  BY DEF IsSafeFilename
<1>2. DOMAIN name = 1..Len(name) /\ Len(name) \in Nat
  BY LenProperties
<1> DEFINE n == Len(name)
           cuts == {0, n + 1} \cup {i \in DOMAIN name : name[i] \in {Slash, Backslash}}
<1>3. cuts = {0, n + 1}
  BY <1>1
<1>4. {j \in {0, n + 1} : j > 0} = {n + 1}
  BY <1>2
<1>5. Min({n + 1}) = n + 1
  <2>1. {n + 1} \in SUBSET Nat
    BY <1>2
  <2> QED
    BY <2>1, SmallestNumber
<1>6. SubSeq(name, 0 + 1, (n + 1) - 1) = name
  <2>1. 0 + 1 = 1 /\ (n + 1) - 1 = n
    BY <1>2
  <2> QED
    BY <2>1, SubSeqFull
<1>7. Components(name) = {name}
  <2> DEFINE Cut(cs) ==
               {SubSeq(name, i + 1, Min({j \in cs : j > i}) - 1) : i \in cs \ {n + 1}}
  <2>1. Components(name) = Cut(cuts)
    BY DEF Components
  <2>2. {0, n + 1} \ {n + 1} = {0}
    BY <1>2
  <2>3. Components(name) =
          {SubSeq(name, i + 1, Min({j \in {0, n + 1} : j > i}) - 1) : i \in {0}}
    <3>1. Cut(cuts) = Cut({0, n + 1})
      <4> HIDE DEF cuts, Cut
      <4> QED
        BY <1>3
    <3> QED
      BY ONLY <2>1, <2>2, <3>1
  <2>4. SubSeq(name, 0 + 1, Min({j \in {0, n + 1} : j > 0}) - 1) = name
    BY <1>4, <1>5, <1>6
  <2>5. {SubSeq(name, i + 1, Min({j \in {0, n + 1} : j > i}) - 1) : i \in {0}}
          = {SubSeq(name, 0 + 1, Min({j \in {0, n + 1} : j > 0}) - 1)}
    BY ONLY TRUE
  <2> QED
    BY ONLY <2>3, <2>4, <2>5
<1>8. name # <<Period>> /\ name # <<Period, Period>>
  BY <1>1
<1> QED
  BY <1>1, <1>7, <1>8

\* The first letters of a text, one by one.
LEMMA StartsOf ==
  ASSUME NEW X, NEW text \in Seq(X), NEW i \in 0..Len(text)
  PROVE  /\ SubSeq(text, 1, i) \in Seq(X)
         /\ Len(SubSeq(text, 1, i)) = i
         /\ \A j \in 1..i : SubSeq(text, 1, i)[j] = text[j]
         /\ i = 0 => SubSeq(text, 1, i) = <<>>
         /\ i # 0 => /\ i - 1 \in 0..Len(text)
                     /\ text[i] \in X
                     /\ SubSeq(text, 1, i) = Append(SubSeq(text, 1, i - 1), text[i])
<1>1. Len(text) \in Nat /\ i \in Nat
  BY LenProperties
<1>2. ASSUME NEW k \in Nat, k <= Len(text)
      PROVE  /\ SubSeq(text, 1, k) \in Seq(X)
             /\ Len(SubSeq(text, 1, k)) = k
             /\ \A j \in 1..k : SubSeq(text, 1, k)[j] = text[j]
  <2>1. 1 \in Nat /\ 1 <= 1
    OBVIOUS
  <2>2. 1 <= k + 1
    OBVIOUS
  <2>3. /\ SubSeq(text, 1, k) \in Seq(X)
        /\ Len(SubSeq(text, 1, k)) = k - 1 + 1
        /\ \A j \in 1..(k - 1 + 1) : SubSeq(text, 1, k)[j] = text[1 + j - 1]
    BY ONLY <2>1, <2>2, <1>2, k \in Nat, text \in Seq(X), Piece
  <2> QED
    BY <2>3
<1>3. /\ SubSeq(text, 1, i) \in Seq(X)
      /\ Len(SubSeq(text, 1, i)) = i
      /\ \A j \in 1..i : SubSeq(text, 1, i)[j] = text[j]
  BY <1>1, <1>2
<1>4. i = 0 => SubSeq(text, 1, i) = <<>>
  BY <1>3, EmptySeq
<1>5. ASSUME i # 0
      PROVE  /\ i - 1 \in 0..Len(text)
             /\ text[i] \in X
             /\ SubSeq(text, 1, i) = Append(SubSeq(text, 1, i - 1), text[i])
  <2>1. PICK k \in Nat : k = i - 1
    BY <1>1, <1>5
  <2>2. k <= Len(text) /\ i = k + 1 /\ i \in 1..Len(text) /\ k \in 0..Len(text)
    BY <1>1, <2>1
  <2>3. text[i] \in X
    BY <2>2, ElementOfSeq
  <2> DEFINE s == SubSeq(text, 1, k)
             t == SubSeq(text, 1, i)
  <2>4. s \in Seq(X) /\ Len(s) = k /\ \A j \in 1..k : s[j] = text[j]
    BY <1>2, <2>2
  <2>5. t \in Seq(X) /\ Len(t) = k + 1 /\ \A j \in 1..(k + 1) : t[j] = text[j]
    BY <1>3, <2>2
  <2> HIDE DEF s, t
  <2>6. /\ Append(s, text[i]) \in Seq(X)
        /\ Len(Append(s, text[i])) = Len(s) + 1
        /\ \A j \in 1..Len(s) : Append(s, text[i])[j] = s[j]
        /\ Append(s, text[i])[Len(s) + 1] = text[i]
    BY ONLY <2>3, <2>4, AppendProperties
  <2>7. \A j \in 1..Len(t) : t[j] = Append(s, text[i])[j]
    <3> SUFFICES ASSUME NEW j \in 1..Len(t) PROVE t[j] = Append(s, text[i])[j]
      OBVIOUS
    <3>1. CASE j = k + 1
      BY <2>2, <2>4, <2>5, <2>6, <3>1
    <3>2. CASE j # k + 1
      <4>1. j \in 1..k /\ j \in 1..(k + 1)
        BY <2>5, <3>2
      <4> QED
        BY <2>4, <2>5, <2>6, <4>1
    <3> QED
      BY <3>1, <3>2
  <2>8. t = Append(s, text[i])
    BY <2>4, <2>5, <2>6, <2>7, SeqEqual
  <2> QED
    BY <2>1, <2>2, <2>3, <2>8 DEF s, t
<1> QED
  BY <1>3, <1>4, <1>5

\* A password that passes has five characters at least, and fewer than eight only
\* with wide ones among them.
LEMMA PasswordsAreStrong ==
  ASSUME NEW count \in [Classes -> Nat] PROVE PasswordsHold(count)
<1>1. /\ count["upper"] \in Nat /\ count["lower"] \in Nat /\ count["digit"] \in Nat
      /\ count["special"] \in Nat /\ count["wide"] \in Nat
  BY DEF Classes
<1> QED
  BY <1>1 DEF PasswordsHold, IsStrongPassword, Characters, Bytes

\* The two tables of roles agree, and so do the codes and the statuses.
LEMMA TablesAgree == LevelsAgree /\ StatusesAgree
<1>1. LevelsAgree
  <2>1. \A code \in DOMAIN SystemRoles : SystemRoles[code] = RoleLevels[code]
    BY DEF SystemRoles, RoleLevels
  <2>2. {SystemRoles[code] : code \in DOMAIN SystemRoles} = 1..10
    BY DEF SystemRoles
  <2>3. Cardinality(DOMAIN SystemRoles) = 10
    <3> DEFINE codes == {"level_1", "level_2", "guest", "level_4", "user", "level_6",
                         "level_7", "level_8", "level_9", "admin"}
               place == [n \in 1..10 |-> CHOOSE c \in codes : SystemRoles[c] = n]
    <3>1. DOMAIN SystemRoles = codes
      BY DEF SystemRoles
    <3>2. \A n \in 1..10 : \E c \in codes : SystemRoles[c] = n
      BY DEF SystemRoles
    <3>3. \A c, d \in codes : SystemRoles[c] = SystemRoles[d] => c = d
      BY DEF SystemRoles
    <3>4. \A c \in codes : SystemRoles[c] \in 1..10
      BY DEF SystemRoles
    <3> HIDE DEF codes
    <3>5. \A n \in 1..10 : place[n] \in codes /\ SystemRoles[place[n]] = n
      BY <3>2
    <3>6. place \in Bijection(1..10, codes)
      <4>1. place \in [1..10 -> codes]
        BY <3>5
      <4>2. \A i, j \in 1..10 : place[i] = place[j] => i = j
        BY <3>5
      <4>3. \A c \in codes : place[SystemRoles[c]] = c
        BY <3>3, <3>4, <3>5
      <4> HIDE DEF place
      <4> QED
        BY <3>4, <4>1, <4>2, <4>3 DEF Bijection, Injection, Surjection, IsInjective
    <3>7. Cardinality(codes) = 10
      <4>1. ExistsBijection(1..10, codes)
        BY <3>6 DEF ExistsBijection
      <4> QED
        BY ONLY <4>1, 10 \in Nat, FS_CountingElements
    <3> QED
      BY <3>1, <3>7
  <2>4. \A level \in 1..10 : RoleLevels[FromLevel(level)] = level
    BY DEF RoleLevels, FromLevel
  <2>5. \A a \in DOMAIN RoleLevels : RoleLevels[a] \in Nat
    BY DEF RoleLevels
  <2>6. \A a, b \in DOMAIN RoleLevels :
          HasPermission(a, b) /\ HasPermission(b, a) <=> RoleLevels[a] = RoleLevels[b]
    BY <2>5 DEF HasPermission
  <2> QED
    BY <2>1, <2>2, <2>3, <2>4, <2>6 DEF LevelsAgree
<1>2. StatusesAgree
  BY DEF StatusesAgree, StatusCode, ErrorResponse, ErrorCodes, IsInjective
<1> QED
  BY <1>1, <1>2

\* A refresh keeps the subject, the role and at most the permissions of the token it
\* is called with; who is let in on a path that is not public has a token that is
\* signed and not over.
LEMMA TokensKeepUsers ==
  ASSUME NEW token, token.now \in Nat, token.wait \in Nat,
         token.ttl.access \in Nat, token.ttl.refresh \in Nat
  PROVE  TokensHold(token)
<1> DEFINE first == Issue(token.sub, token.role, token.granted, token.now, token.ttl)
           given == IF token.refreshes = "access" THEN token.granted ELSE {}
           lives == IF token.refreshes = "access" THEN token.ttl.access ELSE token.ttl.refresh
           later == token.now + token.wait
           used  == IF token.refreshes = "access" THEN first.access_token
                    ELSE first.refresh_token
           pairs == Refresh(used, later, token.ttl)
<1>1. used = Claims(token.sub, token.role, given, token.now + lives)
  BY DEF Issue
<1>2. lives \in Nat /\ later \in Nat
  OBVIOUS
<1> HIDE DEF used, lives
<1>3. /\ Verify(used, later) <=> token.wait <= lives
      /\ pairs = IF Verify(used, later) THEN {Issue(token.sub, token.role, given, later, token.ttl)}
                 ELSE {}
  BY <1>1, <1>2 DEF Verify, Claims, Refresh
<1> HIDE DEF given, pairs, first
<1>4. ASSUME NEW pair \in pairs
      PROVE  LET answer == Authenticate(token.public, token.path,
                                        Presented(token.presents, pair), later + token.wait)
                 open   == \E p \in token.public : IsPrefix(p, token.path)
             IN  /\ pair.access_token.permissions = given
                 /\ pair.refresh_token.permissions = {}
                 /\ answer.handled <=>
                      \/ open
                      \/ token.presents = "token" /\ token.wait <= token.ttl.access
                 /\ answer.handled /\ open => answer.user = Nobody
                 /\ answer.handled /\ ~open =>
                      /\ answer.user.user_id \in {token.sub, NilUuid}
                      /\ HasRole(answer.user, token.role)
                      /\ \A p \in token.granted \cup {Wildcard} :
                           UserHasPermission(answer.user, p) <=> p \in given \/ Wildcard \in given
  <2> DEFINE claims == Presented(token.presents, pair)
             answer == Authenticate(token.public, token.path, claims, later + token.wait)
             open   == \E p \in token.public : IsPrefix(p, token.path)
             access == Claims(token.sub, token.role, given, later + token.ttl.access)
  <2>1. /\ pair.access_token = access
        /\ pair.refresh_token = Claims(token.sub, token.role, {}, later + token.ttl.refresh)
    BY <1>3 DEF Issue
  <2>2. /\ pair.access_token.permissions = given /\ pair.refresh_token.permissions = {}
    BY <2>1 DEF Claims
  <2>3. open <=> IsPublicPath(token.public, token.path)
    BY DEF IsPublicPath
  <2>4. CASE open
    <3>1. answer = Handles(Nobody)
      BY <2>3, <2>4 DEF Authenticate
    <3> QED
      BY <2>2, <2>4, <3>1 DEF Handles
  <2>5. CASE ~open /\ token.presents = "token"
    <3>1. claims = access
      BY <2>1, <2>5 DEF Presented
    <3>2. /\ claims # NoToken => answer = IF Verify(claims, later + token.wait)
                                         THEN Handles(FromClaims(claims))
                                         ELSE Unauthorized("JWT verify failed")
      BY <2>3, <2>5 DEF Authenticate
    <3>3. Verify(access, later + token.wait) <=> token.wait <= token.ttl.access
      BY <1>2 DEF Verify, Claims
    <3>4. access # NoToken
      BY DEF Claims, NoToken
    <3>5. CASE token.wait <= token.ttl.access
      <4>1. answer = Handles(FromClaims(access))
        BY <3>1, <3>2, <3>3, <3>4, <3>5
      <4>2. /\ FromClaims(access).user_id \in {token.sub, NilUuid}
            /\ FromClaims(access).role = token.role
            /\ FromClaims(access).permissions = given
        BY DEF FromClaims, Claims
      <4>3. answer.handled /\ answer.user = FromClaims(access)
        BY <4>1 DEF Handles
      <4> HIDE DEF answer, access
      <4>4. /\ HasRole(answer.user, token.role)
            /\ \A p \in token.granted \cup {Wildcard} :
                 UserHasPermission(answer.user, p) <=> p \in given \/ Wildcard \in given
        BY <4>2, <4>3 DEF HasRole, UserHasPermission
      <4> QED
        BY <2>2, <2>5, <3>5, <4>2, <4>3, <4>4 DEF answer
    <3>6. CASE ~(token.wait <= token.ttl.access)
      <4>1. answer = Unauthorized("JWT verify failed")
        BY <3>1, <3>2, <3>3, <3>4, <3>6
      <4>2. Unauthorized("JWT verify failed").handled = FALSE
        BY DEF Unauthorized
      <4> HIDE DEF answer, access, open
      <4>3. ~answer.handled
        BY <4>1, <4>2
      <4> QED
        BY <2>2, <2>5, <3>6, <4>3 DEF answer, open
    <3> QED
      BY <3>5, <3>6
  <2>6. CASE ~open /\ token.presents # "token"
    <3>1. claims # NoToken => ~Verify(claims, later + token.wait)
      BY <2>1, <2>6 DEF Presented, Verify, Claims
    <3>2. answer.handled = FALSE
      BY <2>3, <2>6, <3>1 DEF Authenticate, Unauthorized
    <3> QED
      BY <2>2, <2>6, <3>2
  <2> QED
    BY <2>4, <2>5, <2>6
<1>5. pairs # {} <=> token.wait <= lives
  BY <1>3
<1> QED
  BY <1>4, <1>5 DEF TokensHold, first, given, lives, used, pairs

\* Configured headers replace the handler's, the outer layer has its way.
LEMMA HeadersReplaced ==
  ASSUME NotFound \notin HeaderValues, Unsendable \notin HeaderValues,
         NEW headers \in [HeaderNames -> HeaderValues \cup {NotFound, Unsendable}],
         NEW inner \in [HeaderNames -> HeaderValues \cup {NotFound, Unsendable}],
         NEW outer \in [HeaderNames -> HeaderValues \cup {NotFound, Unsendable}],
         \A h \in HeaderNames : headers[h] # Unsendable
  PROVE  HeadersHold(headers, inner, outer)
<1> DEFINE once  == ApplySecurityHeaders(headers, inner)
           twice == ApplySecurityHeaders(once, outer)
<1>1. \A h \in HeaderNames :
        once[h] = IF inner[h] \in {NotFound, Unsendable} THEN headers[h] ELSE inner[h]
  BY DEF ApplySecurityHeaders
<1>2. \A h \in HeaderNames :
        twice[h] = IF outer[h] \in {NotFound, Unsendable} THEN once[h] ELSE outer[h]
  BY DEF ApplySecurityHeaders
<1>3. once = [h \in HeaderNames |-> once[h]]
  BY DEF ApplySecurityHeaders
<1>4. ApplySecurityHeaders(once, inner) = once
  <2>1. \A h \in HeaderNames :
          (IF inner[h] \in {NotFound, Unsendable} THEN once[h] ELSE inner[h]) = once[h]
    BY <1>1
  <2> HIDE DEF once
  <2> QED
    BY <1>3, <2>1 DEF ApplySecurityHeaders
<1>5. ASSUME NEW h \in HeaderNames
      PROVE  ApplySecurityHeaders(once, SwitchedOff(outer, h))[h] = once[h]
  <2>1. SwitchedOff(outer, h)[h] = NotFound
    BY DEF SwitchedOff
  <2> HIDE DEF once
  <2> QED
    BY <2>1 DEF ApplySecurityHeaders
<1> HIDE DEF once, twice
<1>6. ASSUME NEW h \in HeaderNames
      PROVE  /\ inner[h] \in HeaderValues => once[h] = inner[h]
             /\ twice[h] \in {outer[h], inner[h], headers[h]}
             /\ outer[h] \in HeaderValues => twice[h] = outer[h]
             /\ once[h] # Unsendable
  BY <1>1, <1>2
<1> QED
  BY <1>4, <1>5, <1>6 DEF HeadersHold, once, twice

-----------------------------------------------------------------------------
(***************************************************************************)
(* Digits: octets of addresses and the check character of identity cards.  *)
(***************************************************************************)
\* The value of digits, digit by digit.
LEMMA ValueAlong ==
  ASSUME NEW ds \in Seq(Digit)
  PROVE  \E v : /\ v \in [0..Len(ds) -> Nat]
                /\ v[0] = 0
                /\ \A i \in 1..Len(ds) : v[i] = 10 * v[i - 1] + ds[i]
                /\ Value(ds) = v[Len(ds)]
<1> DEFINE n == Len(ds)
           step == [is \in (1..n) \X Nat |-> 10 * is[2] + ds[is[1]]]
           Eq(f) == f = [s \in SUBSET DOMAIN ds |->
                           IF s = {} THEN 0 ELSE 10 * f[s \ {Max(s)}] + ds[Max(s)]]
           it == CHOOSE f : Eq(f)
<1>1. n \in Nat /\ DOMAIN ds = 1..n /\ \A i \in 1..n : ds[i] \in Digit
  BY LenProperties, ElementOfSeq
<1>2. step \in [(1..n) \X Nat -> Nat]
  BY <1>1 DEF Digit
<1>3. \A s \in SUBSET (1..n) : s # {} => Max(s) \in 1..n /\ s \ {Max(s)} \in SUBSET (1..n)
  BY <1>1, LargestIndex
<1>4. \E f : Eq(f)
  <2>1. PICK g : Folds(g, n, Nat, 0, step)
    <3> HIDE DEF step
    <3> QED
      BY <1>1, <1>2, FoldRecursion
  <2>2. ASSUME NEW s \in SUBSET (1..n)
        PROVE  g[s] = IF s = {} THEN 0 ELSE 10 * g[s \ {Max(s)}] + ds[Max(s)]
    BY <1>3, <2>1 DEF Folds
  <2>3. Eq(g)
    BY <1>1, <2>1, <2>2 DEF Folds
  <2> QED
    BY <2>3
<1>5. Eq(it)
  BY <1>4
<1>6. Value(ds) = it[1..n]
  BY <1>1 DEF Value, FoldLeft, MapThenFoldSet
<1>7. it[{}] = 0
  BY <1>1, <1>5
<1>8. \A s \in SUBSET (1..n) : s # {} => it[s] = 10 * it[s \ {Max(s)}] + ds[Max(s)]
  BY <1>1, <1>5
<1>9. \A s \in SUBSET (1..n) :
         s # {} /\ it[s \ {Max(s)}] \in Nat => it[s] = step[<<Max(s), it[s \ {Max(s)}]>>]
  <2> SUFFICES ASSUME NEW s \in SUBSET (1..n), s # {}, it[s \ {Max(s)}] \in Nat
               PROVE  it[s] = step[<<Max(s), it[s \ {Max(s)}]>>]
    OBVIOUS
  <2>1. <<Max(s), it[s \ {Max(s)}]>> \in (1..n) \X Nat
    BY <1>3
  <2> HIDE DEF it
  <2>2. step[<<Max(s), it[s \ {Max(s)}]>>] = 10 * it[s \ {Max(s)}] + ds[Max(s)]
    BY <2>1
  <2> QED
    BY <1>8, <2>2
<1> DEFINE v == [i \in 0..n |-> it[1..i]]
<1>10. Recurs(v, n, Nat, 0, step)
  <2>1. v = [i \in 0..n |-> it[1..i]]
    OBVIOUS
  <2> HIDE DEF step, it, v
  <2> QED
    BY ONLY <1>1, <1>2, <1>7, <1>9, 0 \in Nat, <2>1, FoldAlong
<1>11. v[n] = Value(ds)
  BY <1>1, <1>6
<1> HIDE DEF v
<1>12. v \in [0..n -> Nat] /\ v[0] = 0 /\ \A i \in 1..n : v[i] = step[<<i, v[i - 1]>>]
  BY <1>10 DEF Recurs
<1>13. ASSUME NEW i \in 1..n PROVE v[i] = 10 * v[i - 1] + ds[i]
  <2>1. <<i, v[i - 1]>> \in (1..n) \X Nat
    BY <1>1, <1>12
  <2> QED
    BY <1>12, <2>1
<1> QED
  BY <1>11, <1>12, <1>13

\* The pattern of an octet takes the numbers up to 255 and no others.
LEMMA OctetsAreBytes ==
  ASSUME NEW ds \in Seq(Digit) PROVE OctetsHold(ds)
<1>1. PICK v : /\ v \in [0..Len(ds) -> Nat]
               /\ v[0] = 0
               /\ \A i \in 1..Len(ds) : v[i] = 10 * v[i - 1] + ds[i]
               /\ Value(ds) = v[Len(ds)]
  BY ValueAlong
<1>2. Len(ds) \in Nat /\ \A i \in 1..Len(ds) : ds[i] \in 0..9
  BY LenProperties, ElementOfSeq DEF Digit
<1>3. CASE Len(ds) = 1
  <2>1. v[1] = ds[1] /\ ds[1] \in 0..9
    BY <1>1, <1>2, <1>3
  <2>2. Value(ds) = ds[1]
    BY <1>1, <1>3, <2>1
  <2> QED
    BY ONLY <1>3, <2>1, <2>2 DEF OctetsHold, IsOctet
<1>4. CASE Len(ds) = 2
  <2>1. v[1] = ds[1] /\ v[2] = 10 * ds[1] + ds[2] /\ ds[1] \in 0..9 /\ ds[2] \in 0..9
    BY <1>1, <1>2, <1>4
  <2>2. Value(ds) = 10 * ds[1] + ds[2]
    BY <1>1, <1>4, <2>1
  <2>3. IsOctet(ds)
    BY <1>4 DEF IsOctet
  <2> PICK a \in 0..9, b \in 0..9 : a = ds[1] /\ b = ds[2]
    BY <2>1
  <2>4. Value(ds) = 10 * a + b
    BY <2>2
  <2>6. 10 * a + b <= 255
    BY ONLY a \in 0..9, b \in 0..9
  <2>5. Len(ds) \in 1..3
    BY <1>4
  <2> QED
    BY <2>3, <2>4, <2>5, <2>6 DEF OctetsHold
<1>5. CASE Len(ds) = 3
  <2>1. /\ v[3] = 10 * (10 * ds[1] + ds[2]) + ds[3]
        /\ ds[1] \in 0..9 /\ ds[2] \in 0..9 /\ ds[3] \in 0..9
    <3>1. v[1] = ds[1] /\ v[2] = 10 * v[1] + ds[2] /\ v[3] = 10 * v[2] + ds[3]
      BY <1>1, <1>2, <1>5
    <3> QED
      BY <1>2, <1>5, <3>1
  <2>2. Value(ds) = 10 * (10 * ds[1] + ds[2]) + ds[3]
    BY <1>1, <1>5, <2>1
  <2> PICK a \in 0..9, b \in 0..9, c \in 0..9 : a = ds[1] /\ b = ds[2] /\ c = ds[3]
    BY <2>1
  <2> DEFINE Taken == \/ a = 2 /\ b = 5 /\ c \in 0..5
                      \/ a = 2 /\ b \in 0..4
                      \/ a \in {0, 1}
  <2>3. IsOctet(ds) <=> Taken
    BY <1>5 DEF IsOctet
  <2>4. Value(ds) = 100 * a + 10 * b + c
    BY <2>2
  <2>5. Taken <=> 100 * a + 10 * b + c <= 255
    BY ONLY a \in 0..9, b \in 0..9, c \in 0..9
  <2>6. Len(ds) \in 1..3
    BY <1>5
  <2> QED
    BY <2>3, <2>4, <2>5, <2>6 DEF OctetsHold
<1>6. CASE Len(ds) \notin 1..3
  BY <1>6 DEF OctetsHold, IsOctet
<1> QED
  BY <1>2, <1>3, <1>4, <1>5, <1>6

\* The weighted sum of the digits before the check character.
CheckSum(digits) ==
  FoldLeftDomain(LAMBDA sum, i : sum + digits[i] * Weights[i], 0, digits)

\* The weights are none of them zero, and no two neighbours are the same.
LEMMA WeightsFacts ==
  /\ \A i \in 1..17 : Weights[i] \in 1..10
  /\ \A i \in 1..16 : Weights[i] # Weights[i + 1]
<1>1. \A i \in 1..17 : Weights[i] \in 1..10
  BY DEF Weights
<1>2. \A i \in 1..16 : Weights[i] # Weights[i + 1]
  BY DEF Weights
<1> QED
  BY <1>1, <1>2

\* The products of two numbers, as a number.
LEMMA ProductOfNats ==
  ASSUME NEW a \in Nat, NEW b \in Nat PROVE a * b \in Nat
OBVIOUS

\* The weighted sum, digit by digit.
LEMMA CheckSumAlong ==
  ASSUME NEW digits \in [1..17 -> Digit]
  PROVE  \E v : /\ v \in [0..17 -> Nat]
                /\ v[0] = 0
                /\ \A i \in 1..17 : v[i] = v[i - 1] + digits[i] * Weights[i]
                /\ CheckSum(digits) = v[17]
<1> DEFINE ix == [i \in DOMAIN digits |-> i]
           c == [i \in 1..17 |-> digits[i] * Weights[i]]
           step == [is \in (1..17) \X Nat |-> is[2] + c[is[1]]]
           Eq(f) == f = [s \in SUBSET DOMAIN ix |->
                           IF s = {} THEN 0
                           ELSE f[s \ {Max(s)}] + digits[ix[Max(s)]] * Weights[ix[Max(s)]]]
           it == CHOOSE f : Eq(f)
<1>1. DOMAIN ix = 1..17 /\ \A i \in 1..17 : ix[i] = i
  OBVIOUS
<1>2. \A i \in 1..17 : c[i] \in Nat /\ c[i] = digits[i] * Weights[i]
  <2> SUFFICES ASSUME NEW i \in 1..17 PROVE digits[i] * Weights[i] \in Nat
    OBVIOUS
  <2>1. digits[i] \in Nat /\ Weights[i] \in Nat
    BY WeightsFacts DEF Digit
  <2> QED
    BY ONLY <2>1, ProductOfNats
<1> HIDE DEF c
<1>3. step \in [(1..17) \X Nat -> Nat]
  BY <1>2
<1>4. \A s \in SUBSET (1..17) :
         s # {} => /\ Max(s) \in 1..17
                   /\ s \ {Max(s)} \in SUBSET (1..17)
                   /\ digits[ix[Max(s)]] * Weights[ix[Max(s)]] = c[Max(s)]
  <2> SUFFICES ASSUME NEW s \in SUBSET (1..17), s # {}
               PROVE  /\ Max(s) \in 1..17
                      /\ s \ {Max(s)} \in SUBSET (1..17)
                      /\ digits[ix[Max(s)]] * Weights[ix[Max(s)]] = c[Max(s)]
    OBVIOUS
  <2>1. Max(s) \in 1..17
    BY LargestIndex, 17 \in Nat
  <2> QED
    BY <1>1, <1>2, <2>1
<1> HIDE DEF ix
<1>5. \E f : Eq(f)
  <2>1. PICK g : Folds(g, 17, Nat, 0, step)
    <3> HIDE DEF step
    <3> QED
      BY <1>3, 17 \in Nat, 0 \in Nat, FoldRecursion
  <2>2. ASSUME NEW s \in SUBSET (1..17)
        PROVE  g[s] = IF s = {} THEN 0
                      ELSE g[s \ {Max(s)}] + digits[ix[Max(s)]] * Weights[ix[Max(s)]]
    BY <1>2, <1>4, <2>1 DEF Folds
  <2>3. Eq(g)
    BY <1>1, <2>1, <2>2 DEF Folds
  <2> QED
    BY <2>3
<1>6. Eq(it)
  BY <1>5
<1>7. CheckSum(digits) = it[1..17]
  BY <1>1 DEF CheckSum, FoldLeftDomain, FoldLeft, MapThenFoldSet, ix
<1>8a. it[{}] = 0
  BY <1>1, <1>6
<1>8. ASSUME NEW s \in SUBSET (1..17), s # {}
      PROVE  it[s] = it[s \ {Max(s)}] + c[Max(s)]
  <2>1. it[s] = it[s \ {Max(s)}] + digits[ix[Max(s)]] * Weights[ix[Max(s)]]
    <3> HIDE DEF it
    <3> QED
      BY <1>1, <1>6, <1>8
  <2> QED
    BY <1>4, <1>8, <2>1
<1>9. \A s \in SUBSET (1..17) :
         s # {} /\ it[s \ {Max(s)}] \in Nat => it[s] = step[<<Max(s), it[s \ {Max(s)}]>>]
  <2> SUFFICES ASSUME NEW s \in SUBSET (1..17), s # {}, it[s \ {Max(s)}] \in Nat
               PROVE  it[s] = step[<<Max(s), it[s \ {Max(s)}]>>]
    OBVIOUS
  <2>1. <<Max(s), it[s \ {Max(s)}]>> \in (1..17) \X Nat
    BY <1>4
  <2> HIDE DEF it
  <2>2. step[<<Max(s), it[s \ {Max(s)}]>>] = it[s \ {Max(s)}] + c[Max(s)]
    BY <2>1
  <2> QED
    BY <1>8, <2>2
<1> DEFINE v == [i \in 0..17 |-> it[1..i]]
<1>10. Recurs(v, 17, Nat, 0, step)
  <2>1. v = [i \in 0..17 |-> it[1..i]]
    OBVIOUS
  <2> HIDE DEF step, it, v
  <2> QED
    <3>1. PICK n \in Nat : n = 17
      OBVIOUS
    <3>2. /\ step \in [(1..n) \X Nat -> Nat]
          /\ \A s \in SUBSET (1..n) :
               s # {} /\ it[s \ {Max(s)}] \in Nat => it[s] = step[<<Max(s), it[s \ {Max(s)}]>>]
          /\ v = [i \in 0..n |-> it[1..i]]
      BY <1>3, <1>9, <2>1, <3>1
    <3>3. Recurs(v, n, Nat, 0, step)
      BY ONLY <1>8a, <3>2, n \in Nat, 0 \in Nat, FoldAlong
    <3> QED
      BY <3>1, <3>3
<1>11. v[17] = CheckSum(digits)
  BY <1>7
<1> HIDE DEF v
<1>12. v \in [0..17 -> Nat] /\ v[0] = 0 /\ \A i \in 1..17 : v[i] = step[<<i, v[i - 1]>>]
  BY <1>10 DEF Recurs
<1>13. ASSUME NEW i \in 1..17 PROVE v[i] = v[i - 1] + digits[i] * Weights[i]
  <2>1. <<i, v[i - 1]>> \in (1..17) \X Nat
    BY <1>12
  <2> QED
    BY <1>2, <1>12, <2>1
<1> QED
  BY <1>11, <1>12, <1>13

\* One digit changed changes the sum by its difference times its weight.
LEMMA CheckSumChanged ==
  ASSUME NEW digits \in [1..17 -> Digit], NEW k \in 1..17, NEW d \in Digit
  PROVE  /\ [digits EXCEPT ![k] = d] \in [1..17 -> Digit]
         /\ CheckSum(digits) \in Nat
         /\ CheckSum([digits EXCEPT ![k] = d])
              = CheckSum(digits) + (d - digits[k]) * Weights[k]
<1> DEFINE other == [digits EXCEPT ![k] = d]
<1>1. other \in [1..17 -> Digit] /\ other[k] = d /\ \A i \in 1..17 : i # k => other[i] = digits[i]
  OBVIOUS
<1> HIDE DEF other
<1>2. PICK v : /\ v \in [0..17 -> Nat]
               /\ v[0] = 0
               /\ \A i \in 1..17 : v[i] = v[i - 1] + digits[i] * Weights[i]
               /\ CheckSum(digits) = v[17]
  BY CheckSumAlong
<1>3. PICK w : /\ w \in [0..17 -> Nat]
               /\ w[0] = 0
               /\ \A i \in 1..17 : w[i] = w[i - 1] + other[i] * Weights[i]
               /\ CheckSum(other) = w[17]
  BY <1>1, CheckSumAlong
<1>4. PICK delta \in Int : /\ delta = (d - digits[k]) * Weights[k]
                           /\ d * Weights[k] = digits[k] * Weights[k] + delta
  <2>1. d \in Int /\ digits[k] \in Int /\ Weights[k] \in Int
    BY WeightsFacts DEF Digit
  <2>2. \A x, y, z \in Int : x * z = y * z + (x - y) * z /\ (x - y) * z \in Int
    OBVIOUS
  <2> QED
    BY <2>1, <2>2
<1>5. PICK a \in Nat : a = digits[k] * Weights[k]
  <2>1. digits[k] \in Nat /\ Weights[k] \in Nat
    BY WeightsFacts DEF Digit
  <2> QED
    BY <2>1, ProductOfNats
<1> DEFINE S == {j \in Nat : j <= 17 => w[j] = v[j] + (IF j >= k THEN delta ELSE 0)}
<1>6. 0 \in S
  BY <1>2, <1>3
<1>7. ASSUME NEW j \in Nat, j \in S PROVE j + 1 \in S
  <2> SUFFICES ASSUME j + 1 <= 17
               PROVE  w[j + 1] = v[j + 1] + (IF j + 1 >= k THEN delta ELSE 0)
    BY j + 1 \in Nat
  <2>1. w[j] = v[j] + (IF j >= k THEN delta ELSE 0) /\ v[j] \in Nat /\ w[j] \in Nat
    BY <1>2, <1>3, <1>7
  <2>2. j + 1 \in 1..17 /\ (j + 1) - 1 = j
    OBVIOUS
  <2>3. v[j + 1] = v[j] + digits[j + 1] * Weights[j + 1]
    BY <1>2, <2>2
  <2>4. w[j + 1] = w[j] + other[j + 1] * Weights[j + 1]
    BY <1>3, <2>2
  <2>5. digits[j + 1] * Weights[j + 1] \in Nat
    <3>1. digits[j + 1] \in Nat /\ Weights[j + 1] \in Nat
      BY <2>2, WeightsFacts DEF Digit
    <3> QED
      BY <3>1, ProductOfNats
  <2>6. CASE j + 1 = k
    <3>1. v[j + 1] = v[j] + a /\ w[j + 1] = w[j] + (a + delta)
      BY <1>1, <1>4, <1>5, <2>3, <2>4, <2>6
    <3> QED
      BY ONLY <2>1, <2>6, <3>1, j \in Nat, k \in 1..17, delta \in Int, a \in Nat
  <2>7. CASE j + 1 # k
    <3>1. PICK b \in Nat : b = digits[j + 1] * Weights[j + 1]
      BY <2>5
    <3>2. v[j + 1] = v[j] + b /\ w[j + 1] = w[j] + b
      BY <1>1, <2>2, <2>3, <2>4, <2>7, <3>1
    <3> QED
      BY ONLY <2>1, <2>7, <3>2, j \in Nat, k \in 1..17, delta \in Int, b \in Nat
  <2> QED
    BY <2>6, <2>7
<1>8. Nat \subseteq S
  <2> HIDE DEF S
  <2> QED
    BY <1>6, <1>7, Induction
<1>9. w[17] = v[17] + delta
  <2>1. 17 \in S
    BY <1>8
  <2> QED
    BY <2>1
<1>10. CheckSum(digits) \in Nat
  BY <1>2
<1> QED
  BY <1>1, <1>2, <1>3, <1>4, <1>9, <1>10 DEF other

\* Modulo eleven no small multiple of a small number vanishes.
LEMMA NoneVanishes ==
  ASSUME NEW s \in Nat, NEW t \in Nat, NEW x \in -9..9, NEW y \in -9..10,
         y # 0, t = s + x * y, s % 11 = t % 11
  PROVE  x = 0
<1>1. PICK q \in Int : t - s = 11 * q
  <2>3. s = 11 * (s \div 11) + (s % 11) /\ s \div 11 \in Int /\ s % 11 \in Int
    BY ONLY s \in Nat
  <2>4. t = 11 * (t \div 11) + (t % 11) /\ t \div 11 \in Int /\ t % 11 \in Int
    BY ONLY t \in Nat
  <2>1. s - t = 11 * (s \div 11) - 11 * (t \div 11)
    BY <2>3, <2>4
  <2>2. t - s = 11 * ((t \div 11) - (s \div 11))
    BY <2>1, <2>3, <2>4
  <2> QED
    BY <2>2, <2>3, <2>4
<1>2. x * y = 11 * q
  <2>1. x * y \in Int
    OBVIOUS
  <2> QED
    BY <1>1, <2>1
<1>3. \A z \in -9..9 : (\E p \in Int : z * y = 11 * p) => z = 0
  <2>1. y \in {-9, -8, -7, -6, -5, -4, -3, -2, -1, 1, 2, 3, 4, 5, 6, 7, 8, 9, 10}
    OBVIOUS
  <2> QED
    BY <2>1
<1> QED
  BY <1>2, <1>3

\* The check characters of different remainders differ.
LEMMA CodesDiffer ==
  \A m, n \in 0..10 : CheckCodes[m + 1] = CheckCodes[n + 1] => m = n
BY DEF CheckCodes

\* The check character is one of the eleven, by the remainder of the sum.
LEMMA ExpectedIsDigit ==
  ASSUME NEW digits \in [1..17 -> Digit]
  PROVE  Expected(digits) = CheckCodes[(CheckSum(digits) % 11) + 1]
         /\ Expected(digits) \in 0..10
         /\ CheckSum(digits) % 11 \in 0..10
<1>1. CheckSum(digits) \in Nat
  <2>1. 1 \in 1..17 /\ 0 \in Digit
    BY DEF Digit
  <2> QED
    BY <2>1, CheckSumChanged
<1>2. Expected(digits) = CheckCodes[(CheckSum(digits) % 11) + 1]
  BY DEF Expected, CheckSum
<1>3. CheckSum(digits) % 11 \in 0..10
  BY <1>1
<1>4. \A m \in 0..10 : CheckCodes[m + 1] \in 0..10
  BY DEF CheckCodes
<1> QED
  BY <1>2, <1>3, <1>4

\* One digit that is wrong, or two neighbours exchanged, makes a card invalid.
LEMMA CardsChecked ==
  ASSUME NEW digits \in [1..17 -> Digit] PROVE CheckDigitCatches(digits)
<1> DEFINE last == Expected(digits)
<1>1. \A ds \in [1..17 -> Digit] : IsValidIdCard(ds, last) <=> last = Expected(ds)
  <2> SUFFICES ASSUME NEW ds \in [1..17 -> Digit]
               PROVE  IsValidIdCard(ds, last) <=> last = Expected(ds)
    OBVIOUS
  <2>0. ds \in Seq(Digit)
    <3>1. ds \in UNION {[1..n -> Digit] : n \in Nat}
      BY 17 \in Nat
    <3> QED
      BY <3>1, SeqDef
  <2>1. Len(ds) = 17
    BY <2>0, LenProperties
  <2> QED
    BY <2>1, ExpectedIsDigit DEF IsValidIdCard
<1>2. \A ds \in [1..17 -> Digit] :
        last = Expected(ds) <=> CheckSum(digits) % 11 = CheckSum(ds) % 11
  BY ExpectedIsDigit, CodesDiffer
<1> HIDE DEF last
<1>3. IsValidIdCard(digits, last)
  BY <1>1, <1>2
<1>4. ASSUME NEW i \in 1..17, NEW d \in Digit
      PROVE  IsValidIdCard([digits EXCEPT ![i] = d], last) <=> digits[i] = d
  <2> DEFINE other == [digits EXCEPT ![i] = d]
  <2>1. /\ other \in [1..17 -> Digit]
        /\ CheckSum(digits) \in Nat
        /\ CheckSum(other) = CheckSum(digits) + (d - digits[i]) * Weights[i]
    BY CheckSumChanged
  <2>2. CheckSum(other) \in Nat
    <3>1. 1 \in 1..17 /\ 0 \in Digit
      BY DEF Digit
    <3> QED
      BY <2>1, <3>1, CheckSumChanged
  <2>3. d - digits[i] \in -9..9 /\ Weights[i] \in -9..10 /\ Weights[i] # 0
    BY WeightsFacts DEF Digit
  <2>4. CheckSum(digits) % 11 = CheckSum(other) % 11 => d - digits[i] = 0
    BY <2>1, <2>2, <2>3, NoneVanishes
  <2>5. digits[i] = d => other = digits
    OBVIOUS
  <2>6. d - digits[i] = 0 => digits[i] = d
    BY DEF Digit
  <2> HIDE DEF other
  <2>7. IsValidIdCard(other, last) <=> digits[i] = d
    BY <1>1, <1>2, <2>1, <2>4, <2>5, <2>6
  <2> QED
    BY <2>7 DEF other
<1>5. ASSUME NEW i \in 1..16
      PROVE  LET swapped == [digits EXCEPT ![i] = digits[i + 1], ![i + 1] = digits[i]]
             IN  IsValidIdCard(swapped, last) <=> swapped = digits
  <2> DEFINE half == [digits EXCEPT ![i] = digits[i + 1]]
             swapped == [digits EXCEPT ![i] = digits[i + 1], ![i + 1] = digits[i]]
             x == digits[i + 1] - digits[i]
             y == Weights[i] - Weights[i + 1]
  <2>1. i \in 1..17 /\ i + 1 \in 1..17 /\ digits[i] \in 0..9 /\ digits[i + 1] \in 0..9
    BY DEF Digit
  <2>2. Weights[i] \in 1..10 /\ Weights[i + 1] \in 1..10 /\ Weights[i] # Weights[i + 1]
    BY <2>1, WeightsFacts
  <2>3. /\ half \in [1..17 -> Digit]
        /\ half[i + 1] = digits[i + 1]
        /\ swapped = [half EXCEPT ![i + 1] = digits[i]]
    BY <2>1 DEF Digit
  <2>4. /\ CheckSum(digits) \in Nat
        /\ CheckSum(half) = CheckSum(digits) + x * Weights[i]
    BY <2>1, CheckSumChanged DEF Digit
  <2>5. /\ swapped \in [1..17 -> Digit]
        /\ CheckSum(half) \in Nat
        /\ CheckSum(swapped) = CheckSum(half) + (digits[i] - digits[i + 1]) * Weights[i + 1]
    <3> HIDE DEF half, swapped
    <3> QED
      BY <2>1, <2>3, CheckSumChanged DEF Digit
  <2>6. swapped = digits <=> digits[i] = digits[i + 1]
    BY <2>1
  <2> HIDE DEF half, swapped
  <2>7. CheckSum(swapped) = CheckSum(digits) + x * y
    <3>1. \A p, q \in 0..9, v, w \in 1..10, s \in Nat :
            (s + (q - p) * v) + (p - q) * w = s + (q - p) * (v - w)
      OBVIOUS
    <3>2. CheckSum(swapped)
            = (CheckSum(digits) + (digits[i + 1] - digits[i]) * Weights[i])
                + (digits[i] - digits[i + 1]) * Weights[i + 1]
      BY <2>4, <2>5
    <3> QED
      BY ONLY <2>1, <2>2, <2>4, <3>1, <3>2
  <2>8. CheckSum(swapped) \in Nat
    <3>1. 1 \in 1..17 /\ 0 \in Digit
      BY DEF Digit
    <3> QED
      BY <2>5, <3>1, CheckSumChanged
  <2>9. x \in -9..9 /\ y \in -9..10 /\ y # 0
    BY <2>1, <2>2
  <2>10. CheckSum(digits) % 11 = CheckSum(swapped) % 11 => x = 0
    <3> HIDE DEF x, y
    <3> QED
      BY <2>4, <2>7, <2>8, <2>9, NoneVanishes
  <2>11. x = 0 <=> digits[i] = digits[i + 1]
    BY <2>1
  <2>12. IsValidIdCard(swapped, last) <=> swapped = digits
    BY <1>1, <1>2, <2>5, <2>6, <2>10, <2>11
  <2> QED
    BY <2>12 DEF swapped
<1> QED
  BY <1>3, <1>4, <1>5 DEF CheckDigitCatches, last

-----------------------------------------------------------------------------
(***************************************************************************)
(* Uploads and batches of mails.                                           *)
(***************************************************************************)
\* The last place of a character in a name.
LEMMA LastPlace ==
  ASSUME NEW X, NEW s \in Seq(X), NEW c, NEW dot,
         dot = IF {i \in 1..Len(s) : s[i] = c} # {}
               THEN Max({i \in 1..Len(s) : s[i] = c}) ELSE 0
  PROVE  \/ /\ dot = 0
            /\ \A i \in 1..Len(s) : s[i] # c
         \/ /\ dot \in 1..Len(s)
            /\ s[dot] = c
            /\ \A i \in 1..Len(s) : s[i] = c => i <= dot
<1> DEFINE I == {i \in 1..Len(s) : s[i] = c}
<1>1. Len(s) \in Nat
  BY LenProperties
<1>2. dot = IF I # {} THEN Max(I) ELSE 0
  OBVIOUS
<1>3. I # {} => Max(I) \in I /\ \A i \in I : i <= Max(I)
  <2>1. I \in SUBSET (1..Len(s))
    OBVIOUS
  <2> HIDE DEF I
  <2> QED
    BY <1>1, <2>1, LargestIndex
<1> QED
  BY <1>2, <1>3

\* The extension of a stored name is the one that was given.
LEMMA ExtensionKept ==
  ASSUME NEW X, FullStop \in X, NEW name \in Seq(X), NEW fresh \in Seq(X), fresh # <<>>,
         Extension(name) # NotFound, Extension(name) # <<>>
  PROVE  /\ Extension(StoredName(name, fresh)) = Extension(name)
         /\ IsPrefix(fresh, StoredName(name, fresh))
         /\ StoredName(name, fresh) \in Seq(X)
         /\ Extension(name) \in Seq(X)
<1> DEFINE dot == SelectLastInSeq(name, LAMBDA c : c = FullStop)
           ext == Extension(name)
           stored == StoredName(name, fresh)
           place == SelectLastInSeq(stored, LAMBDA c : c = FullStop)
<1>1. Len(name) \in Nat /\ Len(fresh) \in Nat /\ Len(fresh) >= 1
  BY LenProperties, EmptySeq
<1>2. ~(dot <= 1) /\ ext = SubSeq(name, dot + 1, Len(name))
  BY DEF Extension
<1>3. /\ dot \in 1..Len(name)
      /\ \A i \in 1..Len(name) : name[i] = FullStop => i <= dot
  <2> HIDE DEF dot
  <2>1. dot # 0
    BY <1>2
  <2>2. dot = IF {i \in 1..Len(name) : name[i] = FullStop} # {}
              THEN Max({i \in 1..Len(name) : name[i] = FullStop}) ELSE 0
    BY DEF dot, SelectLastInSeq
  <2> QED
    BY ONLY <2>1, <2>2, name \in Seq(X), LastPlace
<1> HIDE DEF dot
<1>4. /\ ext \in Seq(X)
      /\ Len(ext) = Len(name) - dot
      /\ \A i \in 1..Len(ext) : ext[i] = name[dot + i]
  <2>1. /\ SubSeq(name, dot + 1, Len(name)) \in Seq(X)
        /\ Len(SubSeq(name, dot + 1, Len(name))) = Len(name) - (dot + 1) + 1
        /\ \A i \in 1..(Len(name) - (dot + 1) + 1) :
             SubSeq(name, dot + 1, Len(name))[i] = name[(dot + 1) + i - 1]
    BY <1>1, <1>3, Piece, dot + 1 \in Nat, 1 <= dot + 1, dot + 1 <= Len(name) + 1
  <2>2. Len(name) - (dot + 1) + 1 = Len(name) - dot
    BY <1>1, <1>3
  <2>3. \A i \in 1..(Len(name) - dot) : (dot + 1) + i - 1 = dot + i
    BY <1>1, <1>3
  <2> QED
    BY <1>2, <2>1, <2>2, <2>3
<1>5. \A i \in 1..Len(ext) : ext[i] # FullStop
  <2> SUFFICES ASSUME NEW i \in 1..Len(ext) PROVE ext[i] # FullStop
    OBVIOUS
  <2>1. dot + i \in 1..Len(name) /\ ~(dot + i <= dot)
    BY <1>1, <1>3, <1>4
  <2> QED
    BY <1>3, <1>4, <2>1
<1>6. Len(ext) \in Nat /\ Len(ext) >= 1
  BY <1>4, EmptySeq
<1>7. stored = fresh \o <<FullStop>> \o ext
  BY DEF StoredName
<1> HIDE DEF ext, stored
<1> DEFINE k == Len(fresh) + 1
<1>8. /\ stored \in Seq(X)
      /\ Len(stored) = k + Len(ext)
      /\ \A i \in 1..Len(fresh) : stored[i] = fresh[i]
      /\ stored[k] = FullStop
      /\ \A i \in 1..Len(ext) : stored[k + i] = ext[i]
  <2>1. <<FullStop>> \in Seq(X) /\ Len(<<FullStop>>) = 1 /\ <<FullStop>>[1] = FullStop
    OBVIOUS
  <2>2. /\ fresh \o <<FullStop>> \in Seq(X)
        /\ Len(fresh \o <<FullStop>>) = k
        /\ \A i \in 1..k :
             (fresh \o <<FullStop>>)[i]
               = IF i <= Len(fresh) THEN fresh[i] ELSE <<FullStop>>[i - Len(fresh)]
    BY <2>1, ConcatProperties
  <2> DEFINE front == fresh \o <<FullStop>>
  <2>3. /\ \A i \in 1..Len(fresh) : front[i] = fresh[i]
        /\ front[k] = FullStop
    BY <1>1, <2>1, <2>2
  <2>4. front \in Seq(X) /\ Len(front) = k
    BY <2>2
  <2> HIDE DEF front
  <2>5. /\ front \o ext \in Seq(X)
        /\ Len(front \o ext) = Len(front) + Len(ext)
        /\ \A i \in 1..(Len(front) + Len(ext)) :
             (front \o ext)[i] = IF i <= Len(front) THEN front[i] ELSE ext[i - Len(front)]
    BY <1>4, <2>4, ConcatProperties
  <2>6. stored = front \o ext
    BY <1>7 DEF front
  <2> QED
    BY <1>1, <1>6, <2>3, <2>4, <2>5, <2>6
<1>9. place = k
  <2>1. \/ /\ place = 0
           /\ \A i \in 1..Len(stored) : stored[i] # FullStop
        \/ /\ place \in 1..Len(stored)
           /\ stored[place] = FullStop
           /\ \A i \in 1..Len(stored) : stored[i] = FullStop => i <= place
    <3>1. place = IF {i \in 1..Len(stored) : stored[i] = FullStop} # {}
                  THEN Max({i \in 1..Len(stored) : stored[i] = FullStop}) ELSE 0
      BY DEF SelectLastInSeq
    <3>2. stored \in Seq(X)
      BY <1>8
    <3> HIDE DEF place
    <3> QED
      BY ONLY <3>1, <3>2, LastPlace
  <2> HIDE DEF place
  <2>2. k \in 1..Len(stored)
    BY <1>1, <1>6, <1>8
  <2>3. place \in 1..Len(stored) /\ stored[place] = FullStop /\ k <= place
    BY <1>8, <2>1, <2>2
  <2>4. ASSUME place > k PROVE FALSE
    <3>1. place - k \in 1..Len(ext) /\ k + (place - k) = place
      BY <1>1, <1>6, <1>8, <2>3, <2>4
    <3> QED
      BY <1>5, <1>8, <2>3, <3>1
  <2> QED
    BY <1>1, <2>3, <2>4
<1>10. stored # <<FullStop, FullStop>>
  <2>1. Len(stored) >= 3
    BY <1>1, <1>6, <1>8
  <2>2. ASSUME stored = <<FullStop, FullStop>> PROVE FALSE
    <3>1. Len(stored) = 2
      BY <2>2
    <3> QED
      BY <2>1, <3>1
  <2> QED
    BY <2>2
<1>11. Extension(stored) = SubSeq(stored, k + 1, Len(stored))
  <2>1. ~(place <= 1)
    BY <1>1, <1>9
  <2> QED
    BY <1>9, <1>10, <2>1 DEF Extension
<1>12. SubSeq(stored, k + 1, Len(stored)) = ext
  <2>1. /\ SubSeq(stored, k + 1, Len(stored)) \in Seq(X)
        /\ Len(SubSeq(stored, k + 1, Len(stored))) = Len(stored) - (k + 1) + 1
        /\ \A i \in 1..(Len(stored) - (k + 1) + 1) :
             SubSeq(stored, k + 1, Len(stored))[i] = stored[(k + 1) + i - 1]
    BY <1>1, <1>6, <1>8, Piece, k + 1 \in Nat, 1 <= k + 1, k + 1 <= Len(stored) + 1
  <2>2. Len(stored) - (k + 1) + 1 = Len(ext)
        /\ \A i \in 1..Len(ext) : (k + 1) + i - 1 = k + i
    BY <1>1, <1>6, <1>8
  <2>3. /\ Len(SubSeq(stored, k + 1, Len(stored))) = Len(ext)
        /\ \A i \in 1..Len(ext) : SubSeq(stored, k + 1, Len(stored))[i] = ext[i]
    BY <1>8, <2>1, <2>2
  <2> QED
    BY <1>4, <2>1, <2>3, SeqEqual
<1>13. IsPrefix(fresh, stored)
  <2>1. /\ SubSeq(stored, 1, Len(fresh)) \in Seq(X)
        /\ Len(SubSeq(stored, 1, Len(fresh))) = Len(fresh) - 1 + 1
        /\ \A i \in 1..(Len(fresh) - 1 + 1) :
             SubSeq(stored, 1, Len(fresh))[i] = stored[1 + i - 1]
    BY <1>1, <1>6, <1>8, Piece, 1 \in Nat, 1 <= Len(fresh) + 1, Len(fresh) <= Len(stored)
  <2>2. Len(fresh) - 1 + 1 = Len(fresh) /\ \A i \in 1..Len(fresh) : 1 + i - 1 = i
    BY <1>1
  <2>3. SubSeq(stored, 1, Len(fresh)) = fresh
    <3>1. /\ Len(SubSeq(stored, 1, Len(fresh))) = Len(fresh)
          /\ \A i \in 1..Len(fresh) : SubSeq(stored, 1, Len(fresh))[i] = fresh[i]
      BY <1>8, <2>1, <2>2
    <3> QED
      BY <2>1, <3>1, SeqEqual
  <2>4. SubSeq(fresh, 1, Len(fresh)) = fresh
    BY SubSeqFull
  <2> QED
    BY <1>1, <1>6, <1>8, <2>3, <2>4 DEF IsPrefix
<1> QED
  BY <1>4, <1>8, <1>11, <1>12, <1>13 DEF ext, stored

\* What is stored is what was checked, and would pass again.
LEMMA UploadsPassAgain ==
  ASSUME NEW X, FullStop \in X, NEW upload,
         DOMAIN upload = {"size", "max", "name", "allowed", "mime", "mimes"},
         upload.name \in Seq(X), NEW fresh \in Seq(X), fresh # <<>>
  PROVE  UploadsHold(upload, fresh)
<1> DEFINE saved == SaveUploadedFile(upload, fresh)
           again == [upload EXCEPT !.name = saved.stored_name]
           ext == Extension(upload.name)
<1> SUFFICES ASSUME saved # NotFound
             PROVE  /\ Lowered(Extension(saved.stored_name)) = saved.extension
                    /\ upload.allowed # {} => saved.extension \in upload.allowed
                    /\ SaveUploadedFile(again, fresh) = saved
                    /\ IsPrefix(fresh, saved.stored_name)
  BY DEF UploadsHold
<1>1. /\ ValidateFileSize(upload.size, upload.max)
      /\ ValidateExtension(upload.name, upload.allowed) # NotFound
      /\ ~(upload.mimes # {} /\ upload.mime \notin upload.mimes)
      /\ saved = [stored_name |-> StoredName(upload.name, fresh),
                  extension   |-> ValidateExtension(upload.name, upload.allowed)]
  BY DEF SaveUploadedFile
<1>2. /\ ext # NotFound /\ ext # <<>>
      /\ upload.allowed = {} \/ Lowered(ext) \in upload.allowed
      /\ ValidateExtension(upload.name, upload.allowed) = Lowered(ext)
  BY <1>1 DEF ValidateExtension
<1> HIDE DEF saved
<1>3. /\ saved.stored_name = StoredName(upload.name, fresh)
      /\ saved.extension = Lowered(ext)
  BY <1>1, <1>2
<1>4. /\ Extension(saved.stored_name) = ext
      /\ IsPrefix(fresh, saved.stored_name)
  BY <1>2, <1>3, ExtensionKept
<1>5. /\ StoredName(saved.stored_name, fresh) = StoredName(upload.name, fresh)
      /\ ValidateExtension(saved.stored_name, upload.allowed)
           = ValidateExtension(upload.name, upload.allowed)
  BY <1>4 DEF StoredName, ValidateExtension
<1>6. SaveUploadedFile(again, fresh) = saved
  <2>1. /\ again.size = upload.size /\ again.max = upload.max
        /\ again.name = saved.stored_name
        /\ again.allowed = upload.allowed
        /\ again.mime = upload.mime /\ again.mimes = upload.mimes
    OBVIOUS
  <2> HIDE DEF again
  <2> QED
    BY <1>1, <1>5, <2>1 DEF SaveUploadedFile
<1> QED
  BY <1>2, <1>3, <1>4, <1>6

\* What can become of a message.
MailOutcomes == {"no recipient", "no body", "bad sender", "bad address", "sent", "not taken"}
\* What is told of a batch: how many were sent, and the errors in their order.
BatchResults == [sent : Nat, errors : Seq(MailOutcomes)]

\* A message that is sent has a recipient, a body and good addresses only.
LEMMA MailSent ==
  ASSUME NEW message \in Mails
  PROVE  /\ SendMail(message) \in MailOutcomes
         /\ SendMail(message) = "sent" =>
              /\ Len(message.to) > 0
              /\ (message.text \/ message.html)
              /\ FALSE \notin ToSet(message.to \o message.cc \o message.bcc)
<1> DEFINE addresses == message.to \o message.cc \o message.bcc
<1>1. /\ message.to \in Seq(BOOLEAN) /\ message.cc \in Seq(BOOLEAN) /\ message.bcc \in Seq(BOOLEAN)
      /\ message.text \in BOOLEAN /\ message.html \in BOOLEAN /\ message.from \in BOOLEAN
  BY DEF Mails
<1>2. addresses \in Seq(BOOLEAN)
  BY <1>1, ConcatProperties
<1> HIDE DEF addresses
<1>3. CASE message.to = <<>>
  <2>1. SendMail(message) = "no recipient"
    BY <1>3 DEF SendMail
  <2> QED
    BY <2>1 DEF MailOutcomes
<1>4. CASE message.to # <<>> /\ ~message.text /\ ~message.html
  <2>1. SendMail(message) = "no body"
    BY <1>4 DEF SendMail
  <2> QED
    BY <2>1 DEF MailOutcomes
<1>5. CASE message.to # <<>> /\ (message.text \/ message.html) /\ ~message.from
  <2>1. SendMail(message) = "bad sender"
    BY <1>5 DEF SendMail
  <2> QED
    BY <2>1 DEF MailOutcomes
<1>6. CASE message.to # <<>> /\ (message.text \/ message.html) /\ message.from
  <2>1. SendMail(message) =
          IF \E i \in DOMAIN addresses : ~addresses[i] THEN "bad address"
          ELSE IF message.taken THEN "sent" ELSE "not taken"
    BY <1>6 DEF SendMail, addresses
  <2>2. SendMail(message) = "sent" => \A i \in DOMAIN addresses : addresses[i]
    BY <2>1
  <2>3. Len(message.to) > 0
    BY <1>1, <1>6, EmptySeq
  <2>4. SendMail(message) = "sent" => FALSE \notin ToSet(addresses)
    BY <2>2 DEF ToSet
  <2> QED
    BY <1>6, <2>1, <2>3, <2>4 DEF MailOutcomes, addresses
<1> QED
  BY <1>1, <1>3, <1>4, <1>5, <1>6

\* A batch, message by message.
LEMMA BatchAlong ==
  ASSUME NEW messages \in Seq(Mails)
  PROVE  \E v : /\ v \in [0..Len(messages) -> BatchResults]
                /\ v[0] = [sent |-> 0, errors |-> <<>>]
                /\ \A i \in 1..Len(messages) :
                     v[i] = IF SendMail(messages[i]) = "sent"
                              THEN [v[i - 1] EXCEPT !.sent = @ + 1]
                              ELSE [v[i - 1] EXCEPT !.errors = Append(@, SendMail(messages[i]))]
                /\ SendBatch(messages) = v[Len(messages)]
<1> DEFINE n == Len(messages)
           base == [sent |-> 0, errors |-> <<>>]
           After(done, message) ==
             IF SendMail(message) = "sent" THEN [done EXCEPT !.sent = @ + 1]
             ELSE [done EXCEPT !.errors = Append(@, SendMail(message))]
           step == [is \in (1..n) \X BatchResults |-> After(is[2], messages[is[1]])]
           Eq(f) == f = [s \in SUBSET DOMAIN messages |->
                           IF s = {} THEN base
                           ELSE After(f[s \ {Max(s)}], messages[Max(s)])]
           it == CHOOSE f : Eq(f)
<1>1. n \in Nat /\ DOMAIN messages = 1..n /\ \A i \in 1..n : messages[i] \in Mails
  BY LenProperties, ElementOfSeq
<1>2. ASSUME NEW done \in BatchResults, NEW message \in Mails
      PROVE  After(done, message) \in BatchResults
  <2>1. SendMail(message) \in MailOutcomes
    BY MailSent
  <2>2. Append(done.errors, SendMail(message)) \in Seq(MailOutcomes)
    BY <2>1, AppendProperties DEF BatchResults
  <2>3. done.sent + 1 \in Nat
    BY DEF BatchResults
  <2>4. [done EXCEPT !.sent = @ + 1] \in BatchResults
    BY <2>3 DEF BatchResults
  <2>5. [done EXCEPT !.errors = Append(@, SendMail(message))] \in BatchResults
    BY <2>2 DEF BatchResults
  <2> QED
    BY <2>4, <2>5
<1>3. base \in BatchResults
  BY EmptySeq DEF BatchResults
<1> HIDE DEF After, base
<1>4. step \in [(1..n) \X BatchResults -> BatchResults]
  BY <1>1, <1>2
<1>5. \A s \in SUBSET (1..n) : s # {} => Max(s) \in 1..n /\ s \ {Max(s)} \in SUBSET (1..n)
  BY <1>1, LargestIndex
<1>6. \E f : Eq(f)
  <2>1. PICK g : Folds(g, n, BatchResults, base, step)
    <3> HIDE DEF step, n
    <3> QED
      BY <1>1, <1>3, <1>4, FoldRecursion
  <2>2. ASSUME NEW s \in SUBSET (1..n)
        PROVE  g[s] = IF s = {} THEN base ELSE After(g[s \ {Max(s)}], messages[Max(s)])
    <3>1. CASE s = {}
      BY <2>1, <3>1 DEF Folds
    <3>2. CASE s # {}
      <4>1. g[s] = step[<<Max(s), g[s \ {Max(s)}]>>] /\ g[s \ {Max(s)}] \in BatchResults
        BY <1>5, <2>1, <3>2 DEF Folds
      <4>2. <<Max(s), g[s \ {Max(s)}]>> \in (1..n) \X BatchResults
        BY <1>5, <3>2, <4>1
      <4> QED
        BY <3>2, <4>1, <4>2
    <3> QED
      BY <3>1, <3>2
  <2>3. Eq(g)
    BY <1>1, <2>1, <2>2 DEF Folds
  <2> QED
    BY <2>3
<1>7. Eq(it)
  BY <1>6
<1>8. SendBatch(messages) = it[1..n]
  BY <1>1 DEF SendBatch, FoldLeft, MapThenFoldSet, After, base
<1>9. it[{}] = base
  BY <1>1, <1>7
<1>10. ASSUME NEW s \in SUBSET (1..n), s # {}
       PROVE  it[s] = After(it[s \ {Max(s)}], messages[Max(s)])
  <2> HIDE DEF it
  <2> QED
    BY <1>1, <1>7, <1>10
<1>11. \A s \in SUBSET (1..n) :
         s # {} /\ it[s \ {Max(s)}] \in BatchResults =>
           it[s] = step[<<Max(s), it[s \ {Max(s)}]>>]
  <2> SUFFICES ASSUME NEW s \in SUBSET (1..n), s # {}, it[s \ {Max(s)}] \in BatchResults
               PROVE  it[s] = step[<<Max(s), it[s \ {Max(s)}]>>]
    OBVIOUS
  <2>1. <<Max(s), it[s \ {Max(s)}]>> \in (1..n) \X BatchResults
    BY <1>5
  <2> HIDE DEF it
  <2>2. step[<<Max(s), it[s \ {Max(s)}]>>] = After(it[s \ {Max(s)}], messages[Max(s)])
    BY <2>1
  <2> QED
    BY <1>10, <2>2
<1> DEFINE v == [i \in 0..n |-> it[1..i]]
<1>12. Recurs(v, n, BatchResults, base, step)
  <2>1. v = [i \in 0..n |-> it[1..i]]
    OBVIOUS
  <2>2. n \in Nat
    BY <1>1
  <2> HIDE DEF step, it, v, n
  <2> QED
    BY ONLY <2>2, <1>3, <1>4, <1>9, <1>11, <2>1, FoldAlong
<1>13. v[n] = SendBatch(messages)
  BY <1>1, <1>8
<1> HIDE DEF v
<1>14. v \in [0..n -> BatchResults] /\ v[0] = base /\ \A i \in 1..n : v[i] = step[<<i, v[i - 1]>>]
  BY <1>12 DEF Recurs
<1>15. ASSUME NEW i \in 1..n PROVE v[i] = After(v[i - 1], messages[i])
  <2>1. <<i, v[i - 1]>> \in (1..n) \X BatchResults
    BY <1>1, <1>14
  <2> QED
    BY <1>14, <2>1
<1> QED
  BY <1>13, <1>14, <1>15 DEF After, base

\* A batch counts the messages that are sent and keeps the other answers in their
\* order; with the messages reversed it keeps them reversed.
LEMMA BatchesAreFair ==
  ASSUME NEW messages \in Seq(Mails) PROVE BatchHolds(messages)
<1> DEFINE n == Len(messages)
           o == [i \in 1..n |-> SendMail(messages[i])]
           back == Reverse(messages)
<1>1. n \in Nat /\ \A i \in 1..n : messages[i] \in Mails
  BY LenProperties, ElementOfSeq
<1>2. \A i \in 1..n : o[i] \in MailOutcomes
  BY <1>1, MailSent
<1>3. /\ back \in Seq(Mails)
      /\ Len(back) = n
      /\ \A i \in 1..n : SendMail(back[i]) = o[n + 1 - i]
  <2>1. back = [i \in 1..n |-> messages[n - i + 1]]
    BY DEF Reverse
  <2>2. \A i \in 1..n : n - i + 1 \in 1..n /\ n + 1 - i = n - i + 1
    BY <1>1
  <2>3. back \in [1..n -> Mails]
    BY <1>1, <2>1, <2>2
  <2>4. back \in Seq(Mails)
    <3>1. back \in UNION {[1..k -> Mails] : k \in Nat}
      BY <1>1, <2>3
    <3> QED
      BY <3>1, SeqDef
  <2>5. Len(back) = n
    <3>1. DOMAIN back = 1..n /\ DOMAIN back = 1..Len(back) /\ Len(back) \in Nat
      BY <2>3, <2>4, LenProperties
    <3> QED
      BY <1>1, <3>1
  <2>6. \A i \in 1..n : back[i] = messages[n + 1 - i] /\ n + 1 - i \in 1..n
    BY <2>1, <2>2
  <2> HIDE DEF back
  <2> QED
    BY <2>4, <2>5, <2>6
<1>4. PICK v : /\ v \in [0..n -> BatchResults]
               /\ v[0] = [sent |-> 0, errors |-> <<>>]
               /\ \A i \in 1..n :
                    v[i] = IF SendMail(messages[i]) = "sent"
                             THEN [v[i - 1] EXCEPT !.sent = @ + 1]
                             ELSE [v[i - 1] EXCEPT !.errors = Append(@, SendMail(messages[i]))]
               /\ SendBatch(messages) = v[n]
  BY BatchAlong
<1>5. PICK w : /\ w \in [0..n -> BatchResults]
               /\ w[0] = [sent |-> 0, errors |-> <<>>]
               /\ \A i \in 1..n :
                    w[i] = IF SendMail(back[i]) = "sent"
                             THEN [w[i - 1] EXCEPT !.sent = @ + 1]
                             ELSE [w[i - 1] EXCEPT !.errors = Append(@, SendMail(back[i]))]
               /\ SendBatch(back) = w[n]
  <2> HIDE DEF back
  <2>1. \E u : /\ u \in [0..Len(back) -> BatchResults]
               /\ u[0] = [sent |-> 0, errors |-> <<>>]
               /\ \A i \in 1..Len(back) :
                    u[i] = IF SendMail(back[i]) = "sent"
                             THEN [u[i - 1] EXCEPT !.sent = @ + 1]
                             ELSE [u[i - 1] EXCEPT !.errors = Append(@, SendMail(back[i]))]
               /\ SendBatch(back) = u[Len(back)]
    BY <1>3, BatchAlong
  <2> QED
    BY <1>3, <2>1
<1> HIDE DEF back
<1> DEFINE s(i) == v[i].sent
           e(i) == v[i].errors
           t(i) == w[i].sent
           r(i) == w[i].errors
<1>6. /\ \A i \in 0..n : /\ s(i) \in Nat /\ e(i) \in Seq(MailOutcomes) /\ Len(e(i)) \in Nat
                         /\ t(i) \in Nat /\ r(i) \in Seq(MailOutcomes) /\ Len(r(i)) \in Nat
      /\ s(0) = 0 /\ e(0) = <<>> /\ t(0) = 0 /\ r(0) = <<>>
  <2>1. \A x \in BatchResults : x.sent \in Nat /\ x.errors \in Seq(MailOutcomes)
    BY DEF BatchResults
  <2>2. \A x \in BatchResults : Len(x.errors) \in Nat
    BY <2>1, LenProperties
  <2> QED
    BY <1>4, <1>5, <2>1, <2>2
<1>7. ASSUME NEW i \in 1..n
      PROVE  /\ o[i] = "sent" => s(i) = s(i - 1) + 1 /\ e(i) = e(i - 1)
             /\ o[i] # "sent" => /\ s(i) = s(i - 1)
                                 /\ Len(e(i)) = Len(e(i - 1)) + 1
                                 /\ \A p \in 1..Len(e(i - 1)) : e(i)[p] = e(i - 1)[p]
                                 /\ e(i)[Len(e(i - 1)) + 1] = o[i]
  <2>1. i - 1 \in 0..n /\ v[i - 1] \in BatchResults
    BY <1>1, <1>4
  <2>2. CASE o[i] = "sent"
    <3>1. v[i] = [v[i - 1] EXCEPT !.sent = @ + 1]
      BY <1>4, <2>2
    <3> QED
      BY <2>1, <2>2, <3>1 DEF BatchResults
  <2>3. CASE o[i] # "sent"
    <3>1. v[i] = [v[i - 1] EXCEPT !.errors = Append(@, o[i])]
      BY <1>4, <2>3
    <3>2. s(i) = s(i - 1) /\ e(i) = Append(e(i - 1), o[i])
      BY <2>1, <3>1 DEF BatchResults
    <3>3. e(i - 1) \in Seq(MailOutcomes) /\ o[i] \in MailOutcomes
      BY <1>2, <1>6, <2>1
    <3>4. /\ Len(Append(e(i - 1), o[i])) = Len(e(i - 1)) + 1
          /\ \A p \in 1..Len(e(i - 1)) : Append(e(i - 1), o[i])[p] = e(i - 1)[p]
          /\ Append(e(i - 1), o[i])[Len(e(i - 1)) + 1] = o[i]
      BY ONLY <3>3, AppendProperties
    <3> QED
      BY ONLY <2>3, <3>2, <3>4
  <2> QED
    BY <2>2, <2>3
<1>8. ASSUME NEW i \in 1..n
      PROVE  /\ o[n + 1 - i] = "sent" => t(i) = t(i - 1) + 1 /\ r(i) = r(i - 1)
             /\ o[n + 1 - i] # "sent" => /\ t(i) = t(i - 1)
                                         /\ Len(r(i)) = Len(r(i - 1)) + 1
                                         /\ \A p \in 1..Len(r(i - 1)) : r(i)[p] = r(i - 1)[p]
                                         /\ r(i)[Len(r(i - 1)) + 1] = o[n + 1 - i]
  <2>1. i - 1 \in 0..n /\ w[i - 1] \in BatchResults
    BY <1>1, <1>5
  <2> DEFINE a == o[n + 1 - i]
  <2>0. a \in MailOutcomes /\ a = SendMail(back[i])
    <3>1. n + 1 - i \in 1..n
      BY <1>1
    <3> QED
      BY <1>2, <1>3, <3>1
  <2> HIDE DEF a
  <2>2. CASE a = "sent"
    <3>1. w[i] = [w[i - 1] EXCEPT !.sent = @ + 1]
      BY <1>5, <2>0, <2>2
    <3> QED
      BY <2>1, <2>2, <3>1 DEF BatchResults, a
  <2>3. CASE a # "sent"
    <3>1. w[i] = [w[i - 1] EXCEPT !.errors = Append(@, a)]
      BY <1>5, <2>0, <2>3
    <3>2. t(i) = t(i - 1) /\ r(i) = Append(r(i - 1), a)
      BY <2>1, <3>1 DEF BatchResults
    <3>3. r(i - 1) \in Seq(MailOutcomes) /\ a \in MailOutcomes
      BY <1>6, <2>0, <2>1
    <3>4. /\ Len(Append(r(i - 1), a)) = Len(r(i - 1)) + 1
          /\ \A p \in 1..Len(r(i - 1)) : Append(r(i - 1), a)[p] = r(i - 1)[p]
          /\ Append(r(i - 1), a)[Len(r(i - 1)) + 1] = a
      BY ONLY <3>3, AppendProperties
    <3> QED
      BY ONLY <2>3, <3>2, <3>4 DEF a
  <2> QED
    BY <2>2, <2>3 DEF a
<1> HIDE DEF o, s, e, t, r, n
<1> DEFINE good(i) == {j \in 1..i : o[j] = "sent"}
           E == e(n)
\* What is counted is what was sent, and what is kept stays where it is.
<1>9. \A i \in 0..n : /\ IsFiniteSet(good(i)) /\ s(i) = Cardinality(good(i))
                      /\ s(i) + Len(e(i)) = i
  <2> DEFINE S == {i \in Nat : i <= n => /\ IsFiniteSet(good(i)) /\ s(i) = Cardinality(good(i))
                                         /\ s(i) + Len(e(i)) = i}
  <2>1. 0 \in S
    <3>1. good(0) = {} /\ Len(e(0)) = 0
      BY <1>6, EmptySeq
    <3> QED
      BY <1>6, <3>1, FS_EmptySet
  <2>2. ASSUME NEW i \in Nat, i \in S PROVE i + 1 \in S
    <3> SUFFICES ASSUME i + 1 <= n
                 PROVE  /\ IsFiniteSet(good(i + 1)) /\ s(i + 1) = Cardinality(good(i + 1))
                        /\ s(i + 1) + Len(e(i + 1)) = i + 1
      BY i + 1 \in Nat
    <3>1. /\ IsFiniteSet(good(i)) /\ s(i) = Cardinality(good(i)) /\ s(i) + Len(e(i)) = i
          /\ s(i) \in Nat /\ Len(e(i)) \in Nat
      BY <1>1, <1>6, <2>2
    <3>2. i + 1 \in 1..n /\ (i + 1) - 1 = i
      BY <1>1
    <3>3. CASE o[i + 1] = "sent"
      <4>1. good(i + 1) = good(i) \cup {i + 1} /\ i + 1 \notin good(i)
        BY <3>2, <3>3
      <4> HIDE DEF good
      <4>2. IsFiniteSet(good(i + 1)) /\ Cardinality(good(i + 1)) = Cardinality(good(i)) + 1
        BY ONLY <3>1, <4>1, FS_AddElement
      <4>3. s(i + 1) = s(i) + 1 /\ e(i + 1) = e(i)
        BY <1>7, <3>2, <3>3
      <4> QED
        BY <3>1, <4>2, <4>3
    <3>4. CASE o[i + 1] # "sent"
      <4>1. good(i + 1) = good(i)
        BY <3>2, <3>4
      <4> HIDE DEF good
      <4>2. s(i + 1) = s(i) /\ Len(e(i + 1)) = Len(e(i)) + 1
        BY <1>7, <3>2, <3>4
      <4> QED
        BY <3>1, <4>1, <4>2
    <3> QED
      BY <3>3, <3>4
  <2>3. Nat \subseteq S
    <3> HIDE DEF S
    <3> QED
      BY <2>1, <2>2, Induction
  <2> TAKE i \in 0..n
  <2>4. i \in Nat /\ i <= n
    BY <1>1
  <2>5. i \in S
    BY ONLY <2>3, <2>4
  <2> QED
    BY ONLY <2>4, <2>5
<1>10. \A i \in 0..n : Len(e(n - i)) <= Len(E) /\ \A p \in 1..Len(e(n - i)) : e(n - i)[p] = E[p]
  <2> DEFINE S == {i \in Nat : i <= n => /\ Len(e(n - i)) <= Len(E)
                                         /\ \A p \in 1..Len(e(n - i)) : e(n - i)[p] = E[p]}
  <2>1. 0 \in S
    <3>1. n - 0 = n /\ n \in 0..n
      BY <1>1
    <3> QED
      BY <1>6, <3>1
  <2>2. ASSUME NEW i \in Nat, i \in S PROVE i + 1 \in S
    <3> SUFFICES ASSUME i + 1 <= n
                 PROVE  /\ Len(e(n - (i + 1))) <= Len(E)
                        /\ \A p \in 1..Len(e(n - (i + 1))) : e(n - (i + 1))[p] = E[p]
      BY i + 1 \in Nat
    <3> DEFINE k == n - i
    <3>1. k \in 1..n /\ k \in 0..n /\ k - 1 \in 0..n /\ n - (i + 1) = k - 1 /\ n \in 0..n
      BY <1>1
    <3>2. Len(e(k)) <= Len(E) /\ \A p \in 1..Len(e(k)) : e(k)[p] = E[p]
      BY <1>1, <2>2
    <3> HIDE DEF k, E
    <3>3. Len(e(k)) \in Nat /\ Len(e(k - 1)) \in Nat /\ Len(E) \in Nat
      BY <1>6, <3>1 DEF E
    <3>4. /\ Len(e(k - 1)) <= Len(e(k))
          /\ \A p \in 1..Len(e(k - 1)) : e(k)[p] = e(k - 1)[p]
      <4>1. CASE o[k] = "sent"
        BY <1>7, <3>1, <3>3, <4>1
      <4>2. CASE o[k] # "sent"
        BY <1>7, <3>1, <3>3, <4>2
      <4> QED
        BY <4>1, <4>2
    <3> QED
      BY <3>1, <3>2, <3>3, <3>4
  <2>3. Nat \subseteq S
    <3> HIDE DEF S
    <3> QED
      BY <2>1, <2>2, Induction
  <2> TAKE i \in 0..n
  <2>4. i \in Nat /\ i <= n
    BY <1>1
  <2>5. i \in S
    BY ONLY <2>3, <2>4
  <2> QED
    BY ONLY <2>4, <2>5
\* The reversed batch takes the same messages from the other end.
<1>11. \A j \in 0..n : /\ t(j) = s(n) - s(n - j)
                       /\ Len(r(j)) = Len(E) - Len(e(n - j))
                       /\ \A p \in 1..Len(r(j)) : r(j)[p] = E[Len(E) + 1 - p]
  <2> DEFINE S == {j \in Nat : j <= n => /\ t(j) = s(n) - s(n - j)
                                         /\ Len(r(j)) = Len(E) - Len(e(n - j))
                                         /\ \A p \in 1..Len(r(j)) : r(j)[p] = E[Len(E) + 1 - p]}
  <2>1. 0 \in S
    <3>1. n - 0 = n /\ n \in 0..n /\ Len(r(0)) = 0
      BY <1>1, <1>6, EmptySeq
    <3> QED
      BY <1>6, <3>1
  <2>2. ASSUME NEW j \in Nat, j \in S PROVE j + 1 \in S
    <3> SUFFICES ASSUME j + 1 <= n
                 PROVE  /\ t(j + 1) = s(n) - s(n - (j + 1))
                        /\ Len(r(j + 1)) = Len(E) - Len(e(n - (j + 1)))
                        /\ \A p \in 1..Len(r(j + 1)) : r(j + 1)[p] = E[Len(E) + 1 - p]
      BY j + 1 \in Nat
    <3> DEFINE k == n - j
    <3>1. /\ k \in 1..n /\ k \in 0..n /\ k - 1 \in 0..n /\ n - (j + 1) = k - 1 /\ n \in 0..n
          /\ j + 1 \in 1..n /\ (j + 1) - 1 = j /\ n + 1 - (j + 1) = k
          /\ j \in 0..n /\ j + 1 \in 0..n
      BY <1>1
    <3>2. /\ t(j) = s(n) - s(k)
          /\ Len(r(j)) = Len(E) - Len(e(k))
          /\ \A p \in 1..Len(r(j)) : r(j)[p] = E[Len(E) + 1 - p]
      BY <1>1, <2>2
    <3>5. \A p \in 1..Len(e(k)) : e(k)[p] = E[p]
      BY <1>10, <3>1, n - j = k
    <3> HIDE DEF k, E
    <3>3. /\ Len(e(k)) \in Nat /\ Len(e(k - 1)) \in Nat /\ Len(E) \in Nat
          /\ Len(r(j)) \in Nat /\ Len(r(j + 1)) \in Nat
          /\ s(k) \in Nat /\ s(k - 1) \in Nat /\ s(n) \in Nat /\ t(j) \in Nat
      BY <1>6, <3>1 DEF E
    <3>4. CASE o[k] = "sent"
      <4>1. s(k) = s(k - 1) + 1 /\ e(k) = e(k - 1)
        BY <1>7, <3>1, <3>4
      <4>2. t(j + 1) = t(j) + 1 /\ r(j + 1) = r(j)
        BY <1>8, <3>1, <3>4
      <4>3. t(j + 1) = s(n) - s(k - 1)
        BY <3>2, <3>3, <4>1, <4>2
      <4> QED
        BY ONLY <3>1, <3>2, <4>1, <4>2, <4>3
    <3>6. CASE o[k] # "sent"
      <4>1. s(k) = s(k - 1) /\ Len(e(k)) = Len(e(k - 1)) + 1 /\ e(k)[Len(e(k - 1)) + 1] = o[k]
        BY <1>7, <3>1, <3>6
      <4>2. /\ t(j + 1) = t(j) /\ Len(r(j + 1)) = Len(r(j)) + 1
            /\ \A p \in 1..Len(r(j)) : r(j + 1)[p] = r(j)[p]
            /\ r(j + 1)[Len(r(j)) + 1] = o[k]
        BY <1>8, <3>1, <3>6
      <4>3. E[Len(e(k))] = o[k] /\ Len(E) + 1 - (Len(r(j)) + 1) = Len(e(k))
        <5>1. Len(e(k)) \in 1..Len(e(k)) /\ Len(e(k - 1)) + 1 = Len(e(k))
          BY <3>3, <4>1
        <5> QED
          BY <3>2, <3>3, <3>5, <4>1, <5>1
      <4>4. ASSUME NEW p \in 1..Len(r(j + 1)) PROVE r(j + 1)[p] = E[Len(E) + 1 - p]
        <5>1. CASE p = Len(r(j)) + 1
          BY <4>2, <4>3, <5>1
        <5>2. CASE p # Len(r(j)) + 1
          <6>0. /\ Len(r(j + 1)) = Len(r(j)) + 1 /\ Len(r(j)) \in Nat
                /\ p \in 1..Len(r(j + 1))
            BY <3>3, <4>2
          <6>1. p \in 1..Len(r(j))
            BY ONLY <5>2, <6>0
          <6>2. r(j)[p] = E[Len(E) + 1 - p]
            BY <3>2, <6>1
          <6>3. r(j + 1)[p] = r(j)[p]
            BY <4>2, <6>1
          <6> QED
            BY ONLY <6>2, <6>3
        <5> QED
          BY <5>1, <5>2
      <4>5. t(j + 1) = s(n) - s(k - 1)
        BY <3>2, <3>3, <4>1, <4>2
      <4>6. Len(r(j + 1)) = Len(E) - Len(e(k - 1))
        <5>1. /\ Len(r(j)) = Len(E) - Len(e(k))
              /\ Len(e(k)) = Len(e(k - 1)) + 1
              /\ Len(r(j + 1)) = Len(r(j)) + 1
          BY <3>2, <4>1, <4>2
        <5> QED
          BY ONLY <3>3, <5>1
      <4> QED
        <5>1. n - (j + 1) = k - 1
          BY <3>1
        <5>2. \A p \in 1..Len(r(j + 1)) : r(j + 1)[p] = E[Len(E) + 1 - p]
          BY <4>4
        <5> QED
          BY ONLY <4>5, <4>6, <5>1, <5>2
    <3> QED
      BY <3>4, <3>6
  <2>3. Nat \subseteq S
    <3> HIDE DEF S
    <3> QED
      BY <2>1, <2>2, Induction
  <2> TAKE j \in 0..n
  <2>4. j \in Nat /\ j <= n
    BY <1>1
  <2>5. j \in S
    BY ONLY <2>3, <2>4
  <2> QED
    BY ONLY <2>4, <2>5
<1>12. t(n) = s(n) /\ r(n) = Reverse(E)
  <2>1. n \in 0..n /\ n - n = 0 /\ 0 \in 0..n
    BY <1>1
  <2>2. Len(e(0)) = 0
    BY <1>6, EmptySeq
  <2>3. /\ E \in Seq(MailOutcomes) /\ Len(E) \in Nat /\ s(n) \in Nat
        /\ r(n) \in Seq(MailOutcomes)
    BY <1>6, <2>1
  <2>4. /\ t(n) = s(n)
        /\ Len(r(n)) = Len(E)
        /\ \A p \in 1..Len(r(n)) : r(n)[p] = E[Len(E) + 1 - p]
    <3>1. /\ t(n) = s(n) - s(n - n)
          /\ Len(r(n)) = Len(E) - Len(e(n - n))
          /\ \A p \in 1..Len(r(n)) : r(n)[p] = E[Len(E) + 1 - p]
      BY <1>11, <2>1
    <3>2. s(n - n) = 0 /\ Len(e(n - n)) = 0
      BY <1>6, <2>1, <2>2
    <3> HIDE DEF E
    <3>3. t(n) = s(n) /\ Len(r(n)) = Len(E)
      BY ONLY <2>3, <3>1, <3>2
    <3> QED
      BY ONLY <3>1, <3>3
  <2> HIDE DEF E
  <2>5. r(n) = [p \in 1..Len(E) |-> r(n)[p]]
    BY <2>3, <2>4, LenProperties
  <2>6. \A p \in 1..Len(E) : r(n)[p] = E[(Len(E) - p) + 1]
    <3>1. \A p \in 1..Len(E) : Len(E) + 1 - p = (Len(E) - p) + 1
      BY <2>3
    <3> QED
      BY <2>4, <3>1
  <2>7. r(n) = Reverse(E)
    BY <2>5, <2>6 DEF Reverse
  <2> QED
    BY <2>4, <2>7
<1>13. DOMAIN messages = 1..n
  BY LenProperties DEF n
<1> DEFINE done == SendBatch(messages)
           gone == {i \in DOMAIN messages : SendMail(messages[i]) = "sent"}
<1>14. gone = good(n)
  BY <1>13 DEF o
<1>15. done \in BatchResults /\ done.sent = s(n) /\ done.errors = E /\ n \in 0..n
  BY <1>1, <1>4 DEF s, e
<1>16. SendBatch(back) = [done EXCEPT !.errors = Reverse(@)]
  <2>1. SendBatch(back) \in BatchResults /\ SendBatch(back).sent = t(n) /\ SendBatch(back).errors = r(n)
    BY <1>1, <1>5 DEF t, r
  <2> HIDE DEF done, E
  <2>2. SendBatch(back) = [sent |-> s(n), errors |-> Reverse(E)]
    BY <1>12, <2>1 DEF BatchResults
  <2>3. done = [sent |-> s(n), errors |-> E]
    BY <1>15 DEF BatchResults
  <2> QED
    BY ONLY <2>2, <2>3
<1>17. ASSUME NEW i \in gone
       PROVE  /\ Len(messages[i].to) > 0
              /\ (messages[i].text \/ messages[i].html)
              /\ FALSE \notin ToSet(messages[i].to \o messages[i].cc \o messages[i].bcc)
  BY <1>1, <1>13, MailSent
<1>18. /\ done.sent = Cardinality(gone)
       /\ done.sent + Len(done.errors) = Len(messages)
  <2>1. s(n) = Cardinality(good(n)) /\ s(n) + Len(e(n)) = n
    BY <1>9, <1>15
  <2> QED
    BY <1>14, <1>15, <2>1 DEF n
<1> HIDE DEF done, gone, good, E
<1> QED
  BY <1>16, <1>17, <1>18 DEF BatchHolds, done, gone, back

-----------------------------------------------------------------------------
(***************************************************************************)
(* Masks.  The signs of a text that is masked are the places they stand at, *)
(* so what a mask shows tells where it comes from.                         *)
(***************************************************************************)
\* What a text to be masked is made of: numbers, and what masks look for.
Signs == Nat \cup {At, Dot, Star}

\* The ends of a text, with stars between them.
MaskOf(s, a, k, b) == First(s, a) \o Stars(k) \o Final(s, b)

\* m is s with k stars in place of what is between its first a and its last b.
MaskedAs(m, s, a, k, b) ==
  /\ m \in Seq(Signs)
  /\ Len(m) = a + k + b
  /\ \A i \in 1..(a + k + b) :
       m[i] = IF i <= a THEN s[i]
              ELSE IF i <= a + k THEN Star
              ELSE s[(i - (a + k)) + (Len(s) - b)]

\* Two intervals from 1 that are the same end at the same number.
LEMMA SameLength ==
  ASSUME NEW m \in Nat, NEW n \in Nat, 1..m = 1..n
  PROVE  m = n
<1>1. CASE m = 0
  <2>1. n \notin 1..m
    BY <1>1
  <2> QED
    BY <1>1, <2>1
<1>2. CASE m # 0
  <2>1. m \in 1..n
    BY <1>2
  <2>2. n \in 1..m
    BY <2>1
  <2> QED
    BY <2>1, <2>2
<1> QED
  BY <1>1, <1>2

\* A row of stars has as many as were asked for, and nothing else.
LEMMA StarsOnly ==
  ASSUME NEW k \in Nat
  PROVE  /\ Stars(k) \in Seq(Signs)
         /\ Len(Stars(k)) = k
         /\ \A i \in 1..k : Stars(k)[i] = Star
<1>1. Stars(k) \in [1..k -> Signs]
  BY DEF Stars, Signs
<1>2. Stars(k) \in Seq(Signs)
  <2>1. Stars(k) \in UNION {[1..n -> Signs] : n \in Nat}
    BY <1>1
  <2> QED
    BY <2>1, SeqDef
<1>3. Len(Stars(k)) \in Nat /\ DOMAIN Stars(k) = 1..Len(Stars(k)) /\ DOMAIN Stars(k) = 1..k
  BY <1>1, <1>2, LenProperties
<1>4. Len(Stars(k)) = k
  BY ONLY <1>3, k \in Nat, SameLength
<1> QED
  BY <1>2, <1>4 DEF Stars

\* The first and the last signs of a text are as many as were asked for, in place.
LEMMA EndPieces ==
  ASSUME NEW s \in Seq(Signs), NEW a \in Nat, a <= Len(s)
  PROVE  /\ First(s, a) \in Seq(Signs) /\ Len(First(s, a)) = a
         /\ \A i \in 1..a : First(s, a)[i] = s[i]
         /\ Final(s, a) \in Seq(Signs) /\ Len(Final(s, a)) = a
         /\ \A i \in 1..a : Final(s, a)[i] = s[i + (Len(s) - a)]
<1>1. Len(s) \in Nat
  BY LenProperties
<1>2. /\ SubSeq(s, 1, a) \in Seq(Signs)
      /\ Len(SubSeq(s, 1, a)) = a - 1 + 1
      /\ \A i \in 1..(a - 1 + 1) : SubSeq(s, 1, a)[i] = s[1 + i - 1]
  BY <1>1, 1 <= a + 1, Piece
<1>3. PICK l \in Nat : l = Len(s) - a + 1 /\ 1 <= l /\ l <= Len(s) + 1
  BY <1>1
<1>4. /\ SubSeq(s, l, Len(s)) \in Seq(Signs)
      /\ Len(SubSeq(s, l, Len(s))) = Len(s) - l + 1
      /\ \A i \in 1..(Len(s) - l + 1) : SubSeq(s, l, Len(s))[i] = s[l + i - 1]
  BY <1>1, <1>3, Piece
<1>5. /\ a - 1 + 1 = a /\ Len(s) - l + 1 = a
      /\ \A i \in 1..a : 1 + i - 1 = i /\ l + i - 1 = i + (Len(s) - a)
  BY <1>1, <1>3
<1>6. First(s, a) = SubSeq(s, 1, a) /\ Final(s, a) = SubSeq(s, l, Len(s))
  BY <1>3 DEF First, Final
<1> QED
  BY <1>2, <1>4, <1>5, <1>6

\* A mask keeps both ends and puts stars between them.
LEMMA MaskShape ==
  ASSUME NEW s \in Seq(Signs), NEW a \in Nat, NEW k \in Nat, NEW b \in Nat,
         a <= Len(s), b <= Len(s)
  PROVE  MaskedAs(MaskOf(s, a, k, b), s, a, k, b)
<1>1. Len(s) \in Nat
  BY LenProperties
<1> DEFINE f == First(s, a)
           g == Stars(k)
           h == Final(s, b)
           m == MaskOf(s, a, k, b)
<1>2. /\ f \in Seq(Signs) /\ Len(f) = a /\ \A i \in 1..a : f[i] = s[i]
      /\ g \in Seq(Signs) /\ Len(g) = k /\ \A i \in 1..k : g[i] = Star
      /\ h \in Seq(Signs) /\ Len(h) = b /\ \A i \in 1..b : h[i] = s[i + (Len(s) - b)]
  BY <1>1, EndPieces, StarsOnly
<1>3. m = (f \o g) \o h
  BY DEF MaskOf
<1> HIDE DEF f, g, h, m
<1>8. f \in Seq(Signs) /\ g \in Seq(Signs) /\ h \in Seq(Signs)
  BY <1>2
<1>9. Len(f) = a /\ Len(g) = k /\ Len(h) = b
  BY <1>2
<1>4. /\ f \o g \in Seq(Signs) /\ Len(f \o g) = a + k
      /\ \A i \in 1..(a + k) : (f \o g)[i] = IF i <= a THEN f[i] ELSE g[i - a]
  BY ONLY <1>8, <1>9, ConcatProperties
<1>5. /\ (f \o g) \o h \in Seq(Signs) /\ Len((f \o g) \o h) = (a + k) + b
      /\ \A i \in 1..((a + k) + b) :
           ((f \o g) \o h)[i] = IF i <= a + k THEN (f \o g)[i] ELSE h[i - (a + k)]
  <2>1. f \o g \in Seq(Signs)
    BY <1>4
  <2>2. Len(f \o g) = a + k
    BY <1>4
  <2> QED
    <3> PICK u : u = f \o g
      OBVIOUS
    <3>1. u \in Seq(Signs) /\ Len(u) = a + k
      BY <2>1, <2>2
    <3>2. /\ u \o h \in Seq(Signs)
          /\ Len(u \o h) = Len(u) + Len(h)
          /\ \A i \in 1..(Len(u) + Len(h)) :
               (u \o h)[i] = IF i <= Len(u) THEN u[i] ELSE h[i - Len(u)]
      BY ONLY <1>8, <3>1, ConcatProperties
    <3> QED
      BY ONLY <1>9, <3>1, <3>2, u = f \o g
<1>6. ASSUME NEW i \in 1..(a + k + b)
      PROVE  m[i] = IF i <= a THEN s[i]
                    ELSE IF i <= a + k THEN Star
                    ELSE s[(i - (a + k)) + (Len(s) - b)]
  <2>1. CASE i <= a
    <3>1. i \in 1..a /\ i \in 1..(a + k)
      BY <2>1
    <3>2. m[i] = (f \o g)[i] /\ (f \o g)[i] = f[i]
      BY <1>3, <1>4, <1>5, <2>1, <3>1
    <3> QED
      BY <1>2, <2>1, <3>1, <3>2
  <2>2. CASE ~(i <= a) /\ i <= a + k
    <3>1. i - a \in 1..k /\ i \in 1..(a + k)
      BY <2>2
    <3>2. m[i] = (f \o g)[i] /\ (f \o g)[i] = g[i - a]
      BY <1>3, <1>4, <1>5, <2>2, <3>1
    <3> QED
      BY <1>2, <2>2, <3>1, <3>2
  <2>3. CASE ~(i <= a + k)
    <3>1. i - (a + k) \in 1..b /\ ~(i <= a)
      BY <2>3
    <3>2. m[i] = h[i - (a + k)]
      BY <1>3, <1>5, <2>3
    <3>3. h[i - (a + k)] = s[(i - (a + k)) + (Len(s) - b)]
      BY <1>2, <3>1
    <3> QED
      BY ONLY <2>3, <3>1, <3>2, <3>3
  <2> QED
    BY <2>1, <2>2, <2>3
<1>7. (a + k) + b = a + k + b
  OBVIOUS
<1> QED
  BY ONLY <1>3, <1>5, <1>6, <1>7 DEF m, MaskedAs

\* To mask what is masked changes nothing.
LEMMA MaskAgain ==
  ASSUME NEW s \in Seq(Signs), NEW a \in Nat, NEW k \in Nat, NEW b \in Nat,
         a <= Len(s), b <= Len(s)
  PROVE  MaskOf(MaskOf(s, a, k, b), a, k, b) = MaskOf(s, a, k, b)
<1> DEFINE m == MaskOf(s, a, k, b)
           t == MaskOf(m, a, k, b)
<1>1. /\ m \in Seq(Signs)
      /\ Len(m) = a + k + b
      /\ \A i \in 1..(a + k + b) : ~(i <= a) /\ i <= a + k => m[i] = Star
  <2>1. MaskedAs(m, s, a, k, b)
    BY MaskShape
  <2> QED
    BY <2>1 DEF MaskedAs
<1> HIDE DEF m
<1>2. m \in Seq(Signs)
  BY <1>1
<1>3. a <= Len(m) /\ b <= Len(m)
  BY <1>1
<1>4. /\ t \in Seq(Signs)
      /\ Len(t) = a + k + b
      /\ \A i \in 1..(a + k + b) :
           t[i] = IF i <= a THEN m[i]
                  ELSE IF i <= a + k THEN Star
                  ELSE m[(i - (a + k)) + (Len(m) - b)]
  <2>1. MaskedAs(t, m, a, k, b)
    BY ONLY <1>2, <1>3, a \in Nat, k \in Nat, b \in Nat, MaskShape
  <2> QED
    BY <2>1 DEF MaskedAs
<1>5. \A i \in 1..(a + k + b) : (i - (a + k)) + (Len(m) - b) = i
  BY <1>1
<1> HIDE DEF t
<1>6. \A i \in 1..Len(t) : t[i] = m[i]
  <2> SUFFICES ASSUME NEW i \in 1..(a + k + b) PROVE t[i] = m[i]
    BY <1>4
  <2>1. t[i] = IF i <= a THEN m[i]
               ELSE IF i <= a + k THEN Star
               ELSE m[i]
    BY <1>4, <1>5
  <2> QED
    BY <1>1, <2>1
<1>7. t \in Seq(Signs) /\ Len(t) = Len(m)
  BY <1>1, <1>4
<1>8. t = m
  BY ONLY <1>2, <1>6, <1>7, SeqEqual
<1> QED
  BY <1>8 DEF t, m

\* The text that is masked in the model: its signs are the places they stand at.
LEMMA TextIs ==
  ASSUME NEW n \in Nat
  PROVE  Text(n) \in Seq(Signs) /\ Len(Text(n)) = n /\ \A i \in 1..n : Text(n)[i] = i
<1>1. Text(n) \in [1..n -> Signs]
  BY DEF Text, Signs
<1>2. Text(n) \in Seq(Signs)
  <2>1. Text(n) \in UNION {[1..k -> Signs] : k \in Nat}
    BY <1>1
  <2> QED
    BY <2>1, SeqDef
<1>3. Len(Text(n)) \in Nat /\ DOMAIN Text(n) = 1..Len(Text(n)) /\ DOMAIN Text(n) = 1..n
  BY <1>1, <1>2, LenProperties
<1>4. Len(Text(n)) = n
  BY ONLY <1>3, n \in Nat, SameLength
<1> QED
  BY <1>2, <1>4 DEF Text

\* The ends show, and nothing else does.
LEMMA MaskShows ==
  ASSUME NEW n \in Nat, NEW a \in Nat, NEW k \in Nat, NEW b \in Nat,
         a <= n, b <= n
  PROVE  Shown(MaskOf(Text(n), a, k, b)) = Ends(n, a, b)
<1> DEFINE m == MaskOf(Text(n), a, k, b)
<1>1. Text(n) \in Seq(Signs) /\ Len(Text(n)) = n /\ \A i \in 1..n : Text(n)[i] = i
  BY TextIs
<1>2. /\ m \in Seq(Signs)
      /\ Len(m) = a + k + b
      /\ \A i \in 1..(a + k + b) :
           m[i] = IF i <= a THEN Text(n)[i]
                  ELSE IF i <= a + k THEN Star
                  ELSE Text(n)[(i - (a + k)) + (Len(Text(n)) - b)]
  <2>1. Text(n) \in Seq(Signs) /\ a <= Len(Text(n)) /\ b <= Len(Text(n))
    BY <1>1
  <2>2. MaskedAs(m, Text(n), a, k, b)
    BY ONLY <2>1, a \in Nat, b \in Nat, k \in Nat, MaskShape
  <2> QED
    BY <2>2 DEF MaskedAs
<1> HIDE DEF m
<1>3. \A i \in 1..(a + k + b) : /\ i <= a => i \in 1..n
                                /\ ~(i <= a + k) => (i - (a + k)) + (n - b) \in 1..n
  OBVIOUS
<1>4. \A i \in 1..(a + k + b) :
        m[i] = IF i <= a THEN i ELSE IF i <= a + k THEN Star ELSE (i - (a + k)) + (n - b)
  BY ONLY <1>1, <1>2, <1>3
<1>5. DOMAIN m = 1..(a + k + b)
  BY <1>2, LenProperties
<1>6. ASSUME NEW x \in Shown(m) PROVE x \in Ends(n, a, b)
  <2>1. PICK i \in 1..(a + k + b) : x = m[i] /\ x \in Nat
    BY <1>5 DEF Shown, ToSet
  <2>2. x # Star
    BY <2>1, NoCharacter
  <2>3. x = IF i <= a THEN i ELSE (i - (a + k)) + (n - b)
    BY <1>4, <2>1, <2>2
  <2>4. x \in 1..n /\ (x <= a \/ x > n - b)
    <3>1. CASE i <= a
      BY <1>3, <2>3, <3>1
    <3>2. CASE ~(i <= a)
      <4>1. ~(i <= a + k)
        BY <1>4, <2>1, <2>2, <3>2
      <4> QED
        BY <1>3, <2>3, <3>2, <4>1
    <3> QED
      BY <3>1, <3>2
  <2> QED
    BY <2>4 DEF Ends
<1>8. ASSUME NEW i \in 1..(a + k + b), m[i] \in Nat PROVE m[i] \in Shown(m)
  BY <1>5, <1>8 DEF Shown, ToSet
<1>7. ASSUME NEW x \in Ends(n, a, b) PROVE x \in Shown(m)
  <2>1. x \in 1..n /\ (x <= a \/ x > n - b)
    BY DEF Ends
  <2>2. CASE x <= a
    <3>1. x \in 1..(a + k + b) /\ x \in Nat
      BY <2>1, <2>2
    <3>2. m[x] = x
      BY <1>4, <2>2, <3>1
    <3> QED
      BY <1>8, <3>1, <3>2
  <2>3. CASE x > n - b
    <3>1. PICK i \in 1..(a + k + b) : i = (x - (n - b)) + (a + k) /\ ~(i <= a) /\ ~(i <= a + k)
      BY <2>1, <2>3
    <3>2. m[i] = (i - (a + k)) + (n - b)
      BY <1>4, <3>1
    <3>3. (i - (a + k)) + (n - b) = x /\ x \in Nat
      BY <2>1, <3>1
    <3> QED
      BY <1>8, <3>2, <3>3
  <2> QED
    BY <2>1, <2>2, <2>3
<1> QED
  BY <1>6, <1>7 DEF m

\* Masks that keep the ends of a text of numbers.
LEMMA EndsKept ==
  ASSUME NEW n \in Nat
  PROVE  /\ n >= 7 => /\ Shown(MaskPhone(Text(n))) = Ends(n, 3, IF n = 11 THEN 4 ELSE 3)
                      /\ MaskIdCard(Text(n)) = MaskString(Text(n), 3, 3)
         /\ n >= 9 => Shown(MaskBankCard(Text(n))) = Ends(n, 4, 4)
         /\ n >= 3 => MaskName(Text(n)) = MaskString(Text(n), 1, 1)
<1> DEFINE s == Text(n)
<1>1. s \in Seq(Signs) /\ Len(s) = n
  BY TextIs
<1>5. \A a, k, b \in Nat : a <= n /\ b <= n => Shown(MaskOf(s, a, k, b)) = Ends(n, a, b)
  BY MaskShows
<1> HIDE DEF s
<1>2. ASSUME n >= 7
      PROVE  /\ Shown(MaskPhone(s)) = Ends(n, 3, IF n = 11 THEN 4 ELSE 3)
             /\ MaskIdCard(s) = MaskString(s, 3, 3)
  <2>1. MaskPhone(s) = MaskOf(s, 3, 4, IF n = 11 THEN 4 ELSE 3)
    BY <1>1, <1>2 DEF MaskPhone, MaskOf
  <2>2. Shown(MaskOf(s, 3, 4, IF n = 11 THEN 4 ELSE 3)) = Ends(n, 3, IF n = 11 THEN 4 ELSE 3)
    <3> PICK b \in Nat : b = IF n = 11 THEN 4 ELSE 3
      OBVIOUS
    <3>1. 3 <= n /\ b <= n
      BY <1>2
    <3>2. Shown(MaskOf(s, 3, 4, b)) = Ends(n, 3, b)
      BY <1>5, <3>1
    <3> QED
      BY <3>2
  <2>3. Len(s) - 6 = Len(s) - 3 - 3 /\ ~(Len(s) < 7) /\ ~(Len(s) <= 3 + 3)
    BY <1>1, <1>2
  <2>4. MaskIdCard(s) = MaskString(s, 3, 3)
    BY <2>3 DEF MaskIdCard, MaskString
  <2> QED
    BY <2>1, <2>2, <2>4
<1>3. ASSUME n >= 9 PROVE Shown(MaskBankCard(s)) = Ends(n, 4, 4)
  <2>1. MaskBankCard(s) = MaskOf(s, 4, 4, 4)
    BY <1>1, <1>3 DEF MaskBankCard, MaskOf
  <2>2. 4 <= n
    BY <1>3
  <2> QED
    BY <1>5, <2>1, <2>2
<1>4. ASSUME n >= 3 PROVE MaskName(s) = MaskString(s, 1, 1)
  <2>1. /\ Len(s) - 2 = Len(s) - 1 - 1 /\ ~(Len(s) <= 1) /\ Len(s) # 2
        /\ ~(Len(s) <= 1 + 1)
    BY <1>1, <1>4
  <2> QED
    BY <2>1 DEF MaskName, MaskString
<1> QED
  BY <1>2, <1>3, <1>4 DEF s

\* The masks with ends of their own, applied to what they have made.
LEMMA MasksStay ==
  ASSUME NEW s \in Seq(Signs)
  PROVE  /\ MaskPhone(MaskPhone(s)) = MaskPhone(s)
         /\ MaskIdCard(MaskIdCard(s)) = MaskIdCard(s)
         /\ MaskBankCard(MaskBankCard(s)) = MaskBankCard(s)
         /\ MaskName(MaskName(s)) = MaskName(s)
<1> DEFINE n == Len(s)
<1>1. n \in Nat
  BY LenProperties
<1>2. ASSUME NEW a \in Nat, NEW k \in Nat, NEW b \in Nat, a <= n, b <= n
      PROVE  /\ MaskOf(s, a, k, b) \in Seq(Signs)
             /\ Len(MaskOf(s, a, k, b)) = a + k + b
             /\ MaskOf(MaskOf(s, a, k, b), a, k, b) = MaskOf(s, a, k, b)
  <2>1. MaskedAs(MaskOf(s, a, k, b), s, a, k, b)
    BY <1>2, MaskShape
  <2>2. MaskOf(MaskOf(s, a, k, b), a, k, b) = MaskOf(s, a, k, b)
    BY <1>2, MaskAgain
  <2> QED
    BY <2>1, <2>2 DEF MaskedAs
<1>3. MaskPhone(MaskPhone(s)) = MaskPhone(s)
  <2>1. CASE n < 7
    BY <2>1 DEF MaskPhone
  <2>2. CASE ~(n < 7)
    <3> PICK b \in {3, 4} : b = IF n = 11 THEN 4 ELSE 3
      OBVIOUS
    <3> PICK m : m = MaskOf(s, 3, 4, b)
      OBVIOUS
    <3>1. MaskPhone(s) = m
      BY <2>2 DEF MaskPhone, MaskOf
    <3>2. Len(m) = 7 + b /\ MaskOf(m, 3, 4, b) = m
      <4>1. 3 <= n /\ b <= n /\ b \in Nat
        BY <1>1, <2>2
      <4>2. Len(m) = 3 + 4 + b /\ MaskOf(m, 3, 4, b) = m
        BY ONLY <1>2, <4>1, m = MaskOf(s, 3, 4, b), 3 \in Nat, 4 \in Nat
      <4> QED
        BY <4>2
    <3>3. b = IF Len(m) = 11 THEN 4 ELSE 3
      <4>1. b = 3 \/ b = 4
        OBVIOUS
      <4>2. Len(m) = 7 + b
        BY <3>2
      <4> QED
        BY ONLY <4>1, <4>2
    <3>4. MaskPhone(m) = MaskOf(m, 3, 4, b)
      <4>1. ~(Len(m) < 7)
        BY <3>2
      <4> QED
        BY <3>3, <4>1 DEF MaskPhone, MaskOf
    <3> QED
      BY ONLY <3>1, <3>2, <3>4
  <2> QED
    BY <2>1, <2>2
<1>4. MaskIdCard(MaskIdCard(s)) = MaskIdCard(s)
  <2>1. CASE n < 7
    BY <2>1 DEF MaskIdCard
  <2>2. CASE ~(n < 7)
    <3> PICK k \in Nat : k = n - 6
      BY <1>1, <2>2
    <3> PICK m : m = MaskOf(s, 3, k, 3)
      OBVIOUS
    <3>1. MaskIdCard(s) = m
      BY <2>2 DEF MaskIdCard, MaskOf
    <3>2. Len(m) = n /\ MaskOf(m, 3, k, 3) = m
      <4>1. 3 <= n
        BY <1>1, <2>2
      <4>2. Len(m) = 3 + k + 3 /\ MaskOf(m, 3, k, 3) = m
        BY ONLY <1>2, <4>1, m = MaskOf(s, 3, k, 3), 3 \in Nat, k \in Nat
      <4> QED
        BY <1>1, <4>2
    <3>3. MaskIdCard(m) = MaskOf(m, 3, k, 3)
      BY <2>2, <3>2 DEF MaskIdCard, MaskOf
    <3> QED
      BY ONLY <3>1, <3>2, <3>3
  <2> QED
    BY <2>1, <2>2
<1>5. MaskBankCard(MaskBankCard(s)) = MaskBankCard(s)
  <2>1. CASE n < 9
    BY <2>1 DEF MaskBankCard
  <2>2. CASE ~(n < 9)
    <3> PICK m : m = MaskOf(s, 4, 4, 4)
      OBVIOUS
    <3>1. MaskBankCard(s) = m
      BY <2>2 DEF MaskBankCard, MaskOf
    <3>2. Len(m) = 4 + 4 + 4 /\ MaskOf(m, 4, 4, 4) = m
      <4>1. 4 <= n
        BY <1>1, <2>2
      <4> QED
        BY ONLY <1>2, <4>1, m = MaskOf(s, 4, 4, 4), 4 \in Nat
    <3>3. MaskBankCard(m) = MaskOf(m, 4, 4, 4)
      <4>1. ~(Len(m) < 9)
        BY ONLY <3>2
      <4> QED
        BY <4>1 DEF MaskBankCard, MaskOf
    <3> QED
      BY ONLY <3>1, <3>2, <3>3
  <2> QED
    BY <2>1, <2>2
<1>6. MaskName(MaskName(s)) = MaskName(s)
  <2>1. CASE n <= 1
    <3>1. Len(s) <= 1 /\ Len(s) # 2
      <4> HIDE DEF n
      <4>1. n <= 1 /\ n # 2
        BY ONLY <1>1, <2>1
      <4> QED
        BY ONLY <4>1 DEF n
    <3>2. MaskName(s) = s
      BY ONLY <3>1 DEF MaskName
    <3> QED
      BY <3>2
  <2>2. CASE n = 2
    <3> PICK m : m = MaskOf(s, 1, 1, 0)
      OBVIOUS
    <3>0. ASSUME NEW t \in Seq(Signs), Len(t) = 2 PROVE MaskName(t) = MaskOf(t, 1, 1, 0)
      <4>1. ~(Len(t) <= 1) /\ Len(t) # 1
        BY <3>0
      <4>2. MaskName(t) = First(t, 1) \o Stars(1)
        BY ONLY <3>0, <4>1 DEF MaskName
      <4>3. Final(t, 0) = <<>>
        <5>1. Len(t) - 0 + 1 \in Int /\ Len(t) \in Int /\ Len(t) < Len(t) - 0 + 1
          BY <3>0
        <5> QED
          BY <5>1, SubSeqEmpty DEF Final
      <4>4. First(t, 1) \o Stars(1) \in Seq(Signs)
        <5>1. First(t, 1) \in Seq(Signs)
          <6>1. 1 \in Nat /\ 1 <= Len(t)
            BY <3>0
          <6> QED
            BY ONLY <3>0, <6>1, EndPieces
        <5>2. Stars(1) \in Seq(Signs)
          BY StarsOnly
        <5> QED
          BY ONLY <5>1, <5>2, ConcatProperties
      <4>5. (First(t, 1) \o Stars(1)) \o <<>> = First(t, 1) \o Stars(1)
        BY ONLY <4>4, ConcatEmptySeq
      <4> QED
        BY <4>2, <4>3, <4>5 DEF MaskOf
    <3>1. MaskName(s) = m
      BY <2>2, <3>0
    <3>2. m \in Seq(Signs) /\ Len(m) = 1 + 1 + 0 /\ MaskOf(m, 1, 1, 0) = m
      <4>1. 1 <= n /\ 0 <= n
        BY <2>2
      <4> QED
        BY ONLY <1>2, <4>1, m = MaskOf(s, 1, 1, 0), 1 \in Nat, 0 \in Nat
    <3>3. MaskName(m) = MaskOf(m, 1, 1, 0)
      <4>1. Len(m) = 2
        BY <3>2
      <4> QED
        BY <3>0, <3>2, <4>1
    <3> QED
      BY ONLY <3>1, <3>2, <3>3
  <2>3. CASE ~(n <= 1) /\ n # 2
    <3> PICK k \in Nat : k = n - 2
      BY <1>1, <2>3
    <3> PICK m : m = MaskOf(s, 1, k, 1)
      OBVIOUS
    <3>1. MaskName(s) = m
      BY <2>3 DEF MaskName, MaskOf
    <3>2. Len(m) = n /\ MaskOf(m, 1, k, 1) = m
      <4>1. 1 <= n
        BY <1>1, <2>3
      <4>2. Len(m) = 1 + k + 1 /\ MaskOf(m, 1, k, 1) = m
        BY ONLY <1>2, <4>1, m = MaskOf(s, 1, k, 1), 1 \in Nat, k \in Nat
      <4> QED
        BY <1>1, <4>2
    <3>3. MaskName(m) = MaskOf(m, 1, k, 1)
      BY <2>3, <3>2 DEF MaskName, MaskOf
    <3> QED
      BY ONLY <3>1, <3>2, <3>3
  <2> QED
    BY <2>1, <2>2, <2>3
<1> QED
  BY <1>3, <1>4, <1>5, <1>6

\* The general mask keeps the length, shows the ends and changes nothing twice.
LEMMA StringsMasked ==
  ASSUME NEW n \in Nat, NEW start \in 0..n, NEW end \in 0..n, NEW masked,
         masked = MaskString(Text(n), start, end)
  PROVE  /\ Len(masked) = n
         /\ Shown(masked) = Ends(n, start, end)
         /\ MaskString(masked, start, end) = masked
<1> DEFINE s == Text(n)
<1>1. s \in Seq(Signs) /\ Len(s) = n /\ \A i \in 1..n : s[i] = i
  BY TextIs
<1>5. start \in Nat /\ end \in Nat /\ start <= n /\ end <= n
  OBVIOUS
<1>2. CASE n <= start + end
  <2> HIDE DEF s
  <2>1. masked = s
    BY <1>1, <1>2 DEF MaskString, s
  <2>2. MaskString(masked, start, end) = masked
    BY <1>1, <1>2, <2>1 DEF MaskString
  <2>3. DOMAIN s = 1..n
    BY <1>1, LenProperties
  <2>4. Shown(s) = 1..n
    BY <1>1, <2>3 DEF Shown, ToSet
  <2>5. Ends(n, start, end) = 1..n
    BY <1>2, <1>5 DEF Ends
  <2> QED
    BY <1>1, <2>1, <2>2, <2>4, <2>5
<1>3. CASE ~(n <= start + end)
  <2> PICK k \in Nat : k = n - start - end
    BY <1>3
  <2>1. masked = MaskOf(s, start, k, end)
    BY <1>1, <1>3 DEF MaskString, MaskOf
  <2>2. Shown(masked) = Ends(n, start, end)
    BY <1>5, <2>1, MaskShows
  <2> HIDE DEF s
  <2>3. MaskedAs(masked, s, start, k, end) /\ MaskOf(masked, start, k, end) = masked
    BY <1>1, <1>5, <2>1, MaskShape, MaskAgain
  <2>4. Len(masked) = n
    BY <1>5, <2>3 DEF MaskedAs
  <2>5. MaskString(masked, start, end) = MaskOf(masked, start, k, end)
    BY <1>3, <2>4 DEF MaskString, MaskOf
  <2> QED
    BY <2>2, <2>3, <2>4, <2>5
<1> QED
  BY <1>2, <1>3

\* The same text with a mark at some places.
LEMMA MarkedIs ==
  ASSUME NEW n \in Nat, NEW places \in SUBSET (1..n), NEW c \in {At, Dot}
  PROVE  /\ Marked(n, places, c) \in Seq(Signs)
         /\ Len(Marked(n, places, c)) = n
         /\ \A i \in 1..n : Marked(n, places, c)[i] = IF i \in places THEN c ELSE i
<1> DEFINE s == Marked(n, places, c)
<1>1. s \in [1..n -> Signs]
  BY DEF Marked, Signs
<1>2. s \in Seq(Signs)
  <2>1. s \in UNION {[1..k -> Signs] : k \in Nat}
    BY <1>1
  <2> QED
    BY <2>1, SeqDef
<1>3. Len(s) \in Nat /\ DOMAIN s = 1..Len(s) /\ DOMAIN s = 1..n
  BY <1>1, <1>2, LenProperties
<1>4. Len(s) = n
  BY ONLY <1>3, n \in Nat, SameLength
<1> QED
  BY <1>2, <1>4 DEF Marked

\* Three stars put behind a dot are put there again.
LEMMA StarsBehindDot ==
  ASSUME NEW f \in Seq(Signs), Len(f) # 0, f[Len(f)] = Dot
  PROVE  MaskIp(f \o Stars(3)) = f \o Stars(3)
<1> PICK d : d = Len(f)
  OBVIOUS
<1>1. d \in Nat /\ d # 0
  BY LenProperties
<1> PICK q : q = f \o Stars(3)
  OBVIOUS
<1>2. Stars(3) \in Seq(Signs) /\ Len(Stars(3)) = 3 /\ \A i \in 1..3 : Stars(3)[i] = Star
  BY StarsOnly
<1>3. /\ q \in Seq(Signs) /\ Len(q) = d + 3
      /\ \A i \in 1..(d + 3) : q[i] = IF i <= d THEN f[i] ELSE Stars(3)[i - d]
  <2>1. /\ f \o Stars(3) \in Seq(Signs) /\ Len(f \o Stars(3)) = Len(f) + Len(Stars(3))
        /\ \A i \in 1..(Len(f) + Len(Stars(3))) :
             (f \o Stars(3))[i] = IF i <= Len(f) THEN f[i] ELSE Stars(3)[i - Len(f)]
    BY ONLY <1>2, f \in Seq(Signs), ConcatProperties
  <2> QED
    BY ONLY <1>2, <2>1, d = Len(f), q = f \o Stars(3)
<1>4. \A i \in 1..(d + 3) : i > d => q[i] = Star
  <2> SUFFICES ASSUME NEW i \in 1..(d + 3), i > d PROVE q[i] = Star
    OBVIOUS
  <2>1. i - d \in 1..3 /\ ~(i <= d)
    BY <1>1
  <2> QED
    BY <1>2, <1>3, <2>1
<1> DEFINE dot == SelectLastInSeq(q, LAMBDA c : c = Dot)
<1>5. dot = d
  <2> PICK place : place = dot
    OBVIOUS
  <2>1. place = IF {i \in 1..Len(q) : q[i] = Dot} # {}
                THEN Max({i \in 1..Len(q) : q[i] = Dot}) ELSE 0
    BY DEF SelectLastInSeq
  <2>2. \/ /\ place = 0
           /\ \A i \in 1..Len(q) : q[i] # Dot
        \/ /\ place \in 1..Len(q)
           /\ q[place] = Dot
           /\ \A i \in 1..Len(q) : q[i] = Dot => i <= place
    <3>1. q \in Seq(Signs)
      BY <1>3
    <3> QED
      BY ONLY <2>1, <3>1, LastPlace
  <2>3. d \in 1..(d + 3) /\ q[d] = Dot
    BY <1>1, <1>3
  <2>4. place \in 1..(d + 3) /\ q[place] = Dot /\ d <= place
    BY ONLY <1>3, <2>2, <2>3
  <2>5. ~(place > d)
    BY <1>4, <2>4, NoCharacter
  <2> QED
    BY ONLY <1>1, <2>4, <2>5, place = dot
<1>6. First(q, d) = f
  <2>1. /\ First(q, d) \in Seq(Signs) /\ Len(First(q, d)) = d
        /\ \A i \in 1..d : First(q, d)[i] = q[i]
    <3>1. d <= Len(q)
      BY <1>1, <1>3
    <3> QED
      BY ONLY <1>1, <1>3, <3>1, EndPieces
  <2>2. \A i \in 1..d : q[i] = f[i]
    BY <1>1, <1>3
  <2>3. \A i \in 1..Len(First(q, d)) : First(q, d)[i] = f[i]
    BY <2>1, <2>2
  <2>4. Len(First(q, d)) = Len(f)
    BY <2>1
  <2>5. First(q, d) \in Seq(Signs)
    BY <2>1
  <2> QED
    BY ONLY <2>3, <2>4, <2>5, f \in Seq(Signs), SeqEqual
<1>7. MaskIp(q) = First(q, d) \o Stars(3)
  <2> HIDE DEF dot
  <2>1. MaskIp(q) = IF dot = 0 THEN Stars(3) \o <<Dot>> \o Stars(3) \o <<Dot>> \o Stars(3)
                                    \o <<Dot>> \o Stars(3)
                    ELSE First(q, dot) \o Stars(3)
    BY DEF MaskIp, dot
  <2> QED
    BY <1>1, <1>5, <2>1
<1> QED
  BY <1>6, <1>7

\* Of an address what is behind the last dot is hidden, or everything.
LEMMA IpMasked ==
  ASSUME NEW n \in Nat, NEW places \in SUBSET (1..n), NEW ip, ip = Marked(n, places, Dot)
  PROVE  /\ Shown(MaskIp(ip)) = Shown(ip) \ {i \in 1..n : \A p \in places : p < i}
         /\ MaskIp(MaskIp(ip)) = MaskIp(ip)
<1>1. /\ ip \in Seq(Signs) /\ Len(ip) = n
      /\ \A i \in 1..n : ip[i] = IF i \in places THEN Dot ELSE i
  BY MarkedIs
<1>2. DOMAIN ip = 1..n
  BY <1>1, LenProperties
<1>3. Shown(ip) = (1..n) \ places
  <2>1. Dot \notin Nat
    BY NoCharacter
  <2> QED
    BY <1>1, <1>2, <2>1 DEF Shown, ToSet
<1> PICK dot : dot = SelectLastInSeq(ip, LAMBDA c : c = Dot)
  OBVIOUS
<1>4. \/ /\ dot = 0
         /\ \A i \in 1..n : ip[i] # Dot
      \/ /\ dot \in 1..n
         /\ ip[dot] = Dot
         /\ \A i \in 1..n : ip[i] = Dot => i <= dot
  <2>1. dot = IF {i \in 1..Len(ip) : ip[i] = Dot} # {}
              THEN Max({i \in 1..Len(ip) : ip[i] = Dot}) ELSE 0
    BY DEF SelectLastInSeq
  <2>2. ip \in Seq(Signs)
    BY <1>1
  <2>3. \/ /\ dot = 0
           /\ \A i \in 1..Len(ip) : ip[i] # Dot
        \/ /\ dot \in 1..Len(ip)
           /\ ip[dot] = Dot
           /\ \A i \in 1..Len(ip) : ip[i] = Dot => i <= dot
    BY ONLY <2>1, <2>2, LastPlace
  <2> QED
    BY <1>1, <2>3
<1>5. MaskIp(ip) = IF dot = 0 THEN Stars(3) \o <<Dot>> \o Stars(3) \o <<Dot>> \o Stars(3)
                                   \o <<Dot>> \o Stars(3)
                   ELSE First(ip, dot) \o Stars(3)
  BY DEF MaskIp
<1>6. CASE dot = 0
  <2> DEFINE Hidden == {Dot, Star}
             x == Stars(3) \o <<Dot>> \o Stars(3) \o <<Dot>> \o Stars(3)
             f == x \o <<Dot>>
  <2>1. Stars(3) \in Seq(Hidden)
    <3>1. Stars(3) \in [1..3 -> Hidden]
      BY DEF Stars
    <3>2. Stars(3) \in UNION {[1..k -> Hidden] : k \in Nat}
      BY <3>1
    <3> QED
      BY <3>2, SeqDef
  <2>2. <<Dot>> \in Seq(Hidden) /\ Len(<<Dot>>) = 1 /\ <<Dot>>[1] = Dot
    OBVIOUS
  <2>3. x \in Seq(Hidden)
    <3> HIDE DEF Hidden
    <3> QED
      BY <2>1, <2>2, ConcatProperties
  <2> HIDE DEF x
  <2>4. /\ f \in Seq(Hidden) /\ Len(f) = Len(x) + 1 /\ Len(x) \in Nat
        /\ f[Len(x) + 1] = Dot
    <3> HIDE DEF Hidden
    <3>1. Len(x) \in Nat
      BY <2>3, LenProperties
    <3>2. /\ x \o <<Dot>> \in Seq(Hidden) /\ Len(x \o <<Dot>>) = Len(x) + Len(<<Dot>>)
          /\ \A i \in 1..(Len(x) + Len(<<Dot>>)) :
               (x \o <<Dot>>)[i] = IF i <= Len(x) THEN x[i] ELSE <<Dot>>[i - Len(x)]
      BY ONLY <2>2, <2>3, ConcatProperties
    <3>3. Len(x) + 1 \in 1..(Len(x) + 1) /\ ~(Len(x) + 1 <= Len(x)) /\ (Len(x) + 1) - Len(x) = 1
      BY <3>1
    <3> QED
      BY <2>2, <3>1, <3>2, <3>3
  <2> HIDE DEF f
  <2>5. MaskIp(ip) = f \o Stars(3)
    BY <1>5, <1>6 DEF f, x
  <2>6. f \in Seq(Signs)
    <3>1. Hidden \subseteq Signs
      BY DEF Signs
    <3> HIDE DEF Hidden
    <3> QED
      BY <2>4, <3>1, SeqMonotonic
  <2>7. MaskIp(f \o Stars(3)) = f \o Stars(3)
    <3>1. Len(f) # 0 /\ f[Len(f)] = Dot
      BY <2>4
    <3> QED
      BY <2>6, <3>1, StarsBehindDot
  <2>8. Shown(f \o Stars(3)) = {}
    <3>1. f \o Stars(3) \in Seq(Hidden)
      <4> HIDE DEF Hidden
      <4>1. f \in Seq(Hidden)
        BY <2>4
      <4> QED
        BY ONLY <2>1, <4>1, ConcatProperties
    <3> PICK q : q = f \o Stars(3)
      OBVIOUS
    <3>2. \A i \in DOMAIN q : q[i] \in Hidden
      <4>1. DOMAIN q = 1..Len(q) /\ \A i \in 1..Len(q) : q[i] \in Hidden
        <5> HIDE DEF Hidden
        <5> QED
          BY <3>1, LenProperties, ElementOfSeq
      <4> QED
        BY <4>1
    <3>3. Hidden \cap Nat = {}
      BY NoCharacter
    <3> HIDE DEF Hidden
    <3> QED
      BY <3>2, <3>3 DEF Shown, ToSet
  <2>9. places = {}
    BY <1>1, <1>4, <1>6
  <2>10. Shown(ip) \ {i \in 1..n : \A p \in places : p < i} = {}
    BY <1>3, <2>9
  <2> QED
    BY <2>5, <2>7, <2>8, <2>10
<1>7. CASE dot # 0
  <2>1. /\ dot \in 1..n /\ dot \in places
        /\ \A i \in places : i <= dot /\ i \in 1..n
    <3>1. \A i \in places : i \in 1..n /\ ip[i] = Dot
      BY <1>1
    <3>2. dot \in 1..n /\ ip[dot] = Dot /\ \A i \in 1..n : ip[i] = Dot => i <= dot
      BY <1>4, <1>7
    <3>3. dot \in places
      <4>1. dot # Dot
        BY <3>2, NoCharacter
      <4> QED
        BY <1>1, <3>2, <4>1
    <3> QED
      BY <3>1, <3>2, <3>3
  <2> PICK f : f = First(ip, dot)
    OBVIOUS
  <2>2. f \in Seq(Signs) /\ Len(f) = dot /\ \A i \in 1..dot : f[i] = ip[i]
    <3>1. dot \in Nat /\ dot <= Len(ip)
      BY <1>1, <2>1
    <3>2. ip \in Seq(Signs)
      BY <1>1
    <3> QED
      BY ONLY <3>1, <3>2, f = First(ip, dot), EndPieces
  <2>3. MaskIp(ip) = f \o Stars(3)
    BY <1>5, <1>7
  <2>4. MaskIp(f \o Stars(3)) = f \o Stars(3)
    <3>1. Len(f) # 0 /\ f[Len(f)] = Dot
      <4>1. dot \in 1..dot /\ dot # 0
        BY <2>1
      <4>2. f[dot] = ip[dot] /\ ip[dot] = Dot
        BY <1>1, <2>1, <2>2, <4>1
      <4> QED
        BY <2>2, <4>1, <4>2
    <3> QED
      BY <2>2, <3>1, StarsBehindDot
  <2>5. Shown(f \o Stars(3)) = {i \in 1..dot : i \notin places}
    <3> PICK q : q = f \o Stars(3)
      OBVIOUS
    <3>1. Stars(3) \in Seq(Signs) /\ Len(Stars(3)) = 3 /\ \A i \in 1..3 : Stars(3)[i] = Star
      BY StarsOnly
    <3>2. f \in Seq(Signs) /\ Len(f) = dot
      BY <2>2
    <3>3. /\ q \in Seq(Signs) /\ Len(q) = dot + 3
          /\ \A i \in 1..(dot + 3) : q[i] = IF i <= dot THEN f[i] ELSE Stars(3)[i - dot]
      <4>1. /\ f \o Stars(3) \in Seq(Signs) /\ Len(f \o Stars(3)) = Len(f) + Len(Stars(3))
            /\ \A i \in 1..(Len(f) + Len(Stars(3))) :
                 (f \o Stars(3))[i] = IF i <= Len(f) THEN f[i] ELSE Stars(3)[i - Len(f)]
        BY ONLY <3>1, <3>2, ConcatProperties
      <4> QED
        BY ONLY <3>1, <3>2, <4>1, q = f \o Stars(3)
    <3>4. DOMAIN q = 1..(dot + 3)
      BY <3>3, LenProperties
    <3>5. Dot \notin Nat /\ Star \notin Nat
      BY NoCharacter
    <3>6. ASSUME NEW i \in 1..(dot + 3)
          PROVE  q[i] = IF i <= dot THEN (IF i \in places THEN Dot ELSE i) ELSE Star
      <4>1. CASE i <= dot
        <5>1. i \in 1..dot /\ i \in 1..n
          BY <2>1, <4>1
        <5> QED
          BY <1>1, <2>2, <3>3, <4>1, <5>1
      <4>2. CASE ~(i <= dot)
        <5>1. i - dot \in 1..3
          BY <2>1, <4>2
        <5> QED
          BY <3>1, <3>3, <4>2, <5>1
      <4> QED
        BY <4>1, <4>2
    <3>7. \A i \in 1..dot : i \in 1..(dot + 3) /\ i \in Nat
      BY <2>1
    <3>8. ASSUME NEW x \in Shown(q) PROVE x \in 1..dot /\ x \notin places
      <4>1. PICK i \in 1..(dot + 3) : x = q[i] /\ x \in Nat
        BY <3>4 DEF Shown, ToSet
      <4>2. x = IF i <= dot THEN (IF i \in places THEN Dot ELSE i) ELSE Star
        BY <3>6, <4>1
      <4>3. i <= dot /\ i \notin places /\ x = i
        BY ONLY <3>5, <4>1, <4>2
      <4>4. i \in 1..dot
        BY <4>3
      <4> QED
        BY ONLY <4>3, <4>4
    <3>9. ASSUME NEW x \in 1..dot, x \notin places PROVE x \in Shown(q)
      <4>2. x \in 1..(dot + 3) /\ x <= dot
        BY <2>1
      <4>1. q[x] = x
        BY <3>6, <3>9, <4>2
      <4> QED
        BY <3>4, <3>7, <4>1 DEF Shown, ToSet
    <3> QED
      BY <3>8, <3>9
  <2>6. Shown(ip) \ {i \in 1..n : \A p \in places : p < i} = {i \in 1..dot : i \notin places}
    <3>1. \A i \in 1..n : (\A p \in places : p < i) <=> ~(i <= dot)
      <4> SUFFICES ASSUME NEW i \in 1..n
                   PROVE  (\A p \in places : p < i) <=> ~(i <= dot)
        OBVIOUS
      <4>1. CASE i <= dot
        <5>1. ~(dot < i)
          BY <2>1, <4>1
        <5> QED
          BY <2>1, <4>1, <5>1
      <4>2. CASE ~(i <= dot)
        <5>1. ASSUME NEW p \in places PROVE p < i
          <6>1. p <= dot /\ p \in 1..n /\ dot \in 1..n
            BY <2>1
          <6> QED
            BY <4>2, <6>1
        <5> QED
          BY <4>2, <5>1
      <4> QED
        BY <4>1, <4>2
    <3>2. \A i \in 1..dot : i \in 1..n
      BY <2>1
    <3>3. \A i \in 1..n : i <= dot <=> i \in 1..dot
      BY <2>1
    <3> QED
      BY <1>3, <3>1, <3>2, <3>3
  <2> QED
    BY <2>3, <2>4, <2>5, <2>6
<1> QED
  BY <1>6, <1>7

\* What the mask of an address makes of a part of three or more characters.
EmailOf(s, place) ==
  MaskOf(First(s, place - 1), 1, 3, 1) \o SubSeq(s, place, Len(s))

\* A masked address is the first sign, three stars and all from the mark on.
LEMMA EmailShape ==
  ASSUME NEW s \in Seq(Signs), NEW place \in 3..Len(s)
  PROVE  /\ EmailOf(s, place) \in Seq(Signs)
         /\ Len(EmailOf(s, place)) = (Len(s) - place) + 6
         /\ \A i \in 1..((Len(s) - place) + 6) :
              EmailOf(s, place)[i] = IF i = 1 THEN s[1]
                                     ELSE IF i <= 4 THEN Star
                                     ELSE s[(i - 6) + place]
<1>1. Len(s) \in Nat /\ place \in Nat /\ place - 1 \in Nat /\ place >= 3 /\ place <= Len(s)
  <2>1. Len(s) \in Nat
    BY LenProperties
  <2> QED
    BY <2>1
<1> PICK local : local = First(s, place - 1)
  OBVIOUS
<1>2. local \in Seq(Signs) /\ Len(local) = place - 1 /\ \A i \in 1..(place - 1) : local[i] = s[i]
  <2>1. place - 1 <= Len(s)
    BY <1>1
  <2> QED
    BY <1>1, <2>1, EndPieces
<1> PICK f : f = MaskOf(local, 1, 3, 1)
  OBVIOUS
<1>3. /\ f \in Seq(Signs) /\ Len(f) = 5
      /\ \A i \in 1..5 : f[i] = IF i <= 1 THEN local[i] ELSE IF i <= 4 THEN Star
                                ELSE local[(i - 4) + ((place - 1) - 1)]
  <2>1. 1 <= Len(local) /\ 1 \in Nat /\ 3 \in Nat
    BY <1>1, <1>2
  <2>2. MaskedAs(f, local, 1, 3, 1)
    BY <1>2, <2>1, MaskShape
  <2> QED
    BY <1>2, <2>2 DEF MaskedAs
<1> PICK g : g = SubSeq(s, place, Len(s))
  OBVIOUS
<1>4. /\ g \in Seq(Signs) /\ Len(g) = (Len(s) - place) + 1
      /\ \A i \in 1..((Len(s) - place) + 1) : g[i] = s[(i - 1) + place]
  <2>1. /\ SubSeq(s, place, Len(s)) \in Seq(Signs)
        /\ Len(SubSeq(s, place, Len(s))) = Len(s) - place + 1
        /\ \A i \in 1..(Len(s) - place + 1) : SubSeq(s, place, Len(s))[i] = s[place + i - 1]
    BY <1>1, Piece, 1 <= place, place <= Len(s) + 1
  <2>2. Len(s) - place + 1 = (Len(s) - place) + 1
    BY <1>1
  <2>3. \A i \in 1..((Len(s) - place) + 1) : place + i - 1 = (i - 1) + place
    BY <1>1
  <2> QED
    BY <2>1, <2>2, <2>3
<1>5. /\ f \o g \in Seq(Signs) /\ Len(f \o g) = 5 + Len(g)
      /\ \A i \in 1..(5 + Len(g)) : (f \o g)[i] = IF i <= 5 THEN f[i] ELSE g[i - 5]
  <2>1. f \in Seq(Signs) /\ g \in Seq(Signs) /\ Len(f) = 5
    BY <1>3, <1>4
  <2>2. /\ f \o g \in Seq(Signs) /\ Len(f \o g) = Len(f) + Len(g)
        /\ \A i \in 1..(Len(f) + Len(g)) : (f \o g)[i] = IF i <= Len(f) THEN f[i] ELSE g[i - Len(f)]
    BY ONLY <2>1, ConcatProperties
  <2> QED
    BY ONLY <2>1, <2>2
<1>6. 5 + Len(g) = (Len(s) - place) + 6
  BY <1>1, <1>4
<1>7. ASSUME NEW i \in 1..((Len(s) - place) + 6)
      PROVE  (f \o g)[i] = IF i = 1 THEN s[1] ELSE IF i <= 4 THEN Star ELSE s[(i - 6) + place]
  <2>1. (f \o g)[i] = IF i <= 5 THEN f[i] ELSE g[i - 5]
    BY <1>5, <1>6
  <2>2. CASE i <= 1
    <3>1. i = 1 /\ 1 \in 1..5 /\ 1 \in 1..(place - 1)
      BY <1>1, <2>2
    <3> QED
      BY <1>2, <1>3, <2>1, <3>1
  <2>3. CASE i > 1 /\ i <= 4
    <3>1. i \in 1..5 /\ ~(i <= 1) /\ i # 1 /\ i <= 5
      BY <2>3
    <3> QED
      BY <1>3, <2>1, <2>3, <3>1
  <2>4. CASE i = 5
    <3>1. place - 1 \in 1..(place - 1) /\ 5 \in 1..5 /\ (5 - 4) + ((place - 1) - 1) = place - 1
          /\ (i - 6) + place = place - 1
      BY <1>1, <2>4
    <3>2. (f \o g)[i] = f[5] /\ f[5] = local[(5 - 4) + ((place - 1) - 1)]
      BY <1>3, <2>1, <2>4
    <3>3. (f \o g)[i] = s[place - 1]
      BY <1>2, <3>1, <3>2
    <3>4. i # 1 /\ ~(i <= 4) /\ (i - 6) + place = place - 1
      BY <2>4, <3>1
    <3> QED
      BY ONLY <3>3, <3>4
  <2>5. CASE i > 5
    <3>1. i - 5 \in 1..((Len(s) - place) + 1) /\ ((i - 5) - 1) + place = (i - 6) + place
          /\ ~(i <= 5) /\ ~(i <= 4) /\ i # 1
      BY <1>1, <2>5
    <3>2. g[i - 5] = s[((i - 5) - 1) + place]
      BY <1>4, <3>1
    <3> QED
      BY <2>1, <3>1, <3>2
  <2>6. i <= 1 \/ (i > 1 /\ i <= 4) \/ i = 5 \/ i > 5
    BY <1>1
  <2> QED
    BY ONLY <2>2, <2>3, <2>4, <2>5, <2>6
<1>8. EmailOf(s, place) = f \o g
  BY DEF EmailOf
<1> QED
  BY ONLY <1>5, <1>6, <1>7, <1>8

\* An address whose first at comes third or later has its mask, any other stays.
LEMMA EmailCases ==
  ASSUME NEW s \in Seq(Signs)
  PROVE  \/ /\ MaskEmail(s) = s
            /\ \/ \A i \in 1..Len(s) : s[i] # At
               \/ \E place \in 1..2 : place \in 1..Len(s) /\ s[place] = At
         \/ \E place \in 3..Len(s) :
              /\ s[place] = At
              /\ \A i \in 1..Len(s) : s[i] = At => place <= i
              /\ MaskEmail(s) = EmailOf(s, place)
<1>1. Len(s) \in Nat
  BY LenProperties
<1> PICK place : place = SelectInSeq(s, LAMBDA c : c = At)
  OBVIOUS
<1>2. \/ /\ place = 0
         /\ \A i \in 1..Len(s) : s[i] # At
      \/ /\ place \in 1..Len(s)
         /\ s[place] = At
         /\ \A i \in 1..Len(s) : s[i] = At => place <= i
  <2> DEFINE I == {i \in 1..Len(s) : s[i] = At}
  <2>1. place = IF I # {} THEN Min(I) ELSE 0
    BY DEF SelectInSeq
  <2>2. I # {} => Min(I) \in I /\ \A i \in I : Min(I) <= i
    <3>1. I \in SUBSET Nat
      OBVIOUS
    <3> HIDE DEF I
    <3> QED
      BY <3>1, SmallestNumber
  <2> QED
    BY <2>1, <2>2
<1>8. place # 0 => place \in Nat /\ place >= 1 /\ place <= Len(s) /\ s[place] = At
  <2> SUFFICES ASSUME place # 0
               PROVE  place \in Nat /\ place >= 1 /\ place <= Len(s) /\ s[place] = At
    OBVIOUS
  <2>1. place \in 1..Len(s) /\ s[place] = At
    BY <1>2
  <2> QED
    BY ONLY <1>1, <2>1
<1> PICK local : local = First(s, place - 1)
  OBVIOUS
<1>3. MaskEmail(s) = IF place = 0 \/ Len(local) <= 1 THEN s
                     ELSE First(local, 1) \o Stars(3) \o Final(local, 1) \o SubSeq(s, place, Len(s))
  BY DEF MaskEmail
<1>4. place # 0 => Len(local) = place - 1
  <2> SUFFICES ASSUME place # 0 PROVE Len(local) = place - 1
    OBVIOUS
  <2>1. place - 1 \in Nat /\ place - 1 <= Len(s)
    BY ONLY <1>1, <1>8, place # 0
  <2>2. Len(First(s, place - 1)) = place - 1
    BY ONLY <2>1, s \in Seq(Signs), EndPieces
  <2> QED
    BY <2>2
<1>5. CASE place = 0
  <2>1. \A i \in 1..Len(s) : s[i] # At
    BY <1>2, <1>5
  <2>2. MaskEmail(s) = s
    BY <1>3, <1>5
  <2> QED
    BY <2>1, <2>2
<1>6. CASE place # 0 /\ place <= 2
  <2>1. place \in 1..2 /\ place \in 1..Len(s) /\ s[place] = At
    BY ONLY <1>1, <1>8, <1>6
  <2>2. Len(local) <= 1
    BY <1>4, <1>6, <2>1
  <2>3. MaskEmail(s) = s
    BY <1>3, <2>2
  <2> QED
    BY <2>1, <2>3
<1>7. CASE place # 0 /\ ~(place <= 2)
  <2>1. /\ place \in 3..Len(s) /\ s[place] = At
        /\ \A i \in 1..Len(s) : s[i] = At => place <= i
    <3>1. place \in 3..Len(s) /\ s[place] = At
      BY ONLY <1>1, <1>7, <1>8
    <3> QED
      BY <1>2, <1>7, <3>1
  <2>2. ~(Len(local) <= 1)
    BY <1>4, <1>7, <2>1
  <2>3. MaskEmail(s) = EmailOf(s, place)
    BY <1>3, <1>7, <2>2 DEF EmailOf, MaskOf
  <2> QED
    BY <2>1, <2>3
<1> QED
  BY <1>2, <1>5, <1>6, <1>7

\* An address keeps what is behind its first at and the characters next to the
\* ends of what is before it.
LEMMA EmailMasked ==
  ASSUME NEW n \in Nat, NEW places \in SUBSET (1..n), NEW email,
         email = Marked(n, places, At)
  PROVE  /\ places # {} =>
              \A i \in Shown(MaskEmail(email)) : i = 1 \/ \E p \in places : i >= p - 1
         /\ MaskEmail(MaskEmail(email)) = MaskEmail(email)
<1>1. /\ email \in Seq(Signs) /\ Len(email) = n
      /\ \A i \in 1..n : email[i] = IF i \in places THEN At ELSE i
  BY MarkedIs
<1>2. At \notin Nat /\ Star \notin Nat /\ Star # At
  BY NoCharacter
<1>3. \A i \in 1..n : email[i] = At <=> i \in places
  BY <1>1, <1>2
<1>4. CASE /\ MaskEmail(email) = email
           /\ \/ \A i \in 1..n : email[i] # At
              \/ \E place \in 1..2 : place \in 1..n /\ email[place] = At
  <2>1. ASSUME places # {}, NEW x \in Shown(email)
        PROVE  \E p \in places : x >= p - 1
    <3>1. \E p \in places : p <= 2
      <4>1. CASE \A i \in 1..n : email[i] # At
        <5>1. places = {}
          BY <1>3, <4>1
        <5> QED
          BY <2>1, <5>1
      <4>2. CASE \E place \in 1..2 : place \in 1..n /\ email[place] = At
        <5> PICK p \in 1..2 : p \in 1..n /\ email[p] = At
          BY <4>2
        <5>1. p \in places /\ p <= 2
          BY <1>3
        <5> QED
          BY <5>1
      <4> QED
        BY <1>4, <4>1, <4>2
    <3>2. x \in 1..n
      <4>1. DOMAIN email = 1..n
        BY <1>1, LenProperties
      <4>2. PICK i \in 1..n : x = email[i] /\ x \in Nat
        BY <4>1 DEF Shown, ToSet
      <4> QED
        BY <1>1, <1>2, <4>2
    <3> QED
      BY <3>1, <3>2
  <2> QED
    BY <1>4, <2>1
<1>5. ASSUME NEW place \in 3..n, email[place] = At,
             \A i \in 1..n : email[i] = At => place <= i,
             MaskEmail(email) = EmailOf(email, place)
      PROVE  /\ \A i \in Shown(MaskEmail(email)) : i = 1 \/ \E p \in places : i >= p - 1
             /\ MaskEmail(MaskEmail(email)) = MaskEmail(email)
  <2> PICK m : m = EmailOf(email, place)
    OBVIOUS
  <2>1. place \in 1..n /\ place \in places
    BY <1>3, <1>5
  <2> PICK l \in Nat : l = (n - place) + 6 /\ l >= 6
    OBVIOUS
  <2>2. /\ m \in Seq(Signs) /\ Len(m) = l
        /\ \A i \in 1..l : m[i] = IF i = 1 THEN email[1]
                                  ELSE IF i <= 4 THEN Star
                                  ELSE email[(i - 6) + place]
    <3>1. email \in Seq(Signs) /\ place \in 3..Len(email)
      BY <1>1
    <3>2. /\ EmailOf(email, place) \in Seq(Signs)
          /\ Len(EmailOf(email, place)) = (Len(email) - place) + 6
          /\ \A i \in 1..((Len(email) - place) + 6) :
               EmailOf(email, place)[i] = IF i = 1 THEN email[1]
                                          ELSE IF i <= 4 THEN Star
                                          ELSE email[(i - 6) + place]
      BY ONLY <3>1, EmailShape
    <3>3. (Len(email) - place) + 6 = l
      BY <1>1
    <3> QED
      BY ONLY <3>2, <3>3, m = EmailOf(email, place)
  <2>3. \A i \in 1..l : i > 4 => (i - 6) + place \in 1..n /\ (i - 6) + place >= place - 1
    OBVIOUS
  <2>4. ASSUME NEW x \in Shown(m) PROVE x = 1 \/ x >= place - 1
    <3>1. DOMAIN m = 1..l
      BY <2>2, LenProperties
    <3>2. PICK i \in 1..l : x = m[i] /\ x \in Nat
      BY <3>1 DEF Shown, ToSet
    <3>3. CASE i = 1
      <4>1. x = email[1] /\ 1 \in 1..n
        BY <2>1, <2>2, <3>2, <3>3
      <4> QED
        BY <1>1, <1>2, <3>2, <4>1
    <3>4. CASE i # 1 /\ i <= 4
      BY <1>2, <2>2, <3>2, <3>4
    <3>5. CASE i > 4
      <4> PICK j \in 1..n : j = (i - 6) + place /\ j >= place - 1
        BY <2>3, <3>5
      <4>1. x = email[j]
        BY <2>2, <3>2, <3>5
      <4>2. x = j
        BY <1>1, <1>2, <3>2, <4>1
      <4> QED
        BY <4>2
    <3> QED
      BY <3>3, <3>4, <3>5
  \* The first at of what was masked is its sixth character.
  <2>5. m[6] = At /\ \A i \in 1..5 : m[i] # At
    <3>1. 6 \in 1..l /\ (6 - 6) + place = place /\ 1 \in 1..n /\ place - 1 \in 1..n
          /\ ~(place <= 1) /\ ~(place <= place - 1)
      BY <2>1
    <3>2. m[6] = email[(6 - 6) + place]
      BY <2>2, <3>1
    <3>3. email[1] # At /\ email[place - 1] # At
      BY <1>5, <3>1
    <3>4. ASSUME NEW i \in 1..5 PROVE m[i] # At
      <4>1. i \in 1..l
        OBVIOUS
      <4>2. CASE i = 1
        BY <2>2, <3>3, <4>1, <4>2
      <4>3. CASE i # 1 /\ i <= 4
        BY <1>2, <2>2, <4>1, <4>3
      <4>4. CASE i = 5
        <5>1. (i - 6) + place = place - 1
          BY <4>4
        <5>2. m[i] = email[(i - 6) + place]
          BY <2>2, <4>1, <4>4
        <5> QED
          BY <3>3, <5>1, <5>2
      <4> QED
        BY <4>2, <4>3, <4>4
    <3> QED
      BY <1>5, <3>1, <3>2, <3>4
  <2>6. MaskEmail(m) = m
    <3>1. m \in Seq(Signs) /\ Len(m) = l
      BY <2>2
    <3>2. \/ MaskEmail(m) = m
          \/ \E p \in 3..l :
               /\ m[p] = At
               /\ \A i \in 1..l : m[i] = At => p <= i
               /\ MaskEmail(m) = EmailOf(m, p)
      <4>1. \/ MaskEmail(m) = m
            \/ \E p \in 3..Len(m) :
                 /\ m[p] = At
                 /\ \A i \in 1..Len(m) : m[i] = At => p <= i
                 /\ MaskEmail(m) = EmailOf(m, p)
        BY ONLY <3>1, EmailCases
      <4> QED
        BY ONLY <3>1, <4>1
    <3>3. ASSUME NEW p \in 3..l, m[p] = At, \A i \in 1..l : m[i] = At => p <= i
          PROVE  EmailOf(m, p) = m
      <4>1. p = 6
        <5>1. p <= 6
          BY <2>5, <3>3
        <5>2. ~(p \in 1..5)
          BY <2>5, <3>3
        <5> QED
          BY <5>1, <5>2
      <4> PICK t : t = EmailOf(m, 6)
        OBVIOUS
      <4>2. /\ t \in Seq(Signs) /\ Len(t) = l
            /\ \A i \in 1..l : t[i] = IF i = 1 THEN m[1] ELSE IF i <= 4 THEN Star ELSE m[(i - 6) + 6]
        <5>1. 6 \in 3..Len(m) /\ m \in Seq(Signs)
          BY <3>1
        <5>2. /\ EmailOf(m, 6) \in Seq(Signs) /\ Len(EmailOf(m, 6)) = (Len(m) - 6) + 6
              /\ \A i \in 1..((Len(m) - 6) + 6) :
                   EmailOf(m, 6)[i] = IF i = 1 THEN m[1] ELSE IF i <= 4 THEN Star ELSE m[(i - 6) + 6]
          BY ONLY <5>1, EmailShape
        <5>3. (Len(m) - 6) + 6 = l
          BY <3>1
        <5> QED
          BY ONLY <5>2, <5>3, t = EmailOf(m, 6)
      <4>3. \A i \in 1..l : t[i] = m[i]
        <5> SUFFICES ASSUME NEW i \in 1..l PROVE t[i] = m[i]
          OBVIOUS
        <5>1. (i - 6) + 6 = i
          OBVIOUS
        <5>2. i # 1 /\ i <= 4 => m[i] = Star
          BY <2>2
        <5> QED
          BY <4>2, <5>1, <5>2
      <4>4. t = m
        <5>1. t \in Seq(Signs) /\ m \in Seq(Signs) /\ Len(t) = Len(m)
              /\ \A i \in 1..Len(t) : t[i] = m[i]
          BY <3>1, <4>2, <4>3
        <5> QED
          BY ONLY <5>1, SeqEqual
      <4> QED
        BY <4>1, <4>4
    <3> QED
      BY <3>2, <3>3
  <2> QED
    BY <1>5, <2>1, <2>4, <2>6
<1>6. \/ /\ MaskEmail(email) = email
         /\ \/ \A i \in 1..n : email[i] # At
            \/ \E place \in 1..2 : place \in 1..n /\ email[place] = At
      \/ \E place \in 3..n :
           /\ email[place] = At
           /\ \A i \in 1..n : email[i] = At => place <= i
           /\ MaskEmail(email) = EmailOf(email, place)
  <2>1. email \in Seq(Signs) /\ Len(email) = n
    BY <1>1
  <2>2. \/ /\ MaskEmail(email) = email
           /\ \/ \A i \in 1..Len(email) : email[i] # At
              \/ \E place \in 1..2 : place \in 1..Len(email) /\ email[place] = At
        \/ \E place \in 3..Len(email) :
             /\ email[place] = At
             /\ \A i \in 1..Len(email) : email[i] = At => place <= i
             /\ MaskEmail(email) = EmailOf(email, place)
    BY ONLY <2>1, EmailCases
  <2> QED
    BY ONLY <2>1, <2>2
<1> QED
  BY <1>4, <1>5, <1>6

\* All masks hold what they promise, for texts of any length.
THEOREM MasksAreSafe ==
  ASSUME NEW n \in Nat, NEW places \in SUBSET (1..n)
  PROVE  MasksHold(n, places)
<1>1. Text(n) \in Seq(Signs)
  BY TextIs
<1>2. /\ Shown(MaskIp(Marked(n, places, Dot))) =
           Shown(Marked(n, places, Dot)) \ {i \in 1..n : \A p \in places : p < i}
      /\ MaskIp(MaskIp(Marked(n, places, Dot))) = MaskIp(Marked(n, places, Dot))
  BY IpMasked
<1>3. /\ places # {} =>
           \A i \in Shown(MaskEmail(Marked(n, places, At))) : i = 1 \/ \E p \in places : i >= p - 1
      /\ MaskEmail(MaskEmail(Marked(n, places, At))) = MaskEmail(Marked(n, places, At))
  BY EmailMasked
<1>4. /\ n >= 7 => /\ Shown(MaskPhone(Text(n))) = Ends(n, 3, IF n = 11 THEN 4 ELSE 3)
                   /\ MaskIdCard(Text(n)) = MaskString(Text(n), 3, 3)
      /\ n >= 9 => Shown(MaskBankCard(Text(n))) = Ends(n, 4, 4)
      /\ n >= 3 => MaskName(Text(n)) = MaskString(Text(n), 1, 1)
  BY EndsKept
<1>5. /\ MaskPhone(MaskPhone(Text(n))) = MaskPhone(Text(n))
      /\ MaskIdCard(MaskIdCard(Text(n))) = MaskIdCard(Text(n))
      /\ MaskBankCard(MaskBankCard(Text(n))) = MaskBankCard(Text(n))
      /\ MaskName(MaskName(Text(n))) = MaskName(Text(n))
  BY <1>1, MasksStay
<1>6. \A start, end \in 0..n :
        /\ Len(MaskString(Text(n), start, end)) = n
        /\ Shown(MaskString(Text(n), start, end)) = Ends(n, start, end)
        /\ MaskString(MaskString(Text(n), start, end), start, end) = MaskString(Text(n), start, end)
  BY StringsMasked
<1> QED
  BY ONLY <1>2, <1>3, <1>4, <1>5, <1>6 DEF MasksHold

(***************************************************************************)
(* The walk that collects the permissions of roles.                        *)
(***************************************************************************)
Walks(graph) ==
  [seen : SUBSET (RbacRoles \cup {KeyOf(p) : p \in Given(graph)}), result : Seq(Given(graph))]

\* What is listed is allowed and is listed once, under a key that was seen.
OnceAllowed(walk, allowed) ==
  /\ \A i \in 1..Len(walk.result) : /\ walk.result[i] \in allowed
                                    /\ KeyOf(walk.result[i]) \in walk.seen
  /\ \A i, j \in 1..Len(walk.result) : KeyOf(walk.result[i]) = KeyOf(walk.result[j]) => i = j

\* Whatever was seen is a role or the key of something listed.
SeenIsListed(walk) ==
  \A k \in walk.seen : k \in RbacRoles \/ \E p \in ToSet(walk.result) : KeyOf(p) = k

\* A later stage of a walk.
Later(walk, later) ==
  /\ walk.seen \subseteq later.seen
  /\ ToSet(walk.result) \subseteq ToSet(later.result)

\* The elements of a sequence, and of one that is longer by one.
LEMMA ToSetIs ==
  ASSUME NEW X, NEW s \in Seq(X)
  PROVE  /\ ToSet(s) = {s[i] : i \in 1..Len(s)}
         /\ ToSet(s) \subseteq X
         /\ Len(s) \in Nat
         /\ \A x : /\ ToSet(Append(s, x)) = ToSet(s) \cup {x}
<1>1. DOMAIN s = 1..Len(s) /\ Len(s) \in Nat
  BY LenProperties
<1>2. \A i \in 1..Len(s) : s[i] \in X
  BY ElementOfSeq
<1>3. ASSUME NEW x PROVE ToSet(Append(s, x)) = ToSet(s) \cup {x}
  <2> DEFINE Y == X \cup {x}
             t == Append(s, x)
  <2>1. s \in Seq(Y)
    BY <1>2, SeqMonotonic
  <2>2. /\ t \in Seq(Y) /\ Len(t) = Len(s) + 1
        /\ \A i \in 1..Len(s) : t[i] = s[i]
        /\ t[Len(s) + 1] = x
    <3>1. x \in Y
      OBVIOUS
    <3> HIDE DEF Y
    <3> QED
      BY <2>1, <3>1, AppendProperties
  <2>3. DOMAIN t = 1..(Len(s) + 1)
    BY <2>2, LenProperties
  <2> HIDE DEF t
  <2>4. \A i \in 1..(Len(s) + 1) : i \in 1..Len(s) \/ i = Len(s) + 1
    BY <1>1
  <2>5. \A i \in 1..Len(s) : i \in 1..(Len(s) + 1)
    BY <1>1
  <2>6. Len(s) + 1 \in 1..(Len(s) + 1)
    BY <1>1
  <2>7. ToSet(t) \subseteq ToSet(s) \cup {x}
    BY <1>1, <2>2, <2>3, <2>4 DEF ToSet
  <2>8. ToSet(s) \cup {x} \subseteq ToSet(t)
    BY <1>1, <2>2, <2>3, <2>5, <2>6 DEF ToSet
  <2> QED
    BY <2>7, <2>8 DEF t
<1> QED
  BY <1>1, <1>2, <1>3 DEF ToSet

\* One permission is collected.
LEMMA OneCollected ==
  ASSUME NEW graph, RoleGraph(graph), NEW walk \in Walks(graph), NEW p \in Given(graph),
         NEW later, later = CollectPermission(walk, p)
  PROVE  /\ later \in Walks(graph)
         /\ Later(walk, later)
         /\ \A allowed : p \in allowed /\ OnceAllowed(walk, allowed) => OnceAllowed(later, allowed)
         /\ ~Clash(graph) => later.seen \cap RbacRoles = walk.seen \cap RbacRoles
         /\ SeenIsListed(walk) => SeenIsListed(later)
         /\ ~Clash(graph) /\ SeenIsListed(walk) => p \in ToSet(later.result)
<1>1. /\ walk.seen \in SUBSET (RbacRoles \cup {KeyOf(q) : q \in Given(graph)})
      /\ walk.result \in Seq(Given(graph))
  BY DEF Walks
<1>2. CASE KeyOf(p) \in walk.seen
  <2>1. later = walk
    BY <1>2 DEF CollectPermission
  <2>2. Later(walk, walk)
    BY DEF Later
  <2>3. ASSUME ~Clash(graph), SeenIsListed(walk) PROVE p \in ToSet(walk.result)
    <3>1. KeyOf(p) \notin RbacRoles
      BY <2>3 DEF Clash
    <3>2. PICK q \in ToSet(walk.result) : KeyOf(q) = KeyOf(p)
      BY <1>2, <2>3, <3>1 DEF SeenIsListed
    <3>3. q \in Given(graph)
      BY <1>1, ToSetIs
    <3> QED
      BY <2>3, <3>2, <3>3 DEF Clash
  <2> QED
    BY <2>1, <2>2, <2>3
<1>3. CASE KeyOf(p) \notin walk.seen
  <2> DEFINE s == walk.result
  <2>1. later = [seen |-> walk.seen \cup {KeyOf(p)}, result |-> Append(s, p)]
    BY <1>3 DEF CollectPermission
  <2>2. later.seen = walk.seen \cup {KeyOf(p)} /\ later.result = Append(s, p)
    BY <2>1
  <2>3. /\ Append(s, p) \in Seq(Given(graph)) /\ Len(Append(s, p)) = Len(s) + 1
        /\ \A i \in 1..Len(s) : Append(s, p)[i] = s[i]
        /\ Append(s, p)[Len(s) + 1] = p
    BY <1>1, AppendProperties
  <2>4. ToSet(later.result) = ToSet(s) \cup {p} /\ Len(s) \in Nat
    <3>1. ToSet(Append(s, p)) = ToSet(s) \cup {p} /\ Len(s) \in Nat
      BY <1>1, ToSetIs
    <3> QED
      BY <2>2, <3>1
  <2>5. later \in Walks(graph)
    BY <1>1, <2>1, <2>3 DEF Walks
  <2>6. Later(walk, later)
    BY <2>2, <2>4 DEF Later
  <2>7. ASSUME NEW allowed, p \in allowed, OnceAllowed(walk, allowed)
        PROVE  OnceAllowed(later, allowed)
    <3> PICK t : t = later.result
      OBVIOUS
    <3>1. \A i \in 1..Len(t) : i \in 1..Len(s) \/ i = Len(s) + 1
      BY <2>2, <2>3, <2>4
    <3>2. \A i \in 1..Len(s) : /\ t[i] = s[i] /\ s[i] \in allowed
                               /\ KeyOf(s[i]) \in walk.seen
      BY <2>2, <2>3, <2>7 DEF OnceAllowed
    <3>3. t[Len(s) + 1] = p
      BY <2>2, <2>3
    <3>4. \A i \in 1..Len(t) : t[i] \in allowed /\ KeyOf(t[i]) \in later.seen
      <4> SUFFICES ASSUME NEW i \in 1..Len(t)
                   PROVE  t[i] \in allowed /\ KeyOf(t[i]) \in later.seen
        OBVIOUS
      <4>1. CASE i \in 1..Len(s)
        BY <2>2, <3>2, <4>1
      <4>2. CASE i = Len(s) + 1
        BY <2>2, <2>7, <3>3, <4>2
      <4> QED
        BY <3>1, <4>1, <4>2
    <3>5. ASSUME NEW i \in 1..Len(t), NEW j \in 1..Len(t), KeyOf(t[i]) = KeyOf(t[j])
          PROVE  i = j
      <4>1. CASE i \in 1..Len(s) /\ j \in 1..Len(s)
        <5>1. KeyOf(s[i]) = KeyOf(s[j])
          BY <3>2, <3>5, <4>1
        <5> QED
          BY <2>7, <4>1, <5>1 DEF OnceAllowed
      <4>2. CASE i \in 1..Len(s) /\ j = Len(s) + 1
        BY <1>3, <3>2, <3>3, <3>5, <4>2
      <4>3. CASE i = Len(s) + 1 /\ j \in 1..Len(s)
        BY <1>3, <3>2, <3>3, <3>5, <4>3
      <4> QED
        BY <3>1, <4>1, <4>2, <4>3
    <3> QED
      BY <3>4, <3>5 DEF OnceAllowed
  <2>8. ~Clash(graph) => later.seen \cap RbacRoles = walk.seen \cap RbacRoles
    BY <2>2 DEF Clash
  <2>9. SeenIsListed(walk) => SeenIsListed(later)
    BY <2>2, <2>4 DEF SeenIsListed
  <2> QED
    BY <2>4, <2>5, <2>6, <2>7, <2>8, <2>9
<1> QED
  BY <1>2, <1>3

\* The permissions of a role, one after the other.
Collected(walk, list) == FoldLeft(CollectPermission, walk, list)

\* Collecting the permissions of a role is a walk with one step for each of them.
LEMMA PermissionsAlong ==
  ASSUME NEW graph, RoleGraph(graph), NEW walk \in Walks(graph),
         NEW list \in Seq(Given(graph))
  PROVE  \E v : /\ v \in [0..Len(list) -> Walks(graph)]
                /\ v[0] = walk
                /\ \A i \in 1..Len(list) : v[i] = CollectPermission(v[i - 1], list[i])
                /\ Collected(walk, list) = v[Len(list)]
<1> DEFINE n == Len(list)
           W == Walks(graph)
           step == [is \in (1..n) \X W |-> CollectPermission(is[2], list[is[1]])]
           Eq(f) == f = [s \in SUBSET DOMAIN list |->
                           IF s = {} THEN walk
                           ELSE CollectPermission(f[s \ {Max(s)}], list[Max(s)])]
           it == CHOOSE f : Eq(f)
<1>1. n \in Nat /\ DOMAIN list = 1..n /\ \A i \in 1..n : list[i] \in Given(graph)
  BY LenProperties, ElementOfSeq
<1>2. ASSUME NEW w \in W, NEW p \in Given(graph)
      PROVE  CollectPermission(w, p) \in W
  BY OneCollected
<1> HIDE DEF W
<1>3. walk \in W
  BY DEF W
<1>4. step \in [(1..n) \X W -> W]
  BY <1>1, <1>2
<1>5. \A s \in SUBSET (1..n) : s # {} => Max(s) \in 1..n /\ s \ {Max(s)} \in SUBSET (1..n)
  BY <1>1, LargestIndex
<1>6. \E f : Eq(f)
  <2>1. PICK g : Folds(g, n, W, walk, step)
    <3> HIDE DEF step, n
    <3> QED
      BY <1>1, <1>3, <1>4, FoldRecursion
  <2>2. ASSUME NEW s \in SUBSET (1..n)
        PROVE  g[s] = IF s = {} THEN walk ELSE CollectPermission(g[s \ {Max(s)}], list[Max(s)])
    <3>1. CASE s = {}
      BY <2>1, <3>1 DEF Folds
    <3>2. CASE s # {}
      <4>1. g[s] = step[<<Max(s), g[s \ {Max(s)}]>>] /\ g[s \ {Max(s)}] \in W
        BY <1>5, <2>1, <3>2 DEF Folds
      <4>2. <<Max(s), g[s \ {Max(s)}]>> \in (1..n) \X W
        BY <1>5, <3>2, <4>1
      <4> QED
        BY <3>2, <4>1, <4>2
    <3> QED
      BY <3>1, <3>2
  <2>3. Eq(g)
    BY <1>1, <2>1, <2>2 DEF Folds
  <2> QED
    BY <2>3
<1>7. Eq(it)
  BY <1>6
<1>8. Collected(walk, list) = it[1..n]
  BY <1>1 DEF Collected, FoldLeft, MapThenFoldSet
<1>9. it[{}] = walk
  BY <1>1, <1>7
<1>10. ASSUME NEW s \in SUBSET (1..n), s # {}
       PROVE  it[s] = CollectPermission(it[s \ {Max(s)}], list[Max(s)])
  <2> HIDE DEF it
  <2> QED
    BY <1>1, <1>7, <1>10
<1>11. \A s \in SUBSET (1..n) :
         s # {} /\ it[s \ {Max(s)}] \in W => it[s] = step[<<Max(s), it[s \ {Max(s)}]>>]
  <2> SUFFICES ASSUME NEW s \in SUBSET (1..n), s # {}, it[s \ {Max(s)}] \in W
               PROVE  it[s] = step[<<Max(s), it[s \ {Max(s)}]>>]
    OBVIOUS
  <2>1. <<Max(s), it[s \ {Max(s)}]>> \in (1..n) \X W
    BY <1>5
  <2> HIDE DEF it
  <2>2. step[<<Max(s), it[s \ {Max(s)}]>>] = CollectPermission(it[s \ {Max(s)}], list[Max(s)])
    BY <2>1
  <2> QED
    BY <1>10, <2>2
<1> DEFINE v == [i \in 0..n |-> it[1..i]]
<1>12. Recurs(v, n, W, walk, step)
  <2>1. v = [i \in 0..n |-> it[1..i]]
    OBVIOUS
  <2>2. n \in Nat
    BY <1>1
  <2> HIDE DEF step, it, v, n
  <2> QED
    BY ONLY <2>2, <1>3, <1>4, <1>9, <1>11, <2>1, FoldAlong
<1>13. v[n] = Collected(walk, list)
  BY <1>1, <1>8
<1> HIDE DEF v
<1>14. v \in [0..n -> W] /\ v[0] = walk /\ \A i \in 1..n : v[i] = step[<<i, v[i - 1]>>]
  BY <1>12 DEF Recurs
<1>15. ASSUME NEW i \in 1..n PROVE v[i] = CollectPermission(v[i - 1], list[i])
  <2>1. <<i, v[i - 1]>> \in (1..n) \X W
    BY <1>1, <1>14
  <2> QED
    BY <1>14, <2>1
<1> QED
  BY <1>13, <1>14, <1>15 DEF W

\* All permissions of a role are collected.
LEMMA AllCollected ==
  ASSUME NEW graph, RoleGraph(graph), NEW walk \in Walks(graph),
         NEW list \in Seq(Given(graph)),
         NEW later, later = Collected(walk, list)
  PROVE  /\ later \in Walks(graph)
         /\ Later(walk, later)
         /\ \A allowed : ToSet(list) \subseteq allowed /\ OnceAllowed(walk, allowed)
                           => OnceAllowed(later, allowed)
         /\ ~Clash(graph) => later.seen \cap RbacRoles = walk.seen \cap RbacRoles
         /\ SeenIsListed(walk) => SeenIsListed(later)
         /\ ~Clash(graph) /\ SeenIsListed(walk) => ToSet(list) \subseteq ToSet(later.result)
<1> PICK n : n = Len(list)
  OBVIOUS
<1>1. PICK v : /\ v \in [0..n -> Walks(graph)]
               /\ v[0] = walk
               /\ \A i \in 1..n : v[i] = CollectPermission(v[i - 1], list[i])
               /\ later = v[n]
  <2>1. \E v : /\ v \in [0..Len(list) -> Walks(graph)]
               /\ v[0] = walk
               /\ \A i \in 1..Len(list) : v[i] = CollectPermission(v[i - 1], list[i])
               /\ Collected(walk, list) = v[Len(list)]
    BY PermissionsAlong
  <2> QED
    BY <2>1
<1>2. /\ n \in Nat /\ DOMAIN list = 1..n
      /\ \A i \in 1..n : list[i] \in Given(graph) /\ list[i] \in ToSet(list)
      /\ \A p \in ToSet(list) : \E i \in 1..n : p = list[i]
  <2>1. n \in Nat /\ DOMAIN list = 1..n
    BY LenProperties
  <2> QED
    BY <2>1, ElementOfSeq DEF ToSet
<1> DEFINE So(i) ==
             /\ Later(walk, v[i])
             /\ \A allowed : ToSet(list) \subseteq allowed /\ OnceAllowed(walk, allowed)
                               => OnceAllowed(v[i], allowed)
             /\ ~Clash(graph) => v[i].seen \cap RbacRoles = walk.seen \cap RbacRoles
             /\ SeenIsListed(walk) => SeenIsListed(v[i])
             /\ ~Clash(graph) /\ SeenIsListed(walk) =>
                  \A j \in 1..i : list[j] \in ToSet(v[i].result)
           S == {i \in Nat : i <= n => So(i)}
<1>3. 0 \in S
  <2>1. Later(walk, walk)
    BY DEF Later
  <2>2. 1..0 = {}
    OBVIOUS
  <2> QED
    BY <1>1, <2>1, <2>2
<1>4. ASSUME NEW i \in Nat, i \in S PROVE i + 1 \in S
  <2> SUFFICES ASSUME i + 1 <= n PROVE So(i + 1)
    BY i + 1 \in Nat
  <2>1. So(i)
    BY <1>2, <1>4
  <2>2. i + 1 \in 1..n /\ (i + 1) - 1 = i /\ i \in 0..n
    BY <1>2
  <2> PICK w : w = v[i]
    OBVIOUS
  <2> PICK p : p = list[i + 1]
    OBVIOUS
  <2> PICK l : l = v[i + 1]
    OBVIOUS
  <2>3. w \in Walks(graph) /\ p \in Given(graph) /\ p \in ToSet(list) /\ l = CollectPermission(w, p)
    BY <1>1, <1>2, <2>2
  <2>4. /\ Later(w, l)
        /\ \A allowed : p \in allowed /\ OnceAllowed(w, allowed) => OnceAllowed(l, allowed)
        /\ ~Clash(graph) => l.seen \cap RbacRoles = w.seen \cap RbacRoles
        /\ SeenIsListed(w) => SeenIsListed(l)
        /\ ~Clash(graph) /\ SeenIsListed(w) => p \in ToSet(l.result)
    BY <2>3, OneCollected
  <2>5. /\ Later(walk, w)
        /\ \A allowed : ToSet(list) \subseteq allowed /\ OnceAllowed(walk, allowed)
                          => OnceAllowed(w, allowed)
        /\ ~Clash(graph) => w.seen \cap RbacRoles = walk.seen \cap RbacRoles
        /\ SeenIsListed(walk) => SeenIsListed(w)
        /\ ~Clash(graph) /\ SeenIsListed(walk) => \A j \in 1..i : list[j] \in ToSet(w.result)
    BY <2>1
  <2>6. Later(walk, l)
    BY <2>4, <2>5 DEF Later
  <2>7. ASSUME NEW allowed, ToSet(list) \subseteq allowed, OnceAllowed(walk, allowed)
        PROVE  OnceAllowed(l, allowed)
    BY <2>3, <2>4, <2>5, <2>7
  <2>8. ASSUME ~Clash(graph), SeenIsListed(walk)
        PROVE  \A j \in 1..(i + 1) : list[j] \in ToSet(l.result)
    <3>1. \A j \in 1..i : list[j] \in ToSet(l.result)
      BY <2>4, <2>5, <2>8 DEF Later
    <3>2. list[i + 1] \in ToSet(l.result)
      BY <2>4, <2>5, <2>8
    <3>3. \A j \in 1..(i + 1) : j \in 1..i \/ j = i + 1
      OBVIOUS
    <3> QED
      BY <3>1, <3>2, <3>3
  <2> QED
    BY <2>4, <2>5, <2>6, <2>7, <2>8
<1>5. Nat \subseteq S
  <2> HIDE DEF S
  <2> QED
    BY <1>3, <1>4, Induction
<1>6. So(n)
  BY <1>2, <1>5
<1>7. later \in Walks(graph)
  BY <1>1, <1>2
<1> QED
  BY <1>1, <1>2, <1>6, <1>7

\* One role of the walk upwards.
Places(graph) == [at : RbacRoles \cup {Nobody}, walk : Walks(graph)]

\* The walk with the role it stands at among those it has seen.
WithSeen(s) == [s.walk EXCEPT !.seen = @ \cup {s.at}]

\* One step upwards: nothing at a role that was seen, the parent next otherwise.
Ascend(graph, s) ==
  IF s.at = Nobody \/ s.at \in s.walk.seen THEN [at |-> Nobody, walk |-> s.walk]
  ELSE IF s.at \notin DOMAIN graph THEN [at |-> Nobody, walk |-> WithSeen(s)]
  ELSE [at |-> graph[s.at].parent, walk |-> Collected(WithSeen(s), graph[s.at].permissions)]

\* The roles among the keys that were seen; the others are permissions.
RolesSeen(walk) == walk.seen \cap RbacRoles

\* What the roles that were seen give is listed.
Whole(graph, walk) ==
  /\ SeenIsListed(walk)
  /\ \A r \in RolesSeen(walk) \cap DOMAIN graph :
       ToSet(graph[r].permissions) \subseteq ToSet(walk.result)

\* The parents of the roles that were seen were seen, but for the next one.
SeenUpTo(graph, walk, next) ==
  \A r \in RolesSeen(walk) \cap DOMAIN graph :
    graph[r].parent \in RolesSeen(walk) \cup {Nobody, next}

\* What one step upwards keeps of a walk, and where it leads.
LEMMA AscendOnce ==
  ASSUME NEW graph, RoleGraph(graph), NEW s \in Places(graph), Nobody \notin RbacRoles,
         NEW next, next = Ascend(graph, s)
  PROVE  /\ next \in Places(graph)
         /\ Later(s.walk, next.walk)
         /\ \A allowed : /\ s.at \in DOMAIN graph => ToSet(graph[s.at].permissions) \subseteq allowed
                         /\ OnceAllowed(s.walk, allowed)
                         => OnceAllowed(next.walk, allowed)
         /\ next.at # Nobody => s.at \in DOMAIN graph /\ next.at = graph[s.at].parent
         /\ next.at # Nobody => s.at \notin s.walk.seen
         /\ ~Clash(graph) =>
              /\ RolesSeen(next.walk) = RolesSeen(s.walk) \cup ({s.at} \ {Nobody})
              /\ Whole(graph, s.walk) => Whole(graph, next.walk)
              /\ SeenUpTo(graph, s.walk, s.at) => SeenUpTo(graph, next.walk, next.at)
<1>1. s.at \in RbacRoles \cup {Nobody} /\ s.walk \in Walks(graph)
  BY DEF Places
<1>2. CASE s.at = Nobody \/ s.at \in s.walk.seen
  <2>1. next.at = Nobody /\ next.walk = s.walk /\ next \in Places(graph)
    BY <1>1, <1>2 DEF Ascend, Places
  <2>2. Later(s.walk, s.walk)
    BY DEF Later
  <2>3. RolesSeen(s.walk) = RolesSeen(s.walk) \cup ({s.at} \ {Nobody})
    BY <1>1, <1>2 DEF RolesSeen
  <2>4. SeenUpTo(graph, s.walk, s.at) => SeenUpTo(graph, s.walk, Nobody)
    BY <1>1, <1>2 DEF SeenUpTo, RolesSeen
  <2> QED
    BY <2>1, <2>2, <2>3, <2>4
<1>3. CASE ~(s.at = Nobody \/ s.at \in s.walk.seen)
  <2> PICK role \in RbacRoles : role = s.at
    BY <1>1, <1>3
  <2> PICK m : m = WithSeen(s)
    OBVIOUS
  <2>1. /\ m \in Walks(graph) /\ m.seen = s.walk.seen \cup {role} /\ m.result = s.walk.result
        /\ role \notin s.walk.seen /\ role # Nobody
    BY <1>1, <1>3 DEF WithSeen, Walks
  <2>2. Later(s.walk, m)
    BY <2>1 DEF Later
  <2>3. \A allowed : OnceAllowed(s.walk, allowed) => OnceAllowed(m, allowed)
    BY <2>1 DEF OnceAllowed
  <2>4. RolesSeen(m) = RolesSeen(s.walk) \cup {role}
    BY <2>1 DEF RolesSeen
  <2>5. SeenIsListed(s.walk) => SeenIsListed(m)
    BY <2>1 DEF SeenIsListed
  <2>6. {s.at} \ {Nobody} = {role}
    BY <1>3
  <2>7. CASE role \notin DOMAIN graph
    <3>1. next.at = Nobody /\ next.walk = m /\ next \in Places(graph)
      BY <1>3, <2>1, <2>7 DEF Ascend, Places
    <3>2. Whole(graph, s.walk) => Whole(graph, m)
      BY <2>1, <2>4, <2>5, <2>7 DEF Whole
    <3>3. SeenUpTo(graph, s.walk, role) => SeenUpTo(graph, m, Nobody)
      BY <2>4, <2>7 DEF SeenUpTo
    <3> QED
      BY <2>2, <2>3, <2>4, <2>6, <3>1, <3>2, <3>3
  <2>8. CASE role \in DOMAIN graph
    <3> PICK list : list = graph[role].permissions
      OBVIOUS
    <3> PICK later : later = Collected(m, list)
      OBVIOUS
    <3>1. list \in Seq(Given(graph)) /\ graph[role].parent \in RbacRoles \cup {Nobody}
      BY <2>8 DEF RoleGraph
    <3>2. /\ later \in Walks(graph)
          /\ Later(m, later)
          /\ \A allowed : ToSet(list) \subseteq allowed /\ OnceAllowed(m, allowed)
                            => OnceAllowed(later, allowed)
          /\ ~Clash(graph) => later.seen \cap RbacRoles = m.seen \cap RbacRoles
          /\ SeenIsListed(m) => SeenIsListed(later)
          /\ ~Clash(graph) /\ SeenIsListed(m) => ToSet(list) \subseteq ToSet(later.result)
      BY <2>1, <3>1, AllCollected
    <3>3. next.at = graph[role].parent /\ next.walk = later /\ next \in Places(graph)
      BY <1>3, <2>8, <3>1, <3>2 DEF Ascend, Places
    <3>4. Later(s.walk, later)
      BY <2>2, <3>2 DEF Later
    <3>5. ASSUME NEW allowed, ToSet(list) \subseteq allowed, OnceAllowed(s.walk, allowed)
          PROVE  OnceAllowed(later, allowed)
      BY <2>3, <3>2, <3>5
    <3>6. ASSUME ~Clash(graph)
          PROVE  /\ RolesSeen(later) = RolesSeen(s.walk) \cup {role}
                 /\ Whole(graph, s.walk) => Whole(graph, later)
                 /\ SeenUpTo(graph, s.walk, role) => SeenUpTo(graph, later, graph[role].parent)
      <4>1. RolesSeen(later) = RolesSeen(s.walk) \cup {role}
        BY <2>4, <3>2, <3>6 DEF RolesSeen
      <4>2. Whole(graph, s.walk) => Whole(graph, later)
        <5> SUFFICES ASSUME Whole(graph, s.walk) PROVE Whole(graph, later)
          OBVIOUS
        <5>1. SeenIsListed(m)
          BY <2>5 DEF Whole
        <5>2. SeenIsListed(later) /\ ToSet(list) \subseteq ToSet(later.result)
          BY <3>2, <3>6, <5>1
        <5>3. ASSUME NEW r \in RolesSeen(later) \cap DOMAIN graph
              PROVE  ToSet(graph[r].permissions) \subseteq ToSet(later.result)
          <6>1. CASE r = role
            BY <5>2, <6>1
          <6>2. CASE r # role
            <7>1. ToSet(graph[r].permissions) \subseteq ToSet(s.walk.result)
              BY <4>1, <6>2 DEF Whole
            <7> QED
              BY <3>4, <7>1 DEF Later
          <6> QED
            BY <6>1, <6>2
        <5> QED
          BY <5>2, <5>3 DEF Whole
      <4>3. SeenUpTo(graph, s.walk, role) => SeenUpTo(graph, later, graph[role].parent)
        BY <4>1 DEF SeenUpTo
      <4> QED
        BY <4>1, <4>2, <4>3
    <3> QED
      BY <2>1, <2>6, <2>8, <3>3, <3>4, <3>5, <3>6
  <2> QED
    BY <2>7, <2>8
<1> QED
  BY <1>2, <1>3

\* The walk from one role, role by role.
LEMMA WalkAlong ==
  ASSUME NEW graph, RoleGraph(graph), NEW walk \in Walks(graph), NEW start \in RbacRoles,
         Nobody \notin RbacRoles, IsFiniteSet(RbacRoles)
  PROVE  \E u : /\ u \in [0..Cardinality(RbacRoles) -> Places(graph)]
                /\ u[0] = [at |-> start, walk |-> walk]
                /\ \A n \in 1..Cardinality(RbacRoles) : u[n] = Ascend(graph, u[n - 1])
                /\ CollectPermissions(graph, start, walk) = u[Cardinality(RbacRoles)].walk
<1> DEFINE N == Cardinality(RbacRoles)
           P == Places(graph)
           base == [at |-> start, walk |-> walk]
           step == [is \in (1..N) \X P |-> Ascend(graph, is[2])]
           Eq(f) == f = [n \in 0..N |-> IF n = 0 THEN base ELSE Ascend(graph, f[n - 1])]
           it == CHOOSE f : Eq(f)
<1>1. N \in Nat
  BY FS_CardinalityType
<1>2. \A s \in P : Ascend(graph, s) \in P
  BY AscendOnce
<1>3. base \in P
  BY DEF Places
<1> HIDE DEF P, N
<1>4. step \in [(1..N) \X P -> P]
  BY <1>2
<1> HIDE DEF base
<1>5. PICK g : Recurs(g, N, P, base, step)
  <2> HIDE DEF step
  <2> QED
    BY <1>1, <1>3, <1>4, Recursion
<1>6. Eq(g)
  <2>1. ASSUME NEW n \in 0..N PROVE g[n] = IF n = 0 THEN base ELSE Ascend(graph, g[n - 1])
    <3>1. CASE n = 0
      BY <1>5, <3>1 DEF Recurs
    <3>2. CASE n # 0
      <4>1. n \in 1..N /\ n - 1 \in 0..N
        BY <1>1, <3>2
      <4>2. g[n] = step[<<n, g[n - 1]>>] /\ g[n - 1] \in P
        BY <1>5, <4>1 DEF Recurs
      <4> QED
        BY <3>2, <4>1, <4>2
    <3> QED
      BY <3>1, <3>2
  <2> QED
    BY <1>5, <2>1 DEF Recurs
<1>7. Eq(it)
  BY <1>6
<1>8. CollectPermissions(graph, start, walk) = it[N].walk
  BY DEF CollectPermissions, Ascend, Collected, WithSeen, base, N
<1> HIDE DEF it
<1>9. it[0] = base /\ \A n \in 1..N : it[n] = Ascend(graph, it[n - 1])
  <2>1. 0 \in 0..N /\ \A n \in 1..N : n \in 0..N /\ n # 0
    BY <1>1
  <2> QED
    BY <1>7, <2>1
<1>10. \A n \in 0..N : it[n] \in P
  <2> DEFINE S == {n \in Nat : n <= N => it[n] \in P}
  <2>1. 0 \in S
    BY <1>3, <1>9
  <2>2. ASSUME NEW n \in Nat, n \in S PROVE n + 1 \in S
    <3> SUFFICES ASSUME n + 1 <= N PROVE it[n + 1] \in P
      BY n + 1 \in Nat
    <3>1. n + 1 \in 1..N /\ (n + 1) - 1 = n /\ it[n] \in P
      BY <1>1, <2>2
    <3> QED
      BY <1>2, <1>9, <3>1
  <2>3. Nat \subseteq S
    <3> HIDE DEF S
    <3> QED
      BY <2>1, <2>2, Induction
  <2> QED
    BY <1>1, <2>3
<1>11. it \in [0..N -> P]
  <2>1. it = [n \in 0..N |-> IF n = 0 THEN base ELSE Ascend(graph, it[n - 1])]
    BY <1>7
  <2>2. it = [n \in 0..N |-> it[n]]
    BY <2>1
  <2> QED
    BY <1>10, <2>2
<1> QED
  BY <1>8, <1>9, <1>11 DEF base, N, P

\* The roles inherited, generation by generation.
LEMMA InheritedAlong ==
  ASSUME NEW graph, RoleGraph(graph), NEW userRoles \in Seq(RbacRoles), IsFiniteSet(RbacRoles)
  PROVE  \E h : /\ h \in [0..Cardinality(RbacRoles) -> SUBSET (RbacRoles \cup {Nobody})]
                /\ h[0] = ToSet(userRoles)
                /\ \A n \in 1..Cardinality(RbacRoles) :
                     h[n] = h[n - 1] \cup {graph[r].parent : r \in h[n - 1] \cap DOMAIN graph}
                /\ Inherited(graph, userRoles) = h[Cardinality(RbacRoles)]
                /\ \A n \in 0..Cardinality(RbacRoles) : h[n] \subseteq Inherited(graph, userRoles)
<1> DEFINE N == Cardinality(RbacRoles)
           P == SUBSET (RbacRoles \cup {Nobody})
           base == ToSet(userRoles)
           Up(s) == s \cup {graph[r].parent : r \in s \cap DOMAIN graph}
           step == [is \in (1..N) \X P |-> Up(is[2])]
           Eq(f) == f = [n \in 0..N |-> IF n = 0 THEN base ELSE Up(f[n - 1])]
           it == CHOOSE f : Eq(f)
<1>1. N \in Nat
  BY FS_CardinalityType
<1>2. \A s \in P : Up(s) \in P /\ s \subseteq Up(s)
  BY DEF RoleGraph
<1>3. base \in P
  <2>1. ToSet(userRoles) \subseteq RbacRoles
    BY ToSetIs
  <2> QED
    BY <2>1
<1> HIDE DEF P, N, Up
<1>4. step \in [(1..N) \X P -> P]
  BY <1>2
<1> HIDE DEF base
<1>5. PICK g : Recurs(g, N, P, base, step)
  <2> HIDE DEF step
  <2> QED
    BY <1>1, <1>3, <1>4, Recursion
<1>6. Eq(g)
  <2>1. ASSUME NEW n \in 0..N PROVE g[n] = IF n = 0 THEN base ELSE Up(g[n - 1])
    <3>1. CASE n = 0
      BY <1>5, <3>1 DEF Recurs
    <3>2. CASE n # 0
      <4>1. n \in 1..N /\ n - 1 \in 0..N
        BY <1>1, <3>2
      <4>2. g[n] = step[<<n, g[n - 1]>>] /\ g[n - 1] \in P
        BY <1>5, <4>1 DEF Recurs
      <4> QED
        BY <3>2, <4>1, <4>2
    <3> QED
      BY <3>1, <3>2
  <2> QED
    BY <1>5, <2>1 DEF Recurs
<1>7. Eq(it)
  BY <1>6
<1>8. Inherited(graph, userRoles) = it[N]
  BY DEF Inherited, Up, base, N
<1> HIDE DEF it
<1>9. it[0] = base /\ \A n \in 1..N : it[n] = Up(it[n - 1])
  <2>1. 0 \in 0..N /\ \A n \in 1..N : n \in 0..N /\ n # 0
    BY <1>1
  <2> QED
    BY <1>7, <2>1
<1>10. \A n \in 0..N : it[n] \in P /\ \A m \in 0..n : it[m] \subseteq it[n]
  <2> DEFINE S == {n \in Nat : n <= N => it[n] \in P /\ \A m \in 0..n : it[m] \subseteq it[n]}
  <2>1. 0 \in S
    BY <1>3, <1>9
  <2>2. ASSUME NEW n \in Nat, n \in S PROVE n + 1 \in S
    <3> SUFFICES ASSUME n + 1 <= N
                 PROVE  it[n + 1] \in P /\ \A m \in 0..(n + 1) : it[m] \subseteq it[n + 1]
      BY n + 1 \in Nat
    <3>1. /\ n + 1 \in 1..N /\ (n + 1) - 1 = n /\ it[n] \in P
          /\ \A m \in 0..n : it[m] \subseteq it[n]
      BY <1>1, <2>2
    <3>2. it[n + 1] = Up(it[n])
      BY <1>9, <3>1
    <3>3. it[n + 1] \in P /\ it[n] \subseteq it[n + 1]
      BY <1>2, <3>1, <3>2
    <3>4. \A m \in 0..(n + 1) : m \in 0..n \/ m = n + 1
      OBVIOUS
    <3> QED
      BY <3>1, <3>3, <3>4
  <2>3. Nat \subseteq S
    <3> HIDE DEF S
    <3> QED
      BY <2>1, <2>2, Induction
  <2> TAKE n \in 0..N
  <2>4. n \in S /\ n <= N
    BY <1>1, <2>3
  <2> QED
    BY <2>4
<1>11. it \in [0..N -> P]
  <2>1. it = [n \in 0..N |-> IF n = 0 THEN base ELSE Up(it[n - 1])]
    BY <1>7
  <2>2. it = [n \in 0..N |-> it[n]]
    BY <2>1
  <2> QED
    BY <1>10, <2>2
<1>12. \A n \in 0..N : it[n] \subseteq it[N]
  <2>1. N \in 0..N
    BY <1>1
  <2> QED
    BY <1>10, <2>1
<1>13. it[N] = Inherited(graph, userRoles)
  BY <1>8
<1>14. \A n \in 1..N : it[n] = it[n - 1] \cup {graph[r].parent : r \in it[n - 1] \cap DOMAIN graph}
  BY <1>9 DEF Up
<1>15. it[0] = base
  BY <1>9
<1>16. \A n \in 0..N : it[n] \subseteq Inherited(graph, userRoles)
  BY <1>12, <1>13
<1> QED
  BY ONLY <1>11, <1>13, <1>14, <1>15, <1>16 DEF base, N, P

\* A walk from a role of the user lists what the user is granted only.
LEMMA WalkAllowed ==
  ASSUME NEW graph, RoleGraph(graph), NEW userRoles \in Seq(RbacRoles),
         Nobody \notin RbacRoles, IsFiniteSet(RbacRoles),
         NEW walk \in Walks(graph), NEW start \in ToSet(userRoles),
         OnceAllowed(walk, Granted(graph, userRoles)),
         NEW later, later = CollectPermissions(graph, start, walk)
  PROVE  later \in Walks(graph) /\ OnceAllowed(later, Granted(graph, userRoles))
<1> PICK N : N = Cardinality(RbacRoles)
  OBVIOUS
<1> PICK allowed : allowed = Granted(graph, userRoles)
  OBVIOUS
<1>1. N \in Nat /\ start \in RbacRoles
  <2>1. ToSet(userRoles) \subseteq RbacRoles
    BY ToSetIs
  <2> QED
    BY <2>1, FS_CardinalityType
<1>2. PICK u : /\ u \in [0..N -> Places(graph)]
               /\ u[0] = [at |-> start, walk |-> walk]
               /\ \A n \in 1..N : u[n] = Ascend(graph, u[n - 1])
               /\ later = u[N].walk
  <2>1. \E u : /\ u \in [0..Cardinality(RbacRoles) -> Places(graph)]
               /\ u[0] = [at |-> start, walk |-> walk]
               /\ \A n \in 1..Cardinality(RbacRoles) : u[n] = Ascend(graph, u[n - 1])
               /\ CollectPermissions(graph, start, walk) = u[Cardinality(RbacRoles)].walk
    BY <1>1, WalkAlong
  <2> QED
    BY <2>1
<1>9. PICK h : /\ h \in [0..Cardinality(RbacRoles) -> SUBSET (RbacRoles \cup {Nobody})]
               /\ h[0] = ToSet(userRoles)
               /\ \A n \in 1..Cardinality(RbacRoles) :
                    h[n] = h[n - 1] \cup {graph[r].parent : r \in h[n - 1] \cap DOMAIN graph}
               /\ Inherited(graph, userRoles) = h[Cardinality(RbacRoles)]
               /\ \A n \in 0..Cardinality(RbacRoles) : h[n] \subseteq Inherited(graph, userRoles)
  BY InheritedAlong
<1>3. /\ h[0] = ToSet(userRoles)
      /\ \A n \in 1..N : h[n] = h[n - 1] \cup {graph[r].parent : r \in h[n - 1] \cap DOMAIN graph}
      /\ \A n \in 0..N : h[n] \subseteq Inherited(graph, userRoles)
  BY <1>9
<1> DEFINE So(n) == /\ u[n].at = Nobody \/ u[n].at \in h[n]
                    /\ OnceAllowed(u[n].walk, allowed)
           S == {n \in Nat : n <= N => So(n)}
<1>4. 0 \in S
  <2>1. u[0].at = start /\ u[0].walk = walk
    BY <1>2
  <2> QED
    BY <1>3, <2>1
<1>5. ASSUME NEW n \in Nat, n \in S PROVE n + 1 \in S
  <2> SUFFICES ASSUME n + 1 <= N PROVE So(n + 1)
    BY n + 1 \in Nat
  <2>1. So(n)
    BY <1>1, <1>5
  <2>2. n + 1 \in 1..N /\ (n + 1) - 1 = n /\ n \in 0..N
    BY <1>1
  <2> PICK s : s = u[n]
    OBVIOUS
  <2> PICK next : next = u[n + 1]
    OBVIOUS
  <2>3. s \in Places(graph) /\ next = Ascend(graph, s)
    BY <1>2, <2>2
  <2>4. /\ \A some : /\ s.at \in DOMAIN graph => ToSet(graph[s.at].permissions) \subseteq some
                     /\ OnceAllowed(s.walk, some)
                     => OnceAllowed(next.walk, some)
        /\ next.at # Nobody => s.at \in DOMAIN graph /\ next.at = graph[s.at].parent
    BY <2>3, AscendOnce
  <2>5. s.at \in DOMAIN graph => s.at \in h[n]
    BY <2>1 DEF RoleGraph
  <2>6. next.at # Nobody => next.at \in h[n + 1]
    <3> SUFFICES ASSUME next.at # Nobody PROVE next.at \in h[n + 1]
      OBVIOUS
    <3>1. s.at \in h[n] \cap DOMAIN graph /\ next.at = graph[s.at].parent
      BY <2>4, <2>5
    <3>2. h[n + 1] = h[n] \cup {graph[r].parent : r \in h[n] \cap DOMAIN graph}
      BY <1>3, <2>2
    <3> QED
      BY <3>1, <3>2
  <2>7. s.at \in DOMAIN graph => ToSet(graph[s.at].permissions) \subseteq allowed
    <3> SUFFICES ASSUME s.at \in DOMAIN graph
                 PROVE  ToSet(graph[s.at].permissions) \subseteq allowed
      OBVIOUS
    <3>1. s.at \in Inherited(graph, userRoles) \cap DOMAIN graph
      BY <1>3, <2>2, <2>5
    <3> QED
      BY <3>1 DEF Granted
  <2> QED
    BY <2>1, <2>4, <2>6, <2>7
<1>6. Nat \subseteq S
  <2> HIDE DEF S
  <2> QED
    BY <1>4, <1>5, Induction
<1>7. So(N)
  BY <1>1, <1>6
<1>8. later \in Walks(graph)
  <2>1. N \in 0..N
    BY <1>1
  <2> QED
    BY <1>2, <2>1 DEF Places
<1> QED
  BY <1>2, <1>7, <1>8

\* A walk from a role has seen it and all that it inherits from.
LEMMA WalkSees ==
  ASSUME NEW graph, RoleGraph(graph), Nobody \notin RbacRoles, IsFiniteSet(RbacRoles),
         NEW walk \in Walks(graph), NEW start \in RbacRoles,
         ~Clash(graph), Whole(graph, walk), SeenUpTo(graph, walk, Nobody),
         NEW later, later = CollectPermissions(graph, start, walk)
  PROVE  /\ Whole(graph, later)
         /\ SeenUpTo(graph, later, Nobody)
         /\ RolesSeen(walk) \cup {start} \subseteq RolesSeen(later)
<1> PICK N : N = Cardinality(RbacRoles)
  OBVIOUS
<1>1. N \in Nat
  BY FS_CardinalityType
<1>2. PICK u : /\ u \in [0..N -> Places(graph)]
               /\ u[0] = [at |-> start, walk |-> walk]
               /\ \A n \in 1..N : u[n] = Ascend(graph, u[n - 1])
               /\ later = u[N].walk
  <2>1. \E u : /\ u \in [0..Cardinality(RbacRoles) -> Places(graph)]
               /\ u[0] = [at |-> start, walk |-> walk]
               /\ \A n \in 1..Cardinality(RbacRoles) : u[n] = Ascend(graph, u[n - 1])
               /\ CollectPermissions(graph, start, walk) = u[Cardinality(RbacRoles)].walk
    BY WalkAlong
  <2> QED
    BY <2>1
<1> DEFINE So(n) == /\ Whole(graph, u[n].walk)
                    /\ SeenUpTo(graph, u[n].walk, u[n].at)
                    /\ RolesSeen(walk) \subseteq RolesSeen(u[n].walk)
                    /\ start \in RolesSeen(u[n].walk) \cup {u[n].at}
                    /\ u[n].at # Nobody => Cardinality(RolesSeen(u[n].walk)) >= n
           S == {n \in Nat : n <= N => So(n)}
<1>3. \A w : IsFiniteSet(RolesSeen(w)) /\ Cardinality(RolesSeen(w)) \in Nat
  <2> TAKE w
  <2>1. RolesSeen(w) \in SUBSET RbacRoles
    BY DEF RolesSeen
  <2>2. IsFiniteSet(RolesSeen(w))
    BY ONLY <2>1, IsFiniteSet(RbacRoles), FS_Subset
  <2> QED
    BY ONLY <2>2, FS_CardinalityType
<1>4. 0 \in S
  <2>1. u[0].at = start /\ u[0].walk = walk
    BY <1>2
  <2>2. SeenUpTo(graph, walk, start)
    BY DEF SeenUpTo
  <2>3. Cardinality(RolesSeen(walk)) >= 0
    BY <1>3
  <2> QED
    BY <2>1, <2>2, <2>3
<1>5. ASSUME NEW n \in Nat, n \in S PROVE n + 1 \in S
  <2> SUFFICES ASSUME n + 1 <= N PROVE So(n + 1)
    BY n + 1 \in Nat
  <2>1. So(n)
    BY <1>1, <1>5
  <2>2. n + 1 \in 1..N /\ (n + 1) - 1 = n /\ n \in 0..N
    BY <1>1
  <2> PICK s : s = u[n]
    OBVIOUS
  <2> PICK next : next = u[n + 1]
    OBVIOUS
  <2>3. s \in Places(graph) /\ next = Ascend(graph, s)
    BY <1>2, <2>2
  <2>4. /\ next.at # Nobody => s.at \in DOMAIN graph
        /\ next.at # Nobody => s.at \notin s.walk.seen
        /\ RolesSeen(next.walk) = RolesSeen(s.walk) \cup ({s.at} \ {Nobody})
        /\ Whole(graph, s.walk) => Whole(graph, next.walk)
        /\ SeenUpTo(graph, s.walk, s.at) => SeenUpTo(graph, next.walk, next.at)
    BY <2>3, AscendOnce
  <2>5. /\ Whole(graph, s.walk) /\ SeenUpTo(graph, s.walk, s.at)
        /\ RolesSeen(walk) \subseteq RolesSeen(s.walk)
        /\ start \in RolesSeen(s.walk) \cup {s.at}
        /\ s.at # Nobody => Cardinality(RolesSeen(s.walk)) >= n
    BY <2>1
  <2>6. start \in RolesSeen(next.walk)
    BY <2>4, <2>5
  <2>7. ASSUME next.at # Nobody PROVE Cardinality(RolesSeen(next.walk)) >= n + 1
    <3>1. s.at \in RbacRoles /\ s.at # Nobody /\ s.at \notin RolesSeen(s.walk)
      BY <2>4, <2>7 DEF RoleGraph, RolesSeen
    <3>2. RolesSeen(next.walk) = RolesSeen(s.walk) \cup {s.at}
      BY <2>4, <3>1
    <3>3. Cardinality(RolesSeen(s.walk) \cup {s.at}) = Cardinality(RolesSeen(s.walk)) + 1
      BY <1>3, <3>1, FS_AddElement
    <3> QED
      BY <1>3, <2>5, <3>1, <3>2, <3>3
  <2> QED
    BY <2>4, <2>5, <2>6, <2>7
<1>6. Nat \subseteq S
  <2> HIDE DEF S
  <2> QED
    BY <1>4, <1>5, Induction
<1>7. So(N)
  BY <1>1, <1>6
<1>8. u[N].at \in RolesSeen(later) \cup {Nobody}
  <2> SUFFICES ASSUME u[N].at # Nobody PROVE u[N].at \in RolesSeen(later)
    OBVIOUS
  <2>1. u[N].at \in RbacRoles
    <3>1. N \in 0..N
      BY <1>1
    <3> QED
      BY <1>2, <3>1 DEF Places
  <2>2. Cardinality(RolesSeen(later)) >= N
    BY <1>2, <1>7
  <2>3. RolesSeen(later) \in SUBSET RbacRoles
    BY DEF RolesSeen
  <2>4. Cardinality(RolesSeen(later)) <= N
    BY <2>3, FS_Subset
  <2>5. Cardinality(RbacRoles) = Cardinality(RolesSeen(later))
    BY <1>1, <1>3, <2>2, <2>4
  <2>6. RbacRoles = RolesSeen(later)
    BY <2>3, <2>5, FS_Subset
  <2> QED
    BY <2>1, <2>6
<1>9. /\ Whole(graph, later)
      /\ SeenUpTo(graph, later, u[N].at)
      /\ RolesSeen(walk) \subseteq RolesSeen(later)
      /\ start \in RolesSeen(later) \cup {u[N].at}
  BY <1>2, <1>7
<1>10. SeenUpTo(graph, later, Nobody)
  BY <1>8, <1>9 DEF SeenUpTo
<1> QED
  BY <1>8, <1>9, <1>10

\* Collecting from a role leads from a walk to a walk.
LEMMA WalkTyped ==
  ASSUME NEW graph, RoleGraph(graph), Nobody \notin RbacRoles, IsFiniteSet(RbacRoles),
         NEW walk \in Walks(graph), NEW start \in RbacRoles
  PROVE  CollectPermissions(graph, start, walk) \in Walks(graph)
<1> PICK N : N = Cardinality(RbacRoles)
  OBVIOUS
<1>1. N \in Nat /\ N \in 0..N
  <2>1. N \in Nat
    BY FS_CardinalityType
  <2> QED
    BY <2>1
<1>2. \E u : /\ u \in [0..Cardinality(RbacRoles) -> Places(graph)]
             /\ u[0] = [at |-> start, walk |-> walk]
             /\ \A n \in 1..Cardinality(RbacRoles) : u[n] = Ascend(graph, u[n - 1])
             /\ CollectPermissions(graph, start, walk) = u[Cardinality(RbacRoles)].walk
  BY WalkAlong
<1> QED
  BY <1>1, <1>2 DEF Places

\* The roles of a user, one after the other.
WalkOver(graph, userRoles) ==
  FoldLeft(LAMBDA walk, role : CollectPermissions(graph, role, walk),
           [seen |-> {}, result |-> <<>>], userRoles)

\* Collecting from a user's roles is a walk with one step for each of them.
LEMMA RolesAlong ==
  ASSUME NEW graph, RoleGraph(graph), Nobody \notin RbacRoles, IsFiniteSet(RbacRoles),
         NEW list \in Seq(RbacRoles)
  PROVE  \E v : /\ v \in [0..Len(list) -> Walks(graph)]
                /\ v[0] = [seen |-> {}, result |-> <<>>]
                /\ \A i \in 1..Len(list) : v[i] = CollectPermissions(graph, list[i], v[i - 1])
                /\ WalkOver(graph, list) = v[Len(list)]
<1> DEFINE n == Len(list)
           W == Walks(graph)
           walk == [seen |-> {}, result |-> <<>>]
           step == [is \in (1..n) \X W |-> CollectPermissions(graph, list[is[1]], is[2])]
           Eq(f) == f = [s \in SUBSET DOMAIN list |->
                           IF s = {} THEN walk
                           ELSE CollectPermissions(graph, list[Max(s)], f[s \ {Max(s)}])]
           it == CHOOSE f : Eq(f)
<1>1. n \in Nat /\ DOMAIN list = 1..n /\ \A i \in 1..n : list[i] \in RbacRoles
  BY LenProperties, ElementOfSeq
<1>2. ASSUME NEW w \in W, NEW p \in RbacRoles
      PROVE  CollectPermissions(graph, p, w) \in W
  BY WalkTyped
<1> HIDE DEF W
<1>3. walk \in W
  BY EmptySeq DEF W, Walks
<1> HIDE DEF walk
<1>4. step \in [(1..n) \X W -> W]
  BY <1>1, <1>2
<1>5. \A s \in SUBSET (1..n) : s # {} => Max(s) \in 1..n /\ s \ {Max(s)} \in SUBSET (1..n)
  BY <1>1, LargestIndex
<1>6. \E f : Eq(f)
  <2>1. PICK g : Folds(g, n, W, walk, step)
    <3> HIDE DEF step, n
    <3> QED
      BY <1>1, <1>3, <1>4, FoldRecursion
  <2>2. ASSUME NEW s \in SUBSET (1..n)
        PROVE  g[s] = IF s = {} THEN walk ELSE CollectPermissions(graph, list[Max(s)], g[s \ {Max(s)}])
    <3>1. CASE s = {}
      BY <2>1, <3>1 DEF Folds
    <3>2. CASE s # {}
      <4>1. g[s] = step[<<Max(s), g[s \ {Max(s)}]>>] /\ g[s \ {Max(s)}] \in W
        BY <1>5, <2>1, <3>2 DEF Folds
      <4>2. <<Max(s), g[s \ {Max(s)}]>> \in (1..n) \X W
        BY <1>5, <3>2, <4>1
      <4> QED
        BY <3>2, <4>1, <4>2
    <3> QED
      BY <3>1, <3>2
  <2>3. Eq(g)
    BY <1>1, <2>1, <2>2 DEF Folds
  <2> QED
    BY <2>3
<1>7. Eq(it)
  BY <1>6
<1>8. WalkOver(graph, list) = it[1..n]
  BY <1>1 DEF WalkOver, FoldLeft, MapThenFoldSet, walk
<1>9. it[{}] = walk
  BY <1>1, <1>7
<1>10. ASSUME NEW s \in SUBSET (1..n), s # {}
       PROVE  it[s] = CollectPermissions(graph, list[Max(s)], it[s \ {Max(s)}])
  <2> HIDE DEF it
  <2> QED
    BY <1>1, <1>7, <1>10
<1>11. \A s \in SUBSET (1..n) :
         s # {} /\ it[s \ {Max(s)}] \in W => it[s] = step[<<Max(s), it[s \ {Max(s)}]>>]
  <2> SUFFICES ASSUME NEW s \in SUBSET (1..n), s # {}, it[s \ {Max(s)}] \in W
               PROVE  it[s] = step[<<Max(s), it[s \ {Max(s)}]>>]
    OBVIOUS
  <2>1. <<Max(s), it[s \ {Max(s)}]>> \in (1..n) \X W
    BY <1>5
  <2> HIDE DEF it
  <2>2. step[<<Max(s), it[s \ {Max(s)}]>>] = CollectPermissions(graph, list[Max(s)], it[s \ {Max(s)}])
    BY <2>1
  <2> QED
    BY <1>10, <2>2
<1> DEFINE v == [i \in 0..n |-> it[1..i]]
<1>12. Recurs(v, n, W, walk, step)
  <2>1. v = [i \in 0..n |-> it[1..i]]
    OBVIOUS
  <2>2. n \in Nat
    BY <1>1
  <2> HIDE DEF step, it, v, n
  <2> QED
    BY ONLY <2>2, <1>3, <1>4, <1>9, <1>11, <2>1, FoldAlong
<1>13. v[n] = WalkOver(graph, list)
  BY <1>1, <1>8
<1> HIDE DEF v
<1>14. v \in [0..n -> W] /\ v[0] = walk /\ \A i \in 1..n : v[i] = step[<<i, v[i - 1]>>]
  BY <1>12 DEF Recurs
<1>15. ASSUME NEW i \in 1..n PROVE v[i] = CollectPermissions(graph, list[i], v[i - 1])
  <2>1. <<i, v[i - 1]>> \in (1..n) \X W
    BY <1>1, <1>14
  <2> QED
    BY <1>14, <2>1
<1> QED
  BY <1>13, <1>14, <1>15 DEF W, walk

\* The permissions of the user's roles and of all they inherit from are listed,
\* each once.
THEOREM RolesAreCollected ==
  ASSUME NEW graph, RoleGraph(graph), Nobody \notin RbacRoles, IsFiniteSet(RbacRoles),
         NEW userRoles \in Seq(RbacRoles)
  PROVE  RolesCollected(graph, userRoles)
<1> PICK granted : granted = Granted(graph, userRoles)
  OBVIOUS
<1> PICK n : n = Len(userRoles)
  OBVIOUS
<1>1. PICK v : /\ v \in [0..Len(userRoles) -> Walks(graph)]
               /\ v[0] = [seen |-> {}, result |-> <<>>]
               /\ \A i \in 1..Len(userRoles) : v[i] = CollectPermissions(graph, userRoles[i], v[i - 1])
               /\ WalkOver(graph, userRoles) = v[Len(userRoles)]
  BY RolesAlong
<1>2. /\ v \in [0..n -> Walks(graph)]
      /\ v[0] = [seen |-> {}, result |-> <<>>]
      /\ \A i \in 1..n : v[i] = CollectPermissions(graph, userRoles[i], v[i - 1])
      /\ WalkOver(graph, userRoles) = v[n]
  BY <1>1
<1>3. /\ n \in Nat /\ DOMAIN userRoles = 1..n
      /\ \A i \in 1..n : userRoles[i] \in RbacRoles /\ userRoles[i] \in ToSet(userRoles)
      /\ \A r \in ToSet(userRoles) : \E i \in 1..n : r = userRoles[i]
  <2>1. n \in Nat /\ DOMAIN userRoles = 1..n
    BY LenProperties
  <2> QED
    BY <2>1, ElementOfSeq DEF ToSet
<1> DEFINE So(i) == /\ OnceAllowed(v[i], granted)
                    /\ ~Clash(graph) => /\ Whole(graph, v[i]) /\ SeenUpTo(graph, v[i], Nobody)
                                        /\ \A j \in 1..i : userRoles[j] \in RolesSeen(v[i])
           S == {i \in Nat : i <= n => So(i)}
<1>4. 0 \in S
  <2> PICK w : w = v[0]
    OBVIOUS
  <2>1. w.seen = {} /\ w.result = <<>> /\ Len(w.result) = 0
    <3>1. w.seen = {} /\ w.result = <<>>
      BY <1>2
    <3> QED
      BY <3>1, EmptySeq
  <2>2. OnceAllowed(w, granted)
    BY <2>1 DEF OnceAllowed
  <2>3. Whole(graph, w) /\ SeenUpTo(graph, w, Nobody)
    BY <2>1 DEF Whole, SeenUpTo, RolesSeen, SeenIsListed
  <2>4. 1..0 = {}
    OBVIOUS
  <2> QED
    BY <2>2, <2>3, <2>4
<1>5. ASSUME NEW i \in Nat, i \in S PROVE i + 1 \in S
  <2> SUFFICES ASSUME i + 1 <= n PROVE So(i + 1)
    BY i + 1 \in Nat
  <2>1. So(i)
    BY <1>3, <1>5
  <2>2. i + 1 \in 1..n /\ (i + 1) - 1 = i /\ i \in 0..n
    BY <1>3
  <2> PICK w : w = v[i]
    OBVIOUS
  <2> PICK l : l = v[i + 1]
    OBVIOUS
  <2> PICK r : r = userRoles[i + 1]
    OBVIOUS
  <2>3. w \in Walks(graph) /\ r \in RbacRoles /\ r \in ToSet(userRoles)
        /\ l = CollectPermissions(graph, r, w)
    BY <1>2, <1>3, <2>2
  <2>4. OnceAllowed(l, granted)
    <3>1. OnceAllowed(w, Granted(graph, userRoles))
      BY <2>1
    <3>2. OnceAllowed(l, Granted(graph, userRoles))
      BY <2>3, <3>1, WalkAllowed
    <3> QED
      BY <3>2
  <2>5. ASSUME ~Clash(graph)
        PROVE  /\ Whole(graph, l) /\ SeenUpTo(graph, l, Nobody)
               /\ \A j \in 1..(i + 1) : userRoles[j] \in RolesSeen(l)
    <3>1. /\ Whole(graph, w) /\ SeenUpTo(graph, w, Nobody)
          /\ \A j \in 1..i : userRoles[j] \in RolesSeen(w)
      BY <2>1, <2>5
    <3>2. /\ Whole(graph, l)
          /\ SeenUpTo(graph, l, Nobody)
          /\ RolesSeen(w) \cup {r} \subseteq RolesSeen(l)
      BY <2>3, <2>5, <3>1, WalkSees
    <3>3. \A j \in 1..(i + 1) : j \in 1..i \/ j = i + 1
      OBVIOUS
    <3> QED
      BY <3>1, <3>2, <3>3
  <2> QED
    BY <2>4, <2>5
<1>6. Nat \subseteq S
  <2> HIDE DEF S
  <2> QED
    BY <1>4, <1>5, Induction
<1> PICK w : w = v[n]
  OBVIOUS
<1>7. /\ OnceAllowed(w, granted)
      /\ ~Clash(graph) => /\ Whole(graph, w) /\ SeenUpTo(graph, w, Nobody)
                          /\ \A j \in 1..n : userRoles[j] \in RolesSeen(w)
      /\ w \in Walks(graph)
  <2>1. So(n)
    BY <1>3, <1>6
  <2>2. n \in 0..n
    BY <1>3
  <2> QED
    BY <1>2, <2>1, <2>2
<1> PICK listed : listed = ListPermissions(graph, userRoles)
  OBVIOUS
<1>8. listed = w.result
  BY <1>2 DEF ListPermissions, WalkOver
<1>9. listed \in Seq(Given(graph)) /\ DOMAIN listed = 1..Len(listed)
      /\ ToSet(listed) = {listed[i] : i \in 1..Len(listed)}
  <2>1. listed \in Seq(Given(graph))
    BY <1>7, <1>8 DEF Walks
  <2> QED
    BY <2>1, LenProperties, ToSetIs
<1>10. IsInjective(listed)
  <2>1. \A i, j \in 1..Len(listed) : listed[i] = listed[j] => i = j
    BY <1>7, <1>8 DEF OnceAllowed
  <2> QED
    BY <1>9, <2>1 DEF IsInjective
<1>11. ToSet(listed) \subseteq granted
  BY <1>7, <1>8, <1>9 DEF OnceAllowed
<1>12. ASSUME ~Clash(graph) PROVE granted \subseteq ToSet(listed)
  <2>1. /\ Whole(graph, w) /\ SeenUpTo(graph, w, Nobody)
        /\ \A j \in 1..n : userRoles[j] \in RolesSeen(w)
    BY <1>7, <1>12
  <2> PICK N : N = Cardinality(RbacRoles)
    OBVIOUS
  <2>2. N \in Nat
    BY FS_CardinalityType
  <2>3. PICK h : /\ h \in [0..Cardinality(RbacRoles) -> SUBSET (RbacRoles \cup {Nobody})]
                 /\ h[0] = ToSet(userRoles)
                 /\ \A m \in 1..Cardinality(RbacRoles) :
                      h[m] = h[m - 1] \cup {graph[r].parent : r \in h[m - 1] \cap DOMAIN graph}
                 /\ Inherited(graph, userRoles) = h[Cardinality(RbacRoles)]
                 /\ \A m \in 0..Cardinality(RbacRoles) : h[m] \subseteq Inherited(graph, userRoles)
    BY InheritedAlong
  <2>4. /\ h[0] = ToSet(userRoles)
        /\ \A m \in 1..N : h[m] = h[m - 1] \cup {graph[r].parent : r \in h[m - 1] \cap DOMAIN graph}
        /\ Inherited(graph, userRoles) = h[N]
    BY <2>3
  <2> DEFINE T == {m \in Nat : m <= N => h[m] \subseteq RolesSeen(w) \cup {Nobody}}
  <2>5. 0 \in T
    BY <1>3, <2>1, <2>4
  <2>6. ASSUME NEW m \in Nat, m \in T PROVE m + 1 \in T
    <3> SUFFICES ASSUME m + 1 <= N PROVE h[m + 1] \subseteq RolesSeen(w) \cup {Nobody}
      BY m + 1 \in Nat
    <3>1. h[m] \subseteq RolesSeen(w) \cup {Nobody}
      BY <2>2, <2>6
    <3>2. h[m + 1] = h[m] \cup {graph[r].parent : r \in h[m] \cap DOMAIN graph}
      <4>1. m + 1 \in 1..N /\ (m + 1) - 1 = m
        BY <2>2
      <4> QED
        BY <2>4, <4>1
    <3>3. \A r \in h[m] \cap DOMAIN graph : r \in RolesSeen(w) \cap DOMAIN graph
      BY <3>1 DEF RoleGraph
    <3>4. \A r \in h[m] \cap DOMAIN graph : graph[r].parent \in RolesSeen(w) \cup {Nobody}
      BY <2>1, <3>3 DEF SeenUpTo
    <3> QED
      BY <3>1, <3>2, <3>4
  <2>7. Nat \subseteq T
    <3> HIDE DEF T
    <3> QED
      BY <2>5, <2>6, Induction
  <2>8. Inherited(graph, userRoles) \subseteq RolesSeen(w) \cup {Nobody}
    BY <2>2, <2>4, <2>7
  <2>9. ASSUME NEW r \in Inherited(graph, userRoles) \cap DOMAIN graph
        PROVE  ToSet(graph[r].permissions) \subseteq ToSet(listed)
    <3>1. r \in RolesSeen(w) \cap DOMAIN graph
      BY <2>8 DEF RoleGraph
    <3> QED
      BY <1>8, <2>1, <3>1 DEF Whole
  <2> QED
    BY <2>9 DEF Granted
<1>13. ASSUME NEW p \in ToSet(listed) PROVE CheckRbac(graph, userRoles, p[1], p[2])
  <2>1. PICK i \in DOMAIN listed : p = listed[i]
    BY DEF ToSet
  <2> QED
    BY <2>1 DEF CheckRbac
<1> QED
  BY <1>10, <1>11, <1>12, <1>13 DEF RolesCollected

(***************************************************************************)
(* The automaton of the word filter.  A node of the trie is the path that  *)
(* leads to it; what the automaton does is told by the ends of a path.     *)
(***************************************************************************)

\* What is left of a path without its first k letters.
EndOf(s, k) == SubSeq(s, k + 1, Len(s))

\* The ends of a path are paths; an end of an end is an end, and what is put
\* behind a path is put behind its ends.
LEMMA EndOfFacts ==
  ASSUME NEW X, NEW s \in Seq(X), NEW k \in 0..Len(s)
  PROVE  /\ EndOf(s, k) \in Seq(X)
         /\ Len(EndOf(s, k)) = Len(s) - k
         /\ \A i \in 1..(Len(s) - k) : EndOf(s, k)[i] = s[k + i]
<1>1. Len(s) \in Nat
  BY LenProperties
<1>2. k + 1 \in Nat /\ 1 <= k + 1 /\ k + 1 <= Len(s) + 1
  BY <1>1
<1>3. /\ SubSeq(s, k + 1, Len(s)) \in Seq(X)
      /\ Len(SubSeq(s, k + 1, Len(s))) = Len(s) - (k + 1) + 1
      /\ \A i \in 1..(Len(s) - (k + 1) + 1) : SubSeq(s, k + 1, Len(s))[i] = s[(k + 1) + i - 1]
  BY ONLY <1>1, <1>2, s \in Seq(X), Piece
<1> QED
  BY <1>1, <1>3 DEF EndOf

\* The whole path and the empty one are ends; an end of an end is an end.
LEMMA EndsOfEnds ==
  ASSUME NEW X, NEW s \in Seq(X)
  PROVE  /\ EndOf(s, 0) = s
         /\ EndOf(s, Len(s)) = <<>>
         /\ \A k \in 0..Len(s) : \A j \in 0..(Len(s) - k) :
              EndOf(EndOf(s, k), j) = EndOf(s, k + j)
<1>1. Len(s) \in Nat /\ 0 \in 0..Len(s) /\ Len(s) \in 0..Len(s)
  BY LenProperties
<1>2. EndOf(s, 0) = s
  <2>1. /\ EndOf(s, 0) \in Seq(X)
        /\ Len(EndOf(s, 0)) = Len(s)
        /\ \A i \in 1..Len(s) : EndOf(s, 0)[i] = s[i]
    <3>1. /\ EndOf(s, 0) \in Seq(X)
          /\ Len(EndOf(s, 0)) = Len(s) - 0
          /\ \A i \in 1..(Len(s) - 0) : EndOf(s, 0)[i] = s[0 + i]
      BY ONLY <1>1, s \in Seq(X), EndOfFacts
    <3> QED
      BY <1>1, <3>1
  <2> QED
    BY <2>1, SeqEqual
<1>3. EndOf(s, Len(s)) = <<>>
  <2>1. EndOf(s, Len(s)) \in Seq(X) /\ Len(EndOf(s, Len(s))) = 0
    BY <1>1, EndOfFacts
  <2> QED
    BY <2>1, EmptySeq
<1>4. ASSUME NEW k \in 0..Len(s), NEW j \in 0..(Len(s) - k)
      PROVE  EndOf(EndOf(s, k), j) = EndOf(s, k + j)
  <2> DEFINE t == EndOf(s, k)
  <2>1. /\ t \in Seq(X)
        /\ Len(t) = Len(s) - k
        /\ \A i \in 1..(Len(s) - k) : t[i] = s[k + i]
    BY EndOfFacts
  <2> HIDE DEF t
  <2>2. j \in 0..Len(t) /\ k + j \in 0..Len(s)
    BY <1>1, <2>1
  <2>3. /\ EndOf(t, j) \in Seq(X)
        /\ Len(EndOf(t, j)) = Len(t) - j
        /\ \A i \in 1..(Len(t) - j) : EndOf(t, j)[i] = t[j + i]
    <3>1. t \in Seq(X)
      BY <2>1
    <3>2. j \in 0..Len(t)
      BY <2>2
    <3> QED
      BY ONLY <3>1, <3>2, EndOfFacts
  <2>4. /\ EndOf(s, k + j) \in Seq(X)
        /\ Len(EndOf(s, k + j)) = Len(s) - (k + j)
        /\ \A i \in 1..(Len(s) - (k + j)) : EndOf(s, k + j)[i] = s[(k + j) + i]
    <3>1. k + j \in 0..Len(s)
      BY <2>2
    <3> QED
      BY ONLY <3>1, s \in Seq(X), EndOfFacts
  <2>5. Len(EndOf(t, j)) = Len(EndOf(s, k + j))
    <3>1. Len(EndOf(t, j)) = Len(t) - j /\ Len(EndOf(s, k + j)) = Len(s) - (k + j)
      BY <2>3, <2>4
    <3>2. Len(t) = Len(s) - k
      BY <2>1
    <3>3. Len(s) - (k + j) = (Len(s) - k) - j
      BY <1>1
    <3> QED
      BY ONLY <3>1, <3>2, <3>3
  <2>6. ASSUME NEW i \in 1..Len(EndOf(t, j)) PROVE EndOf(t, j)[i] = EndOf(s, k + j)[i]
    <3>1. i \in 1..(Len(t) - j) /\ i \in 1..(Len(s) - (k + j)) /\ j + i \in 1..(Len(s) - k)
      BY <1>1, <2>1, <2>3
    <3>2. EndOf(t, j)[i] = t[j + i] /\ t[j + i] = s[k + (j + i)]
      BY <2>1, <2>3, <3>1
    <3>3. EndOf(s, k + j)[i] = s[(k + j) + i]
      BY <2>4, <3>1
    <3> QED
      BY <1>1, <3>1, <3>2, <3>3
  <2>7. EndOf(t, j) = EndOf(s, k + j)
    BY <2>3, <2>4, <2>5, <2>6, SeqEqual
  <2> QED
    BY <2>7 DEF t
<1> QED
  BY <1>2, <1>3, <1>4

\* What is put behind a path is put behind its ends.
LEMMA EndsOfLonger ==
  ASSUME NEW X, NEW s \in Seq(X), NEW ch \in X
  PROVE  /\ Append(s, ch) \in Seq(X)
         /\ Len(Append(s, ch)) = Len(s) + 1
         /\ EndOf(Append(s, ch), Len(s) + 1) = <<>>
         /\ \A k \in 0..Len(s) : EndOf(Append(s, ch), k) = Append(EndOf(s, k), ch)
<1>1. Len(s) \in Nat
  BY LenProperties
<1>2. /\ Append(s, ch) \in Seq(X)
      /\ Len(Append(s, ch)) = Len(s) + 1
      /\ \A i \in 1..Len(s) : Append(s, ch)[i] = s[i]
      /\ Append(s, ch)[Len(s) + 1] = ch
  BY AppendProperties
<1>3. EndOf(Append(s, ch), Len(s) + 1) = <<>>
  BY <1>2, EndsOfEnds
<1>4. ASSUME NEW k \in 0..Len(s) PROVE EndOf(Append(s, ch), k) = Append(EndOf(s, k), ch)
  <2> DEFINE t == Append(s, ch)
             u == EndOf(s, k)
  <2>1. /\ u \in Seq(X)
        /\ Len(u) = Len(s) - k
        /\ \A i \in 1..(Len(s) - k) : u[i] = s[k + i]
    BY EndOfFacts
  <2>2. /\ t \in Seq(X)
        /\ Len(t) = Len(s) + 1
        /\ \A i \in 1..Len(s) : t[i] = s[i]
        /\ t[Len(s) + 1] = ch
    BY <1>2
  <2> HIDE DEF t, u
  <2>3. /\ Append(u, ch) \in Seq(X)
        /\ Len(Append(u, ch)) = Len(u) + 1
        /\ \A i \in 1..Len(u) : Append(u, ch)[i] = u[i]
        /\ Append(u, ch)[Len(u) + 1] = ch
    BY <2>1, AppendProperties
  <2>4. k \in 0..Len(t)
    BY <1>1, <2>2
  <2>5. /\ EndOf(t, k) \in Seq(X)
        /\ Len(EndOf(t, k)) = Len(t) - k
        /\ \A i \in 1..(Len(t) - k) : EndOf(t, k)[i] = t[k + i]
    BY <2>2, <2>4, EndOfFacts
  <2>6. Len(EndOf(t, k)) = Len(Append(u, ch))
    BY <1>1, <2>1, <2>2, <2>3, <2>5
  <2>7. ASSUME NEW i \in 1..Len(EndOf(t, k)) PROVE EndOf(t, k)[i] = Append(u, ch)[i]
    <3>1. EndOf(t, k)[i] = t[k + i]
      BY <2>5
    <3>2. CASE i <= Len(u)
      <4>1. i \in 1..Len(u) /\ k + i \in 1..Len(s) /\ i \in 1..(Len(s) - k)
        BY <1>1, <2>1, <3>2
      <4> QED
        BY <2>1, <2>2, <2>3, <3>1, <4>1
    <3>3. CASE ~(i <= Len(u))
      <4>1. i = Len(u) + 1 /\ k + i = Len(s) + 1
        BY <1>1, <2>1, <2>2, <2>5, <3>3
      <4> QED
        BY <2>2, <2>3, <3>1, <4>1
    <3> QED
      BY <3>2, <3>3
  <2>8. EndOf(t, k) = Append(u, ch)
    BY <2>3, <2>5, <2>6, <2>7, SeqEqual
  <2> QED
    BY <2>8 DEF t, u
<1> QED
  BY <1>2, <1>3, <1>4

\* A trie over an alphabet: with a path there are the paths it goes on from.
IsTrie(nodes, X) ==
  /\ <<>> \in nodes
  /\ nodes \subseteq Seq(X)
  /\ \A s \in Seq(X), ch \in X : Append(s, ch) \in nodes => s \in nodes

\* t is the longest end of s, of those that leave out so many letters at least,
\* that is a node.
Longest(nodes, s, from, t) ==
  \E k \in from..Len(s) :
    /\ t = EndOf(s, k)
    /\ t \in nodes
    /\ \A j \in from..(k - 1) : EndOf(s, j) \notin nodes

\* There is one longest end.
LEMMA LongestIs ==
  ASSUME NEW X, NEW nodes, <<>> \in nodes, NEW s \in Seq(X), NEW from \in 0..Len(s)
  PROVE  /\ \E t : Longest(nodes, s, from, t)
         /\ \A t, u : Longest(nodes, s, from, t) /\ Longest(nodes, s, from, u) => t = u
<1>1. Len(s) \in Nat
  BY LenProperties
<1>2. \E t : Longest(nodes, s, from, t)
  <2> DEFINE K == {k \in from..Len(s) : EndOf(s, k) \in nodes}
  <2>1. Len(s) \in K
    <3>1. EndOf(s, Len(s)) = <<>>
      BY EndsOfEnds
    <3>2. Len(s) \in from..Len(s)
      BY <1>1
    <3> QED
      BY <3>1, <3>2
  <2>2. K \in SUBSET Nat /\ K # {}
    BY <1>1, <2>1
  <2>3. PICK k : k = Min(K)
    OBVIOUS
  <2>4. k \in K /\ \A i \in K : k <= i
    <3> HIDE DEF K
    <3> QED
      BY <2>2, <2>3, SmallestNumber
  <2>5. k \in from..Len(s) /\ EndOf(s, k) \in nodes
    BY <2>4
  <2>6. ASSUME NEW j \in from..(k - 1) PROVE EndOf(s, j) \notin nodes
    <3>1. j \in from..Len(s) /\ ~(k <= j)
      BY <1>1, <2>5
    <3> QED
      BY <2>4, <3>1
  <2>7. Longest(nodes, s, from, EndOf(s, k))
    BY ONLY <2>5, <2>6 DEF Longest
  <2> QED
    BY <2>7
<1>3. ASSUME NEW t, NEW u, Longest(nodes, s, from, t), Longest(nodes, s, from, u)
      PROVE  t = u
  <2>1. PICK k \in from..Len(s) : /\ t = EndOf(s, k)
                                  /\ t \in nodes
                                  /\ \A j \in from..(k - 1) : EndOf(s, j) \notin nodes
    BY <1>3 DEF Longest
  <2>2. PICK i \in from..Len(s) : /\ u = EndOf(s, i)
                                  /\ u \in nodes
                                  /\ \A j \in from..(i - 1) : EndOf(s, j) \notin nodes
    BY <1>3 DEF Longest
  <2>3. ~(k < i)
    <3>1. k < i => k \in from..(i - 1)
      BY <1>1
    <3> QED
      BY <2>1, <2>2, <3>1
  <2>4. ~(i < k)
    <3>1. i < k => i \in from..(k - 1)
      BY <1>1
    <3> QED
      BY <2>1, <2>2, <3>1
  <2>5. k = i
    BY <1>1, <2>3, <2>4
  <2> QED
    BY <2>1, <2>2, <2>5
<1> QED
  BY <1>2, <1>3

\* The longest end of a path that has become longer is found behind the longest
\* end it had: nothing that was left out before can be needed.
LEMMA LongestAfter ==
  ASSUME NEW X, NEW nodes, IsTrie(nodes, X), NEW s \in Seq(X), NEW from \in 0..Len(s),
         NEW ch \in X, NEW u, NEW t,
         Longest(nodes, s, from, u), Longest(nodes, Append(u, ch), 0, t)
  PROVE  Longest(nodes, Append(s, ch), from, t)
<1>1. Len(s) \in Nat
  BY LenProperties
<1>2. PICK k \in from..Len(s) : /\ u = EndOf(s, k)
                                /\ u \in nodes
                                /\ \A j \in from..(k - 1) : EndOf(s, j) \notin nodes
  BY DEF Longest
<1>3. PICK j \in 0..Len(Append(u, ch)) :
        /\ t = EndOf(Append(u, ch), j)
        /\ t \in nodes
        /\ \A i \in 0..(j - 1) : EndOf(Append(u, ch), i) \notin nodes
  BY DEF Longest
<1>4. k \in 0..Len(s) /\ from \in Nat /\ k \in Nat
  BY <1>1
<1>5. u \in Seq(X) /\ Len(u) = Len(s) - k
  BY <1>2, <1>4, EndOfFacts
<1> DEFINE sc == Append(s, ch)
           uc == Append(u, ch)
<1>6. /\ sc \in Seq(X)
      /\ Len(sc) = Len(s) + 1
      /\ \A i \in 0..Len(s) : EndOf(sc, i) = Append(EndOf(s, i), ch)
  BY EndsOfLonger
<1>7. uc = EndOf(sc, k)
  BY <1>2, <1>4, <1>6
<1>8. uc \in Seq(X) /\ Len(uc) = Len(u) + 1
  BY <1>5, EndsOfLonger
<1>9. \A i \in 0..Len(uc) : EndOf(uc, i) = EndOf(sc, k + i)
  <2> HIDE DEF sc, uc
  <2>1. k \in 0..Len(sc) /\ Len(uc) = Len(sc) - k
    BY <1>1, <1>4, <1>5, <1>6, <1>8
  <2>2. \A m \in 0..Len(sc) : \A i \in 0..(Len(sc) - m) : EndOf(EndOf(sc, m), i) = EndOf(sc, m + i)
    BY <1>6, EndsOfEnds
  <2> QED
    BY <1>7, <2>1, <2>2
<1>10. k + j \in from..Len(sc) /\ j \in 0..Len(uc)
  <2>1. j \in 0..Len(uc)
    BY <1>3
  <2> HIDE DEF sc, uc
  <2> QED
    BY <1>1, <1>4, <1>5, <1>6, <1>8, <2>1
<1>11. t = EndOf(sc, k + j) /\ t \in nodes
  BY <1>3, <1>9, <1>10
<1>12. ASSUME NEW i \in from..((k + j) - 1) PROVE EndOf(sc, i) \notin nodes
  <2>1. CASE i < k
    <3>1. i \in from..(k - 1) /\ i \in 0..Len(s)
      BY <1>1, <1>4, <2>1
    <3>2. EndOf(s, i) \notin nodes /\ EndOf(s, i) \in Seq(X)
      BY <1>2, <3>1, EndOfFacts
    <3>3. EndOf(sc, i) = Append(EndOf(s, i), ch)
      BY <1>6, <3>1
    <3> QED
      BY ONLY <3>2, <3>3, ch \in X, IsTrie(nodes, X) DEF IsTrie
  <2>2. CASE ~(i < k)
    <3>1. i - k \in 0..(j - 1) /\ i - k \in 0..Len(uc) /\ k + (i - k) = i
      <4> HIDE DEF sc, uc
      <4> QED
        BY <1>1, <1>4, <1>8, <1>10, <2>2
    <3>2. EndOf(uc, i - k) \notin nodes
      BY <1>3, <3>1
    <3> QED
      BY <1>9, <3>1, <3>2
  <2> QED
    BY <2>1, <2>2
<1>13. Longest(nodes, sc, from, t)
  <2> HIDE DEF sc, uc
  <2> QED
    BY ONLY <1>10, <1>11, <1>12 DEF Longest
<1> QED
  BY <1>13

\* A node is an end of a path exactly if it is one of the longest.
LEMMA EndsOfLongest ==
  ASSUME NEW X, NEW nodes, NEW s \in Seq(X), NEW from \in 0..Len(s),
         NEW u, Longest(nodes, s, from, u), NEW w \in nodes
  PROVE  (\E i \in from..Len(s) : w = EndOf(s, i)) <=> (\E j \in 0..Len(u) : w = EndOf(u, j))
<1>1. Len(s) \in Nat
  BY LenProperties
<1>2. PICK k \in from..Len(s) : /\ u = EndOf(s, k)
                                /\ u \in nodes
                                /\ \A j \in from..(k - 1) : EndOf(s, j) \notin nodes
  BY DEF Longest
<1>3. k \in 0..Len(s) /\ from \in Nat /\ k \in Nat
  BY <1>1
<1>4. Len(u) = Len(s) - k
  BY <1>2, <1>3, EndOfFacts
<1>5. \A j \in 0..(Len(s) - k) : EndOf(u, j) = EndOf(s, k + j)
  BY <1>2, <1>3, EndsOfEnds
<1>6. ASSUME NEW i \in from..Len(s), w = EndOf(s, i)
      PROVE  \E j \in 0..Len(u) : w = EndOf(u, j)
  <2>1. ~(i < k)
    <3>1. i < k => i \in from..(k - 1)
      BY <1>1
    <3> QED
      BY <1>2, <1>6, <3>1
  <2>2. i - k \in 0..(Len(s) - k) /\ k + (i - k) = i
    BY <1>1, <1>3, <2>1
  <2>3. w = EndOf(u, i - k)
    BY <1>5, <1>6, <2>2
  <2> QED
    BY <1>4, <2>2, <2>3
<1>7. ASSUME NEW j \in 0..Len(u), w = EndOf(u, j)
      PROVE  \E i \in from..Len(s) : w = EndOf(s, i)
  <2>1. k + j \in from..Len(s)
    BY <1>1, <1>3, <1>4
  <2>2. w = EndOf(s, k + j)
    BY <1>4, <1>5, <1>7
  <2> QED
    BY <2>1, <2>2
<1> QED
  BY <1>6, <1>7

\* g goes, from a node and for a letter, along the links until it finds a child.
Follows(g, D, nodes, ch, fail) ==
  g = [n \in D |-> IF Append(n, ch) \in nodes THEN Append(n, ch)
                   ELSE IF n = <<>> THEN <<>>
                   ELSE g[fail[n]]]

\* The links of the nodes of a set lead to their longest ends, inside the set.
LinksOn(fail, D, nodes) ==
  /\ <<>> \in D
  /\ D \subseteq nodes
  /\ \A n \in D : n # <<>> => fail[n] \in D /\ Longest(nodes, n, 1, fail[n])

\* Where one step along a link, or none, leads.
LEMMA OneLink ==
  ASSUME NEW X, NEW nodes, IsTrie(nodes, X), NEW n \in nodes, NEW ch \in X
  PROVE  /\ Append(n, ch) \in nodes => Longest(nodes, Append(n, ch), 0, Append(n, ch))
         /\ Append(n, ch) \notin nodes /\ n = <<>> => Longest(nodes, Append(n, ch), 0, <<>>)
         /\ Append(n, ch) \notin nodes /\ n # <<>> =>
              \A u, t : Longest(nodes, n, 1, u) /\ Longest(nodes, Append(u, ch), 0, t) =>
                          Longest(nodes, Append(n, ch), 0, t)
<1>1. n \in Seq(X) /\ <<>> \in nodes
  BY DEF IsTrie
<1>2. Len(n) \in Nat
  BY <1>1, LenProperties
<1> DEFINE s == Append(n, ch)
<1>3. s \in Seq(X) /\ Len(s) = Len(n) + 1 /\ EndOf(s, Len(n) + 1) = <<>>
  BY <1>1, EndsOfLonger
<1> HIDE DEF s
<1>4. EndOf(s, 0) = s
  BY <1>3, EndsOfEnds
<1>5. s \in nodes => Longest(nodes, s, 0, s)
  <2>1. 0 \in 0..Len(s) /\ 0..(0 - 1) = {}
    BY <1>2, <1>3
  <2> QED
    BY <1>4, <2>1 DEF Longest
<1>6. s \notin nodes /\ n = <<>> => Longest(nodes, s, 0, <<>>)
  <2> SUFFICES ASSUME s \notin nodes, n = <<>> PROVE Longest(nodes, s, 0, <<>>)
    OBVIOUS
  <2>1. Len(n) = 0
    BY EmptySeq
  <2>2. 1 \in 0..Len(s) /\ EndOf(s, 1) = <<>>
    BY <1>2, <1>3, <2>1
  <2>3. \A j \in 0..(1 - 1) : EndOf(s, j) \notin nodes
    BY <1>4
  <2> QED
    BY ONLY <1>1, <2>2, <2>3 DEF Longest
<1>7. ASSUME s \notin nodes, n # <<>>, NEW u, NEW t,
             Longest(nodes, n, 1, u), Longest(nodes, Append(u, ch), 0, t)
      PROVE  Longest(nodes, s, 0, t)
  <2>1. Len(n) # 0
    BY <1>1, <1>7, EmptySeq
  <2>2. 1 \in 0..Len(n)
    BY <1>2, <2>1
  <2>3. Longest(nodes, s, 1, t)
    BY <1>1, <1>7, <2>2, LongestAfter DEF s
  <2>4. PICK k \in 1..Len(s) : /\ t = EndOf(s, k)
                               /\ t \in nodes
                               /\ \A j \in 1..(k - 1) : EndOf(s, j) \notin nodes
    BY <2>3 DEF Longest
  <2>5. k \in 0..Len(s)
    OBVIOUS
  <2>6. ASSUME NEW j \in 0..(k - 1) PROVE EndOf(s, j) \notin nodes
    <3>1. CASE j = 0
      BY <1>4, <1>7, <3>1
    <3>2. CASE j # 0
      <4>1. j \in 1..(k - 1)
        BY <3>2
      <4> QED
        BY <2>4, <4>1
    <3> QED
      BY <3>1, <3>2
  <2> QED
    BY <2>4, <2>5, <2>6 DEF Longest
<1> QED
  BY <1>5, <1>6, <1>7 DEF s

\* Who follows such links, from a node and for a letter, comes to the longest end
\* of what has been read that is a node; and there is one who does.
LEMMA LinksLead ==
  ASSUME NEW X, NEW nodes, IsTrie(nodes, X), NEW D, NEW fail, LinksOn(fail, D, nodes),
         NEW ch \in X
  PROVE  /\ \E g : Follows(g, D, nodes, ch, fail)
         /\ \A g : Follows(g, D, nodes, ch, fail) =>
              \A n \in D : Longest(nodes, Append(n, ch), 0, g[n])
<1>1. /\ <<>> \in nodes
      /\ <<>> \in D
      /\ \A n \in D : n \in nodes /\ n \in Seq(X) /\ Len(n) \in Nat
      /\ \A n \in D : n # <<>> => fail[n] \in D /\ Longest(nodes, n, 1, fail[n])
  BY LenProperties DEF IsTrie, LinksOn
<1> DEFINE Goal(n) == CHOOSE t : Longest(nodes, Append(n, ch), 0, t)
<1>2. ASSUME NEW n \in D
      PROVE  /\ Longest(nodes, Append(n, ch), 0, Goal(n))
             /\ \A t : Longest(nodes, Append(n, ch), 0, t) => t = Goal(n)
  <2>1. Append(n, ch) \in Seq(X) /\ 0 \in 0..Len(Append(n, ch))
    BY <1>1, EndsOfLonger
  <2>2. /\ \E t : Longest(nodes, Append(n, ch), 0, t)
        /\ \A t, u : Longest(nodes, Append(n, ch), 0, t) /\ Longest(nodes, Append(n, ch), 0, u) => t = u
    BY ONLY <1>1, <2>1, LongestIs
  <2> QED
    BY ONLY <2>2
<1>3. \E g : Follows(g, D, nodes, ch, fail)
  <2> DEFINE g == [n \in D |-> Goal(n)]
             h == [n \in D |-> IF Append(n, ch) \in nodes THEN Append(n, ch)
                               ELSE IF n = <<>> THEN <<>>
                               ELSE g[fail[n]]]
  <2> HIDE DEF Goal
  <2>1. ASSUME NEW n \in D PROVE g[n] = h[n]
    <3>1. n \in nodes
      BY <1>1
    <3>2. /\ Append(n, ch) \in nodes => Longest(nodes, Append(n, ch), 0, Append(n, ch))
          /\ Append(n, ch) \notin nodes /\ n = <<>> => Longest(nodes, Append(n, ch), 0, <<>>)
          /\ Append(n, ch) \notin nodes /\ n # <<>> =>
               \A u, t : Longest(nodes, n, 1, u) /\ Longest(nodes, Append(u, ch), 0, t) =>
                           Longest(nodes, Append(n, ch), 0, t)
      BY ONLY <3>1, IsTrie(nodes, X), ch \in X, OneLink
    <3>3. CASE Append(n, ch) \in nodes
      BY <1>2, <3>2, <3>3
    <3>4. CASE Append(n, ch) \notin nodes /\ n = <<>>
      BY <1>2, <3>2, <3>4
    <3>5. CASE Append(n, ch) \notin nodes /\ n # <<>>
      <4>1. fail[n] \in D /\ Longest(nodes, n, 1, fail[n])
        BY <1>1, <3>5
      <4>2. Longest(nodes, Append(fail[n], ch), 0, Goal(fail[n]))
        BY <1>2, <4>1
      <4>3. Longest(nodes, Append(n, ch), 0, Goal(fail[n]))
        BY <3>2, <3>5, <4>1, <4>2
      <4>4. Goal(fail[n]) = Goal(n)
        BY <1>2, <4>3
      <4> QED
        BY <3>5, <4>1, <4>4
    <3> QED
      BY <3>3, <3>4, <3>5
  <2>2. g = h
    BY <2>1
  <2>3. Follows(g, D, nodes, ch, fail)
    BY <2>2 DEF Follows
  <2> QED
    BY <2>3
<1>4. ASSUME NEW g, Follows(g, D, nodes, ch, fail)
      PROVE  \A n \in D : Longest(nodes, Append(n, ch), 0, g[n])
  <2> DEFINE S == {k \in Nat : \A n \in D : Len(n) < k => Longest(nodes, Append(n, ch), 0, g[n])}
  <2>1. 0 \in S
    BY <1>1
  <2>2. ASSUME NEW k \in Nat, k \in S PROVE k + 1 \in S
    <3> SUFFICES ASSUME NEW n \in D, Len(n) < k + 1
                 PROVE  Longest(nodes, Append(n, ch), 0, g[n])
      BY k + 1 \in Nat
    <3>1. n \in nodes
      BY <1>1
    <3>2. /\ Append(n, ch) \in nodes => Longest(nodes, Append(n, ch), 0, Append(n, ch))
          /\ Append(n, ch) \notin nodes /\ n = <<>> => Longest(nodes, Append(n, ch), 0, <<>>)
          /\ Append(n, ch) \notin nodes /\ n # <<>> =>
               \A u, t : Longest(nodes, n, 1, u) /\ Longest(nodes, Append(u, ch), 0, t) =>
                           Longest(nodes, Append(n, ch), 0, t)
      BY ONLY <3>1, IsTrie(nodes, X), ch \in X, OneLink
    <3>3. g[n] = IF Append(n, ch) \in nodes THEN Append(n, ch)
                 ELSE IF n = <<>> THEN <<>>
                 ELSE g[fail[n]]
      BY ONLY <1>4, n \in D DEF Follows
    <3>4. CASE Append(n, ch) \in nodes
      BY <3>2, <3>3, <3>4
    <3>5. CASE Append(n, ch) \notin nodes /\ n = <<>>
      BY <3>2, <3>3, <3>5
    <3>6. CASE Append(n, ch) \notin nodes /\ n # <<>>
      <4>1. fail[n] \in D /\ Longest(nodes, n, 1, fail[n])
        BY <1>1, <3>6
      <4>2. Len(fail[n]) < k
        <5>1. PICK i \in 1..Len(n) : fail[n] = EndOf(n, i)
          BY <4>1 DEF Longest
        <5>2. n \in Seq(X) /\ Len(n) \in Nat
          BY <1>1
        <5>3. i \in 0..Len(n)
          BY <5>2
        <5>4. Len(fail[n]) = Len(n) - i
          BY <5>1, <5>2, <5>3, EndOfFacts
        <5> QED
          BY <5>2, <5>4
      <4>3. Longest(nodes, Append(fail[n], ch), 0, g[fail[n]])
        BY <2>2, <4>1, <4>2
      <4>4. Longest(nodes, Append(n, ch), 0, g[fail[n]])
        BY <3>2, <3>6, <4>1, <4>3
      <4> QED
        BY <3>3, <3>6, <4>4
    <3> QED
      BY <3>4, <3>5, <3>6
  <2>3. Nat \subseteq S
    <3> HIDE DEF S
    <3> QED
      BY <2>1, <2>2, Induction
  <2>4. ASSUME NEW n \in D PROVE Longest(nodes, Append(n, ch), 0, g[n])
    <3>1. Len(n) + 1 \in Nat /\ Len(n) < Len(n) + 1
      BY <1>1
    <3> QED
      BY <2>3, <3>1
  <2> QED
    BY <2>4
<1> QED
  BY <1>3, <1>4

\* What is a longest end is a shorter node.
LEMMA LinksShorten ==
  ASSUME NEW X, NEW nodes, IsTrie(nodes, X), NEW D \in SUBSET nodes, <<>> \in D, NEW fail,
         \A n \in D : \A m \in nodes : Len(m) < Len(n) => m \in D,
         \A n \in D : n # <<>> => Longest(nodes, n, 1, fail[n])
  PROVE  LinksOn(fail, D, nodes)
<1>1. ASSUME NEW n \in D, n # <<>> PROVE fail[n] \in D
  <2>1. PICK i \in 1..Len(n) : fail[n] = EndOf(n, i) /\ fail[n] \in nodes
    BY <1>1 DEF Longest
  <2>2. n \in Seq(X) /\ Len(n) \in Nat
    BY LenProperties DEF IsTrie
  <2>3. i \in 0..Len(n)
    BY <2>2
  <2>4. Len(fail[n]) = Len(n) - i
    BY <2>1, <2>2, <2>3, EndOfFacts
  <2>5. Len(fail[n]) < Len(n)
    BY <2>2, <2>4
  <2> QED
    BY <2>1, <2>5
<1> QED
  BY <1>1 DEF LinksOn

\* A path that is not empty is its front with its last letter.
LEMMA FrontAndLast ==
  ASSUME NEW X, NEW s \in Seq(X), s # <<>>
  PROVE  /\ Front(s) \in Seq(X)
         /\ Last(s) \in X
         /\ s = Append(Front(s), Last(s))
         /\ Len(Front(s)) = Len(s) - 1
         /\ Len(s) \in Nat /\ Len(s) >= 1
<1>1. Len(s) \in Nat /\ Len(s) >= 1
  BY EmptySeq, LenProperties
<1>2. PICK k \in Nat : k = Len(s) - 1
  BY <1>1
<1>3. /\ SubSeq(s, 1, k) \in Seq(X)
      /\ Len(SubSeq(s, 1, k)) = k - 1 + 1
      /\ \A i \in 1..(k - 1 + 1) : SubSeq(s, 1, k)[i] = s[1 + i - 1]
  <2>1. 1 \in Nat
    OBVIOUS
  <2>2. 1 <= 1
    OBVIOUS
  <2>3. 1 <= k + 1
    BY <1>2
  <2>4. k <= Len(s)
    BY <1>1, <1>2
  <2> QED
    BY ONLY <2>1, <2>2, <2>3, <2>4, k \in Nat, s \in Seq(X), Piece
<1>4. /\ Front(s) \in Seq(X)
      /\ Len(Front(s)) = Len(s) - 1
      /\ \A i \in 1..(Len(s) - 1) : Front(s)[i] = s[i]
  BY <1>1, <1>2, <1>3 DEF Front
<1>5. Last(s) = s[Len(s)] /\ Len(s) \in 1..Len(s)
  BY <1>1 DEF Last
<1>6. Last(s) \in X
  BY <1>5, ElementOfSeq
<1>7. /\ Append(Front(s), Last(s)) \in Seq(X)
      /\ Len(Append(Front(s), Last(s))) = Len(Front(s)) + 1
      /\ \A i \in 1..Len(Front(s)) : Append(Front(s), Last(s))[i] = Front(s)[i]
      /\ Append(Front(s), Last(s))[Len(Front(s)) + 1] = Last(s)
  BY ONLY <1>4, <1>6, AppendProperties
<1>8. s = Append(Front(s), Last(s))
  <2>1. Len(s) = Len(Append(Front(s), Last(s)))
    BY <1>1, <1>4, <1>7
  <2>2. \A i \in 1..Len(s) : s[i] = Append(Front(s), Last(s))[i]
    <3> SUFFICES ASSUME NEW i \in 1..Len(s) PROVE s[i] = Append(Front(s), Last(s))[i]
      OBVIOUS
    <3>1. CASE i = Len(s)
      <4>1. i = Len(Front(s)) + 1
        BY <1>1, <1>4, <3>1
      <4> QED
        BY <1>5, <1>7, <3>1, <4>1
    <3>2. CASE i # Len(s)
      <4>1. i \in 1..(Len(s) - 1) /\ i \in 1..Len(Front(s))
        BY <1>1, <1>4, <3>2
      <4> QED
        BY <1>4, <1>7, <4>1
    <3> QED
      BY <3>1, <3>2
  <2> QED
    BY <1>7, <2>1, <2>2, SeqEqual
<1> QED
  BY <1>1, <1>4, <1>6, <1>8

\* The link of a node, computed from those of the shorter nodes: it leads to the
\* longest end that is a node and shorter than the path.
LEMMA LinkComputed ==
  ASSUME NEW X, NEW nodes, IsTrie(nodes, X), NEW node \in nodes, Len(node) > 1, NEW f,
         LinksOn(f, {m \in nodes : Len(m) < Len(node)}, nodes),
         NEW down,
         down = CHOOSE d : Follows(d, {m \in nodes : Len(m) < Len(node)}, nodes, Last(node), f)
  PROVE  Longest(nodes, node, 1, down[f[Front(node)]])
<1> DEFINE D == {m \in nodes : Len(m) < Len(node)}
           m == Front(node)
           ch == Last(node)
<1>1. node \in Seq(X) /\ node # <<>>
  BY EmptySeq DEF IsTrie
<1>2. /\ m \in Seq(X) /\ ch \in X /\ node = Append(m, ch)
      /\ Len(m) = Len(node) - 1 /\ Len(node) \in Nat
  BY <1>1, FrontAndLast
<1>3. m \in nodes
  BY <1>2 DEF IsTrie
<1>4. m \in D /\ m # <<>>
  BY <1>2, <1>3, EmptySeq
<1>5. LinksOn(f, D, nodes) /\ down = CHOOSE d : Follows(d, D, nodes, ch, f)
  OBVIOUS
<1> HIDE DEF D, m, ch
<1>6. Follows(down, D, nodes, ch, f)
  <2>1. \E g : Follows(g, D, nodes, ch, f)
    BY ONLY <1>2, <1>5, IsTrie(nodes, X), LinksLead
  <2> QED
    BY <1>5, <2>1
<1>7. \A n \in D : Longest(nodes, Append(n, ch), 0, down[n])
  <2>1. \A g : Follows(g, D, nodes, ch, f) => \A n \in D : Longest(nodes, Append(n, ch), 0, g[n])
    BY ONLY <1>2, <1>5, IsTrie(nodes, X), LinksLead
  <2> QED
    BY <1>6, <2>1
<1>8. f[m] \in D /\ Longest(nodes, m, 1, f[m])
  BY <1>4, <1>5 DEF LinksOn
<1>9. Longest(nodes, Append(f[m], ch), 0, down[f[m]])
  BY <1>7, <1>8
<1>10. 1 \in 0..Len(m)
  <2>1. Len(m) \in Nat
    BY <1>2, LenProperties
  <2>2. Len(m) # 0
    BY <1>2, <1>4, EmptySeq
  <2> QED
    BY <2>1, <2>2
<1>11. Longest(nodes, Append(m, ch), 1, down[f[m]])
  BY ONLY <1>2, <1>8, <1>9, <1>10, IsTrie(nodes, X), LongestAfter
<1> QED
  BY <1>2, <1>11 DEF m

\* The links that are built lead every node to its longest end.
LEMMA LinksBuilt ==
  ASSUME NEW X, NEW nodes, IsTrie(nodes, X)
  PROVE  /\ DOMAIN FailLinks(nodes) = nodes
         /\ FailLinks(nodes)[<<>>] = <<>>
         /\ LinksOn(FailLinks(nodes), nodes, nodes)
<1> DEFINE Below(node) == {m \in nodes : Len(m) < Len(node)}
           Down(f, node) == CHOOSE d : Follows(d, Below(node), nodes, Last(node), f)
           Eq(f) == f = [node \in nodes |-> IF Len(node) <= 1 THEN <<>>
                                            ELSE Down(f, node)[f[Front(node)]]]
           fail == CHOOSE f : Eq(f)
<1>1. FailLinks(nodes) = fail
  BY DEF FailLinks, Follows
<1>2. /\ <<>> \in nodes /\ Len(<<>>) = 0
      /\ \A n \in nodes : n \in Seq(X) /\ Len(n) \in Nat /\ (Len(n) = 0 <=> n = <<>>)
  BY LenProperties, EmptySeq DEF IsTrie
<1>3. ASSUME NEW node \in nodes, Len(node) = 1 PROVE Longest(nodes, node, 1, <<>>)
  <2>1. EndOf(node, 1) = <<>>
    <3>1. node \in Seq(X)
      BY <1>2
    <3>2. EndOf(node, Len(node)) = <<>>
      BY <3>1, EndsOfEnds
    <3> QED
      BY <1>3, <3>2
  <2>2. 1 \in 1..Len(node) /\ 1..(1 - 1) = {}
    BY <1>3
  <2> QED
    BY ONLY <1>2, <2>1, <2>2 DEF Longest
<1>4. ASSUME NEW node \in nodes, Len(node) > 1, NEW f,
             \A n \in Below(node) : n # <<>> => Longest(nodes, n, 1, f[n])
      PROVE  Longest(nodes, node, 1, Down(f, node)[f[Front(node)]])
  <2>1. LinksOn(f, Below(node), nodes)
    <3>1. Below(node) \in SUBSET nodes
      OBVIOUS
    <3>2. <<>> \in Below(node)
      BY <1>2, <1>4
    <3>3. \A n \in Below(node) : \A m \in nodes : Len(m) < Len(n) => m \in Below(node)
      BY <1>2
    <3> HIDE DEF Below
    <3> QED
      BY ONLY <1>4, <3>1, <3>2, <3>3, IsTrie(nodes, X), LinksShorten
  <2>2. PICK down : down = Down(f, node)
    OBVIOUS
  <2>3. Longest(nodes, node, 1, down[f[Front(node)]])
    BY ONLY <1>4, <2>1, <2>2, IsTrie(nodes, X), node \in nodes, LinkComputed
  <2> QED
    BY <2>2, <2>3
<1>5. \E f : Eq(f)
  <2> DEFINE F == [node \in nodes |-> IF node = <<>> THEN <<>>
                                      ELSE CHOOSE t : Longest(nodes, node, 1, t)]
             G == [node \in nodes |-> IF Len(node) <= 1 THEN <<>>
                                      ELSE Down(F, node)[F[Front(node)]]]
  <2> HIDE DEF Below, Down
  <2>1. ASSUME NEW node \in nodes, node # <<>>
        PROVE  /\ Longest(nodes, node, 1, F[node])
               /\ \A t : Longest(nodes, node, 1, t) => t = F[node]
    <3>1. node \in Seq(X) /\ 1 \in 0..Len(node)
      BY <1>2, <2>1
    <3>2. /\ \E t : Longest(nodes, node, 1, t)
          /\ \A t, u : Longest(nodes, node, 1, t) /\ Longest(nodes, node, 1, u) => t = u
      BY ONLY <1>2, <3>1, LongestIs
    <3>3. F[node] = CHOOSE t : Longest(nodes, node, 1, t)
      BY <2>1
    <3> QED
      BY ONLY <3>2, <3>3
  <2>2. ASSUME NEW node \in nodes PROVE F[node] = G[node]
    <3>1. CASE Len(node) = 0
      <4>1. node = <<>> /\ Len(node) <= 1
        BY <1>2, <3>1
      <4> QED
        BY <4>1
    <3>2. CASE Len(node) = 1
      <4>1. node # <<>> /\ Len(node) <= 1
        BY ONLY <1>2, <3>2, node \in nodes
      <4>2. F[node] = <<>>
        BY <1>3, <2>1, <3>2, <4>1
      <4> QED
        BY <4>1, <4>2
    <3>3. CASE Len(node) > 1
      <4>1. node # <<>> /\ ~(Len(node) <= 1)
        BY <1>2, <3>3
      <4>2. \A n \in Below(node) : n \in nodes
        BY DEF Below
      <4>3. PICK f : f = F
        OBVIOUS
      <4>4. \A n \in Below(node) : n # <<>> => Longest(nodes, n, 1, f[n])
        BY <2>1, <4>2, <4>3
      <4>5. Longest(nodes, node, 1, Down(f, node)[f[Front(node)]])
        BY ONLY <1>4, <3>3, <4>4, node \in nodes
      <4>6. Down(F, node)[F[Front(node)]] = F[node]
        BY ONLY <2>1, <4>1, <4>3, <4>5, node \in nodes
      <4> QED
        BY <4>1, <4>6
    <3>4. Len(node) = 0 \/ Len(node) = 1 \/ Len(node) > 1
      <4>1. PICK k \in Nat : k = Len(node)
        BY <1>2
      <4>2. k = 0 \/ k = 1 \/ k > 1
        OBVIOUS
      <4> QED
        BY <4>1, <4>2
    <3> QED
      BY <3>1, <3>2, <3>3, <3>4
  <2>3. F = G
    BY <2>2
  <2> QED
    BY <2>3
<1>6. Eq(fail)
  <2> HIDE DEF Eq
  <2> QED
    BY <1>5
<1> HIDE DEF fail
<1>7. DOMAIN fail = nodes /\ fail[<<>>] = <<>>
  <2> HIDE DEF Down
  <2> QED
    BY <1>2, <1>6
<1>8. \A n \in nodes : fail[n] = IF Len(n) <= 1 THEN <<>> ELSE Down(fail, n)[fail[Front(n)]]
  <2> HIDE DEF Down
  <2> QED
    BY <1>6
<1> HIDE DEF Eq, Down, Below
<1> DEFINE S == {k \in Nat : \A n \in nodes : Len(n) < k /\ n # <<>> => Longest(nodes, n, 1, fail[n])}
<1>9. 0 \in S
  BY <1>2
<1>10. ASSUME NEW k \in Nat, k \in S PROVE k + 1 \in S
  <2> SUFFICES ASSUME NEW n \in nodes, Len(n) < k + 1, n # <<>>
               PROVE  Longest(nodes, n, 1, fail[n])
    BY k + 1 \in Nat
  <2>1. CASE Len(n) = 1
    <3>1. fail[n] = <<>>
      <4>1. Len(n) <= 1
        BY ONLY <2>1
      <4>2. fail[n] = IF Len(n) <= 1 THEN <<>> ELSE Down(fail, n)[fail[Front(n)]]
        BY <1>8
      <4> QED
        BY ONLY <4>1, <4>2
    <3> QED
      BY <1>3, <2>1, <3>1
  <2>2. CASE Len(n) > 1
    <3>1. \A m \in Below(n) : m \in nodes /\ Len(m) < Len(n)
      BY DEF Below
    <3>2. \A m \in Below(n) : m # <<>> => Longest(nodes, m, 1, fail[m])
      BY <1>2, <1>10, <3>1
    <3>3. Longest(nodes, n, 1, Down(fail, n)[fail[Front(n)]])
      BY ONLY <1>4, <2>2, <3>2, n \in nodes
    <3>4. fail[n] = Down(fail, n)[fail[Front(n)]]
      BY <1>2, <1>8, <2>2
    <3> QED
      BY <3>3, <3>4
  <2>3. Len(n) = 1 \/ Len(n) > 1
    <3>1. PICK i \in Nat : i = Len(n)
      BY <1>2
    <3>2. Len(n) # 0
      BY <1>2
    <3>3. i = 0 \/ i = 1 \/ i > 1
      OBVIOUS
    <3> QED
      BY <3>1, <3>2, <3>3
  <2> QED
    BY <2>1, <2>2, <2>3
<1>11. Nat \subseteq S
  <2> HIDE DEF S
  <2> QED
    BY <1>9, <1>10, Induction
<1>12. \A n \in nodes : n # <<>> => Longest(nodes, n, 1, fail[n])
  <2> SUFFICES ASSUME NEW n \in nodes, n # <<>> PROVE Longest(nodes, n, 1, fail[n])
    OBVIOUS
  <2>1. Len(n) + 1 \in Nat /\ Len(n) < Len(n) + 1
    BY <1>2
  <2> QED
    BY <1>11, <2>1
<1>13. LinksOn(fail, nodes, nodes)
  <2>1. nodes \in SUBSET nodes /\ \A n \in nodes : \A m \in nodes : Len(m) < Len(n) => m \in nodes
    OBVIOUS
  <2> QED
    BY ONLY <1>2, <1>12, <2>1, IsTrie(nodes, X), LinksShorten
<1> QED
  BY <1>1, <1>7, <1>13

\* The words a path ends with.
WordsAtEnd(words, n) == {w \in Built(words) : \E k \in 0..Len(n) : w = EndOf(n, k)}

\* A node ends with itself, if it is a word, and with what its link ends with.
LEMMA WordsAlongLink ==
  ASSUME NEW X, NEW nodes, IsTrie(nodes, X), NEW words, Built(words) \subseteq nodes,
         NEW n \in nodes, n # <<>>, NEW u, Longest(nodes, n, 1, u)
  PROVE  WordsAtEnd(words, n) = Own(words, n) \cup WordsAtEnd(words, u)
<1>1. n \in Seq(X)
  BY DEF IsTrie
<1>2. Len(n) \in Nat /\ Len(n) # 0
  BY <1>1, LenProperties, EmptySeq
<1>3. 1 \in 0..Len(n) /\ 0 \in 0..Len(n)
  BY <1>2
<1>4. EndOf(n, 0) = n
  BY <1>1, EndsOfEnds
<1>5. ASSUME NEW w \in Built(words)
      PROVE  (\E k \in 0..Len(n) : w = EndOf(n, k)) <=>
               w = n \/ \E j \in 0..Len(u) : w = EndOf(u, j)
  <2>1. w \in nodes /\ 1 \in 0..Len(n)
    BY <1>3
  <2>2. (\E i \in 1..Len(n) : w = EndOf(n, i)) <=> (\E j \in 0..Len(u) : w = EndOf(u, j))
    BY ONLY <1>1, <2>1, Longest(nodes, n, 1, u), EndsOfLongest
  <2>3. ASSUME NEW k \in 0..Len(n), w = EndOf(n, k)
        PROVE  w = n \/ \E i \in 1..Len(n) : w = EndOf(n, i)
    <3>1. CASE k = 0
      BY <1>4, <2>3, <3>1
    <3>2. CASE k # 0
      <4>1. k \in 1..Len(n)
        BY <1>2, <3>2
      <4> QED
        BY <2>3, <4>1
    <3> QED
      BY <3>1, <3>2
  <2>4. ASSUME NEW i \in 1..Len(n), w = EndOf(n, i) PROVE \E k \in 0..Len(n) : w = EndOf(n, k)
    <3>1. i \in 0..Len(n)
      BY <1>2
    <3> QED
      BY <2>4, <3>1
  <2>5. w = n => \E k \in 0..Len(n) : w = EndOf(n, k)
    BY <1>3, <1>4
  <2> QED
    BY ONLY <2>2, <2>3, <2>4, <2>5
<1>6. WordsAtEnd(words, n) = {w \in Built(words) : w = n \/ \E j \in 0..Len(u) : w = EndOf(u, j)}
  BY <1>5 DEF WordsAtEnd
<1>7. Own(words, n) = {w \in Built(words) : w = n}
  BY DEF Own
<1> QED
  BY <1>6, <1>7 DEF WordsAtEnd

\* A node has the words that its path ends with as outputs.
LEMMA OutputsFound ==
  ASSUME NEW X, NEW nodes, IsTrie(nodes, X), NEW words, Built(words) \subseteq nodes,
         <<>> \notin Built(words), NEW fail, DOMAIN fail = nodes, LinksOn(fail, nodes, nodes)
  PROVE  \A n \in nodes : Outputs(words, fail)[n] = WordsAtEnd(words, n)
<1> DEFINE Eq(o) == o = [node \in DOMAIN fail |->
                           IF node = <<>> THEN {}
                           ELSE Own(words, node) \cup o[fail[node]]]
           outputs == CHOOSE o : Eq(o)
<1>1. Outputs(words, fail) = outputs
  BY DEF Outputs
<1>2. /\ <<>> \in nodes /\ Len(<<>>) = 0
      /\ \A n \in nodes : n \in Seq(X) /\ Len(n) \in Nat
  BY LenProperties, EmptySeq DEF IsTrie
<1>3. WordsAtEnd(words, <<>>) = {}
  <2> SUFFICES ASSUME NEW w \in Built(words), NEW k \in 0..Len(<<>>), w = EndOf(<<>>, k)
               PROVE  FALSE
    BY DEF WordsAtEnd
  <2>1. k = Len(<<>>) /\ <<>> \in Seq(X)
    BY <1>2
  <2>2. EndOf(<<>>, Len(<<>>)) = <<>>
    BY <2>1, EndsOfEnds
  <2> QED
    BY <2>1, <2>2
<1>4. ASSUME NEW n \in nodes, n # <<>>
      PROVE  /\ fail[n] \in nodes
             /\ Longest(nodes, n, 1, fail[n])
             /\ WordsAtEnd(words, n) = Own(words, n) \cup WordsAtEnd(words, fail[n])
  <2>1. fail[n] \in nodes /\ Longest(nodes, n, 1, fail[n])
    BY <1>4 DEF LinksOn
  <2> QED
    BY <1>4, <2>1, WordsAlongLink
<1>5. \E o : Eq(o)
  <2> DEFINE o == [n \in nodes |-> WordsAtEnd(words, n)]
  <2>1. ASSUME NEW n \in nodes
        PROVE  o[n] = IF n = <<>> THEN {} ELSE Own(words, n) \cup o[fail[n]]
    <3>1. CASE n = <<>>
      BY <1>3, <3>1
    <3>2. CASE n # <<>>
      BY <1>4, <3>2
    <3> QED
      BY <3>1, <3>2
  <2>2. Eq(o)
    <3>1. \A n \in nodes : o[n] = IF n = <<>> THEN {} ELSE Own(words, n) \cup o[fail[n]]
      BY <2>1
    <3>2. o = [n \in nodes |-> o[n]]
      OBVIOUS
    <3> HIDE DEF o
    <3> QED
      BY <3>1, <3>2
  <2> QED
    BY <2>2
<1>6. \A n \in nodes : outputs[n] = IF n = <<>> THEN {} ELSE Own(words, n) \cup outputs[fail[n]]
  <2>1. Eq(outputs)
    <3> HIDE DEF Eq
    <3> QED
      BY <1>5
  <2> HIDE DEF outputs
  <2> QED
    BY <2>1
<1> HIDE DEF outputs, Eq
<1> DEFINE S == {k \in Nat : \A n \in nodes : Len(n) < k => outputs[n] = WordsAtEnd(words, n)}
<1>7. 0 \in S
  BY <1>2
<1>8. ASSUME NEW k \in Nat, k \in S PROVE k + 1 \in S
  <2> SUFFICES ASSUME NEW n \in nodes, Len(n) < k + 1
               PROVE  outputs[n] = WordsAtEnd(words, n)
    BY k + 1 \in Nat
  <2>1. CASE n = <<>>
    BY <1>3, <1>6, <2>1
  <2>2. CASE n # <<>>
    <3>1. fail[n] \in nodes /\ Longest(nodes, n, 1, fail[n])
      BY <1>4, <2>2
    <3>2. PICK i \in 1..Len(n) : fail[n] = EndOf(n, i)
      BY <3>1 DEF Longest
    <3>3. n \in Seq(X) /\ Len(n) \in Nat
      BY <1>2
    <3>4. i \in 0..Len(n)
      BY <3>3
    <3>5. Len(fail[n]) = Len(n) - i
      BY <3>2, <3>3, <3>4, EndOfFacts
    <3>6. Len(fail[n]) < k
      BY <3>3, <3>5
    <3>7. outputs[fail[n]] = WordsAtEnd(words, fail[n])
      BY <1>8, <3>1, <3>6
    <3> QED
      BY <1>4, <1>6, <2>2, <3>7
  <2> QED
    BY <2>1, <2>2
<1>9. Nat \subseteq S
  <2> HIDE DEF S
  <2> QED
    BY <1>7, <1>8, Induction
<1>10. ASSUME NEW n \in nodes PROVE outputs[n] = WordsAtEnd(words, n)
  <2>1. Len(n) + 1 \in Nat /\ Len(n) < Len(n) + 1
    BY <1>2
  <2> QED
    BY <1>9, <2>1
<1> QED
  BY <1>1, <1>10

\* What a trie that is built is, with the alphabet its nodes are written in.
TrieBuilt(trie, words, nodes, X) ==
  /\ IsTrie(nodes, X)
  /\ DOMAIN trie.fail = nodes
  /\ LinksOn(trie.fail, nodes, nodes)
  /\ \A n \in nodes : trie.outputs[n] = WordsAtEnd(words, n)

\* The next node is the longest end of what has been read that is a node.
LEMMA GoesOn ==
  ASSUME NEW X, NEW nodes, NEW words, NEW trie, TrieBuilt(trie, words, nodes, X),
         NEW current \in nodes, NEW ch \in X
  PROVE  Longest(nodes, Append(current, ch), 0, GoTo(trie, current, ch))
<1> DEFINE goto == CHOOSE g : Follows(g, nodes, nodes, ch, trie.fail)
<1>1. /\ IsTrie(nodes, X)
      /\ DOMAIN trie.fail = nodes
      /\ LinksOn(trie.fail, nodes, nodes)
  BY DEF TrieBuilt
<1>2. GoTo(trie, current, ch) = goto[current]
  BY <1>1 DEF GoTo, Follows
<1>3. /\ \E g : Follows(g, nodes, nodes, ch, trie.fail)
      /\ \A g : Follows(g, nodes, nodes, ch, trie.fail) =>
           \A n \in nodes : Longest(nodes, Append(n, ch), 0, g[n])
  BY <1>1, LinksLead
<1>4. Follows(goto, nodes, nodes, ch, trie.fail)
  BY <1>3
<1> HIDE DEF goto
<1>5. Longest(nodes, Append(current, ch), 0, goto[current])
  BY <1>3, <1>4
<1> QED
  BY <1>2, <1>5

\* After each letter the automaton is at the longest end of what it has read that
\* is a node.
LEMMA RunFollows ==
  ASSUME NEW X, NEW nodes, NEW words, NEW trie, TrieBuilt(trie, words, nodes, X),
         NEW text \in Seq(X)
  PROVE  \A i \in 0..Len(text) : Longest(nodes, SubSeq(text, 1, i), 0, Run(trie, text)[i])
<1> DEFINE Eq(f) == f = [i \in 0..Len(text) |->
                           IF i = 0 THEN <<>> ELSE GoTo(trie, f[i - 1], text[i])]
           walk == CHOOSE f : Eq(f)
           Goal(i) == CHOOSE t : Longest(nodes, SubSeq(text, 1, i), 0, t)
<1>1. Run(trie, text) = walk
  BY DEF Run
<1>2. Len(text) \in Nat
  BY LenProperties
<1>3. <<>> \in nodes /\ IsTrie(nodes, X)
  BY DEF TrieBuilt, IsTrie
<1>4. ASSUME NEW i \in 0..Len(text)
      PROVE  /\ SubSeq(text, 1, i) \in Seq(X)
             /\ 0 \in 0..Len(SubSeq(text, 1, i))
             /\ Longest(nodes, SubSeq(text, 1, i), 0, Goal(i))
             /\ \A t : Longest(nodes, SubSeq(text, 1, i), 0, t) => t = Goal(i)
  <2>1. SubSeq(text, 1, i) \in Seq(X) /\ Len(SubSeq(text, 1, i)) = i
    BY StartsOf
  <2>2. 0 \in 0..Len(SubSeq(text, 1, i))
    BY <1>2, <2>1
  <2>3. PICK s : s = SubSeq(text, 1, i)
    OBVIOUS
  <2>4. s \in Seq(X) /\ 0 \in 0..Len(s)
    BY <2>1, <2>2, <2>3
  <2>5. /\ \E t : Longest(nodes, s, 0, t)
        /\ \A t, u : Longest(nodes, s, 0, t) /\ Longest(nodes, s, 0, u) => t = u
    BY ONLY <1>3, <2>4, LongestIs
  <2> QED
    BY ONLY <2>1, <2>2, <2>3, <2>5
<1>5. Longest(nodes, SubSeq(text, 1, 0), 0, <<>>)
  <2>1. 0 \in 0..Len(text)
    BY <1>2
  <2>2. SubSeq(text, 1, 0) = <<>>
    BY <2>1, StartsOf
  <2>3. Len(<<>>) = 0 /\ <<>> \in Seq(X)
    BY EmptySeq
  <2>4. EndOf(<<>>, 0) = <<>> /\ 0 \in 0..Len(<<>>) /\ 0..(0 - 1) = {}
    BY <2>3, EndsOfEnds
  <2> QED
    BY ONLY <1>3, <2>2, <2>4 DEF Longest
<1>6. ASSUME NEW i \in 0..Len(text), i # 0, NEW u, Longest(nodes, SubSeq(text, 1, i - 1), 0, u)
      PROVE  Longest(nodes, SubSeq(text, 1, i), 0, GoTo(trie, u, text[i]))
  <2>1. /\ i - 1 \in 0..Len(text)
        /\ text[i] \in X
        /\ SubSeq(text, 1, i) = Append(SubSeq(text, 1, i - 1), text[i])
    BY <1>6, StartsOf
  <2>2. SubSeq(text, 1, i - 1) \in Seq(X) /\ 0 \in 0..Len(SubSeq(text, 1, i - 1))
    BY <1>4, <2>1
  <2>3. u \in nodes
    BY <1>6 DEF Longest
  <2>4. Longest(nodes, Append(u, text[i]), 0, GoTo(trie, u, text[i]))
    BY ONLY <2>1, <2>3, TrieBuilt(trie, words, nodes, X), GoesOn
  <2>5. PICK s, ch : s = SubSeq(text, 1, i - 1) /\ ch = text[i]
    OBVIOUS
  <2>6. s \in Seq(X) /\ 0 \in 0..Len(s) /\ ch \in X
    BY <2>1, <2>2, <2>5
  <2>7. PICK t : t = GoTo(trie, u, ch)
    OBVIOUS
  <2>8. Longest(nodes, s, 0, u) /\ Longest(nodes, Append(u, ch), 0, t)
    BY <1>6, <2>4, <2>5, <2>7
  <2>9. Longest(nodes, Append(s, ch), 0, t)
    BY ONLY <1>3, <2>6, <2>8, LongestAfter
  <2> QED
    BY <2>1, <2>5, <2>7, <2>9
<1>7. \E f : Eq(f)
  <2> DEFINE f == [i \in 0..Len(text) |-> Goal(i)]
  <2> HIDE DEF Goal
  <2>1. ASSUME NEW i \in 0..Len(text)
        PROVE  f[i] = IF i = 0 THEN <<>> ELSE GoTo(trie, f[i - 1], text[i])
    <3>1. CASE i = 0
      BY <1>4, <1>5, <3>1
    <3>2. CASE i # 0
      <4>1. i - 1 \in 0..Len(text)
        BY <1>2, <3>2
      <4>2. Longest(nodes, SubSeq(text, 1, i - 1), 0, f[i - 1])
        BY <1>4, <4>1
      <4>3. Longest(nodes, SubSeq(text, 1, i), 0, GoTo(trie, f[i - 1], text[i]))
        BY <1>6, <3>2, <4>2
      <4> QED
        BY <1>4, <3>2, <4>3
    <3> QED
      BY <3>1, <3>2
  <2>2. f = [i \in 0..Len(text) |-> f[i]]
    OBVIOUS
  <2> HIDE DEF f
  <2>3. Eq(f)
    BY <2>1, <2>2
  <2> QED
    BY <2>3
<1>8. \A i \in 0..Len(text) : walk[i] = IF i = 0 THEN <<>> ELSE GoTo(trie, walk[i - 1], text[i])
  <2>1. Eq(walk)
    <3> HIDE DEF Eq
    <3> QED
      BY <1>7
  <2> HIDE DEF walk
  <2> QED
    BY <2>1
<1> HIDE DEF walk, Eq, Goal
<1> DEFINE S == {k \in Nat : k <= Len(text) => Longest(nodes, SubSeq(text, 1, k), 0, walk[k])}
<1>9. 0 \in S
  <2>1. walk[0] = <<>>
    BY <1>2, <1>8
  <2> QED
    BY <1>5, <2>1
<1>10. ASSUME NEW k \in Nat, k \in S PROVE k + 1 \in S
  <2> SUFFICES ASSUME k + 1 <= Len(text)
               PROVE  Longest(nodes, SubSeq(text, 1, k + 1), 0, walk[k + 1])
    BY k + 1 \in Nat
  <2>1. k + 1 \in 0..Len(text) /\ k + 1 # 0 /\ (k + 1) - 1 = k /\ k <= Len(text)
    BY <1>2
  <2>2. Longest(nodes, SubSeq(text, 1, (k + 1) - 1), 0, walk[(k + 1) - 1])
    BY <1>10, <2>1
  <2>3. walk[k + 1] = GoTo(trie, walk[(k + 1) - 1], text[k + 1])
    BY <1>8, <2>1
  <2> QED
    BY <1>6, <2>1, <2>2, <2>3
<1>11. Nat \subseteq S
  <2> HIDE DEF S
  <2> QED
    BY <1>9, <1>10, Induction
<1>12. \A i \in 0..Len(text) : Longest(nodes, SubSeq(text, 1, i), 0, walk[i])
  BY <1>2, <1>11
<1> QED
  BY <1>1, <1>12

\* The alphabet of the texts, filtered ones among them.
Alphabet == Letters \cup Replacements

\* The paths of a list of words are a trie, with every word in it.
LEMMA PathsOfWords ==
  ASSUME NEW words \in SUBSET Seq(Letters)
  PROVE  /\ IsTrie(Nodes(words), Alphabet)
         /\ Built(words) \subseteq Nodes(words)
         /\ <<>> \notin Built(words)
         /\ \A w \in Built(words) : w \in Seq(Letters) /\ w \in Seq(Alphabet) /\ w # <<>>
<1> DEFINE nodes == Nodes(words)
<1>1. \A w \in Built(words) : w \in Seq(Letters) /\ w \in Seq(Alphabet) /\ w # <<>>
  <2> SUFFICES ASSUME NEW w \in Built(words)
               PROVE  w \in Seq(Letters) /\ w \in Seq(Alphabet) /\ w # <<>>
    OBVIOUS
  <2>1. w \in Seq(Letters) /\ w # <<>>
    BY DEF Built
  <2>2. Letters \subseteq Alphabet
    BY DEF Alphabet
  <2> QED
    BY <2>1, <2>2, SeqMonotonic
<1>2. \A n : n \in nodes <=> n = <<>> \/ \E w \in Built(words) : \E l \in 0..Len(w) : n = SubSeq(w, 1, l)
  BY DEF Nodes, Prefixes
<1> HIDE DEF nodes
<1>3. Built(words) \subseteq nodes
  <2> SUFFICES ASSUME NEW w \in Built(words) PROVE w \in nodes
    OBVIOUS
  <2>1. w \in Seq(Alphabet)
    BY <1>1
  <2>2. Len(w) \in Nat /\ Len(w) \in 0..Len(w)
    BY <2>1, LenProperties
  <2>3. PICK s : s = SubSeq(w, 1, Len(w))
    OBVIOUS
  <2>4. s \in Seq(Alphabet) /\ Len(s) = Len(w) /\ \A j \in 1..Len(w) : s[j] = w[j]
    BY <2>1, <2>2, <2>3, StartsOf
  <2>5. s = w
    BY <2>1, <2>4, SeqEqual
  <2> QED
    BY <1>2, <2>2, <2>3, <2>5
<1>4. nodes \subseteq Seq(Alphabet)
  <2> SUFFICES ASSUME NEW n \in nodes PROVE n \in Seq(Alphabet)
    OBVIOUS
  <2>1. CASE n = <<>>
    BY <2>1, EmptySeq
  <2>2. ASSUME NEW w \in Built(words), NEW l \in 0..Len(w), n = SubSeq(w, 1, l)
        PROVE  n \in Seq(Alphabet)
    <3>1. w \in Seq(Alphabet)
      BY <1>1
    <3> QED
      BY <2>2, <3>1, StartsOf
  <2> QED
    BY <1>2, <2>1, <2>2
<1>5. ASSUME NEW s \in Seq(Alphabet), NEW ch \in Alphabet, Append(s, ch) \in nodes
      PROVE  s \in nodes
  <2>1. /\ Append(s, ch) \in Seq(Alphabet)
        /\ Len(Append(s, ch)) = Len(s) + 1
    BY AppendProperties
  <2>2. Len(s) \in Nat
    BY LenProperties
  <2>3. Append(s, ch) # <<>>
    BY <2>1, <2>2, EmptySeq
  <2>4. PICK w \in Built(words) : \E l \in 0..Len(w) : Append(s, ch) = SubSeq(w, 1, l)
    BY <1>2, <1>5, <2>3
  <2>5. PICK l \in 0..Len(w) : Append(s, ch) = SubSeq(w, 1, l)
    BY <2>4
  <2>6. w \in Seq(Alphabet)
    BY <1>1
  <2>7. l # 0
    BY <2>3, <2>5, <2>6, StartsOf
  <2>8. /\ l - 1 \in 0..Len(w)
        /\ w[l] \in Alphabet
        /\ SubSeq(w, 1, l) = Append(SubSeq(w, 1, l - 1), w[l])
    BY <2>6, <2>7, StartsOf
  <2>9. SubSeq(w, 1, l - 1) \in Seq(Alphabet)
    BY <2>6, <2>8, StartsOf
  <2>10. s = SubSeq(w, 1, l - 1)
    BY ONLY <2>5, <2>8, <2>9, s \in Seq(Alphabet), ch \in Alphabet, AppendInjective
  <2> QED
    BY <1>2, <2>8, <2>10
<1>6. IsTrie(nodes, Alphabet)
  <2>1. <<>> \in nodes
    BY <1>2
  <2> QED
    BY ONLY <1>4, <1>5, <2>1 DEF IsTrie
<1> QED
  BY <1>1, <1>3, <1>6 DEF nodes

\* The automaton that is built is right.
LEMMA TrieIsBuilt ==
  ASSUME NEW words \in SUBSET Seq(Letters)
  PROVE  TrieBuilt(Build(words), words, Nodes(words), Alphabet)
<1>1. /\ IsTrie(Nodes(words), Alphabet)
      /\ Built(words) \subseteq Nodes(words)
      /\ <<>> \notin Built(words)
  BY PathsOfWords
<1>2. PICK nodes : nodes = Nodes(words)
  OBVIOUS
<1>3. PICK fail : fail = FailLinks(nodes)
  OBVIOUS
<1>4. DOMAIN fail = nodes /\ LinksOn(fail, nodes, nodes) /\ IsTrie(nodes, Alphabet)
  BY <1>1, <1>2, <1>3, LinksBuilt
<1>5. \A n \in nodes : Outputs(words, fail)[n] = WordsAtEnd(words, n)
  BY ONLY <1>1, <1>2, <1>4, OutputsFound
<1>6. Build(words).fail = fail /\ Build(words).outputs = Outputs(words, fail)
  BY <1>2, <1>3 DEF Build
<1> QED
  BY <1>2, <1>4, <1>5, <1>6 DEF TrieBuilt

\* w ends at the place i of a text.
OccursAt(w, text, i) == Len(w) <= i /\ w = SubSeq(text, i - Len(w) + 1, i)

\* An end of what has been read is a piece of the text.
LEMMA EndIsPiece ==
  ASSUME NEW X, NEW text \in Seq(X), NEW i \in 1..Len(text), NEW w \in Seq(X)
  PROVE  (\E k \in 0..Len(SubSeq(text, 1, i)) : w = EndOf(SubSeq(text, 1, i), k)) <=>
           OccursAt(w, text, i)
<1>1. Len(text) \in Nat /\ Len(w) \in Nat /\ i \in 0..Len(text) /\ i \in Nat
  BY LenProperties
<1>2. PICK s : s = SubSeq(text, 1, i)
  OBVIOUS
<1>3. s \in Seq(X) /\ Len(s) = i /\ \A j \in 1..i : s[j] = text[j]
  BY <1>1, <1>2, StartsOf
<1>4. ASSUME NEW k \in 0..i
      PROVE  Len(EndOf(s, k)) = i - k /\ EndOf(s, k) = SubSeq(text, k + 1, i)
  <2>1. k \in 0..Len(s)
    BY <1>3
  <2>2. /\ EndOf(s, k) \in Seq(X)
        /\ Len(EndOf(s, k)) = Len(s) - k
        /\ \A j \in 1..(Len(s) - k) : EndOf(s, k)[j] = s[k + j]
    BY <1>3, <2>1, EndOfFacts
  <2>3. PICK m \in Nat : m = k + 1
    OBVIOUS
  <2>4. 1 <= m /\ m <= i + 1 /\ i <= Len(text)
    BY <1>1, <2>3
  <2>5. /\ SubSeq(text, m, i) \in Seq(X)
        /\ Len(SubSeq(text, m, i)) = i - m + 1
        /\ \A j \in 1..(i - m + 1) : SubSeq(text, m, i)[j] = text[m + j - 1]
    BY ONLY <1>1, <2>4, m \in Nat, text \in Seq(X), Piece
  <2>6. PICK t, u : t = EndOf(s, k) /\ u = SubSeq(text, m, i)
    OBVIOUS
  <2>7. t \in Seq(X) /\ Len(t) = i - k /\ \A j \in 1..(i - k) : t[j] = s[k + j]
    BY <1>3, <2>2, <2>6
  <2>8. u \in Seq(X) /\ Len(u) = i - k /\ \A j \in 1..(i - k) : u[j] = text[k + j]
    <3>1. u \in Seq(X)
      BY <2>5, <2>6
    <3>2. i - m + 1 = i - k
      BY <1>1, <2>3
    <3>3. Len(u) = i - k /\ \A j \in 1..(i - k) : u[j] = text[m + j - 1]
      BY ONLY <2>5, <2>6, <3>2
    <3>4. \A j \in 1..(i - k) : m + j - 1 = k + j
      BY <2>3
    <3> QED
      BY ONLY <3>1, <3>3, <3>4
  <2>9. \A j \in 1..Len(t) : t[j] = u[j]
    <3> SUFFICES ASSUME NEW j \in 1..Len(t) PROVE t[j] = u[j]
      OBVIOUS
    <3>1. j \in 1..(i - k) /\ k + j \in 1..i
      BY <1>1, <2>7
    <3> QED
      BY <1>3, <2>7, <2>8, <3>1
  <2>10. t = u
    BY <2>7, <2>8, <2>9, SeqEqual
  <2> QED
    BY <2>3, <2>6, <2>7, <2>10
<1>5. ASSUME NEW k \in 0..i, w = EndOf(s, k) PROVE OccursAt(w, text, i)
  <2>1. Len(w) = i - k /\ w = SubSeq(text, k + 1, i)
    BY <1>4, <1>5
  <2>2. Len(w) <= i /\ k + 1 = i - Len(w) + 1
    BY <1>1, <2>1
  <2> QED
    BY ONLY <2>1, <2>2 DEF OccursAt
<1>6. ASSUME OccursAt(w, text, i) PROVE \E k \in 0..i : w = EndOf(s, k)
  <2>1. Len(w) <= i /\ w = SubSeq(text, i - Len(w) + 1, i)
    BY <1>6 DEF OccursAt
  <2>2. PICK k \in 0..i : k = i - Len(w)
    <3>1. PICK l \in Nat : l = Len(w)
      BY <1>1
    <3>2. l <= i
      BY <2>1, <3>1
    <3>3. i - l \in 0..i
      BY <1>1, <3>2
    <3> QED
      BY <3>1, <3>3
  <2>3. EndOf(s, k) = SubSeq(text, k + 1, i)
    BY <1>4
  <2> QED
    BY <2>1, <2>2, <2>3
<1> QED
  BY <1>2, <1>3, <1>5, <1>6

\* What the node after a letter tells: the words that end there.
LEMMA OutputsTell ==
  ASSUME NEW words \in SUBSET Seq(Letters), NEW text \in Seq(Alphabet), NEW i \in 1..Len(text)
  PROVE  Build(words).outputs[Run(Build(words), text)[i]] =
           {w \in Built(words) : OccursAt(w, text, i)}
<1>1. PICK trie, nodes : trie = Build(words) /\ nodes = Nodes(words)
  OBVIOUS
<1>2. TrieBuilt(trie, words, nodes, Alphabet)
  BY <1>1, TrieIsBuilt
<1>3. /\ Built(words) \subseteq nodes
      /\ \A w \in Built(words) : w \in Seq(Alphabet)
  BY <1>1, PathsOfWords
<1>4. Len(text) \in Nat /\ i \in 0..Len(text)
  BY LenProperties
<1>5. PICK u : u = Run(trie, text)[i]
  OBVIOUS
<1>6. PICK s : s = SubSeq(text, 1, i)
  OBVIOUS
<1>7. Longest(nodes, s, 0, u)
  <2>1. \A j \in 0..Len(text) : Longest(nodes, SubSeq(text, 1, j), 0, Run(trie, text)[j])
    BY ONLY <1>2, text \in Seq(Alphabet), RunFollows
  <2> QED
    BY <1>4, <1>5, <1>6, <2>1
<1>8. s \in Seq(Alphabet) /\ Len(s) = i
  BY <1>4, <1>6, StartsOf
<1>9. 0 \in 0..Len(s)
  BY <1>4, <1>8
<1>10. u \in nodes
  BY <1>7 DEF Longest
<1>11. trie.outputs[u] = WordsAtEnd(words, u)
  BY <1>2, <1>10 DEF TrieBuilt
<1>12. ASSUME NEW w \in Built(words)
       PROVE  (\E j \in 0..Len(u) : w = EndOf(u, j)) <=> OccursAt(w, text, i)
  <2>1. w \in nodes /\ w \in Seq(Alphabet)
    BY <1>3
  <2>2. (\E k \in 0..Len(s) : w = EndOf(s, k)) <=> (\E j \in 0..Len(u) : w = EndOf(u, j))
    <3>1. s \in Seq(Alphabet)
      BY <1>8
    <3>2. w \in nodes
      BY <2>1
    <3> QED
      BY ONLY <1>7, <1>9, <3>1, <3>2, EndsOfLongest
  <2>3. (\E k \in 0..Len(s) : w = EndOf(s, k)) <=> OccursAt(w, text, i)
    BY <1>6, <2>1, EndIsPiece
  <2> QED
    BY ONLY <2>2, <2>3
<1>13. WordsAtEnd(words, u) = {w \in Built(words) : OccursAt(w, text, i)}
  BY <1>12 DEF WordsAtEnd
<1> QED
  BY <1>1, <1>5, <1>11, <1>13

\* A word ends at a place if its letters are there.
LEMMA OccursByLetters ==
  ASSUME NEW X, NEW text \in Seq(X), NEW i \in 1..Len(text), NEW w \in Seq(X)
  PROVE  OccursAt(w, text, i) <=>
           Len(w) <= i /\ \A j \in 1..Len(w) : w[j] = text[i - Len(w) + j]
<1>1. PICK l \in Nat : l = Len(w)
  BY LenProperties
<1>2. Len(text) \in Nat /\ i \in Nat /\ i <= Len(text)
  BY LenProperties
<1> SUFFICES ASSUME l <= i
             PROVE  w = SubSeq(text, i - l + 1, i) <=> \A j \in 1..l : w[j] = text[i - l + j]
  BY <1>1 DEF OccursAt
<1>3. PICK m \in Nat : m = i - l + 1
  BY <1>2
<1>4. 1 <= m /\ m <= i + 1 /\ i - m + 1 = l
  BY <1>2, <1>3
<1>5. PICK s : s = SubSeq(text, m, i)
  OBVIOUS
<1>6. /\ SubSeq(text, m, i) \in Seq(X)
      /\ Len(SubSeq(text, m, i)) = i - m + 1
      /\ \A j \in 1..(i - m + 1) : SubSeq(text, m, i)[j] = text[m + j - 1]
  <2>1. 1 <= m
    BY <1>4
  <2>2. m <= i + 1
    BY <1>4
  <2>3. i <= Len(text)
    BY <1>2
  <2>4. i \in Nat
    BY <1>2
  <2> QED
    BY ONLY <2>1, <2>2, <2>3, <2>4, m \in Nat, text \in Seq(X), Piece
<1>7. s \in Seq(X) /\ Len(s) = l /\ \A j \in 1..l : s[j] = text[m + j - 1]
  BY ONLY <1>4, <1>5, <1>6
<1>8. \A j \in 1..l : m + j - 1 = i - l + j
  BY <1>2, <1>3
<1>9. \A j \in 1..l : s[j] = text[i - l + j]
  BY <1>7, <1>8
<1>10. (\A j \in 1..l : w[j] = s[j]) => w = s
  BY <1>1, <1>7, SeqEqual
<1> QED
  BY <1>3, <1>5, <1>9, <1>10

\* The automaton's matches, one by one.
LEMMA SearchFinds ==
  ASSUME NEW words \in SUBSET Seq(Letters), NEW text \in Seq(Alphabet)
  PROVE  /\ \A m : m \in Search(Build(words), text) <=>
              \E i \in 1..Len(text) : \E w \in Built(words) :
                OccursAt(w, text, i) /\ m = SensitiveWordMatch(w, i)
         /\ HasSensitiveWords(Build(words), text) <=>
              \E i \in 1..Len(text) : \E w \in Built(words) : OccursAt(w, text, i)
<1>1. DOMAIN text = 1..Len(text)
  BY LenProperties
<1>2. \A i \in 1..Len(text) :
        Build(words).outputs[Run(Build(words), text)[i]] =
          {w \in Built(words) : OccursAt(w, text, i)}
  BY OutputsTell
<1>3. PICK trie : trie = Build(words)
  OBVIOUS
<1>4. PICK walk : walk = Run(trie, text)
  OBVIOUS
<1>5. \A i \in 1..Len(text) : trie.outputs[walk[i]] = {w \in Built(words) : OccursAt(w, text, i)}
  BY <1>2, <1>3, <1>4
<1>6. Search(trie, text) =
        UNION {{SensitiveWordMatch(w, i) : w \in trie.outputs[walk[i]]} : i \in 1..Len(text)}
  BY <1>1, <1>4 DEF Search
<1>7. HasSensitiveWords(trie, text) <=> \E i \in 1..Len(text) : trie.outputs[walk[i]] # {}
  BY <1>1, <1>4 DEF HasSensitiveWords
<1>8. ASSUME NEW m
      PROVE  m \in Search(trie, text) <=>
               \E i \in 1..Len(text) : \E w \in Built(words) :
                 OccursAt(w, text, i) /\ m = SensitiveWordMatch(w, i)
  <2>1. m \in Search(trie, text) <=>
          \E i \in 1..Len(text) : \E w \in trie.outputs[walk[i]] : m = SensitiveWordMatch(w, i)
    BY ONLY <1>6
  <2> QED
    BY ONLY <1>5, <2>1
<1>9. HasSensitiveWords(trie, text) <=>
        \E i \in 1..Len(text) : \E w \in Built(words) : OccursAt(w, text, i)
  BY ONLY <1>5, <1>7
<1> QED
  BY <1>3, <1>8, <1>9

\* The places words occur at, one by one.
LEMMA OccurrencesAre ==
  ASSUME NEW words \in SUBSET Seq(Letters), NEW text \in Seq(Alphabet)
  PROVE  \A m : m \in Occurrences(words, text) <=>
           \E i \in 1..Len(text) : \E w \in Built(words) :
             OccursAt(w, text, i) /\ m = SensitiveWordMatch(w, i)
<1>1. DOMAIN text = 1..Len(text) /\ Len(text) \in Nat
  BY LenProperties
<1>2. \A w \in Built(words) : Len(w) \in Nat /\ Len(w) # 0
  <2> SUFFICES ASSUME NEW w \in Built(words) PROVE Len(w) \in Nat /\ Len(w) # 0
    OBVIOUS
  <2>1. w \in Seq(Alphabet) /\ w # <<>>
    BY PathsOfWords
  <2> QED
    BY <2>1, LenProperties, EmptySeq
<1> DEFINE Place(i, j) == [word |-> SubSeq(text, i, j), start_index |-> i, end_index |-> j]
<1>3. ASSUME NEW m
      PROVE  m \in Occurrences(words, text) <=>
               /\ \E w \in Built(words) : \E i \in 1..Len(text) : m = SensitiveWordMatch(w, i)
               /\ \E i \in 1..Len(text) : \E j \in 1..Len(text) : m = Place(i, j)
  BY ONLY <1>1 DEF Occurrences
<1>4. ASSUME NEW w \in Built(words), NEW i \in 1..Len(text), OccursAt(w, text, i)
      PROVE  SensitiveWordMatch(w, i) \in Occurrences(words, text)
  <2>1. PICK l \in Nat : l = Len(w)
    BY <1>2
  <2>2. l # 0 /\ l <= i /\ w = SubSeq(text, i - l + 1, i)
    BY <1>2, <1>4, <2>1 DEF OccursAt
  <2>3. i - l + 1 \in 1..Len(text)
    BY <1>1, <2>2
  <2>4. SensitiveWordMatch(w, i) = Place(i - l + 1, i)
    BY <2>1, <2>2 DEF SensitiveWordMatch
  <2> HIDE DEF Place
  <2> QED
    BY <1>3, <2>3, <2>4
<1>5. ASSUME NEW m \in Occurrences(words, text)
      PROVE  \E i \in 1..Len(text) : \E w \in Built(words) :
               OccursAt(w, text, i) /\ m = SensitiveWordMatch(w, i)
  <2>1. PICK w \in Built(words) : \E i \in 1..Len(text) : m = SensitiveWordMatch(w, i)
    BY <1>3, <1>5
  <2>2. PICK i \in 1..Len(text) : m = SensitiveWordMatch(w, i)
    BY <2>1
  <2>3. PICK a \in 1..Len(text) : \E b \in 1..Len(text) : m = Place(a, b)
    BY <1>3, <1>5
  <2>4. PICK b \in 1..Len(text) : m = Place(a, b)
    BY <2>3
  <2>5. m.word = w /\ m.start_index = i - Len(w) + 1 /\ m.end_index = i
    BY <2>2 DEF SensitiveWordMatch
  <2>6. m.word = SubSeq(text, a, b) /\ m.start_index = a /\ m.end_index = b
    BY <2>4
  <2>7. w = SubSeq(text, i - Len(w) + 1, i) /\ i - Len(w) + 1 = a
    BY ONLY <2>5, <2>6
  <2>8. Len(w) <= i
    <3>1. PICK l \in Nat : l = Len(w)
      BY <1>2
    <3>2. i - l + 1 = a
      BY <2>7, <3>1
    <3> QED
      BY <1>1, <3>1, <3>2
  <2>9. OccursAt(w, text, i)
    BY ONLY <2>7, <2>8 DEF OccursAt
  <2> QED
    BY <2>2, <2>9
<1> QED
  BY <1>4, <1>5

\* Every word is an output, and nothing else is.
LEMMA WordsCounted ==
  ASSUME NEW words \in SUBSET Seq(Letters)
  PROVE  WordCount(Build(words)) = Cardinality(Built(words))
<1>1. PICK trie, nodes : trie = Build(words) /\ nodes = Nodes(words)
  OBVIOUS
<1>2. TrieBuilt(trie, words, nodes, Alphabet)
  BY <1>1, TrieIsBuilt
<1>3. /\ Built(words) \subseteq nodes
      /\ \A w \in Built(words) : w \in Seq(Alphabet)
  BY <1>1, PathsOfWords
<1>4. DOMAIN trie.fail = nodes /\ \A n \in nodes : trie.outputs[n] = WordsAtEnd(words, n)
  BY <1>2 DEF TrieBuilt
<1>5. \A w \in Built(words) : w \in WordsAtEnd(words, w)
  <2> SUFFICES ASSUME NEW w \in Built(words) PROVE w \in WordsAtEnd(words, w)
    OBVIOUS
  <2>1. EndOf(w, 0) = w /\ 0 \in 0..Len(w)
    BY <1>3, EndsOfEnds, LenProperties
  <2> QED
    BY <2>1 DEF WordsAtEnd
<1>6. \A n : \A w \in WordsAtEnd(words, n) : w \in Built(words)
  BY DEF WordsAtEnd
<1>7. UNION {trie.outputs[n] : n \in DOMAIN trie.fail} = Built(words)
  <2>1. \A n \in nodes : trie.outputs[n] \subseteq Built(words)
    BY <1>4, <1>6
  <2>2. \A w \in Built(words) : w \in nodes /\ w \in trie.outputs[w]
    BY <1>3, <1>4, <1>5
  <2> QED
    BY ONLY <1>4, <2>1, <2>2
<1> QED
  BY <1>1, <1>7 DEF WordCount

\* The letters that some match covers.
CoveredBy(words, text) ==
  {i \in 1..Len(text) : \E m \in Search(Build(words), text) : i \in m.start_index..m.end_index}

\* The filtered text is as long, with the covered letters replaced.
LEMMA FilteredIs ==
  ASSUME NEW words \in SUBSET Seq(Letters), NEW text \in Seq(Letters),
         NEW r \in Replacements
  PROVE  /\ FilterText(Build(words), text, r) \in Seq(Alphabet)
         /\ Len(FilterText(Build(words), text, r)) = Len(text)
         /\ \A i \in 1..Len(text) :
              FilterText(Build(words), text, r)[i] =
                IF i \in CoveredBy(words, text) THEN r ELSE text[i]
<1>1. Len(text) \in Nat /\ DOMAIN text = 1..Len(text) /\ \A i \in 1..Len(text) : text[i] \in Letters
  BY LenProperties, ElementOfSeq
<1>2. PICK n \in Nat : n = Len(text)
  BY <1>1
<1>3. PICK covered : covered = CoveredBy(words, text)
  OBVIOUS
<1>4. FilterText(Build(words), text, r) = [i \in 1..n |-> IF i \in covered THEN r ELSE text[i]]
  <2>1. PICK found : found = Search(Build(words), text)
    OBVIOUS
  <2>2. FilterText(Build(words), text, r) =
          [i \in 1..n |-> IF \E m \in found : i \in m.start_index..m.end_index
                            THEN r ELSE text[i]]
    BY <1>1, <1>2, <2>1 DEF FilterText
  <2>3. \A i \in 1..n : i \in covered <=> \E m \in found : i \in m.start_index..m.end_index
    BY <1>2, <1>3, <2>1 DEF CoveredBy
  <2> QED
    BY ONLY <2>2, <2>3
<1>5. PICK f : f = FilterText(Build(words), text, r)
  OBVIOUS
<1>6. f \in [1..n -> Alphabet] /\ \A i \in 1..n : f[i] = IF i \in covered THEN r ELSE text[i]
  <2>1. \A i \in 1..n : text[i] \in Alphabet /\ r \in Alphabet
    BY <1>1, <1>2 DEF Alphabet
  <2> QED
    BY ONLY <1>4, <1>5, <2>1
<1>7. f \in Seq(Alphabet) /\ Len(f) = n
  BY <1>6, SeqDef, LenProperties
<1> QED
  BY <1>2, <1>3, <1>5, <1>6, <1>7

\* Nothing is found in what was filtered with a letter of no word: a word that is
\* left was there before.
LEMMA NothingIsLeft ==
  ASSUME NEW words \in SUBSET Seq(Letters), NEW text \in Seq(Letters),
         NEW r \in Replacements, \A w \in Built(words) : r \notin ToSet(w)
  PROVE  Search(Build(words), FilterText(Build(words), text, r)) = {}
<1>1. PICK f : f = FilterText(Build(words), text, r)
  OBVIOUS
<1>2. PICK covered : covered = CoveredBy(words, text)
  OBVIOUS
<1>3. /\ f \in Seq(Alphabet)
      /\ Len(f) = Len(text)
      /\ \A i \in 1..Len(text) : f[i] = IF i \in covered THEN r ELSE text[i]
  BY <1>1, <1>2, FilteredIs
<1>4. text \in Seq(Alphabet)
  <2>1. Letters \subseteq Alphabet
    BY DEF Alphabet
  <2> QED
    BY <2>1, SeqMonotonic
<1>5. Len(text) \in Nat
  BY LenProperties
<1> SUFFICES ASSUME NEW m \in Search(Build(words), f) PROVE FALSE
  BY <1>1
<1>6. PICK i \in 1..Len(text) : \E w \in Built(words) : OccursAt(w, f, i)
  BY <1>3, SearchFinds
<1>7. PICK w \in Built(words) : OccursAt(w, f, i)
  BY <1>6
<1>8. w \in Seq(Letters) /\ w \in Seq(Alphabet) /\ w # <<>>
  BY PathsOfWords
<1>9. PICK l \in Nat : l = Len(w)
  BY <1>8, LenProperties
<1>10. l # 0
  BY <1>8, <1>9, EmptySeq
<1>11. l <= i /\ \A j \in 1..l : w[j] = f[i - l + j]
  <2>1. i \in 1..Len(f)
    BY <1>3
  <2>2. f \in Seq(Alphabet) /\ w \in Seq(Alphabet) /\ OccursAt(w, f, i)
    BY <1>3, <1>7, <1>8
  <2>3. Len(w) <= i /\ \A j \in 1..Len(w) : w[j] = f[i - Len(w) + j]
    BY ONLY <2>1, <2>2, OccursByLetters
  <2> QED
    BY ONLY <1>9, <2>3
<1>12. ASSUME NEW j \in 1..l PROVE i - l + j \in 1..Len(text) /\ i - l + j \notin covered /\ f[i - l + j] = text[i - l + j]
  <2>1. i - l + j \in 1..Len(text)
    BY <1>5, <1>11
  <2>2. w[j] # r
    <3>1. DOMAIN w = 1..l
      BY <1>8, <1>9, LenProperties
    <3> QED
      BY <1>7, <3>1 DEF ToSet
  <2>3. f[i - l + j] # r
    BY <1>11, <2>2
  <2> QED
    BY <1>3, <2>1, <2>3
<1>13. OccursAt(w, text, i)
  <2>1. \A j \in 1..Len(w) : w[j] = text[i - Len(w) + j]
    BY <1>9, <1>11, <1>12
  <2>2. Len(w) <= i
    BY <1>9, <1>11
  <2>3. w \in Seq(Alphabet)
    BY <1>8
  <2> QED
    BY ONLY <1>4, <2>1, <2>2, <2>3, i \in 1..Len(text), OccursByLetters
<1>14. SensitiveWordMatch(w, i) \in Search(Build(words), text)
  BY <1>4, <1>13, SearchFinds
<1>15. i - l + 1 \in covered
  <2>1. SensitiveWordMatch(w, i).start_index = i - l + 1 /\ SensitiveWordMatch(w, i).end_index = i
    BY <1>9 DEF SensitiveWordMatch
  <2>2. 1 \in 1..l
    BY <1>10
  <2>3. i - l + 1 \in 1..Len(text) /\ i - l + 1 \in (i - l + 1)..i
    BY <1>5, <1>10, <1>11
  <2>4. \E m2 \in Search(Build(words), text) : i - l + 1 \in m2.start_index..m2.end_index
    BY <1>14, <2>1, <2>3
  <2> QED
    BY <1>2, <2>3, <2>4 DEF CoveredBy
<1>16. 1 \in 1..l
  BY <1>10
<1> QED
  BY <1>12, <1>15, <1>16

\* Whatever the list and the text: the automaton finds every occurrence of every
\* word and nothing else, what is replaced is what they cover, and nothing is left
\* in a text filtered with a character no word has (yma-sensitive-filter, lib.rs).
THEOREM WordsAreFound ==
  ASSUME NEW words \in WordLists
  PROVE  WordsFound(words)
<1>1. \A n \in Nat : Strings(n) \subseteq Seq(Letters)
  BY SeqDef DEF Strings
<1>2. words \in SUBSET Seq(Letters)
  BY <1>1, WordBounds DEF WordLists
<1>3. WordCount(Build(words)) = Cardinality(Built(words))
  BY <1>2, WordsCounted
<1>4. ASSUME NEW text \in Strings(TextLength)
      PROVE  /\ Search(Build(words), text) = Occurrences(words, text)
             /\ HasSensitiveWords(Build(words), text) <=> Occurrences(words, text) # {}
             /\ \A r \in Replacements :
                  /\ \A i \in DOMAIN text : FilterText(Build(words), text, r)[i] =
                       IF \E m \in Occurrences(words, text) :
                            i \in m.start_index..m.end_index THEN r ELSE text[i]
                  /\ (\A w \in Built(words) : r \notin ToSet(w)) =>
                       Search(Build(words), FilterText(Build(words), text, r)) = {}
  <2>1. text \in Seq(Letters)
    BY <1>1, WordBounds
  <2>2. text \in Seq(Alphabet)
    <3>1. Letters \subseteq Alphabet
      BY DEF Alphabet
    <3> QED
      BY <2>1, <3>1, SeqMonotonic
  <2>3. PICK trie : trie = Build(words)
    OBVIOUS
  <2>4. /\ \A m : m \in Search(trie, text) <=>
             \E i \in 1..Len(text) : \E w \in Built(words) :
               OccursAt(w, text, i) /\ m = SensitiveWordMatch(w, i)
        /\ HasSensitiveWords(trie, text) <=>
             \E i \in 1..Len(text) : \E w \in Built(words) : OccursAt(w, text, i)
    BY <1>2, <2>2, <2>3, SearchFinds
  <2>5. \A m : m \in Occurrences(words, text) <=>
          \E i \in 1..Len(text) : \E w \in Built(words) :
            OccursAt(w, text, i) /\ m = SensitiveWordMatch(w, i)
    BY <1>2, <2>2, OccurrencesAre
  <2>6. \A m : m \in Search(trie, text) <=> m \in Occurrences(words, text)
    BY ONLY <2>4, <2>5
  <2>7. Search(trie, text) = Occurrences(words, text)
    <3>1. PICK a, b : a = Search(trie, text) /\ b = Occurrences(words, text)
      OBVIOUS
    <3>2. a = UNION {a} /\ b = UNION {b}
      OBVIOUS
    <3> QED
      BY ONLY <2>6
  <2>8. HasSensitiveWords(trie, text) <=> Occurrences(words, text) # {}
    <3>1. Occurrences(words, text) # {} <=> \E m : m \in Occurrences(words, text)
      OBVIOUS
    <3> QED
      BY ONLY <2>4, <2>5, <3>1
  <2>9. ASSUME NEW r \in Replacements, \A w \in Built(words) : r \notin ToSet(w)
        PROVE  Search(trie, FilterText(trie, text, r)) = {}
    BY <1>2, <2>1, <2>3, <2>9, NothingIsLeft
  <2>10. ASSUME NEW r \in Replacements, NEW i \in DOMAIN text
         PROVE  FilterText(trie, text, r)[i] =
                  IF \E m \in Occurrences(words, text) : i \in m.start_index..m.end_index
                    THEN r ELSE text[i]
    <3>1. i \in 1..Len(text)
      BY <2>1, LenProperties
    <3>2. FilterText(trie, text, r)[i] = IF i \in CoveredBy(words, text) THEN r ELSE text[i]
      BY <1>2, <2>1, <2>3, <3>1, FilteredIs
    <3>3. i \in CoveredBy(words, text) <=>
            \E m \in Search(trie, text) : i \in m.start_index..m.end_index
      BY <2>3, <3>1 DEF CoveredBy
    <3> QED
      BY ONLY <2>7, <3>2, <3>3
  <2> QED
    BY <2>3, <2>7, <2>8, <2>9, <2>10
<1> QED
  BY <1>3, <1>4 DEF WordsFound

(***************************************************************************)
(* The bodies of requests, nested as deep as they may be.                  *)
(***************************************************************************)

\* g puts the first sequences of a sequence together, one behind the other.
PutTogether(g, seqs, Y) ==
  /\ g \in [0..Len(seqs) -> Seq(Y)]
  /\ g[0] = <<>>
  /\ \A i \in 1..Len(seqs) : g[i] = g[i - 1] \o seqs[i]

\* FlattenSeq puts sequences together.
LEMMA FlattenAlong ==
  ASSUME NEW Y, NEW seqs \in Seq(Seq(Y))
  PROVE  \E g : PutTogether(g, seqs, Y) /\ FlattenSeq(seqs) = g[Len(seqs)]
<1>1. PICK n \in Nat : n = Len(seqs)
  BY LenProperties
<1>2. \A i \in 1..n : seqs[i] \in Seq(Y)
  BY <1>1, ElementOfSeq
<1>3. CASE n = 0
  <2>1. seqs = <<>> /\ FlattenSeq(seqs) = seqs
    BY <1>1, <1>3, EmptySeq DEF FlattenSeq
  <2>2. <<>> \in Seq(Y)
    BY EmptySeq
  <2>3. PutTogether([i \in 0..0 |-> <<>>], seqs, Y)
    BY <1>1, <1>3, <2>2 DEF PutTogether
  <2> QED
    BY <1>1, <1>3, <2>1, <2>3
<1>4. CASE n # 0
  <2> DEFINE step == [ix \in (1..n) \X Seq(Y) |-> ix[2] \o seqs[ix[1]]]
             Eq(f) == f = [i \in 1..Len(seqs) |-> IF i = 1 THEN seqs[i] ELSE f[i - 1] \o seqs[i]]
             flatten == CHOOSE f : Eq(f)
  <2>1. FlattenSeq(seqs) = flatten[n]
    BY <1>1, <1>4 DEF FlattenSeq
  <2>2. <<>> \in Seq(Y)
    BY EmptySeq
  <2>3. step \in [(1..n) \X Seq(Y) -> Seq(Y)]
    <3>1. \A i \in 1..n, x \in Seq(Y) : x \o seqs[i] \in Seq(Y)
      BY <1>2, ConcatProperties
    <3> QED
      BY <3>1
  <2>4. PICK g : Recurs(g, n, Seq(Y), <<>>, step)
    <3> HIDE DEF step
    <3> QED
      BY <2>2, <2>3, Recursion
  <2>5. /\ g \in [0..n -> Seq(Y)]
        /\ g[0] = <<>>
        /\ \A i \in 1..n : g[i] = g[i - 1] \o seqs[i]
    <3>1. /\ g \in [0..n -> Seq(Y)]
          /\ g[0] = <<>>
          /\ \A i \in 1..n : g[i] = step[<<i, g[i - 1]>>]
      <4> HIDE DEF step
      <4> QED
        BY <2>4 DEF Recurs
    <3>2. ASSUME NEW i \in 1..n PROVE g[i] = g[i - 1] \o seqs[i]
      <4>1. i - 1 \in 0..n
        OBVIOUS
      <4>2. g[i - 1] \in Seq(Y)
        BY <3>1, <4>1
      <4>3. step[<<i, g[i - 1]>>] = g[i - 1] \o seqs[i]
        BY <4>2
      <4> QED
        BY <3>1, <4>3
    <3> QED
      BY <3>1, <3>2
  <2>6. \E f : Eq(f)
    <3> DEFINE f == [i \in 1..n |-> g[i]]
    <3>1. ASSUME NEW i \in 1..n
          PROVE  f[i] = IF i = 1 THEN seqs[i] ELSE f[i - 1] \o seqs[i]
      <4>1. CASE i = 1
        <5>1. g[i] = <<>> \o seqs[i]
          <6>1. g[i] = g[i - 1] \o seqs[i] /\ i - 1 = 0
            <7>1. \A j \in 1..n : g[j] = g[j - 1] \o seqs[j]
              BY <2>5
            <7>2. g[i] = g[i - 1] \o seqs[i]
              BY ONLY <7>1, i \in 1..n
            <7> QED
              BY <4>1, <7>2
          <6>2. g[i - 1] = <<>>
            BY <2>5, <6>1
          <6> QED
            BY <6>1, <6>2
        <5> QED
          BY <1>2, <4>1, <5>1, ConcatEmptySeq
      <4>2. CASE i # 1
        <5>1. i - 1 \in 1..n
          BY <4>2
        <5> QED
          BY <2>5, <4>2, <5>1
      <4> QED
        BY <4>1, <4>2
    <3>2. f = [i \in 1..n |-> f[i]]
      OBVIOUS
    <3> HIDE DEF f
    <3>3. Eq(f)
      BY <1>1, <3>1, <3>2
    <3> QED
      BY <3>3
  <2>7. \A i \in 1..n : flatten[i] = IF i = 1 THEN seqs[i] ELSE flatten[i - 1] \o seqs[i]
    <3>1. Eq(flatten)
      <4> HIDE DEF Eq
      <4> QED
        BY <2>6
    <3> HIDE DEF flatten
    <3> QED
      BY <1>1, <3>1
  <2> HIDE DEF flatten, Eq, step
  <2> DEFINE S == {k \in Nat : k \in 1..n => flatten[k] = g[k]}
  <2>8. 0 \in S
    OBVIOUS
  <2>9. ASSUME NEW k \in Nat, k \in S PROVE k + 1 \in S
    <3> SUFFICES ASSUME k + 1 \in 1..n PROVE flatten[k + 1] = g[k + 1]
      BY k + 1 \in Nat
    <3>1. g[k + 1] = g[k] \o seqs[k + 1]
      <4>1. g[k + 1] = g[(k + 1) - 1] \o seqs[k + 1] /\ (k + 1) - 1 = k
        <5>1. \A j \in 1..n : g[j] = g[j - 1] \o seqs[j]
          BY <2>5
        <5>2. k + 1 \in 1..n
          OBVIOUS
        <5>3. g[k + 1] = g[(k + 1) - 1] \o seqs[k + 1]
          BY ONLY <5>1, <5>2
        <5> QED
          BY <5>3
      <4> QED
        BY <4>1
    <3>2. CASE k = 0
      <4>1. flatten[k + 1] = seqs[k + 1]
        BY <2>7, <3>2
      <4>2. <<>> \o seqs[k + 1] = seqs[k + 1]
        BY <1>2, ConcatEmptySeq
      <4> QED
        BY <2>5, <3>1, <3>2, <4>1, <4>2
    <3>3. CASE k # 0
      <4>1. k \in 1..n /\ (k + 1) - 1 = k /\ k + 1 # 1
        BY <3>3
      <4>2. flatten[k + 1] = flatten[k] \o seqs[k + 1]
        BY <2>7, <4>1
      <4> QED
        BY <2>9, <3>1, <4>1, <4>2
    <3> QED
      BY <3>2, <3>3
  <2>10. Nat \subseteq S
    <3> HIDE DEF S
    <3> QED
      BY <2>8, <2>9, Induction
  <2>11. flatten[n] = g[n]
    <3>1. n \in 1..n
      BY <1>4
    <3> QED
      BY <2>10, <3>1
  <2>12. PutTogether(g, seqs, Y)
    BY <1>1, <2>5 DEF PutTogether
  <2> QED
    BY <1>1, <2>1, <2>11, <2>12
<1> QED
  BY <1>3, <1>4

\* A function of what stands at each place of a sequence.
Each(f, s) == [i \in DOMAIN s |-> f[s[i]]]

\* e is that function of each element, in its place.
IsEach(e, f, s, Z) ==
  /\ e \in Seq(Z)
  /\ Len(e) = Len(s)
  /\ \A i \in 1..Len(s) : e[i] = f[s[i]]

\* What is done to each element of a sequence.
LEMMA EachFacts ==
  ASSUME NEW Y, NEW Z, NEW f \in [Y -> Z], NEW s \in Seq(Y)
  PROVE  IsEach(Each(f, s), f, s, Z)
<1>1. PICK n \in Nat : n = Len(s)
  BY LenProperties
<1>2. DOMAIN s = 1..n /\ \A i \in 1..n : s[i] \in Y
  BY <1>1, LenProperties, ElementOfSeq
<1>3. PICK e : e = Each(f, s)
  OBVIOUS
<1>4. e \in [1..n -> Z] /\ \A i \in 1..n : e[i] = f[s[i]]
  BY <1>2, <1>3 DEF Each
<1>5. e \in Seq(Z) /\ Len(e) = n
  BY <1>4, SeqDef, LenProperties
<1> QED
  BY <1>1, <1>3, <1>4, <1>5 DEF IsEach

\* What is done to the elements of two sequences is done to those of both together.
LEMMA EachOfBoth ==
  ASSUME NEW Y, NEW f \in [Y -> Y], NEW s \in Seq(Y), NEW t \in Seq(Y)
  PROVE  Each(f, s \o t) = Each(f, s) \o Each(f, t)
<1>1. PICK n \in Nat, m \in Nat : n = Len(s) /\ m = Len(t)
  BY LenProperties
<1>2. PICK u : u = s \o t
  OBVIOUS
<1>3. u \in Seq(Y) /\ Len(u) = n + m /\ \A i \in 1..(n + m) : u[i] = IF i <= n THEN s[i] ELSE t[i - n]
  BY <1>1, <1>2, ConcatProperties
<1>4. PICK a, b, c : a = Each(f, s) /\ b = Each(f, t) /\ c = Each(f, u)
  OBVIOUS
<1>5. a \in Seq(Y) /\ Len(a) = n /\ \A i \in 1..n : a[i] = f[s[i]]
  <2>1. s \in Seq(Y)
    BY <1>1
  <2>2. IsEach(Each(f, s), f, s, Y)
    BY ONLY <2>1, f \in [Y -> Y], EachFacts
  <2> QED
    BY ONLY <1>1, <1>4, <2>2 DEF IsEach
<1>6. b \in Seq(Y) /\ Len(b) = m /\ \A i \in 1..m : b[i] = f[t[i]]
  <2>1. t \in Seq(Y)
    BY <1>1
  <2>2. IsEach(Each(f, t), f, t, Y)
    BY ONLY <2>1, f \in [Y -> Y], EachFacts
  <2> QED
    BY ONLY <1>1, <1>4, <2>2 DEF IsEach
<1>7. c \in Seq(Y) /\ Len(c) = n + m /\ \A i \in 1..(n + m) : c[i] = f[u[i]]
  <2>1. u \in Seq(Y)
    BY <1>3
  <2>2. IsEach(Each(f, u), f, u, Y)
    BY ONLY <2>1, f \in [Y -> Y], EachFacts
  <2> QED
    BY ONLY <1>3, <1>4, <2>2 DEF IsEach
<1>8. PICK d : d = a \o b
  OBVIOUS
<1>9. d \in Seq(Y) /\ Len(d) = n + m /\ \A i \in 1..(n + m) : d[i] = IF i <= n THEN a[i] ELSE b[i - n]
  <2>1. a \in Seq(Y)
    BY <1>5
  <2>2. b \in Seq(Y)
    BY <1>6
  <2>3. /\ d \in Seq(Y)
        /\ Len(d) = Len(a) + Len(b)
        /\ \A i \in 1..(Len(a) + Len(b)) : d[i] = IF i <= Len(a) THEN a[i] ELSE b[i - Len(a)]
    BY ONLY <2>1, <2>2, <1>8, ConcatProperties
  <2> QED
    BY ONLY <1>5, <1>6, <2>3
<1>10. \A i \in 1..(n + m) : c[i] = d[i]
  <2> SUFFICES ASSUME NEW i \in 1..(n + m) PROVE c[i] = d[i]
    OBVIOUS
  <2>1. CASE i <= n
    <3>1. i \in 1..n
      BY <2>1
    <3>2. c[i] = f[s[i]] /\ d[i] = a[i]
      BY <1>3, <1>7, <1>9, <2>1
    <3> QED
      BY <1>5, <3>1, <3>2
  <2>2. CASE ~(i <= n)
    <3>1. i - n \in 1..m
      BY <2>2
    <3>2. c[i] = f[t[i - n]] /\ d[i] = b[i - n]
      BY <1>3, <1>7, <1>9, <2>2
    <3> QED
      BY <1>6, <3>1, <3>2
  <2> QED
    BY <2>1, <2>2
<1>11. c = d
  BY <1>7, <1>9, <1>10, SeqEqual
<1> QED
  BY <1>2, <1>4, <1>8, <1>11

\* What is done to the parts of a sequence of sequences.
EachPart(parts, f, seqs) ==
  Len(parts) = Len(seqs) /\ \A i \in 1..Len(seqs) : parts[i] = Each(f, seqs[i])

\* What is put together is a sequence, and what is put together of changed parts
\* is what was put together, changed.
LEMMA FlattenEach ==
  ASSUME NEW Y, NEW seqs \in Seq(Seq(Y)), NEW f \in [Y -> Y],
         NEW parts \in Seq(Seq(Y)), EachPart(parts, f, seqs)
  PROVE  FlattenSeq(parts) = Each(f, FlattenSeq(seqs)) /\ FlattenSeq(seqs) \in Seq(Y)
<1>1. PICK n \in Nat : n = Len(seqs)
  BY LenProperties
<1>2. PICK g : PutTogether(g, seqs, Y) /\ FlattenSeq(seqs) = g[Len(seqs)]
  BY FlattenAlong
<1>3. PICK h : PutTogether(h, parts, Y) /\ FlattenSeq(parts) = h[Len(parts)]
  BY FlattenAlong
<1>4. g \in [0..n -> Seq(Y)] /\ g[0] = <<>> /\ \A i \in 1..n : g[i] = g[i - 1] \o seqs[i]
  BY <1>1, <1>2 DEF PutTogether
<1>5. h[0] = <<>> /\ \A i \in 1..n : h[i] = h[i - 1] \o parts[i]
  BY <1>1, <1>3 DEF PutTogether, EachPart
<1>6. \A i \in 1..n : seqs[i] \in Seq(Y) /\ parts[i] = Each(f, seqs[i])
  BY <1>1, ElementOfSeq DEF EachPart
<1> DEFINE S == {k \in Nat : k <= n => h[k] = Each(f, g[k])}
<1>7. 0 \in S
  <2>1. <<>> \in Seq(Y) /\ Len(<<>>) = 0
    BY EmptySeq
  <2>2. IsEach(Each(f, <<>>), f, <<>>, Y)
    BY ONLY <2>1, f \in [Y -> Y], EachFacts
  <2>3. Each(f, <<>>) = <<>>
    BY <2>1, <2>2, EmptySeq DEF IsEach
  <2> QED
    BY <1>4, <1>5, <2>3
<1>8. ASSUME NEW k \in Nat, k \in S PROVE k + 1 \in S
  <2> SUFFICES ASSUME k + 1 <= n PROVE h[k + 1] = Each(f, g[k + 1])
    BY k + 1 \in Nat
  <2>1. k + 1 \in 1..n /\ (k + 1) - 1 = k /\ k \in 0..n /\ k <= n
    OBVIOUS
  <2>2. g[k + 1] = g[(k + 1) - 1] \o seqs[k + 1]
    BY ONLY <1>4, <2>1
  <2>3. h[k + 1] = h[(k + 1) - 1] \o parts[k + 1]
    BY ONLY <1>5, <2>1
  <2>4. PICK a, b : a = g[k] /\ b = seqs[k + 1]
    OBVIOUS
  <2>5. a \in Seq(Y)
    BY <1>4, <2>1, <2>4
  <2>6. b \in Seq(Y)
    BY <1>6, <2>1, <2>4
  <2>7. Each(f, a \o b) = Each(f, a) \o Each(f, b)
    BY ONLY <2>5, <2>6, f \in [Y -> Y], EachOfBoth
  <2>8. h[k] = Each(f, a) /\ parts[k + 1] = Each(f, b)
    BY <1>6, <1>8, <2>1, <2>4
  <2> QED
    BY ONLY <2>1, <2>2, <2>3, <2>4, <2>7, <2>8
<1>9. Nat \subseteq S
  <2> HIDE DEF S
  <2> QED
    BY <1>7, <1>8, Induction
<1>10. h[n] = Each(f, g[n])
  BY <1>9
<1>11. g[n] \in Seq(Y)
  BY <1>4
<1> QED
  BY <1>1, <1>2, <1>3, <1>10, <1>11 DEF EachPart

\* What stands in a part stands in what is put together.
LEMMA FlattenHas ==
  ASSUME NEW Y, NEW seqs \in Seq(Seq(Y)), NEW i \in 1..Len(seqs), NEW j \in 1..Len(seqs[i])
  PROVE  \E m \in 1..Len(FlattenSeq(seqs)) : FlattenSeq(seqs)[m] = seqs[i][j]
<1>1. PICK n \in Nat : n = Len(seqs)
  BY LenProperties
<1>2. PICK g : PutTogether(g, seqs, Y) /\ FlattenSeq(seqs) = g[Len(seqs)]
  BY FlattenAlong
<1>4. g \in [0..n -> Seq(Y)] /\ \A m \in 1..n : g[m] = g[m - 1] \o seqs[m]
  BY <1>1, <1>2 DEF PutTogether
<1>5. \A m \in 1..n : seqs[m] \in Seq(Y)
  BY <1>1, ElementOfSeq
<1> DEFINE S == {k \in Nat : i <= k /\ k <= n => \E m \in 1..Len(g[k]) : g[k][m] = seqs[i][j]}
<1>6. 0 \in S
  OBVIOUS
<1>7. ASSUME NEW k \in Nat, k \in S PROVE k + 1 \in S
  <2> SUFFICES ASSUME i <= k + 1, k + 1 <= n
               PROVE  \E m \in 1..Len(g[k + 1]) : g[k + 1][m] = seqs[i][j]
    BY k + 1 \in Nat
  <2>1. k + 1 \in 1..n /\ (k + 1) - 1 = k /\ k \in 0..n /\ k <= n
    OBVIOUS
  <2>2. g[k + 1] = g[(k + 1) - 1] \o seqs[k + 1]
    BY ONLY <1>4, <2>1
  <2>3. PICK a, b, c : a = g[k] /\ b = seqs[k + 1] /\ c = g[k + 1]
    OBVIOUS
  <2>4. a \in Seq(Y)
    BY <1>4, <2>1, <2>3
  <2>5. b \in Seq(Y)
    BY <1>5, <2>1, <2>3
  <2>6. c = a \o b
    BY <2>1, <2>2, <2>3
  <2>7. /\ Len(c) = Len(a) + Len(b)
        /\ \A m \in 1..(Len(a) + Len(b)) : c[m] = IF m <= Len(a) THEN a[m] ELSE b[m - Len(a)]
    BY ONLY <2>4, <2>5, <2>6, ConcatProperties
  <2>8. PICK la \in Nat, lb \in Nat : la = Len(a) /\ lb = Len(b)
    BY <2>4, <2>5, LenProperties
  <2>9. Len(c) = la + lb /\ \A m \in 1..(la + lb) : c[m] = IF m <= la THEN a[m] ELSE b[m - la]
    BY ONLY <2>7, <2>8
  <2>10. CASE i <= k
    <3>1. PICK m \in 1..la : a[m] = seqs[i][j]
      BY <1>7, <2>1, <2>3, <2>8, <2>10
    <3>2. m \in 1..(la + lb) /\ m <= la
      OBVIOUS
    <3>3. c[m] = a[m]
      BY ONLY <2>9, <3>2
    <3> QED
      BY <2>3, <2>9, <3>1, <3>2, <3>3
  <2>11. CASE i = k + 1
    <3>1. j \in 1..lb /\ b[j] = seqs[i][j]
      BY <2>3, <2>8, <2>11
    <3>2. PICK m \in Nat : m = la + j
      BY <3>1
    <3>3. m \in 1..(la + lb) /\ ~(m <= la) /\ m - la = j
      BY <3>1, <3>2
    <3>4. c[m] = b[j]
      BY ONLY <2>9, <3>3
    <3> QED
      BY <2>3, <2>9, <3>1, <3>3, <3>4
  <2> QED
    BY <2>10, <2>11
<1>8. Nat \subseteq S
  <2> HIDE DEF S
  <2> QED
    BY <1>6, <1>7, Induction
<1>9. \E m \in 1..Len(g[n]) : g[n][m] = seqs[i][j]
  <2>1. i <= n
    BY <1>1
  <2> QED
    BY <1>8, <2>1
<1> QED
  BY <1>1, <1>2, <1>9

\* Single elements put together are the sequence they were taken from.
LEMMA FlattenSingles ==
  ASSUME NEW Y, NEW t \in Seq(Y)
  PROVE  FlattenSeq([i \in 1..Len(t) |-> <<t[i]>>]) = t
<1>1. PICK n \in Nat : n = Len(t)
  BY LenProperties
<1>2. \A i \in 1..n : t[i] \in Y
  BY <1>1, ElementOfSeq
<1>3. PICK seqs : seqs = [i \in 1..n |-> <<t[i]>>]
  OBVIOUS
<1>4. seqs \in Seq(Seq(Y)) /\ Len(seqs) = n /\ \A i \in 1..n : seqs[i] = <<t[i]>>
  <2>1. \A i \in 1..n : <<t[i]>> \in Seq(Y)
    BY <1>2
  <2>2. seqs \in [1..n -> Seq(Y)]
    BY <1>3, <2>1
  <2>3. seqs \in Seq(Seq(Y)) /\ Len(seqs) = n
    BY <2>2, SeqDef, LenProperties
  <2> QED
    BY <1>3, <2>3
<1>5. PICK g : PutTogether(g, seqs, Y) /\ FlattenSeq(seqs) = g[Len(seqs)]
  BY <1>4, FlattenAlong
<1>6. g[0] = <<>> /\ \A i \in 1..n : g[i] = g[i - 1] \o seqs[i]
  BY <1>4, <1>5 DEF PutTogether
<1> DEFINE S == {k \in Nat : k <= n => g[k] = SubSeq(t, 1, k)}
<1>7. 0 \in S
  <2>1. 0 \in 0..Len(t)
    BY <1>1
  <2>2. SubSeq(t, 1, 0) = <<>>
    BY <2>1, StartsOf
  <2> QED
    BY <1>6, <2>2
<1>8. ASSUME NEW k \in Nat, k \in S PROVE k + 1 \in S
  <2> SUFFICES ASSUME k + 1 <= n PROVE g[k + 1] = SubSeq(t, 1, k + 1)
    BY k + 1 \in Nat
  <2>1. k + 1 \in 1..n /\ (k + 1) - 1 = k /\ k <= n
    OBVIOUS
  <2>2. g[k + 1] = g[(k + 1) - 1] \o seqs[k + 1]
    BY ONLY <1>6, <2>1
  <2>3. k \in 0..Len(t) /\ k + 1 \in 0..Len(t) /\ k + 1 # 0
    BY <1>1
  <2>4. PICK m \in 0..Len(t) : m = k + 1
    BY <2>3
  <2>5. SubSeq(t, 1, m) = Append(SubSeq(t, 1, m - 1), t[m])
    BY <2>3, <2>4, StartsOf
  <2>6. PICK s : s = SubSeq(t, 1, k)
    OBVIOUS
  <2>7. s \in Seq(Y)
    BY <2>3, <2>6, StartsOf
  <2>8. t[k + 1] \in Y
    BY <1>2, <2>1
  <2>9. Append(s, t[k + 1]) = s \o <<t[k + 1]>>
    BY ONLY <2>7, <2>8, AppendIsConcat
  <2>10. g[k] = s
    BY <1>8, <2>1, <2>6
  <2>11. seqs[k + 1] = <<t[k + 1]>>
    BY <1>4, <2>1
  <2> QED
    BY ONLY <2>1, <2>2, <2>4, <2>5, <2>6, <2>9, <2>10, <2>11
<1>9. Nat \subseteq S
  <2> HIDE DEF S
  <2> QED
    BY <1>7, <1>8, Induction
<1>10. g[n] = SubSeq(t, 1, n)
  BY <1>9
<1>11. SubSeq(t, 1, n) = t
  <2>1. n \in 0..Len(t)
    BY <1>1
  <2>2. PICK s : s = SubSeq(t, 1, n)
    OBVIOUS
  <2>3. s \in Seq(Y) /\ Len(s) = n /\ \A j \in 1..n : s[j] = t[j]
    BY <2>1, <2>2, StartsOf
  <2> QED
    BY <1>1, <2>2, <2>3, SeqEqual
<1> QED
  BY <1>1, <1>3, <1>4, <1>5, <1>10, <1>11

\* The bodies that hold no others: a text, or a number, a truth value or nothing.
StringBodies == [kind : {"string"}, text : Texts]
OtherBodies == [kind : {"other"}]
\* The bodies that hold others.
Holding(inner) == [kind : {"array", "object"}, items : Seq(inner)]

\* The bodies by the depth they are nested to.
LEMMA BodiesByDepth ==
  \A d \in 0..MaxNesting :
    Bodies[d] = StringBodies \cup OtherBodies \cup
                  IF d = 0 THEN {} ELSE Holding(Bodies[d - 1])
<1> DEFINE Leaves == StringBodies \cup OtherBodies
           Eq(f, k) == f = [d \in 0..k |-> Leaves \cup IF d = 0 THEN {} ELSE Holding(f[d - 1])]
           all == CHOOSE f : Eq(f, MaxNesting)
<1>1. Bodies = all
  BY DEF Bodies, StringBodies, OtherBodies, Holding
<1> DEFINE S == {k \in Nat : \E f : Eq(f, k)}
<1>2. 0 \in S
  <2> DEFINE f == [d \in 0..0 |-> Leaves]
  <2> HIDE DEF Leaves
  <2>1. f = [d \in 0..0 |-> Leaves \cup IF d = 0 THEN {} ELSE Holding(f[d - 1])]
    BY SMT
  <2> QED
    BY <2>1
<1>3. ASSUME NEW k \in Nat, k \in S PROVE k + 1 \in S
  <2> HIDE DEF Leaves
  <2>1. PICK f : Eq(f, k)
    BY <1>3
  <2>2. \A d \in 0..k : f[d] = Leaves \cup IF d = 0 THEN {} ELSE Holding(f[d - 1])
    BY <2>1
  <2> DEFINE h == [d \in 0..(k + 1) |-> IF d = k + 1 THEN Leaves \cup Holding(f[k]) ELSE f[d]]
  <2>3. ASSUME NEW d \in 0..(k + 1)
        PROVE  h[d] = Leaves \cup IF d = 0 THEN {} ELSE Holding(h[d - 1])
    <3>1. CASE d = k + 1
      <4>1. h[d] = Leaves \cup Holding(f[k])
        BY <3>1
      <4>2. d # 0 /\ d - 1 = k /\ k \in 0..(k + 1) /\ k # k + 1
        BY <3>1
      <4>3. h[d - 1] = f[k]
        BY <4>2
      <4> QED
        BY <4>1, <4>2, <4>3
    <3>2. CASE d # k + 1
      <4>1. d \in 0..k
        BY <3>2
      <4>2. h[d] = f[d]
        BY <3>2
      <4>3. d # 0 => h[d - 1] = f[d - 1]
        BY <4>1
      <4> HIDE DEF h
      <4> QED
        BY <2>2, <4>1, <4>2, <4>3
    <3> QED
      BY <3>1, <3>2
  <2>4. h = [d \in 0..(k + 1) |-> h[d]]
    OBVIOUS
  <2>5. Eq(h, k + 1)
    <3> HIDE DEF h
    <3> QED
      BY <2>3, <2>4
  <2>6. k + 1 \in Nat
    OBVIOUS
  <2> HIDE DEF Eq, h
  <2> QED
    BY <2>5, <2>6
<1>4. Nat \subseteq S
  <2> HIDE DEF S
  <2> QED
    BY <1>2, <1>3, Induction
<1>5. Eq(all, MaxNesting)
  <2>1. \E f : Eq(f, MaxNesting)
    BY <1>4, NestingIsBounded
  <2> HIDE DEF Eq
  <2> QED
    BY <2>1
<1> HIDE DEF all
<1> QED
  BY <1>1, <1>5

\* What a body of some depth is.
LEMMA BodyIs ==
  ASSUME NEW d \in 0..MaxNesting, NEW v \in Bodies[d]
  PROVE  \/ v \in StringBodies /\ v.kind = "string" /\ v.text \in Texts /\ Items(v) = {}
         \/ v \in OtherBodies /\ v.kind = "other" /\ Items(v) = {}
         \/ /\ d # 0
            /\ d - 1 \in 0..MaxNesting
            /\ v \in Holding(Bodies[d - 1])
            /\ v.kind \in {"array", "object"}
            /\ v.items \in Seq(Bodies[d - 1])
            /\ Items(v) = {v.items[i] : i \in DOMAIN v.items}
            /\ Items(v) \subseteq Bodies[d - 1]
<1>1. \/ v \in StringBodies
      \/ v \in OtherBodies
      \/ d # 0 /\ v \in Holding(Bodies[d - 1])
  BY BodiesByDepth
<1>2. CASE v \in StringBodies
  <2>1. v.kind = "string" /\ v.text \in Texts
    BY <1>2 DEF StringBodies
  <2>2. Items(v) = {}
    BY <2>1 DEF Items
  <2> QED
    BY <1>2, <2>1, <2>2
<1>3. CASE v \in OtherBodies
  <2>1. v.kind = "other"
    BY <1>3 DEF OtherBodies
  <2>2. Items(v) = {}
    BY <2>1 DEF Items
  <2> QED
    BY <1>3, <2>1, <2>2
<1>4. CASE d # 0 /\ v \in Holding(Bodies[d - 1])
  <2>1. v.kind \in {"array", "object"} /\ v.items \in Seq(Bodies[d - 1])
    BY <1>4 DEF Holding
  <2>2. d - 1 \in 0..MaxNesting
    BY <1>4, NestingIsBounded
  <2>3. Items(v) = {v.items[i] : i \in DOMAIN v.items}
    BY <2>1 DEF Items, ToSet
  <2>4. \A i \in DOMAIN v.items : v.items[i] \in Bodies[d - 1]
    BY <2>1, LenProperties, ElementOfSeq
  <2> QED
    BY <1>4, <2>1, <2>2, <2>3, <2>4
<1> QED
  BY <1>1, <1>2, <1>3, <1>4

\* What may be nested to some depth may be nested deeper.
LEMMA BodiesGrow ==
  /\ \A d \in 0..MaxNesting : d # 0 => Bodies[d - 1] \subseteq Bodies[d]
  /\ \A d \in 0..MaxNesting : Bodies[d] \subseteq Bodies[MaxNesting]
<1>1. MaxNesting \in Nat
  BY NestingIsBounded
<1> DEFINE S == {k \in Nat : k + 1 <= MaxNesting => Bodies[k] \subseteq Bodies[k + 1]}
<1>2. 0 \in S
  <2> SUFFICES ASSUME 0 + 1 <= MaxNesting PROVE Bodies[0] \subseteq Bodies[0 + 1]
    OBVIOUS
  <2>1. 0 \in 0..MaxNesting /\ 1 \in 0..MaxNesting
    BY <1>1
  <2>2. Bodies[0] = StringBodies \cup OtherBodies
    BY <2>1, BodiesByDepth
  <2>3. Bodies[1] = StringBodies \cup OtherBodies \cup Holding(Bodies[1 - 1])
    BY <2>1, BodiesByDepth
  <2> QED
    BY <2>2, <2>3
<1>3. ASSUME NEW k \in Nat, k \in S PROVE k + 1 \in S
  <2> SUFFICES ASSUME (k + 1) + 1 <= MaxNesting PROVE Bodies[k + 1] \subseteq Bodies[(k + 1) + 1]
    BY k + 1 \in Nat
  <2>1. k + 1 \in 0..MaxNesting /\ (k + 1) + 1 \in 0..MaxNesting /\ k + 1 # 0 /\ (k + 1) - 1 = k
        /\ (k + 1) + 1 # 0 /\ ((k + 1) + 1) - 1 = k + 1
    BY <1>1
  <2>2. Bodies[k + 1] = StringBodies \cup OtherBodies \cup Holding(Bodies[k])
    BY <2>1, BodiesByDepth
  <2>3. Bodies[(k + 1) + 1] = StringBodies \cup OtherBodies \cup Holding(Bodies[k + 1])
    BY <2>1, BodiesByDepth
  <2>4. Bodies[k] \subseteq Bodies[k + 1]
    BY <1>1, <1>3
  <2>5. Seq(Bodies[k]) \subseteq Seq(Bodies[k + 1])
    BY <2>4, SeqMonotonic
  <2>6. Holding(Bodies[k]) \subseteq Holding(Bodies[k + 1])
    BY <2>5 DEF Holding
  <2> QED
    BY <2>2, <2>3, <2>6
<1>4. Nat \subseteq S
  <2> HIDE DEF S
  <2> QED
    BY <1>2, <1>3, Induction
<1>5. ASSUME NEW d \in 0..MaxNesting, d # 0 PROVE Bodies[d - 1] \subseteq Bodies[d]
  <2>1. d - 1 \in Nat /\ (d - 1) + 1 = d /\ (d - 1) + 1 <= MaxNesting
    BY <1>1, <1>5
  <2> QED
    BY <1>4, <2>1
<1> DEFINE T == {k \in Nat : k <= MaxNesting => Bodies[MaxNesting - k] \subseteq Bodies[MaxNesting]}
<1>6. 0 \in T
  <2>1. MaxNesting - 0 = MaxNesting
    BY <1>1
  <2> QED
    BY <2>1
<1>7. ASSUME NEW k \in Nat, k \in T PROVE k + 1 \in T
  <2> SUFFICES ASSUME k + 1 <= MaxNesting
               PROVE  Bodies[MaxNesting - (k + 1)] \subseteq Bodies[MaxNesting]
    BY k + 1 \in Nat
  <2>1. PICK d \in 0..MaxNesting : d = MaxNesting - k
    BY <1>1
  <2>2. d # 0 /\ MaxNesting - (k + 1) = d - 1
    BY <1>1, <2>1
  <2>3. Bodies[d - 1] \subseteq Bodies[d]
    BY <1>5, <2>2
  <2>4. Bodies[d] \subseteq Bodies[MaxNesting]
    BY <1>1, <1>7, <2>1
  <2> QED
    BY <2>2, <2>3, <2>4
<1>8. Nat \subseteq T
  <2> HIDE DEF T
  <2> QED
    BY <1>6, <1>7, Induction
<1>9. ASSUME NEW d \in 0..MaxNesting PROVE Bodies[d] \subseteq Bodies[MaxNesting]
  <2>1. PICK k \in Nat : k = MaxNesting - d
    BY <1>1
  <2>2. k <= MaxNesting /\ MaxNesting - k = d
    BY <1>1, <2>1
  <2> QED
    BY <1>8, <2>2
<1> QED
  BY <1>5, <1>9

\* A set of bodies with all that they hold.
WithInner(W) == W \subseteq Bodies[MaxNesting] /\ \A v \in W : Items(v) \subseteq W

\* A value and all the values in it are such a set.
LEMMA WithinIsWhole ==
  ASSUME NEW value \in Bodies[MaxNesting]
  PROVE  value \in Within(value) /\ WithInner(Within(value))
<1>1. MaxNesting \in Nat
  BY NestingIsBounded
<1> DEFINE Eq(f, k) == f = [depth \in 0..k |->
                              IF depth = 0 THEN {value}
                              ELSE f[depth - 1] \cup UNION {Items(v) : v \in f[depth - 1]}]
           within == CHOOSE f : Eq(f, MaxNesting)
<1>2. Within(value) = within[MaxNesting]
  BY DEF Within
<1> DEFINE S == {k \in Nat : \E f : Eq(f, k)}
<1>3. 0 \in S
  <2> DEFINE f == [depth \in 0..0 |-> {value}]
  <2>1. \A depth \in 0..0 :
          f[depth] = IF depth = 0 THEN {value}
                     ELSE f[depth - 1] \cup UNION {Items(v) : v \in f[depth - 1]}
    OBVIOUS
  <2>2. f = [depth \in 0..0 |-> f[depth]]
    OBVIOUS
  <2> HIDE DEF f
  <2>3. Eq(f, 0)
    BY <2>1, <2>2
  <2> QED
    BY <2>3
<1>4. ASSUME NEW k \in Nat, k \in S PROVE k + 1 \in S
  <2>1. PICK f : Eq(f, k)
    BY <1>4
  <2>2. \A d \in 0..k : f[d] = IF d = 0 THEN {value}
                               ELSE f[d - 1] \cup UNION {Items(v) : v \in f[d - 1]}
    BY <2>1
  <2> DEFINE h == [d \in 0..(k + 1) |->
                     IF d = k + 1 THEN f[k] \cup UNION {Items(v) : v \in f[k]} ELSE f[d]]
  <2>3. ASSUME NEW d \in 0..(k + 1)
        PROVE  h[d] = IF d = 0 THEN {value}
                      ELSE h[d - 1] \cup UNION {Items(v) : v \in h[d - 1]}
    <3>1. CASE d = k + 1
      <4>1. h[d] = f[k] \cup UNION {Items(v) : v \in f[k]}
        BY <3>1
      <4>2. d # 0 /\ d - 1 = k /\ k \in 0..(k + 1) /\ k # k + 1
        BY <3>1
      <4>3. h[d - 1] = f[k]
        BY <4>2
      <4> HIDE DEF h
      <4> QED
        BY <4>1, <4>2, <4>3
    <3>2. CASE d # k + 1
      <4>1. d \in 0..k
        BY <3>2
      <4>2. h[d] = f[d]
        BY <3>2
      <4>3. d # 0 => h[d - 1] = f[d - 1]
        BY <4>1
      <4> HIDE DEF h
      <4> QED
        BY <2>2, <4>1, <4>2, <4>3
    <3> QED
      BY <3>1, <3>2
  <2>4. h = [d \in 0..(k + 1) |-> h[d]]
    OBVIOUS
  <2>5. Eq(h, k + 1)
    <3> HIDE DEF h
    <3> QED
      BY <2>3, <2>4
  <2>6. k + 1 \in Nat
    OBVIOUS
  <2> HIDE DEF Eq, h
  <2> QED
    BY <2>5, <2>6
<1>5. Nat \subseteq S
  <2> HIDE DEF S
  <2> QED
    BY <1>3, <1>4, Induction
<1>6. \A d \in 0..MaxNesting :
        within[d] = IF d = 0 THEN {value}
                    ELSE within[d - 1] \cup UNION {Items(v) : v \in within[d - 1]}
  <2>1. Eq(within, MaxNesting)
    <3>1. \E f : Eq(f, MaxNesting)
      BY <1>1, <1>5
    <3> HIDE DEF Eq
    <3> QED
      BY <3>1
  <2> HIDE DEF within
  <2> QED
    BY <2>1
<1> HIDE DEF within, S, Eq
\* After d levels what is new is so much less deep, and what is not has been opened.
<1> DEFINE Level(d) == /\ value \in within[d]
                       /\ within[d] \subseteq Bodies[MaxNesting]
                       /\ \A v \in within[d] : v \in Bodies[MaxNesting - d] \/ Items(v) \subseteq within[d]
           T == {k \in Nat : k <= MaxNesting => Level(k)}
<1>7. 0 \in T
  <2>1. within[0] = {value}
    <3>1. 0 \in 0..MaxNesting
      BY <1>1
    <3> QED
      BY ONLY <1>6, <3>1
  <2>2. MaxNesting - 0 = MaxNesting
    BY <1>1
  <2> QED
    BY <2>1, <2>2
<1>8. ASSUME NEW k \in Nat, k \in T PROVE k + 1 \in T
  <2> SUFFICES ASSUME k + 1 <= MaxNesting PROVE Level(k + 1)
    BY k + 1 \in Nat
  <2>1. k + 1 \in 0..MaxNesting /\ k + 1 # 0 /\ (k + 1) - 1 = k /\ k <= MaxNesting
    BY <1>1
  <2>2. within[k + 1] = within[k] \cup UNION {Items(v) : v \in within[k]}
    BY ONLY <1>6, <2>1
  <2>3. Level(k)
    BY <1>8, <2>1
  <2>4. PICK d \in 0..MaxNesting : d = MaxNesting - k
    BY <1>1, <2>1
  <2>5. d # 0 /\ MaxNesting - (k + 1) = d - 1 /\ d - 1 \in 0..MaxNesting
    BY <1>1, <2>1, <2>4
  <2>6. \A v \in within[k] : Items(v) \subseteq within[k + 1]
    BY <2>2
  <2>7. ASSUME NEW v \in within[k], NEW w \in Items(v), w \notin within[k]
        PROVE  w \in Bodies[d - 1]
    <3>1. v \in Bodies[d]
      BY <2>3, <2>4, <2>7
    <3>2. Items(v) \subseteq Bodies[d - 1]
      <4>1. Items(v) # {}
        BY <2>7
      <4> QED
        BY ONLY <3>1, <4>1, d \in 0..MaxNesting, BodyIs
    <3> QED
      BY <3>2
  <2>8. Bodies[d - 1] \subseteq Bodies[MaxNesting]
    BY <2>5, BodiesGrow
  <2>9. within[k + 1] \subseteq Bodies[MaxNesting]
    BY <2>2, <2>3, <2>7, <2>8
  <2>10. ASSUME NEW v \in within[k + 1]
         PROVE  v \in Bodies[d - 1] \/ Items(v) \subseteq within[k + 1]
    <3>1. CASE v \in within[k]
      BY <2>6, <3>1
    <3>2. CASE v \notin within[k]
      <4>1. PICK u \in within[k] : v \in Items(u)
        BY <2>2, <3>2
      <4> QED
        BY <2>7, <3>2, <4>1
    <3> QED
      BY <3>1, <3>2
  <2> QED
    BY <2>2, <2>3, <2>5, <2>9, <2>10
<1>9. Nat \subseteq T
  <2> HIDE DEF T
  <2> QED
    BY <1>7, <1>8, Induction
<1>10. Level(MaxNesting)
  BY <1>1, <1>9
<1>11. \A v \in within[MaxNesting] : Items(v) \subseteq within[MaxNesting]
  <2> SUFFICES ASSUME NEW v \in within[MaxNesting], v \in Bodies[MaxNesting - MaxNesting]
               PROVE  Items(v) = {}
    BY <1>10
  <2>1. MaxNesting - MaxNesting = 0 /\ 0 \in 0..MaxNesting
    BY <1>1
  <2>2. PICK d \in 0..MaxNesting : d = 0
    BY <2>1
  <2>3. v \in Bodies[d]
    BY <2>1, <2>2
  <2> QED
    BY ONLY <2>2, <2>3, BodyIs
<1> QED
  BY <1>2, <1>10, <1>11 DEF WithInner

\* The texts of a value and what is made of it, given those of the values in it.
TextsFrom(g, v) ==
  IF v.kind = "string" THEN <<v.text>>
  ELSE IF v.kind = "other" THEN <<>>
  ELSE FlattenSeq([i \in DOMAIN v.items |-> g[v.items[i]]])
CleanFrom(g, v) ==
  IF v.kind = "string" THEN [v EXCEPT !.text = DetectAndSanitize(@)]
  ELSE IF v.kind = "other" THEN v
  ELSE [v EXCEPT !.items = [i \in DOMAIN v.items |-> g[v.items[i]]]]

\* g tells for all values of a set what is asked for: the texts or the clean body.
MadeFrom(what, g, v) == IF what = "texts" THEN TextsFrom(g, v) ELSE CleanFrom(g, v)
MadeOf(what, g, W) == g = [v \in W |-> MadeFrom(what, g, v)]
MadeOfAll(what) == CHOOSE g : MadeOf(what, g, Bodies[MaxNesting])

\* They depend on nothing but those values.
LEMMA SameInside ==
  ASSUME NEW d \in 0..MaxNesting, NEW v \in Bodies[d], NEW g, NEW h,
         \A w \in Items(v) : g[w] = h[w], NEW what
  PROVE  MadeFrom(what, g, v) = MadeFrom(what, h, v)
<1>1. CASE v.kind \in {"array", "object"}
  <2>1. Items(v) = {v.items[i] : i \in DOMAIN v.items}
    BY <1>1, BodyIs
  <2>2. \A i \in DOMAIN v.items : g[v.items[i]] = h[v.items[i]]
    BY <2>1
  <2>3. [i \in DOMAIN v.items |-> g[v.items[i]]] = [i \in DOMAIN v.items |-> h[v.items[i]]]
    BY <2>2
  <2>4. v.kind # "string" /\ v.kind # "other"
    BY <1>1
  <2> QED
    BY <1>1, <2>3, <2>4 DEF TextsFrom, CleanFrom, MadeFrom
<1>2. CASE v.kind \notin {"array", "object"}
  <2>1. v.kind \in {"string", "other"}
    BY <1>2, BodyIs
  <2> QED
    BY <2>1 DEF TextsFrom, CleanFrom, MadeFrom
<1> QED
  BY <1>1, <1>2

\* There is one who tells it for all bodies, and who tells it for some of them,
\* with all that they hold, tells the same.
LEMMA MadeOnce ==
  ASSUME NEW what
  PROVE  /\ MadeOf(what, MadeOfAll(what), Bodies[MaxNesting])
         /\ \A W : WithInner(W) =>
              /\ \E g : MadeOf(what, g, W)
              /\ \A g : MadeOf(what, g, W) => \A v \in W : g[v] = MadeOfAll(what)[v]
<1>1. MaxNesting \in Nat
  BY NestingIsBounded
<1> DEFINE S == {k \in Nat : k <= MaxNesting => \E g : MadeOf(what, g, Bodies[k])}
<1>2. 0 \in S
  <2> DEFINE g == [v \in Bodies[0] |-> MadeFrom(what, <<>>, v)]
  <2>1. PICK d \in 0..MaxNesting : d = 0
    BY <1>1
  <2>2. ASSUME NEW v \in Bodies[0] PROVE g[v] = MadeFrom(what, g, v)
    <3>1. v \in Bodies[d]
      BY <2>1
    <3>2. Items(v) = {}
      BY ONLY <2>1, <3>1, BodyIs
    <3>3. PICK h, e : h = g /\ e = <<>>
      OBVIOUS
    <3>4. MadeFrom(what, h, v) = MadeFrom(what, e, v)
      BY ONLY <3>1, <3>2, d \in 0..MaxNesting, SameInside
    <3> QED
      BY <3>3, <3>4
  <2>3. g = [v \in Bodies[0] |-> g[v]]
    OBVIOUS
  <2> HIDE DEF g
  <2>4. MadeOf(what, g, Bodies[0])
    BY <2>2, <2>3 DEF MadeOf
  <2> QED
    BY <2>4
<1>3. ASSUME NEW k \in Nat, k \in S PROVE k + 1 \in S
  <2> SUFFICES ASSUME k + 1 <= MaxNesting PROVE \E g : MadeOf(what, g, Bodies[k + 1])
    BY k + 1 \in Nat
  <2>1. PICK d \in 0..MaxNesting : d = k + 1
    BY <1>1
  <2>2. d # 0 /\ d - 1 = k /\ k <= MaxNesting /\ d - 1 \in 0..MaxNesting
    BY <1>1, <2>1
  <2>3. PICK g : MadeOf(what, g, Bodies[k])
    BY <1>3, <2>2
  <2>4. \A v \in Bodies[k] : g[v] = MadeFrom(what, g, v)
    BY <2>3 DEF MadeOf
  <2>5. Bodies[k] \subseteq Bodies[d]
    BY <2>2, BodiesGrow
  <2> DEFINE h == [v \in Bodies[d] |-> MadeFrom(what, g, v)]
  <2>6. \A w \in Bodies[k] : h[w] = g[w]
    BY <2>4, <2>5
  <2>7. ASSUME NEW v \in Bodies[d] PROVE h[v] = MadeFrom(what, h, v)
    <3>1. h[v] = MadeFrom(what, g, v)
      OBVIOUS
    <3>2. Items(v) \subseteq Bodies[k]
      BY ONLY <2>2, v \in Bodies[d], d \in 0..MaxNesting, BodyIs
    <3>3. PICK f : f = h
      OBVIOUS
    <3>4. \A w \in Items(v) : f[w] = g[w]
      BY <2>6, <3>2, <3>3
    <3>5. MadeFrom(what, f, v) = MadeFrom(what, g, v)
      BY ONLY <3>4, d \in 0..MaxNesting, v \in Bodies[d], SameInside
    <3> QED
      BY <3>1, <3>3, <3>5
  <2>8. h = [v \in Bodies[d] |-> h[v]]
    OBVIOUS
  <2> HIDE DEF h
  <2>9. MadeOf(what, h, Bodies[d])
    BY <2>7, <2>8 DEF MadeOf
  <2> QED
    BY <2>1, <2>9
<1>4. Nat \subseteq S
  <2> HIDE DEF S
  <2> QED
    BY <1>2, <1>3, Induction
<1>5. MadeOf(what, MadeOfAll(what), Bodies[MaxNesting])
  <2>1. \E g : MadeOf(what, g, Bodies[MaxNesting])
    BY <1>1, <1>4
  <2> QED
    BY <2>1 DEF MadeOfAll
<1>6. PICK all : all = MadeOfAll(what)
  OBVIOUS
<1>7. \A v \in Bodies[MaxNesting] : all[v] = MadeFrom(what, all, v)
  BY <1>5, <1>6 DEF MadeOf
<1>8. MaxNesting \in 0..MaxNesting
  BY <1>1
<1>9. ASSUME NEW W, WithInner(W) PROVE \E g : MadeOf(what, g, W)
  <2>1. W \subseteq Bodies[MaxNesting] /\ \A v \in W : Items(v) \subseteq W
    BY <1>9 DEF WithInner
  <2> DEFINE g == [v \in W |-> all[v]]
  <2>2. ASSUME NEW v \in W PROVE g[v] = MadeFrom(what, g, v)
    <3>1. v \in Bodies[MaxNesting]
      BY <2>1
    <3>2. PICK f : f = g
      OBVIOUS
    <3>3. \A w \in Items(v) : f[w] = all[w]
      BY <2>1, <3>2
    <3>4. MadeFrom(what, f, v) = MadeFrom(what, all, v)
      BY ONLY <1>8, <3>1, <3>3, SameInside
    <3>5. g[v] = all[v]
      OBVIOUS
    <3> QED
      BY <1>7, <3>1, <3>2, <3>4, <3>5
  <2>3. g = [v \in W |-> g[v]]
    OBVIOUS
  <2> HIDE DEF g
  <2>4. MadeOf(what, g, W)
    BY <2>2, <2>3 DEF MadeOf
  <2> QED
    BY <2>4
<1>10. ASSUME NEW W, WithInner(W), NEW g, MadeOf(what, g, W)
       PROVE  \A v \in W : g[v] = all[v]
  <2>1. W \subseteq Bodies[MaxNesting] /\ \A v \in W : Items(v) \subseteq W
    BY <1>10 DEF WithInner
  <2>2. \A v \in W : g[v] = MadeFrom(what, g, v)
    BY <1>10 DEF MadeOf
  <2> DEFINE T == {k \in Nat : k <= MaxNesting => \A v \in W : v \in Bodies[k] => g[v] = all[v]}
  <2>3. ASSUME NEW d \in 0..MaxNesting, NEW v \in W, v \in Bodies[d],
               \A w \in Items(v) : g[w] = all[w]
        PROVE  g[v] = all[v]
    <3>1. MadeFrom(what, g, v) = MadeFrom(what, all, v)
      BY ONLY <2>3, SameInside
    <3>2. v \in Bodies[MaxNesting]
      BY <2>1
    <3> QED
      BY <1>7, <2>2, <3>1, <3>2
  <2>4. 0 \in T
    <3> SUFFICES ASSUME NEW v \in W, v \in Bodies[0] PROVE g[v] = all[v]
      OBVIOUS
    <3>1. PICK d \in 0..MaxNesting : d = 0
      BY <1>1
    <3>2. v \in Bodies[d]
      BY <3>1
    <3>3. Items(v) = {}
      BY ONLY <3>1, <3>2, BodyIs
    <3> QED
      BY <2>3, <3>2, <3>3
  <2>5. ASSUME NEW k \in Nat, k \in T PROVE k + 1 \in T
    <3> SUFFICES ASSUME k + 1 <= MaxNesting, NEW v \in W, v \in Bodies[k + 1]
                 PROVE  g[v] = all[v]
      BY k + 1 \in Nat
    <3>1. PICK d \in 0..MaxNesting : d = k + 1
      BY <1>1
    <3>2. d # 0 /\ d - 1 = k /\ k <= MaxNesting /\ v \in Bodies[d]
      BY <1>1, <3>1
    <3>3. Items(v) \subseteq Bodies[k]
      BY ONLY <3>2, d \in 0..MaxNesting, BodyIs
    <3>4. \A w \in Items(v) : g[w] = all[w]
      BY <2>1, <2>5, <3>2, <3>3
    <3> QED
      BY <2>3, <3>2, <3>4
  <2>6. Nat \subseteq T
    <3> HIDE DEF T
    <3> QED
      BY <2>4, <2>5, Induction
  <2>7. \A v \in W : v \in Bodies[MaxNesting] => g[v] = all[v]
    BY <1>1, <2>6
  <2> QED
    BY <2>1, <2>7
<1> QED
  BY <1>5, <1>6, <1>9, <1>10

\* So the two layers do to a body what is done to all bodies.
LEMMA LayersMake ==
  ASSUME NEW value \in Bodies[MaxNesting]
  PROVE  /\ ExtractStrings(value) = MadeOfAll("texts")[value]
         /\ SanitizeValue(value) = MadeOfAll("clean")[value]
<1>1. value \in Within(value) /\ WithInner(Within(value))
  BY WithinIsWhole
<1> DEFINE texts == CHOOSE g : g = [v \in Within(value) |-> TextsFrom(g, v)]
           cleaned == CHOOSE g : g = [v \in Within(value) |-> CleanFrom(g, v)]
<1>3. ExtractStrings(value) = texts[value]
  BY DEF ExtractStrings, TextsFrom
<1>4. SanitizeValue(value) = cleaned[value]
  BY DEF SanitizeValue, CleanFrom
<1>5. MadeOf("texts", texts, Within(value))
  <2>1. \A g : MadeOf("texts", g, Within(value)) <=> g = [v \in Within(value) |-> TextsFrom(g, v)]
    BY DEF MadeOf, MadeFrom
  <2>2. \E g : MadeOf("texts", g, Within(value))
    BY <1>1, MadeOnce
  <2> QED
    BY <2>1, <2>2
<1>6. MadeOf("clean", cleaned, Within(value))
  <2>1. \A g : MadeOf("clean", g, Within(value)) <=> g = [v \in Within(value) |-> CleanFrom(g, v)]
    BY DEF MadeOf, MadeFrom
  <2>2. \E g : MadeOf("clean", g, Within(value))
    BY <1>1, MadeOnce
  <2> QED
    BY <2>1, <2>2
<1> HIDE DEF texts, cleaned
<1>7. texts[value] = MadeOfAll("texts")[value] /\ cleaned[value] = MadeOfAll("clean")[value]
  BY <1>1, <1>5, <1>6, MadeOnce
<1> QED
  BY <1>3, <1>4, <1>7

\* The texts of a body and the clean body, and what is made of a text, as a function.
TextsOf(v) == MadeOfAll("texts")[v]
CleanOf(v) == MadeOfAll("clean")[v]
Sanitized == [t \in Texts |-> DetectAndSanitize(t)]

\* What is done to a text leaves a text, nothing is done to one without a bracket,
\* and a bracket is left in rich text only.
LEMMA SanitizedTexts ==
  /\ Sanitized \in [Texts -> Texts]
  /\ \A t \in Texts : ~t.bracket => DetectAndSanitize(t) = t
  /\ \A t \in Texts : DetectAndSanitize(t).bracket => DetectAndSanitize(t).done = "rich"
<1>1. ASSUME NEW t \in Texts
      PROVE  /\ DetectAndSanitize(t) \in Texts
             /\ ~t.bracket => DetectAndSanitize(t) = t
             /\ DetectAndSanitize(t).bracket => DetectAndSanitize(t).done = "rich"
  <2>1. CASE ~t.bracket
    BY <2>1 DEF DetectAndSanitize
  <2>2. CASE t.bracket /\ t.dangerous
    <3>1. DetectAndSanitize(t) = [t EXCEPT !.done = "plain", !.bracket = FALSE,
                                           !.dangerous = FALSE, !.rich = FALSE]
      BY <2>2 DEF DetectAndSanitize
    <3> QED
      BY <2>2, <3>1 DEF Texts
  <2>3. CASE t.bracket /\ ~t.dangerous /\ t.rich
    <3>1. DetectAndSanitize(t) = [t EXCEPT !.done = "rich"]
      BY <2>3 DEF DetectAndSanitize
    <3> QED
      BY <2>3, <3>1 DEF Texts
  <2>4. CASE t.bracket /\ ~t.dangerous /\ ~t.rich
    <3>1. DetectAndSanitize(t) = [t EXCEPT !.done = "escaped", !.bracket = FALSE]
      BY <2>4 DEF DetectAndSanitize
    <3> QED
      BY <2>4, <3>1 DEF Texts
  <2> QED
    BY <2>1, <2>2, <2>3, <2>4
<1> QED
  BY <1>1 DEF Sanitized

\* What the two layers make of a body, by its kind.
LEMMA MadeByKind ==
  ASSUME NEW v \in Bodies[MaxNesting]
  PROVE  /\ v.kind = "string" => /\ TextsOf(v) = <<v.text>>
                                 /\ CleanOf(v) = [v EXCEPT !.text = DetectAndSanitize(v.text)]
         /\ v.kind = "other" => TextsOf(v) = <<>> /\ CleanOf(v) = v
         /\ v.kind \in {"array", "object"} =>
              /\ TextsOf(v) = FlattenSeq([i \in DOMAIN v.items |-> TextsOf(v.items[i])])
              /\ CleanOf(v) = [v EXCEPT !.items = [i \in DOMAIN v.items |-> CleanOf(v.items[i])]]
<1>1. PICK g : g = MadeOfAll("texts")
  OBVIOUS
<1>2. PICK h : h = MadeOfAll("clean")
  OBVIOUS
<1>3. g[v] = TextsFrom(g, v)
  <2>1. MadeOf("texts", g, Bodies[MaxNesting])
    BY <1>1, MadeOnce
  <2> QED
    BY <2>1 DEF MadeOf, MadeFrom
<1>4. h[v] = CleanFrom(h, v)
  <2>1. MadeOf("clean", h, Bodies[MaxNesting])
    BY <1>2, MadeOnce
  <2> QED
    BY <2>1 DEF MadeOf, MadeFrom
<1>5. CASE v.kind = "string"
  BY <1>1, <1>2, <1>3, <1>4, <1>5 DEF TextsFrom, CleanFrom, TextsOf, CleanOf
<1>6. CASE v.kind = "other"
  BY <1>1, <1>2, <1>3, <1>4, <1>6 DEF TextsFrom, CleanFrom, TextsOf, CleanOf
<1>7. CASE v.kind \in {"array", "object"}
  <2>1. v.kind # "string" /\ v.kind # "other"
    BY <1>7
  <2> QED
    BY <1>1, <1>2, <1>3, <1>4, <1>7, <2>1 DEF TextsFrom, CleanFrom, TextsOf, CleanOf
<1> QED
  BY <1>5, <1>6, <1>7, BodyIs

\* What the filter does to a body it does to its texts, each in its place; it keeps
\* the depth, and a body without a bracket.
Filtered(v, d) ==
  /\ CleanOf(v) \in Bodies[d]
  /\ TextsOf(v) \in Seq(Texts)
  /\ TextsOf(CleanOf(v)) = Each(Sanitized, TextsOf(v))
  /\ (\A i \in 1..Len(TextsOf(v)) : ~TextsOf(v)[i].bracket) => CleanOf(v) = v

\* A body without others is filtered so.
LEMMA LeavesFiltered ==
  ASSUME NEW d \in 0..MaxNesting, NEW v \in Bodies[d], v.kind \in {"string", "other"}
  PROVE  Filtered(v, d)
<1>1. v \in Bodies[MaxNesting]
  BY BodiesGrow
<1>2. CASE v.kind = "string"
  <2>1. v \in StringBodies /\ v.text \in Texts
    BY <1>2, BodyIs
  <2>2. PICK t \in Texts, u \in Texts : t = v.text /\ u = DetectAndSanitize(t) /\ (~t.bracket => u = t)
    <3>1. DetectAndSanitize(v.text) \in Texts
      BY <2>1, SanitizedTexts DEF Sanitized
    <3> QED
      BY <2>1, <3>1, SanitizedTexts
  <2>3. TextsOf(v) = <<t>> /\ CleanOf(v) = [v EXCEPT !.text = u]
    BY <1>1, <1>2, <2>2, MadeByKind
  <2>4. PICK w : w = [v EXCEPT !.text = u]
    OBVIOUS
  <2>5. w \in StringBodies /\ w.kind = "string" /\ w.text = u /\ (u = t => w = v)
    BY <2>1, <2>2, <2>4 DEF StringBodies
  <2>6. w \in Bodies[d]
    BY <2>5, BodiesByDepth
  <2>7. w \in Bodies[MaxNesting]
    BY <2>6, BodiesGrow
  <2>8. TextsOf(w) = <<u>>
    BY <2>5, <2>7, MadeByKind
  <2>9. <<t>> \in Seq(Texts) /\ Len(<<t>>) = 1 /\ <<t>>[1] = t
    BY <2>2
  <2>10. Each(Sanitized, <<t>>) = <<u>>
    BY <2>2 DEF Each, Sanitized
  <2> QED
    BY <2>2, <2>3, <2>4, <2>5, <2>6, <2>8, <2>9, <2>10 DEF Filtered
<1>3. CASE v.kind = "other"
  <2>1. TextsOf(v) = <<>> /\ CleanOf(v) = v
    BY <1>1, <1>3, MadeByKind
  <2>2. <<>> \in Seq(Texts) /\ Each(Sanitized, <<>>) = <<>>
    <3>1. <<>> \in Seq(Texts)
      BY EmptySeq
    <3>2. IsEach(Each(Sanitized, <<>>), Sanitized, <<>>, Texts)
      BY <3>1, SanitizedTexts, EachFacts
    <3> QED
      BY <3>1, <3>2, EmptySeq DEF IsEach
  <2> QED
    BY <2>1, <2>2 DEF Filtered
<1> QED
  BY <1>2, <1>3

\* A body whose values are filtered so is filtered so.
LEMMA HoldingFiltered ==
  ASSUME NEW d \in 0..MaxNesting, d # 0, NEW v \in Bodies[d], v.kind \in {"array", "object"},
         \A u \in Bodies[d - 1] : Filtered(u, d - 1)
  PROVE  Filtered(v, d)
<1>1. v \in Bodies[MaxNesting]
  BY BodiesGrow
<1>2. PICK e \in 0..MaxNesting : e = d - 1
  BY NestingIsBounded
<1>3. v \in Holding(Bodies[e]) /\ v.items \in Seq(Bodies[e])
  BY <1>2, BodyIs
<1>4. PICK items \in Seq(Bodies[e]) : items = v.items
  BY <1>3
<1>5. PICK n \in Nat : n = Len(items) /\ DOMAIN items = 1..n
  BY LenProperties
<1>6. \A i \in 1..n : items[i] \in Bodies[e] /\ Filtered(items[i], e)
  BY <1>2, <1>5, ElementOfSeq
<1>7. PICK seqs : seqs = [i \in 1..n |-> TextsOf(items[i])]
  OBVIOUS
<1>8. PICK clean : clean = [i \in 1..n |-> CleanOf(items[i])]
  OBVIOUS
<1>9. TextsOf(v) = FlattenSeq(seqs) /\ CleanOf(v) = [v EXCEPT !.items = clean]
  <2>1. [i \in DOMAIN v.items |-> TextsOf(v.items[i])] = seqs
    BY <1>4, <1>5, <1>7
  <2>2. [i \in DOMAIN v.items |-> CleanOf(v.items[i])] = clean
    BY <1>4, <1>5, <1>8
  <2>3. /\ TextsOf(v) = FlattenSeq([i \in DOMAIN v.items |-> TextsOf(v.items[i])])
        /\ CleanOf(v) = [v EXCEPT !.items = [i \in DOMAIN v.items |-> CleanOf(v.items[i])]]
    BY <1>1, MadeByKind
  <2> QED
    BY ONLY <2>1, <2>2, <2>3
<1>10. seqs \in Seq(Seq(Texts)) /\ Len(seqs) = n
  <2>1. seqs \in [1..n -> Seq(Texts)]
    BY <1>6, <1>7 DEF Filtered
  <2> QED
    BY <2>1, SeqDef, LenProperties
<1>11. clean \in Seq(Bodies[e]) /\ Len(clean) = n /\ DOMAIN clean = 1..n
  <2>1. clean \in [1..n -> Bodies[e]]
    BY <1>6, <1>8 DEF Filtered
  <2> QED
    BY <2>1, SeqDef, LenProperties
<1>12. PICK w : w = [v EXCEPT !.items = clean]
  OBVIOUS
<1>13. w \in Holding(Bodies[e]) /\ w.kind \in {"array", "object"} /\ w.items = clean
  BY <1>3, <1>11, <1>12 DEF Holding
<1>14. w \in Bodies[d]
  BY <1>2, <1>13, BodiesByDepth
<1>15. w \in Bodies[MaxNesting]
  BY <1>14, BodiesGrow
<1>16. PICK parts : parts = [i \in 1..n |-> TextsOf(clean[i])]
  OBVIOUS
<1>17. TextsOf(w) = FlattenSeq(parts)
  BY <1>11, <1>13, <1>15, <1>16, MadeByKind
<1>18. \A i \in 1..n : seqs[i] \in Seq(Texts) /\ parts[i] = Each(Sanitized, seqs[i])
  BY <1>6, <1>7, <1>8, <1>16 DEF Filtered
<1>19. parts \in Seq(Seq(Texts)) /\ Len(parts) = n
  <2>1. ASSUME NEW i \in 1..n PROVE parts[i] \in Seq(Texts)
    <3>1. PICK s \in Seq(Texts) : s = seqs[i]
      BY <1>18
    <3>2. IsEach(Each(Sanitized, s), Sanitized, s, Texts)
      BY SanitizedTexts, EachFacts
    <3> QED
      BY <1>18, <3>1, <3>2 DEF IsEach
  <2>2. parts \in [1..n -> Seq(Texts)]
    BY <1>16, <2>1
  <2> QED
    BY <2>2, SeqDef, LenProperties
<1>20. FlattenSeq(parts) = Each(Sanitized, FlattenSeq(seqs)) /\ FlattenSeq(seqs) \in Seq(Texts)
  <2>3. PICK f \in [Texts -> Texts] : f = Sanitized
    BY SanitizedTexts
  <2>2. EachPart(parts, f, seqs)
    BY <1>10, <1>18, <1>19, <2>3 DEF EachPart
  <2>4. seqs \in Seq(Seq(Texts))
    BY <1>10
  <2>5. parts \in Seq(Seq(Texts))
    BY <1>19
  <2>7. FlattenSeq(parts) = Each(f, FlattenSeq(seqs)) /\ FlattenSeq(seqs) \in Seq(Texts)
    BY ONLY <2>2, <2>4, <2>5, f \in [Texts -> Texts], FlattenEach
  <2> QED
    BY ONLY <2>3, <2>7
<1>21. ASSUME \A m \in 1..Len(FlattenSeq(seqs)) : ~FlattenSeq(seqs)[m].bracket
       PROVE  w = v
  <2>1. ASSUME NEW i \in 1..n PROVE clean[i] = items[i]
    <3>1. i \in 1..Len(seqs)
      BY <1>10
    <3>2. ASSUME NEW j \in 1..Len(seqs[i]) PROVE ~seqs[i][j].bracket
      <4>1. \E m \in 1..Len(FlattenSeq(seqs)) : FlattenSeq(seqs)[m] = seqs[i][j]
        BY ONLY <1>10, <3>1, j \in 1..Len(seqs[i]), FlattenHas
      <4> QED
        BY <1>21, <4>1
    <3>3. CleanOf(items[i]) = items[i]
      BY <1>6, <1>7, <3>2 DEF Filtered
    <3> QED
      BY <1>8, <3>3
  <2>2. clean = items
    BY <1>5, <1>11, <2>1, SeqEqual
  <2> QED
    BY <1>3, <1>4, <1>12, <2>2 DEF Holding
<1> QED
  BY <1>9, <1>12, <1>14, <1>17, <1>20, <1>21 DEF Filtered

\* Every body is filtered so.
LEMMA BodiesFiltered ==
  \A v \in Bodies[MaxNesting] : Filtered(v, MaxNesting)
<1>1. MaxNesting \in Nat
  BY NestingIsBounded
<1> DEFINE S == {k \in Nat : k <= MaxNesting => \A v \in Bodies[k] : Filtered(v, k)}
<1>2. 0 \in S
  <2> SUFFICES ASSUME NEW v \in Bodies[0] PROVE Filtered(v, 0)
    OBVIOUS
  <2>1. PICK d \in 0..MaxNesting : d = 0
    BY <1>1
  <2>2. v \in Bodies[d]
    BY <2>1
  <2>3. v.kind \in {"string", "other"}
    BY ONLY <2>1, <2>2, BodyIs
  <2>4. Filtered(v, d)
    BY ONLY <2>2, <2>3, d \in 0..MaxNesting, LeavesFiltered
  <2> QED
    BY <2>1, <2>4
<1>3. ASSUME NEW k \in Nat, k \in S PROVE k + 1 \in S
  <2> SUFFICES ASSUME k + 1 <= MaxNesting, NEW v \in Bodies[k + 1] PROVE Filtered(v, k + 1)
    BY k + 1 \in Nat
  <2>1. PICK d \in 0..MaxNesting : d = k + 1
    BY <1>1
  <2>2. d # 0 /\ d - 1 = k /\ k <= MaxNesting /\ v \in Bodies[d]
    BY <1>1, <2>1
  <2>3. \A u \in Bodies[d - 1] : Filtered(u, d - 1)
    BY <1>3, <2>2
  <2>4. CASE v.kind \in {"string", "other"}
    BY <2>1, <2>2, <2>4, LeavesFiltered
  <2>5. CASE v.kind \in {"array", "object"}
    BY <2>1, <2>2, <2>3, <2>5, HoldingFiltered
  <2> QED
    BY <2>2, <2>4, <2>5, BodyIs
<1>4. Nat \subseteq S
  <2> HIDE DEF S
  <2> QED
    BY <1>2, <1>3, Induction
<1> QED
  BY <1>1, <1>4

\* What the guard answers, by what it asks.
LEMMA GuardAnswers ==
  ASSUME NEW req
  PROVE  /\ ~LookedAt(req) => SqlGuard(req) = "next"
         /\ LookedAt(req) /\ ~Readable(req) => SqlGuard(req) = "bad request"
         /\ LookedAt(req) /\ Readable(req) =>
              SqlGuard(req) = IF req.parses /\ CheckJson(req.body) # NotFound
                                  THEN "refused" ELSE "next"
  BY DEF SqlGuard

\* What the filter hands on, by what it asks.
LEMMA FilterAnswers ==
  ASSUME NEW req
  PROVE  /\ ~LookedAt(req) => XssFilter(req) = req.body
         /\ LookedAt(req) /\ ~Readable(req) => XssFilter(req) = NotFound
         /\ LookedAt(req) /\ Readable(req) =>
              XssFilter(req) = IF req.parses THEN SanitizeValue(req.body)
                                   ELSE req.body
  BY DEF XssFilter

\* A list of texts is a body that has those texts.
LEMMA ListOfTexts ==
  ASSUME NEW texts \in Seq(Texts), NEW v,
         v = [kind |-> "array",
              items |-> [i \in DOMAIN texts |-> [kind |-> "string", text |-> texts[i]]]]
  PROVE  v \in Bodies[MaxNesting] /\ TextsOf(v) = texts
<1>1. 0 \in 0..MaxNesting /\ 1 \in 0..MaxNesting
  BY NestingIsBounded
<1>2. PICK n \in Nat : n = Len(texts) /\ DOMAIN texts = 1..n
  BY LenProperties
<1>3. \A i \in 1..n : texts[i] \in Texts
  BY <1>2, ElementOfSeq
<1>4. PICK items : items = [i \in 1..n |-> [kind |-> "string", text |-> texts[i]]]
  OBVIOUS
<1>5. v = [kind |-> "array", items |-> items]
  BY <1>2, <1>4
<1>6. \A i \in 1..n : items[i] \in StringBodies /\ items[i].kind = "string" /\ items[i].text = texts[i]
  BY <1>3, <1>4 DEF StringBodies
<1>7. StringBodies \subseteq Bodies[0] /\ Bodies[0] \subseteq Bodies[MaxNesting]
  <2>1. StringBodies \subseteq Bodies[0]
    BY <1>1, BodiesByDepth
  <2> QED
    BY <1>1, <2>1, BodiesGrow
<1>8. items \in Seq(Bodies[0])
  <2>1. items \in [1..n -> Bodies[0]]
    BY <1>4, <1>6, <1>7
  <2> QED
    BY <2>1, SeqDef
<1>9. v \in Bodies[MaxNesting]
  <2>1. v \in Holding(Bodies[0])
    BY <1>5, <1>8 DEF Holding
  <2>2. Holding(Bodies[0]) \subseteq Bodies[1]
    <3>1. Bodies[1] = StringBodies \cup OtherBodies \cup Holding(Bodies[1 - 1])
      BY <1>1, BodiesByDepth
    <3> QED
      BY <3>1
  <2>3. Bodies[1] \subseteq Bodies[MaxNesting]
    BY <1>1, BodiesGrow
  <2> QED
    BY <2>1, <2>2, <2>3
<1>10. \A i \in 1..n : TextsOf(items[i]) = <<texts[i]>>
  BY <1>6, <1>7, MadeByKind
<1>11. TextsOf(v) = FlattenSeq([i \in 1..Len(texts) |-> <<texts[i]>>])
  <2>1. v.kind = "array" /\ v.items = items /\ DOMAIN items = 1..n
    BY <1>4, <1>5
  <2>2. TextsOf(v) = FlattenSeq([i \in DOMAIN v.items |-> TextsOf(v.items[i])])
    BY <1>9, <2>1, MadeByKind
  <2>3. [i \in DOMAIN v.items |-> TextsOf(v.items[i])] = [i \in 1..Len(texts) |-> <<texts[i]>>]
    BY <1>2, <1>10, <2>1
  <2> QED
    BY <2>2, <2>3
<1>12. FlattenSeq([i \in 1..Len(texts) |-> <<texts[i]>>]) = texts
  BY FlattenSingles
<1> QED
  BY <1>9, <1>11, <1>12

\* The guard and the filter look at the same texts of every body there is, however
\* deep they lie, and answer alike where they cannot read it.
THEOREM BodiesAlwaysHold ==
  ASSUME NEW req \in RequestForms
  PROVE  BodiesHold(req)
<1>1. PICK body \in Bodies[MaxNesting] : body = req.body
  BY DEF RequestForms
<1>2. \A v \in Bodies[MaxNesting] : ExtractStrings(v) = TextsOf(v) /\ SanitizeValue(v) = CleanOf(v)
  BY LayersMake DEF TextsOf, CleanOf
<1>3. PICK texts : texts = ExtractStrings(req.body)
  OBVIOUS
<1>4. PICK cleaned : cleaned = SanitizeValue(req.body)
  OBVIOUS
<1>5. /\ texts \in Seq(Texts)
      /\ cleaned \in Bodies[MaxNesting]
      /\ ExtractStrings(cleaned) = Each(Sanitized, texts)
      /\ (\A i \in 1..Len(texts) : ~texts[i].bracket) => cleaned = body
  BY <1>1, <1>2, <1>3, <1>4, BodiesFiltered DEF Filtered
<1>6. PICK n \in Nat : n = Len(texts) /\ DOMAIN texts = 1..n
  BY <1>5, LenProperties
<1>7. \A i \in 1..n : texts[i] \in Texts
  BY <1>5, <1>6, ElementOfSeq
<1>8. PICK after : after = ExtractStrings(cleaned)
  OBVIOUS
<1>9. after = [i \in 1..n |-> DetectAndSanitize(texts[i])]
  <2>1. \A i \in 1..n : Sanitized[texts[i]] = DetectAndSanitize(texts[i])
    BY <1>7 DEF Sanitized
  <2>2. Each(Sanitized, texts) = [i \in 1..n |-> Sanitized[texts[i]]]
    BY <1>6 DEF Each
  <2> QED
    BY <1>5, <1>8, <2>1, <2>2
<1>10. ASSUME \A i \in DOMAIN texts : ~after[i].bracket
       PROVE  SanitizeValue(cleaned) = cleaned
  <2>1. after = TextsOf(cleaned) /\ SanitizeValue(cleaned) = CleanOf(cleaned)
    BY <1>2, <1>5, <1>8
  <2>2. Len(after) = n
    <3>1. after \in [1..n -> Texts]
      BY <1>7, <1>9, SanitizedTexts DEF Sanitized
    <3> QED
      BY <3>1, SeqDef, LenProperties
  <2>3. \A i \in 1..Len(TextsOf(cleaned)) : ~TextsOf(cleaned)[i].bracket
    BY <1>6, <1>10, <2>1, <2>2
  <2>4. Filtered(cleaned, MaxNesting)
    BY <1>5, BodiesFiltered
  <2> QED
    BY <2>1, <2>3, <2>4 DEF Filtered
<1>11. \A i \in DOMAIN texts : after[i].bracket => after[i].done = "rich"
  BY <1>6, <1>7, <1>9, SanitizedTexts
<1>12. PICK list : list = [kind |-> "array",
          items |-> [i \in DOMAIN texts |-> [kind |-> "string", text |-> texts[i]]]]
  OBVIOUS
<1>13. list \in Bodies[MaxNesting] /\ TextsOf(list) = texts
  BY <1>5, <1>12, ListOfTexts
<1>14. PICK bare : bare = [req EXCEPT !.body = list]
  OBVIOUS
<1>15. bare.body = list /\ bare.parses = req.parses
       /\ bare.method = req.method /\ bare.json = req.json
       /\ bare.size = req.size /\ bare.utf8 = req.utf8
  BY <1>14 DEF RequestForms
<1>16. CheckJson(req.body) = CheckJson(bare.body)
  <2>1. ExtractStrings(bare.body) = ExtractStrings(req.body)
    BY <1>2, <1>3, <1>13, <1>15
  <2> QED
    BY <2>1 DEF CheckJson
<1>17. (LookedAt(bare) <=> LookedAt(req)) /\ (Readable(bare) <=> Readable(req))
  BY <1>15 DEF LookedAt, Readable
<1>18. SqlGuard(req) = SqlGuard(bare)
  <2> DEFINE Guarded(r) ==
               /\ ~LookedAt(r) => SqlGuard(r) = "next"
               /\ LookedAt(r) /\ ~Readable(r) => SqlGuard(r) = "bad request"
               /\ LookedAt(r) /\ Readable(r) =>
                    SqlGuard(r) = IF r.parses /\ CheckJson(r.body) # NotFound
                                  THEN "refused" ELSE "next"
  <2>1. Guarded(req)
    BY GuardAnswers
  <2>2. Guarded(bare)
    BY GuardAnswers
  <2>3. (req.parses /\ CheckJson(req.body) # NotFound)
          <=> (bare.parses /\ CheckJson(bare.body) # NotFound)
    BY ONLY <1>15, <1>16
  <2>4. CASE ~LookedAt(req)
    BY ONLY <1>17, <2>1, <2>2, <2>4
  <2>5. CASE LookedAt(req) /\ ~Readable(req)
    <3>1. SqlGuard(req) = "bad request"
      BY ONLY <2>1, <2>5
    <3>2. LookedAt(bare) /\ ~Readable(bare)
      BY ONLY <1>17, <2>5
    <3>3. SqlGuard(bare) = "bad request"
      BY ONLY <2>2, <3>2
    <3> QED
      BY ONLY <3>1, <3>3
  <2>6. CASE LookedAt(req) /\ Readable(req)
    <3>1. CASE req.parses /\ CheckJson(req.body) # NotFound
      BY ONLY <1>17, <2>1, <2>2, <2>3, <2>6, <3>1
    <3>2. CASE ~(req.parses /\ CheckJson(req.body) # NotFound)
      BY ONLY <1>17, <2>1, <2>2, <2>3, <2>6, <3>2
    <3> QED
      BY <3>1, <3>2
  <2> QED
    BY <2>4, <2>5, <2>6
<1>19. SqlGuard(req) = "bad request" <=> XssFilter(req) = NotFound
  <2>1. SqlGuard(req) = "bad request" <=> LookedAt(req) /\ ~Readable(req)
    BY GuardAnswers
  <2>2. req.body # NotFound /\ SanitizeValue(req.body) # NotFound
    BY <1>1, <1>4, <1>5, NoAnswerIsNoBody
  <2>3. XssFilter(req) = NotFound <=> LookedAt(req) /\ ~Readable(req)
    BY <2>2, FilterAnswers
  <2> QED
    BY <2>1, <2>3
<1>20. SqlGuard(req) = "refused" => LookedAt(req) /\ req.parses
  BY GuardAnswers
<1>21. ExtractStrings(cleaned) = [i \in DOMAIN texts |-> DetectAndSanitize(texts[i])]
  BY <1>6, <1>8, <1>9
<1> QED
  BY <1>3, <1>4, <1>8, <1>10, <1>11, <1>12, <1>14, <1>16, <1>18, <1>19, <1>20, <1>21
     DEF BodiesHold

-----------------------------------------------------------------------------
(***************************************************************************)
(* Versions of the interface.  The place of a version in the list is given *)
(* by the number of those that are newer, which is another one for each;   *)
(* so each place is somebody's.                                            *)
(***************************************************************************)
LEMMA VersionsInitInv == VersionsInit => VersionsInv
BY VersionNamesBounds
   DEF VersionsInit, VersionsInv, VersionsTypeOK, CurrentIsThere, Registered

LEMMA VersionsStepInv ==
  ASSUME VersionsInv, [VersionsNext]_versionVars
  PROVE  VersionsInv'
<1>1. CASE UNCHANGED versionVars
  BY <1>1 DEF versionVars, VersionsInv, VersionsTypeOK, CurrentIsThere, Registered
<1>2. ASSUME NEW v \in ApiVersionNames, SetCurrentVersion(v) PROVE VersionsInv'
  BY <1>2 DEF SetCurrentVersion, VersionsInv, VersionsTypeOK, CurrentIsThere, Registered
<1>3. ASSUME NEW v \in ApiVersionNames, NEW status_ \in VersionStatus, AddVersion(v, status_)
      PROVE  VersionsInv'
  <2>0. /\ versions \in [ApiVersionNames -> VersionStatus \cup {NoVersion}]
        /\ versions' = [versions EXCEPT ![v] = status_] /\ status_ # NoVersion
        /\ current_version = chosen
    BY <1>3, VersionNamesBounds DEF AddVersion, VersionsInv, VersionsTypeOK, CurrentIsThere
  <2>1. Registered' = Registered \cup {v}
    BY <2>0 DEF Registered
  <2>2. VersionsTypeOK'
    BY <1>3, <2>0 DEF AddVersion, VersionsInv, VersionsTypeOK
  <2>3. CurrentIsThere'
    BY <1>3, <2>0, <2>1 DEF AddVersion, VersionsInv, CurrentIsThere
  <2> QED
    BY <2>2, <2>3 DEF VersionsInv
<1> QED
  BY <1>1, <1>2, <1>3 DEF VersionsNext

\* Of the places of a list each is that of one version that is there.
LEMMA VersionPlaces ==
  ASSUME NEW n, n = Cardinality(Registered)
  PROVE  /\ n \in Nat
         /\ \A v \in Registered : Cardinality(NewerThan(v)) \in 0..(n - 1)
         /\ \A v, w \in Registered :
              v > w => Cardinality(NewerThan(v)) < Cardinality(NewerThan(w))
         /\ \A k \in 0..(n - 1) : \E v \in Registered : Cardinality(NewerThan(v)) = k
<1>1. Registered \subseteq ApiVersionNames /\ Registered \subseteq Nat /\ IsFiniteSet(Registered)
  <2>1. Registered \in SUBSET ApiVersionNames
    BY DEF Registered
  <2> QED
    BY <2>1, VersionNamesBounds, FS_Subset
<1>2. n \in Nat
  BY <1>1, FS_CardinalityType
<1>3. ASSUME NEW v \in Registered
      PROVE  /\ IsFiniteSet(NewerThan(v)) /\ Cardinality(NewerThan(v)) \in Nat
             /\ v \notin NewerThan(v) /\ NewerThan(v) \subseteq Registered
  <2>1. NewerThan(v) \in SUBSET Registered /\ v \notin NewerThan(v)
    BY <1>1 DEF NewerThan
  <2> QED
    BY <1>1, <2>1, FS_Subset, FS_CardinalityType
<1>4. ASSUME NEW v \in Registered, NEW more \in SUBSET Registered,
             NewerThan(v) \subseteq more, v \in more
      PROVE  Cardinality(NewerThan(v)) < Cardinality(more)
  <2>1. /\ IsFiniteSet(NewerThan(v) \cup {v})
        /\ Cardinality(NewerThan(v) \cup {v}) = Cardinality(NewerThan(v)) + 1
    BY <1>3, FS_AddElement
  <2>2. IsFiniteSet(more) /\ Cardinality(more) \in Nat
    BY <1>1, FS_Subset, FS_CardinalityType
  <2>3. NewerThan(v) \cup {v} \in SUBSET more
    BY <1>4
  <2>4. Cardinality(NewerThan(v) \cup {v}) <= Cardinality(more)
    BY <2>2, <2>3, FS_Subset
  <2> QED
    BY <1>3, <2>1, <2>2, <2>4
<1>5. ASSUME NEW v \in Registered PROVE Cardinality(NewerThan(v)) \in 0..(n - 1)
  <2>1. Cardinality(NewerThan(v)) < n
    BY <1>3, <1>4
  <2> QED
    BY <1>2, <1>3, <2>1
<1>6. ASSUME NEW v \in Registered, NEW w \in Registered, v > w
      PROVE  Cardinality(NewerThan(v)) < Cardinality(NewerThan(w))
  <2>1. v \in Nat /\ w \in Nat
    BY <1>1
  <2>2. ASSUME NEW x \in NewerThan(v) PROVE x \in NewerThan(w)
    <3>1. x \in Registered /\ x > v /\ x \in Nat
      BY <1>1 DEF NewerThan
    <3>2. x > w
      BY <1>6, <2>1, <3>1
    <3> QED
      BY <3>1, <3>2 DEF NewerThan
  <2>3. NewerThan(v) \subseteq NewerThan(w) /\ v \in NewerThan(w)
    BY <1>6, <2>2 DEF NewerThan
  <2> QED
    BY <1>3, <1>4, <2>3
<1>7. ASSUME NEW k \in 0..(n - 1) PROVE \E v \in Registered : Cardinality(NewerThan(v)) = k
  <2> DEFINE place == [v \in Registered |-> Cardinality(NewerThan(v))]
             places == 0..(n - 1)
  <2>1. place \in [Registered -> places]
    BY <1>5
  <2>2. \A v, w \in Registered : place[v] = place[w] => v = w
    <3> SUFFICES ASSUME NEW v \in Registered, NEW w \in Registered, place[v] = place[w], v # w
                 PROVE  FALSE
      OBVIOUS
    <3>1. v > w \/ w > v
      BY <1>1
    <3>2. place[v] < place[w] \/ place[w] < place[v]
      BY <1>6, <3>1
    <3> QED
      BY <1>3, <3>2
  <2>3. place \in Injection(Registered, places)
    <3> HIDE DEF place, places
    <3> QED
      BY <2>1, <2>2 DEF Injection, IsInjective
  <2>4. IsFiniteSet(places) /\ Cardinality(places) = n
    <3>1. 0 \in Int /\ n - 1 \in Int
      BY <1>2
    <3>2. /\ IsFiniteSet(0..(n - 1))
          /\ Cardinality(0..(n - 1)) = IF 0 > n - 1 THEN 0 ELSE (n - 1) - 0 + 1
      BY <3>1, FS_Interval
    <3> QED
      BY <1>2, <3>2
  <2>5. place \in Surjection(Registered, places)
    <3> HIDE DEF place, places
    <3> QED
      BY <2>3, <2>4, FS_Injection
  <2>6. \E v \in Registered : place[v] = k
    <3> HIDE DEF place
    <3> QED
      BY <2>5 DEF Surjection
  <2> QED
    BY <2>6
<1> QED
  BY <1>2, <1>5, <1>6, <1>7

\* The list is of the versions that are there, each once, the newest first.
LEMMA AllVersionsListed ==
  /\ \A v \in ApiVersionNames :
       v \in Registered <=> \E i \in DOMAIN AllVersions : AllVersions[i] = v
  /\ \A i, j \in DOMAIN AllVersions : i < j => AllVersions[i] > AllVersions[j]
<1>0. PICK n : n = Cardinality(Registered)
  OBVIOUS
<1>1. /\ n \in Nat
      /\ \A v \in Registered : Cardinality(NewerThan(v)) \in 0..(n - 1)
      /\ \A v, w \in Registered :
           v > w => Cardinality(NewerThan(v)) < Cardinality(NewerThan(w))
      /\ \A k \in 0..(n - 1) : \E v \in Registered : Cardinality(NewerThan(v)) = k
  BY <1>0, VersionPlaces
<1>2. PICK all : all = AllVersions
  OBVIOUS
<1>3. DOMAIN all = 1..n
  BY <1>0, <1>2 DEF AllVersions
<1>4. ASSUME NEW i \in 1..n
      PROVE  all[i] \in Registered /\ Cardinality(NewerThan(all[i])) = i - 1
  <2>1. i - 1 \in 0..(n - 1)
    BY <1>1
  <2>2. \E v \in Registered : Cardinality(NewerThan(v)) = i - 1
    BY <1>1, <2>1
  <2>3. all[i] = CHOOSE v \in Registered : Cardinality(NewerThan(v)) = i - 1
    BY <1>0, <1>2 DEF AllVersions
  <2> QED
    BY <2>2, <2>3
<1>5. Registered \subseteq Nat
  BY VersionNamesBounds DEF Registered
<1>6. ASSUME NEW v \in Registered PROVE \E i \in 1..n : all[i] = v
  <2>1. PICK k \in 0..(n - 1) : k = Cardinality(NewerThan(v))
    BY <1>1
  <2>2. PICK i \in 1..n : i = k + 1
    BY <1>1
  <2>3. all[i] \in Registered /\ Cardinality(NewerThan(all[i])) = k
    BY <1>4, <2>2
  <2>4. ~(all[i] > v) /\ ~(v > all[i])
    BY <1>1, <2>1, <2>3
  <2>5. all[i] = v
    <3>1. PICK w : w = all[i]
      OBVIOUS
    <3>2. w \in Nat /\ v \in Nat /\ ~(w > v) /\ ~(v > w)
      BY <1>5, <2>3, <2>4, <3>1
    <3> QED
      BY <3>1, <3>2
  <2> QED
    BY <2>5
<1>7. ASSUME NEW i \in 1..n, NEW j \in 1..n, i < j PROVE all[i] > all[j]
  <2>1. /\ all[i] \in Registered /\ all[j] \in Registered
        /\ Cardinality(NewerThan(all[i])) = i - 1
        /\ Cardinality(NewerThan(all[j])) = j - 1
    BY <1>4
  <2>2. ~(all[j] > all[i])
    <3> SUFFICES ASSUME all[j] > all[i] PROVE FALSE
      OBVIOUS
    <3>1. j - 1 < i - 1
      BY <1>1, <2>1
    <3> QED
      BY <1>7, <3>1
  <2>3. all[i] # all[j]
    BY <1>7, <2>1
  <2>4. PICK v, w : v = all[i] /\ w = all[j]
    OBVIOUS
  <2>5. v \in Nat /\ w \in Nat /\ ~(w > v) /\ v # w
    BY <1>5, <2>1, <2>2, <2>3, <2>4
  <2>6. v > w
    BY <2>5
  <2> QED
    BY <2>4, <2>6
<1>8. ASSUME NEW v \in ApiVersionNames
      PROVE  v \in Registered <=> \E i \in DOMAIN all : all[i] = v
  BY <1>3, <1>4, <1>6
<1> QED
  BY <1>2, <1>3, <1>7, <1>8

LEMMA VersionsAnswer == VersionsInv => VersionsHold
<1> SUFFICES ASSUME VersionsInv PROVE VersionsHold
  OBVIOUS
<1>1. /\ versions \in [ApiVersionNames -> VersionStatus \cup {NoVersion}]
      /\ Registered # {} => current_version \in Registered
      /\ current_version = chosen
  BY DEF VersionsInv, VersionsTypeOK, CurrentIsThere
<1>2. ASSUME NEW v \in ApiVersionNames
      PROVE  /\ CheckVersion(v).suggestion = NoVersion /\ Registered # {} =>
                  versions[v] = "Active"
             /\ CheckVersion(v).valid <=> v \in Registered
  <2>1. CASE v \notin Registered
    <3>1. CheckVersion(v) =
            [valid |-> FALSE, status |-> NoVersion, suggestion |-> current_version]
      BY <2>1 DEF CheckVersion, IsVersionValid
    <3>2. Registered # {} => current_version # NoVersion
      BY <1>1, VersionNamesBounds DEF Registered
    <3> QED
      BY <2>1, <3>1, <3>2
  <2>2. CASE v \in Registered /\ versions[v] \in {"Deprecated", "Sunset"}
    <3>1. CheckVersion(v) =
            [valid |-> TRUE, status |-> versions[v], suggestion |-> current_version]
      BY <2>2 DEF CheckVersion, IsVersionValid, IsVersionDeprecated
    <3>2. current_version # NoVersion
      BY <1>1, <2>2, VersionNamesBounds DEF Registered
    <3> QED
      BY <2>2, <3>1, <3>2
  <2>3. CASE v \in Registered /\ versions[v] \notin {"Deprecated", "Sunset"}
    <3>1. CheckVersion(v) =
            [valid |-> TRUE, status |-> versions[v], suggestion |-> NoVersion]
      BY <2>3 DEF CheckVersion, IsVersionValid, IsVersionDeprecated
    <3>2. versions[v] = "Active"
      BY <1>1, <2>3 DEF Registered, VersionStatus
    <3> QED
      BY <2>3, <3>1, <3>2
  <2> QED
    BY <2>1, <2>2, <2>3
<1> QED
  BY <1>2, AllVersionsListed DEF VersionsInv, VersionsHold

\* There is a current version as soon as there is any, and it is suggested to
\* whoever asks for one that is not active; the list has every version once, the
\* newest first, for any number of them (yma-api-version).
THEOREM VersionsHoldForEver == VersionsSpec => []VersionsHold
<1>1. VersionsInit => VersionsInv
  BY VersionsInitInv
<1>2. VersionsInv /\ [VersionsNext]_versionVars => VersionsInv'
  BY VersionsStepInv
<1> QED
  BY <1>1, <1>2, VersionsAnswer, PTL DEF VersionsSpec

-----------------------------------------------------------------------------
(***************************************************************************)
(* Health checks and metrics.  The status is made of the answers, which    *)
(* stand from its making until the next call throws them away.             *)
(***************************************************************************)
LEMMA PassesCounts ==
  ASSUME NEW list \in Seq({"pass", "fail"})
  PROVE  /\ Passes(list) \in Nat
         /\ \A result \in {"pass", "fail"} :
              Passes(Append(list, result)) =
                IF result = "pass" THEN Passes(list) + 1 ELSE Passes(list)
<1> DEFINE I == {i \in 1..Len(list) : list[i] = "pass"}
<1>0. Len(list) \in Nat /\ DOMAIN list = 1..Len(list)
  BY LenProperties
<1>1. IsFiniteSet(I) /\ Passes(list) = Cardinality(I)
  <2>1. IsFiniteSet(1..Len(list))
    BY <1>0, FS_Interval
  <2>2. I \in SUBSET (1..Len(list))
    OBVIOUS
  <2>3. IsFiniteSet(I)
    <3> HIDE DEF I
    <3> QED
      BY <2>1, <2>2, FS_Subset
  <2> QED
    BY <1>0, <2>3 DEF Passes
<1>2. ASSUME NEW result \in {"pass", "fail"}
      PROVE  Passes(Append(list, result)) =
               IF result = "pass" THEN Passes(list) + 1 ELSE Passes(list)
  <2> DEFINE more == Append(list, result)
             n == Len(list) + 1
             J == {i \in 1..n : more[i] = "pass"}
  <2>1. DOMAIN more = 1..n /\ more[n] = result /\ \A i \in 1..Len(list) : more[i] = list[i]
    BY <1>0, AppendProperties
  <2>2. Passes(more) = Cardinality(J)
    BY <2>1 DEF Passes
  <2>3. J = IF result = "pass" THEN I \cup {n} ELSE I
    BY <1>0, <2>1
  <2>4. n \notin I
    BY <1>0
  <2> HIDE DEF more, J, I, n
  <2> QED
    BY <1>1, <2>2, <2>3, <2>4, FS_AddElement DEF more
<1> QED
  BY <1>1, <1>2, FS_CardinalityType

LEMMA HealthInitInv == HealthInit => HealthInv
<1> SUFFICES ASSUME HealthInit PROVE HealthInv
  OBVIOUS
<1>1. HealthTypeOK
  <2>1. Len(Checks) \in Nat
    BY HealthBounds, LenProperties
  <2>2. answers \in Seq({"pass", "fail"}) /\ Len(answers) = 0
    BY EmptySeq DEF HealthInit
  <2> QED
    BY <2>1, <2>2 DEF HealthInit, HealthTypeOK
<1>2. CountsAreRight
  <2>1. {i \in DOMAIN answers : answers[i] = "pass"} = {}
    BY DEF HealthInit
  <2> QED
    BY <2>1, FS_EmptySet DEF HealthInit, CountsAreRight, Passes
<1>3. MetricsAreHeld
  BY DEF HealthInit, MetricsAreHeld
<1>4. GaugeCounts
  <2>1. {r \in Requests : request[r] = "running"} = {}
    BY DEF HealthInit
  <2>2. active_connections = 0 /\ dropped = 0
    BY DEF HealthInit
  <2> QED
    BY <2>1, <2>2, FS_EmptySet DEF GaugeCounts
<1> QED
  BY <1>1, <1>2, <1>3, <1>4 DEF HealthInv

\* The checks go on and the requests and metrics stay as they are.
LEMMA CheckNextInv == HealthInv /\ CheckNext => HealthInv'
<1> SUFFICES ASSUME HealthInv, CheckNext PROVE HealthInv'
  OBVIOUS
<1>0. /\ answers \in Seq({"pass", "fail"}) /\ Len(answers) \in Nat /\ Len(Checks) \in Nat
      /\ passed \in Nat /\ failed \in Nat /\ passed + failed = Len(answers)
      /\ passed = Passes(answers)
  BY HealthBounds, LenProperties DEF HealthInv, HealthTypeOK, CountsAreRight
<1>1. PICK result \in {"pass", "fail"} :
        /\ Len(answers) < Len(Checks)
        /\ answers' = Append(answers, result)
        /\ passed' = IF result = "pass" THEN passed + 1 ELSE passed
        /\ failed' = IF result = "fail" THEN failed + 1 ELSE failed
        /\ UNCHANGED <<health, metricVars>>
  BY DEF CheckNext, DatabaseCheck, RedisCheck
<1>2. /\ answers' \in Seq({"pass", "fail"}) /\ Len(answers') = Len(answers) + 1
  BY <1>0, <1>1, AppendProperties
<1>3. HealthTypeOK'
  <2>1. /\ passed' \in Nat /\ failed' \in Nat /\ passed' + failed' = Len(answers')
        /\ Len(answers') <= Len(Checks)
    BY <1>0, <1>1, <1>2
  <2>2. UNCHANGED <<health, request, active_connections, total, dropped, held>>
    BY <1>1 DEF metricVars
  <2> QED
    BY <1>2, <2>1, <2>2 DEF HealthInv, HealthTypeOK
<1>4. CountsAreRight'
  <2>1. Passes(answers') = IF result = "pass" THEN Passes(answers) + 1 ELSE Passes(answers)
    BY <1>0, <1>1, PassesCounts
  <2>2. health = "unknown"
    BY <1>0, <1>1 DEF HealthInv, CountsAreRight
  <2> QED
    BY <1>0, <1>1, <2>1, <2>2 DEF CountsAreRight
<1>5. MetricsAreHeld' /\ GaugeCounts'
  BY <1>1 DEF HealthInv, MetricsAreHeld, GaugeCounts, metricVars
<1> QED
  BY <1>3, <1>4, <1>5 DEF HealthInv

LEMMA StatusInv == HealthInv /\ (CheckAllReturns \/ CheckAllAgain) => HealthInv'
<1> SUFFICES ASSUME HealthInv, CheckAllReturns \/ CheckAllAgain PROVE HealthInv'
  OBVIOUS
<1>0. /\ answers \in Seq({"pass", "fail"}) /\ Len(answers) \in Nat /\ Len(Checks) \in Nat
      /\ passed \in Nat /\ failed \in Nat /\ passed + failed = Len(answers)
      /\ passed = Passes(answers)
  BY HealthBounds, LenProperties DEF HealthInv, HealthTypeOK, CountsAreRight
<1>1. MetricsAreHeld' /\ GaugeCounts'
  BY DEF HealthInv, CheckAllReturns, CheckAllAgain, MetricsAreHeld, GaugeCounts, metricVars
<1>2. CASE CheckAllReturns
  <2>1. Overall(answers) \in {"ok", "degraded", "down"}
    BY <1>0 DEF Overall
  <2>2. HealthTypeOK'
    BY <1>2, <2>1 DEF HealthInv, CheckAllReturns, HealthTypeOK, metricVars
  <2>3. CountsAreRight'
    BY <1>2 DEF HealthInv, CheckAllReturns, CountsAreRight
  <2> QED
    BY <1>1, <2>2, <2>3 DEF HealthInv
<1>3. CASE CheckAllAgain
  <2>1. answers' \in Seq({"pass", "fail"}) /\ Len(answers') = 0
    BY <1>3, EmptySeq DEF CheckAllAgain
  <2>2. HealthTypeOK'
    BY <1>0, <1>3, <2>1 DEF HealthInv, CheckAllAgain, HealthTypeOK, metricVars
  <2>3. {i \in DOMAIN answers' : answers'[i] = "pass"} = {}
    BY <1>3 DEF CheckAllAgain
  <2>4. CountsAreRight'
    BY <1>3, <2>3, FS_EmptySet DEF CheckAllAgain, CountsAreRight, Passes
  <2> QED
    BY <1>1, <2>2, <2>4 DEF HealthInv
<1> QED
  BY <1>2, <1>3

\* A request begins, ends or is dropped: the gauge and the requests that run.
LEMMA RequestInv ==
  ASSUME HealthInv, NEW r \in Requests, RequestBegins(r) \/ RequestEnds(r) \/ RequestDropped(r)
  PROVE  HealthInv'
<1> DEFINE Active == {q \in Requests : request[q] = "running"}
<1>0. /\ request \in [Requests -> {"none", "running"}]
      /\ active_connections \in Nat /\ total \in Nat /\ dropped \in Nat
      /\ active_connections = Cardinality(Active) + dropped
  BY DEF HealthInv, HealthTypeOK, GaugeCounts
<1>1. IsFiniteSet(Active) /\ Cardinality(Active) \in Nat
  BY HealthBounds, FS_Subset, FS_CardinalityType
<1>2. CountsAreRight' /\ MetricsAreHeld'
  BY DEF HealthInv, RequestBegins, RequestEnds, RequestDropped, CountsAreRight, MetricsAreHeld
<1>3. CASE RequestBegins(r)
  <2>1. Active' = Active \cup {r} /\ r \notin Active
    BY <1>0, <1>3 DEF RequestBegins
  <2>2. Cardinality(Active') = Cardinality(Active) + 1
    <3> HIDE DEF Active
    <3> QED
      BY <1>1, <2>1, FS_AddElement
  <2>3. HealthTypeOK'
    BY <1>0, <1>3 DEF HealthInv, RequestBegins, HealthTypeOK
  <2>4. active_connections' = active_connections + 1 /\ dropped' = dropped
    BY <1>3 DEF RequestBegins
  <2>5. active_connections' = Cardinality(Active') + dropped'
    <3> HIDE DEF Active
    <3> QED
      BY <1>0, <1>1, <2>2, <2>4
  <2> QED
    BY <1>2, <2>3, <2>5 DEF HealthInv, GaugeCounts
<1>4. CASE RequestEnds(r) \/ RequestDropped(r)
  <2>1. Active' = Active \ {r} /\ r \in Active
    BY <1>0, <1>4 DEF RequestEnds, RequestDropped
  <2>2. Cardinality(Active') = Cardinality(Active) - 1
    <3> HIDE DEF Active
    <3> QED
      BY <1>1, <2>1, FS_RemoveElement
  <2>3. Cardinality(Active') \in Nat
    <3>1. IsFiniteSet(Active')
      <4> HIDE DEF Active
      <4> QED
        BY <1>1, <2>1, FS_RemoveElement
    <3> QED
      BY <3>1, FS_CardinalityType
  <2>4. \/ active_connections' = active_connections - 1 /\ dropped' = dropped
        \/ active_connections' = active_connections /\ dropped' = dropped + 1
    BY <1>4 DEF RequestEnds, RequestDropped
  <2>5. /\ active_connections' = Cardinality(Active') + dropped'
        /\ active_connections' \in Nat /\ dropped' \in Nat
    <3> HIDE DEF Active
    <3> QED
      BY <1>0, <1>1, <2>2, <2>3, <2>4
  <2>6. /\ request' \in [Requests -> {"none", "running"}]
        /\ UNCHANGED <<answers, passed, failed, health, total, held>>
    BY <1>0, <1>4 DEF RequestEnds, RequestDropped
  <2>7. HealthTypeOK'
    BY <2>5, <2>6 DEF HealthInv, HealthTypeOK
  <2> QED
    BY <1>2, <2>5, <2>7 DEF HealthInv, GaugeCounts
<1> QED
  BY <1>3, <1>4

LEMMA RegisterMetricInv ==
  ASSUME HealthInv, NEW g \in Registries, NEW name \in MetricNames, RegisterMetric(g, name)
  PROVE  HealthInv'
<1>1. /\ held \in [Registries -> SUBSET MetricNames]
      /\ held' = [held EXCEPT ![g] = held[g] \cup {name}]
      /\ registered' = registered \cup {name} /\ name \notin registered
  BY DEF HealthInv, HealthTypeOK, RegisterMetric
<1>2. HealthTypeOK'
  BY <1>1 DEF HealthInv, HealthTypeOK, RegisterMetric
<1>3. MetricsAreHeld'
  BY <1>1 DEF HealthInv, MetricsAreHeld
<1>4. CountsAreRight' /\ GaugeCounts'
  BY DEF HealthInv, RegisterMetric, CountsAreRight, GaugeCounts
<1> QED
  BY <1>2, <1>3, <1>4 DEF HealthInv

LEMMA HealthStepInv ==
  ASSUME HealthInv, [HealthNext]_healthVars
  PROVE  HealthInv'
<1>1. CASE UNCHANGED healthVars
  BY <1>1 DEF healthVars, HealthInv, HealthTypeOK, CountsAreRight, MetricsAreHeld, GaugeCounts
<1> QED
  BY <1>1, CheckNextInv, StatusInv, RequestInv, RegisterMetricInv DEF HealthNext

LEMMA HealthAnswers == HealthInv => ReportsAreTrue
<1> SUFFICES ASSUME HealthInv PROVE ReportsAreTrue
  OBVIOUS
<1>0. /\ answers \in Seq({"pass", "fail"}) /\ Len(answers) \in Nat
      /\ passed \in Nat /\ failed \in Nat /\ passed + failed = Len(answers)
      /\ passed = Passes(answers)
      /\ health # "unknown" => health = Overall(answers)
  BY LenProperties DEF HealthInv, HealthTypeOK, CountsAreRight
<1>1. answers = <<>> <=> Len(answers) = 0
  BY <1>0, EmptySeq
<1>2. Overall(answers) = IF failed = 0 THEN "ok"
                         ELSE IF passed > 0 THEN "degraded" ELSE "down"
  <2>1. Len(answers) - Passes(answers) = failed
    BY <1>0
  <2>2. CASE failed = 0
    <3>1. CASE answers = <<>>
      BY <3>1, <2>1, <2>2 DEF Overall
    <3>2. CASE answers # <<>>
      <4>1. passed > 0 /\ ~(failed > 0)
        BY <1>0, <1>1, <2>2, <3>2
      <4> QED
        BY <1>0, <2>1, <2>2, <3>2, <4>1 DEF Overall
    <3> QED
      BY <3>1, <3>2
  <2>3. CASE failed > 0
    <3>1. answers # <<>>
      BY <1>0, <1>1, <2>3
    <3> QED
      BY <1>0, <2>1, <2>3, <3>1 DEF Overall
  <2> QED
    BY <1>0, <2>2, <2>3
<1>3. /\ health = "down" <=> health # "unknown" /\ passed = 0 /\ failed > 0
      /\ health = "ok" <=> health # "unknown" /\ failed = 0
  BY <1>0, <1>2
<1> QED
  BY <1>3 DEF HealthInv, MetricsAreHeld, GaugeCounts, ReportsAreTrue

\* The gauge shows the requests that run and those that were dropped, the status
\* is the one the checks of its call add up to, and no metric is in two
\* registries, with any checks and any number of requests (yma-health,
\* yma-metrics).
THEOREM HealthReportsAreTrue == HealthSpec => []ReportsAreTrue
<1>1. HealthInit => HealthInv
  BY HealthInitInv
<1>2. HealthInv /\ [HealthNext]_healthVars => HealthInv'
  BY HealthStepInv
<1> QED
  BY <1>1, <1>2, HealthAnswers, PTL DEF HealthSpec

-----------------------------------------------------------------------------
(***************************************************************************)
(* Audit log and pages.  The arithmetic of pages is multiplication and     *)
(* division by numbers that are not fixed: what is needed of it comes      *)
(* first, and is used by its name.                                         *)
(***************************************************************************)
LEMMA Products == ASSUME NEW a \in Nat, NEW b \in Nat PROVE a * b \in Nat
OBVIOUS

\* The a-th piece of size w ends before the b-th begins.
LEMMA PiecesApart ==
  ASSUME NEW a \in Nat, NEW b \in Nat, NEW w \in Nat \ {0}, a < b
  PROVE  a * w + w <= b * w
OBVIOUS

LEMMA Divided ==
  ASSUME NEW a \in Nat, NEW w \in Nat \ {0}
  PROVE  /\ a \div w \in Nat
         /\ (a \div w) * w <= a
         /\ a < (a \div w) * w + w
OBVIOUS

LEMMA NotWrapped ==
  ASSUME NEW a \in Nat, NEW w \in Nat \ {0}
  PROVE  /\ a % w \in Nat
         /\ a < w => a % w = a
OBVIOUS

LEMMA PageParts ==
  /\ AuditPages \subseteq Nat /\ AuditSizes \subseteq Nat
  /\ NotGiven \notin AuditPages /\ NotGiven \notin AuditSizes
  /\ LargestPageSize \in Nat /\ WordSize \in Nat \ {0} /\ MaxRows \in Nat
  /\ DefaultPageSize \in Nat /\ 1 <= DefaultPageSize /\ DefaultPageSize <= LargestPageSize
  /\ MaxRows + LargestPageSize <= WordSize
BY AuditBounds

LEMMA Parsed ==
  /\ \A page \in AuditPages \cup {NotGiven} : ParsePage(page) \in Nat \ {0}
  /\ \A size \in AuditSizes \cup {NotGiven} : ParseSize(size) \in 1..LargestPageSize
<1>1. ASSUME NEW page \in AuditPages \cup {NotGiven} PROVE ParsePage(page) \in Nat \ {0}
  <2>1. CASE page = NotGiven \/ page = 0
    BY <2>1 DEF ParsePage
  <2>2. CASE page # NotGiven /\ page # 0
    <3>1. page \in Nat
      BY <2>2, PageParts
    <3> QED
      BY <2>2, <3>1 DEF ParsePage
  <2> QED
    BY <2>1, <2>2
<1>2. ASSUME NEW size \in AuditSizes \cup {NotGiven} PROVE ParseSize(size) \in 1..LargestPageSize
  <2>1. CASE size = NotGiven
    BY <2>1, PageParts DEF ParseSize
  <2>2. CASE size # NotGiven
    <3>1. size \in Nat
      BY <2>2, PageParts
    <3>2. CASE size = 0
      BY <2>2, <3>2, PageParts DEF ParseSize
    <3>3. CASE size > LargestPageSize
      BY <2>2, <3>1, <3>3, PageParts DEF ParseSize
    <3>4. CASE size # 0 /\ ~(size > LargestPageSize)
      <4>1. ParseSize(size) = size
        BY <2>2, <3>4 DEF ParseSize
      <4> QED
        BY <3>1, <3>4, <4>1, PageParts
    <3> QED
      BY <3>2, <3>3, <3>4
  <2> QED
    BY <2>1, <2>2
<1> QED
  BY <1>1, <1>2

\* The rows a page is made of, when it begins behind the first `first' of them.
PageOfRows(count, first, size, rows) ==
  /\ rows \in Seq(1..count) /\ Len(rows) \in Nat /\ Len(rows) <= size
  /\ DOMAIN rows = 1..Len(rows)
  /\ \A i \in 1..Len(rows) : rows[i] = count - first - i + 1
  /\ ToSet(rows) = {r \in 1..count : r <= count - first /\ r > count - first - size}

LEMMA PageFetched ==
  ASSUME NEW count \in Nat, NEW first \in Nat, NEW size \in Nat \ {0},
         NEW last, last = IF first + size < count THEN first + size ELSE count,
         NEW rows, rows = SubSeq(NewestFirst(count), first + 1, last)
  PROVE  PageOfRows(count, first, size, rows)
<1>1. last \in Nat /\ last <= count /\ last <= first + size
  OBVIOUS
<1>2. \A i \in 1..count : NewestFirst(count)[i] = count - i + 1 /\ count - i + 1 \in 1..count
  BY DEF NewestFirst
<1>3. \A i \in first + 1 .. last : i \in 1..count
  BY <1>1
<1>4. /\ rows \in Seq(1..count)
      /\ Len(rows) = IF first + 1 <= last THEN last - (first + 1) + 1 ELSE 0
      /\ \A i \in 1 .. last - (first + 1) + 1 : rows[i] = NewestFirst(count)[(first + 1) + i - 1]
  <2>1. \A i \in first + 1 .. last : NewestFirst(count)[i] \in 1..count
    BY <1>2, <1>3
  <2>2. first + 1 \in Int /\ last \in Int
    BY <1>1
  <2> QED
    BY <2>1, <2>2, SubSeqProperties
<1>5. Len(rows) \in Nat /\ DOMAIN rows = 1..Len(rows)
  BY <1>4, LenProperties
<1>6. ASSUME NEW i \in 1..Len(rows) PROVE rows[i] = count - first - i + 1
  <2>1. i \in 1 .. last - (first + 1) + 1 /\ (first + 1) + i - 1 = first + i
    BY <1>1, <1>4, <1>5
  <2>2. first + i \in 1..count
    BY <1>1, <2>1
  <2>3. rows[i] = NewestFirst(count)[first + i]
    BY <1>4, <2>1
  <2> QED
    BY <1>2, <2>2, <2>3
<1>7. Len(rows) <= size
  BY <1>1, <1>4
<1>8. ASSUME NEW r \in ToSet(rows)
      PROVE  r \in 1..count /\ r <= count - first /\ r > count - first - size
  <2>1. PICK i \in 1..Len(rows) : r = rows[i]
    BY <1>5 DEF ToSet
  <2>2. r = count - first - i + 1
    BY <1>6, <2>1
  <2>3. r \in 1..count
    BY <1>4, <2>1, ElementOfSeq
  <2> QED
    BY <1>5, <1>7, <2>2, <2>3
<1>9. ASSUME NEW r \in 1..count, r <= count - first, r > count - first - size
      PROVE  r \in ToSet(rows)
  <2>1. count - first - r + 1 \in 1..Len(rows)
    <3>1. CASE last = count
      BY <1>1, <1>4, <1>9, <3>1
    <3>2. CASE last = first + size
      BY <1>1, <1>4, <1>9, <3>2
    <3> QED
      BY <3>1, <3>2
  <2>2. rows[count - first - r + 1] = r
    <3>1. PICK i \in 1..Len(rows) : i = count - first - r + 1
      BY <2>1
    <3>2. rows[i] = count - first - i + 1
      BY <1>6
    <3>3. count - first - i + 1 = r
      BY <3>1
    <3> QED
      BY <3>1, <3>2, <3>3
  <2> QED
    BY <1>5, <2>1, <2>2 DEF ToSet
<1> QED
  BY <1>4, <1>5, <1>6, <1>7, <1>8, <1>9 DEF PageOfRows

LEMMA AuditInitInv == AuditInit => AuditInv
<1> SUFFICES ASSUME AuditInit PROVE AuditInv
  OBVIOUS
<1>1. /\ written = 0 /\ auditCall = [t \in AuditTasks |-> NoAuditCall]
      /\ auditResult = NoAuditResult
  BY DEF AuditInit
<1>2. AuditTypeOK
  BY <1>1, PageParts DEF AuditTypeOK
<1>3. CountsAreOfRows
  BY <1>1 DEF CountsAreOfRows
<1>4. PagesMatchTotal
  BY <1>1 DEF PagesMatchTotal, NoAuditResult
<1> QED
  BY <1>2, <1>3, <1>4 DEF AuditInv

\* A row more: the answers given and the counts made before stand.
LEMMA RowWrittenInv == AuditInv /\ Log => AuditInv'
<1> SUFFICES ASSUME AuditInv, Log PROVE AuditInv'
  OBVIOUS
<1>0. /\ written \in 0..MaxRows /\ MaxRows \in Nat
      /\ auditCall \in [AuditTasks -> {NoAuditCall} \cup CountedCall]
      /\ written < MaxRows /\ written' = written + 1 /\ auditResult' = auditResult
  BY PageParts DEF AuditInv, AuditTypeOK, Log
<1>1. ASSUME NEW t \in AuditTasks
      PROVE  /\ auditCall'[t] \in {NoAuditCall} \cup CountedCall
             /\ auditCall'[t] # NoAuditCall =>
                  /\ auditCall'[t].total <= written'
                  /\ auditCall'[t].alone = TRUE => auditCall'[t].total = written'
  <2>1. auditCall'[t] = IF auditCall[t] = NoAuditCall THEN NoAuditCall
                        ELSE [auditCall[t] EXCEPT !.alone = FALSE]
    BY DEF Log
  <2>2. CASE auditCall[t] = NoAuditCall
    BY <2>1, <2>2
  <2>3. CASE auditCall[t] # NoAuditCall
    <3>1. PICK c \in CountedCall : c = auditCall[t]
      BY <1>0, <2>3
    <3>2. auditCall'[t] = [c EXCEPT !.alone = FALSE]
      BY <2>1, <2>3, <3>1
    <3>3. c.total <= written
      BY <2>3, <3>1 DEF AuditInv, CountsAreOfRows
    <3>4. c.total \in Nat /\ written \in Nat
      BY <1>0, <3>1 DEF CountedCall
    <3>5. /\ [c EXCEPT !.alone = FALSE] \in CountedCall
          /\ [c EXCEPT !.alone = FALSE].total = c.total
          /\ [c EXCEPT !.alone = FALSE].alone = FALSE
      BY <3>1 DEF CountedCall
    <3> QED
      BY <1>0, <3>2, <3>3, <3>4, <3>5
  <2> QED
    BY <2>2, <2>3
<1>2. AuditTypeOK'
  <2>1. auditCall' \in [AuditTasks -> {NoAuditCall} \cup CountedCall]
    <3>1. auditCall' = [t \in AuditTasks |-> auditCall'[t]]
      BY DEF Log
    <3> QED
      BY <1>1, <3>1
  <2> QED
    BY <1>0, <2>1 DEF AuditInv, AuditTypeOK
<1>3. CountsAreOfRows'
  BY <1>1 DEF CountsAreOfRows
<1>4. PagesMatchTotal'
  <2>1. auditResult.given => auditResult.total \in Nat
    <3>1. CASE auditResult = NoAuditResult
      BY <3>1 DEF NoAuditResult
    <3>2. CASE auditResult \in AuditAnswer
      BY <1>0, <3>2 DEF AuditAnswer
    <3> QED
      BY <3>1, <3>2 DEF AuditInv, AuditTypeOK
  <2>2. auditResult.given => auditResult.total <= written /\ auditResult.total <= written'
    BY <1>0, <2>1 DEF AuditInv, PagesMatchTotal
  <2> QED
    BY <1>0, <2>2 DEF AuditInv, PagesMatchTotal
<1> QED
  BY <1>2, <1>3, <1>4 DEF AuditInv

LEMMA QueryCountsInv ==
  ASSUME AuditInv, NEW t \in AuditTasks, NEW page \in AuditPages \cup {NotGiven},
         NEW size \in AuditSizes \cup {NotGiven}, QueryCounts(t, page, size)
  PROVE  AuditInv'
<1> DEFINE c == [at |-> "counted", page |-> ParsePage(page), page_size |-> ParseSize(size),
                 total |-> written, alone |-> TRUE]
<1>1. /\ auditCall' = [auditCall EXCEPT ![t] = c] /\ UNCHANGED <<written, auditResult>>
      /\ auditCall \in [AuditTasks -> {NoAuditCall} \cup CountedCall]
      /\ written \in 0..MaxRows
  BY DEF QueryCounts, AuditInv, AuditTypeOK
<1>2. c \in CountedCall /\ c.total = written
  BY <1>1, Parsed DEF CountedCall
<1> HIDE DEF c
<1>3. AuditTypeOK'
  BY <1>1, <1>2 DEF AuditInv, AuditTypeOK
<1>4. CountsAreOfRows'
  <2>1. c.total <= written
    BY <1>1, <1>2, PageParts
  <2> QED
    BY <1>1, <1>2, <2>1 DEF AuditInv, CountsAreOfRows
<1>5. PagesMatchTotal'
  BY <1>1 DEF AuditInv, PagesMatchTotal
<1> QED
  BY <1>3, <1>4, <1>5 DEF AuditInv

LEMMA QueryFetchesInv ==
  ASSUME AuditInv, NEW t \in AuditTasks, QueryFetches(t)
  PROVE  AuditInv'
<1>0. /\ written \in 0..MaxRows /\ MaxRows \in Nat
      /\ auditCall \in [AuditTasks -> {NoAuditCall} \cup CountedCall]
  BY PageParts DEF AuditInv, AuditTypeOK
<1>1. PICK c : c = auditCall[t]
  OBVIOUS
<1>2. c \in CountedCall /\ c # NoAuditCall
  BY <1>0, <1>1 DEF QueryFetches, NoAuditCall, CountedCall
<1>3. /\ c.page \in Nat /\ c.page >= 1 /\ c.page_size \in Nat \ {0}
      /\ c.page_size \in 1..LargestPageSize /\ c.total \in 0..MaxRows /\ c.alone \in BOOLEAN
      /\ c.total <= written /\ (c.alone = TRUE => c.total = written)
  BY <1>1, <1>2, PageParts DEF CountedCall, AuditInv, CountsAreOfRows
<1>4. PICK first : first = Offset(c.page, c.page_size)
  OBVIOUS
<1>5. PICK last : last = IF first + c.page_size < written THEN first + c.page_size ELSE written
  OBVIOUS
<1>6. PICK rows : rows = SubSeq(NewestFirst(written), first + 1, last)
  OBVIOUS
<1>7. /\ auditResult' = [given |-> TRUE, page |-> c.page, page_size |-> c.page_size,
                         total |-> c.total, records |-> rows, alone |-> c.alone]
      /\ auditCall' = [auditCall EXCEPT ![t] = NoAuditCall]
      /\ written' = written
  BY <1>1, <1>4, <1>5, <1>6 DEF QueryFetches
<1>8. PICK before : before = (c.page - 1) * c.page_size
  OBVIOUS
<1>9. before \in Nat
  <2>1. c.page - 1 \in Nat
    BY <1>3
  <2> QED
    BY <1>3, <1>8, <2>1, Products
<1>10. first \in Nat /\ (before < WordSize => first = before)
  <2>1. first = before % WordSize
    BY <1>4, <1>8 DEF Offset
  <2> QED
    BY <1>9, <2>1, PageParts, NotWrapped
<1>11. /\ rows \in Seq(1..written) /\ Len(rows) \in Nat /\ Len(rows) <= c.page_size
       /\ DOMAIN rows = 1..Len(rows)
       /\ \A i \in 1..Len(rows) : rows[i] = written - first - i + 1
       /\ ToSet(rows) =
            {r \in 1..written : r <= written - first /\ r > written - first - c.page_size}
  <2>1. PICK count \in Nat : count = written
    BY <1>0
  <2>2. PICK size \in Nat \ {0} : size = c.page_size
    BY <1>3
  <2>3. last = IF first + size < count THEN first + size ELSE count
    BY <1>5, <2>1, <2>2
  <2>4. rows = SubSeq(NewestFirst(count), first + 1, last)
    BY <1>6, <2>1
  <2>5. /\ rows \in Seq(1..count) /\ Len(rows) \in Nat /\ Len(rows) <= size
        /\ DOMAIN rows = 1..Len(rows)
        /\ \A i \in 1..Len(rows) : rows[i] = count - first - i + 1
        /\ ToSet(rows) = {r \in 1..count : r <= count - first /\ r > count - first - size}
    <3>1. PageOfRows(count, first, size, rows)
      BY <1>10, <2>3, <2>4, PageFetched
    <3> QED
      BY <3>1 DEF PageOfRows
  <2>6. /\ rows \in Seq(1..written) /\ Len(rows) \in Nat /\ Len(rows) <= c.page_size
        /\ DOMAIN rows = 1..Len(rows)
    <3>1. rows \in Seq(1..written)
      BY ONLY <2>1, <2>5, Zenon
    <3>2. DOMAIN rows = 1..Len(rows)
      BY ONLY <2>5
    <3>3. Len(rows) \in Nat /\ Len(rows) <= c.page_size
      BY ONLY <2>2, <2>5
    <3> QED
      BY ONLY <3>1, <3>2, <3>3
  <2>7. \A i \in 1..Len(rows) : rows[i] = written - first - i + 1
    BY <2>1, <2>5
  <2>8. {r \in 1..count : r <= count - first /\ r > count - first - size} =
          {r \in 1..written : r <= written - first /\ r > written - first - c.page_size}
    BY <2>1, <2>2
  <2>9. ToSet(rows) =
          {r \in 1..written : r <= written - first /\ r > written - first - c.page_size}
    BY <2>5, <2>8
  <2> QED
    BY <2>6, <2>7, <2>9
<1>12. AuditTypeOK'
  <2>1. rows \in Seq(1..MaxRows)
    <3>1. 1..written \subseteq 1..MaxRows
      BY <1>0
    <3>2. \A i \in 1..Len(rows) : rows[i] \in 1..MaxRows
      BY <1>11, <3>1, ElementOfSeq
    <3>3. rows = [i \in 1..Len(rows) |-> rows[i]]
      BY <1>11, LenProperties
    <3>4. rows \in [1..Len(rows) -> 1..MaxRows]
      BY ONLY <3>2, <3>3
    <3>5. Len(rows) \in Nat
      BY <1>11
    <3> QED
      BY ONLY <3>4, <3>5, SeqDef
  <2>2. auditResult' \in AuditAnswer
    BY <1>3, <1>7, <2>1 DEF AuditAnswer
  <2> QED
    BY <1>0, <1>7, <2>2 DEF AuditTypeOK
<1>13. CountsAreOfRows'
  BY <1>0, <1>7 DEF AuditInv, CountsAreOfRows
<1>14. PagesMatchTotal'
  <2>1. /\ auditResult'.page = c.page /\ auditResult'.page_size = c.page_size
        /\ auditResult'.total = c.total /\ auditResult'.records = rows
        /\ auditResult'.alone = c.alone
    BY <1>7
  <2>2. c.alone = TRUE /\ before < WordSize =>
          ToSet(rows) = {r \in 1..c.total : /\ r <= c.total - before
                                            /\ r > c.total - before - c.page_size}
    BY <1>3, <1>10, <1>11
  <2>3. \A i, j \in DOMAIN rows : i < j => rows[i] > rows[j]
    BY <1>0, <1>10, <1>11
  <2> QED
    BY <1>3, <1>7, <1>8, <1>11, <2>1, <2>2, <2>3 DEF PagesMatchTotal
<1> QED
  BY <1>12, <1>13, <1>14 DEF AuditInv

LEMMA AuditStepInv ==
  ASSUME AuditInv, [AuditNext]_auditVars
  PROVE  AuditInv'
<1>1. CASE UNCHANGED auditVars
  BY <1>1 DEF auditVars, AuditInv, AuditTypeOK, CountsAreOfRows, PagesMatchTotal
<1> QED
  BY <1>1, RowWrittenInv, QueryCountsInv, QueryFetchesInv DEF AuditNext

\* A page of the audit log holds the rows of its place, the newest first, unless
\* one was written meanwhile or the offset wraps, for any number of rows and
\* queries (yma-audit).
THEOREM AuditPagesMatch == AuditSpec => []PagesMatchTotal
<1>1. AuditInit => AuditInv
  BY AuditInitInv
<1>2. AuditInv /\ [AuditNext]_auditVars => AuditInv'
  BY AuditStepInv
<1>3. AuditInv => PagesMatchTotal
  BY DEF AuditInv
<1> QED
  BY <1>1, <1>2, <1>3, PTL DEF AuditSpec

-----------------------------------------------------------------------------
(***************************************************************************)
(* Pages of a listing, of the audit log and of a search alike: page p of   *)
(* size w begins behind (p - 1) * w items, and is one of the pages exactly *)
(* if there are more.                                                      *)
(***************************************************************************)
LEMMA PagesOfTotal ==
  ASSUME NEW amount \in Nat, NEW w \in Nat \ {0}, NEW p \in Nat \ {0},
         NEW pages, pages = (amount + w - 1) \div w
  PROVE  /\ pages \in Nat /\ (p - 1) * w \in Nat
         /\ p <= pages <=> (p - 1) * w < amount
<1>1. amount + w - 1 \in Nat
  OBVIOUS
<1>2. pages \in Nat /\ pages * w <= amount + w - 1 /\ amount + w - 1 < pages * w + w
  BY <1>1, Divided
<1>3. p - 1 \in Nat
  OBVIOUS
<1>4. PICK before : before = (p - 1) * w
  OBVIOUS
<1>5. PICK all : all = pages * w
  OBVIOUS
<1>6. before \in Nat /\ all \in Nat
  BY <1>2, <1>3, <1>4, <1>5, Products
<1>7. CASE p <= pages
  <2>1. p - 1 < pages
    BY <1>2, <1>7
  <2>2. before + w <= all
    BY <1>2, <1>3, <1>4, <1>5, <2>1, PiecesApart
  <2> QED
    BY <1>2, <1>4, <1>5, <1>6, <1>7, <2>2
<1>8. CASE ~(p <= pages)
  <2>1. pages = p - 1 \/ pages < p - 1
    BY <1>2, <1>8
  <2>2. all <= before
    <3>1. CASE pages = p - 1
      BY <1>4, <1>5, <1>6, <3>1
    <3>2. CASE pages < p - 1
      <4>1. all + w <= before
        BY <1>2, <1>3, <1>4, <1>5, <3>2, PiecesApart
      <4> QED
        BY <1>6, <4>1
    <3> QED
      BY <2>1, <3>1, <3>2
  <2> QED
    BY <1>2, <1>4, <1>5, <1>6, <1>8, <2>2
<1> QED
  BY <1>2, <1>4, <1>6, <1>7, <1>8

\* As many pieces as there are items are enough.
LEMMA AtLeastAsMany ==
  ASSUME NEW a \in Nat, NEW w \in Nat \ {0}
  PROVE  a <= a * w
OBVIOUS

\* An item is on one of the pages of a listing only.
LEMMA OnOnePage ==
  ASSUME NEW item \in Nat, NEW w \in Nat \ {0}, NEW p \in Nat \ {0},
         (p - 1) * w <= item, item < (p - 1) * w + w
  PROVE  p = item \div w + 1
<1>1. PICK q : q = item \div w
  OBVIOUS
<1>2. q \in Nat /\ q * w <= item /\ item < q * w + w
  BY <1>1, Divided
<1>3. PICK r : r = p - 1
  OBVIOUS
<1>4. r \in Nat /\ r * w <= item /\ item < r * w + w
  BY <1>3
<1>5. r * w \in Nat /\ q * w \in Nat
  BY <1>2, <1>4, Products
<1>6. ~(r < q)
  <2> SUFFICES ASSUME r < q PROVE FALSE
    OBVIOUS
  <2>1. r * w + w <= q * w
    BY <1>2, <1>4, PiecesApart
  <2> QED
    BY <1>2, <1>4, <1>5, <2>1
<1>7. ~(q < r)
  <2> SUFFICES ASSUME q < r PROVE FALSE
    OBVIOUS
  <2>1. q * w + w <= r * w
    BY <1>2, <1>4, PiecesApart
  <2> QED
    BY <1>2, <1>4, <1>5, <2>1
<1> QED
  BY <1>1, <1>2, <1>3, <1>4, <1>6, <1>7

LEMMA PaginationParts ==
  ASSUME NEW page \in Nat, NEW size \in Nat, NEW count \in Nat, NEW paging,
         paging = NewPagination(page, size, count)
  PROVE  /\ paging.page = IF page = 0 THEN 1 ELSE page
         /\ paging.page_size = IF size = 0 THEN DefaultPageSize
                             ELSE IF size > LargestPageSize THEN LargestPageSize ELSE size
         /\ paging.page_size \in 1..LargestPageSize /\ paging.page_size \in Nat \ {0}
         /\ paging.total_pages = (count + paging.page_size - 1) \div paging.page_size
<1>1. PICK w : w = IF size = 0 THEN DefaultPageSize
                   ELSE IF size > LargestPageSize THEN LargestPageSize ELSE size
  OBVIOUS
<1>2. w \in 1..LargestPageSize /\ w \in Nat \ {0}
  BY <1>1, PageParts
<1>3. paging = [page |-> IF page = 0 THEN 1 ELSE page, page_size |-> w,
              total |-> count, total_pages |-> (count + w - 1) \div w]
  BY <1>1 DEF NewPagination
<1> QED
  BY <1>1, <1>2, <1>3

\* The offset of a page that begins before the integers end is not wrapped.
LEMMA OffsetStands ==
  ASSUME NEW p \in Nat \ {0}, NEW w \in Nat \ {0}
  PROVE  /\ (p - 1) * w \in Nat /\ Offset(p, w) \in Nat
         /\ (p - 1) * w < WordSize => Offset(p, w) = (p - 1) * w
<1>1. p - 1 \in Nat
  OBVIOUS
<1>2. PICK before : before = (p - 1) * w
  OBVIOUS
<1>3. before \in Nat
  BY <1>1, <1>2, Products
<1>4. before % WordSize \in Nat /\ (before < WordSize => before % WordSize = before)
  BY <1>3, PageParts, NotWrapped
<1> QED
  BY <1>2, <1>3, <1>4 DEF Offset

\* The pages of a listing cut it up, for any size and amount (yma-pagination).
LEMMA PagesAreCutUp == PagesCutUp
<1> SUFFICES ASSUME NEW size \in AuditSizes, NEW count \in 0..MaxRows
             PROVE  LET first == NewPagination(1, size, count)
                        ItemOn(item, page) ==
                          /\ Offset(page, first.page_size) <= item
                          /\ item < Offset(page, first.page_size) + first.page_size
                    IN  /\ \A item \in 0..(count - 1) :
                             Cardinality({p \in 1..first.total_pages : ItemOn(item, p)}) = 1
                        /\ \A p \in 1..first.total_pages :
                             \E item \in 0..(count - 1) : ItemOn(item, p)
                        /\ ParseSize(size) = first.page_size \/ size = 0
                        /\ NewPagination(0, size, count) = first
  BY DEF PagesCutUp
<1> DEFINE first == NewPagination(1, size, count)
<1>1. /\ size \in Nat /\ size # NotGiven /\ count \in Nat /\ MaxRows \in Nat
      /\ count <= MaxRows /\ MaxRows <= WordSize /\ WordSize \in Nat
  BY PageParts
<1>2. PICK w : w = first.page_size
  OBVIOUS
<1>3. PICK pages : pages = first.total_pages
  OBVIOUS
<1>4. /\ w \in Nat \ {0} /\ pages = (count + w - 1) \div w
      /\ w = IF size = 0 THEN DefaultPageSize
             ELSE IF size > LargestPageSize THEN LargestPageSize ELSE size
  BY <1>1, <1>2, <1>3, PaginationParts
<1>5. NewPagination(0, size, count) = first
  BY DEF NewPagination
<1>6. ParseSize(size) = w \/ size = 0
  BY <1>1, <1>4 DEF ParseSize
<1> HIDE DEF first
<1> DEFINE ItemOn(item, p) == Offset(p, w) <= item /\ item < Offset(p, w) + w
<1>7. pages \in Nat
  <2>1. 1 \in Nat \ {0}
    OBVIOUS
  <2> QED
    BY <1>1, <1>4, <2>1, PagesOfTotal
<1>8. \A p \in 1..pages : /\ p \in Nat \ {0} /\ (p - 1) * w \in Nat
                          /\ (p - 1) * w < count /\ Offset(p, w) = (p - 1) * w
  <2> SUFFICES ASSUME NEW p \in 1..pages
               PROVE  /\ p \in Nat \ {0} /\ (p - 1) * w \in Nat
                      /\ (p - 1) * w < count /\ Offset(p, w) = (p - 1) * w
    OBVIOUS
  <2>1. p \in Nat \ {0} /\ p <= pages
    BY <1>7
  <2>2. PICK before : before = (p - 1) * w
    OBVIOUS
  <2>3. before \in Nat /\ before < count
    <3>1. count \in Nat /\ w \in Nat \ {0} /\ pages = (count + w - 1) \div w
      BY <1>1, <1>4
    <3>2. (p - 1) * w \in Nat /\ (p <= pages <=> (p - 1) * w < count)
      BY ONLY <2>1, <3>1, PagesOfTotal
    <3> QED
      BY <2>1, <2>2, <3>2
  <2>4. before < WordSize
    BY <1>1, <2>3
  <2>5. Offset(p, w) = before
    BY <1>4, <2>1, <2>2, <2>4, OffsetStands
  <2> QED
    BY <2>1, <2>2, <2>3, <2>5
<1>9. ASSUME NEW item \in 0..(count - 1)
      PROVE  Cardinality({p \in 1..pages : ItemOn(item, p)}) = 1
  <2>1. item \in Nat /\ item < count
    BY <1>1
  <2>2. PICK q : q = item \div w
    OBVIOUS
  <2>3. q \in Nat /\ q * w <= item /\ item < q * w + w
    BY <1>4, <2>1, <2>2, Divided
  <2>4. q + 1 \in 1..pages
    <3>1. q + 1 \in Nat \ {0} /\ (q + 1) - 1 = q
      BY <2>3
    <3>2. q * w \in Nat
      BY <1>4, <2>3, Products
    <3>3. q * w < count
      BY <1>1, <2>1, <2>3, <3>2
    <3>4. ((q + 1) - 1) * w < count
      BY <3>1, <3>3
    <3>5. q + 1 <= pages
      BY <1>1, <1>4, <3>1, <3>4, PagesOfTotal
    <3> QED
      BY <1>7, <2>3, <3>5
  <2>5. ItemOn(item, q + 1)
    <3>1. Offset(q + 1, w) = ((q + 1) - 1) * w
      BY <1>8, <2>4
    <3>2. (q + 1) - 1 = q
      BY <2>3
    <3>3. Offset(q + 1, w) = q * w
      BY <3>1, <3>2
    <3> QED
      BY <2>3, <3>3
  <2>6. ASSUME NEW p \in 1..pages, ItemOn(item, p) PROVE p = q + 1
    <3>1. /\ p \in Nat \ {0} /\ Offset(p, w) = (p - 1) * w
      BY <1>8
    <3>2. (p - 1) * w <= item /\ item < (p - 1) * w + w
      BY <2>6, <3>1
    <3> QED
      BY <1>4, <2>1, <2>2, <3>1, <3>2, OnOnePage
  <2>7. {p \in 1..pages : ItemOn(item, p)} = {q + 1}
    <3> HIDE DEF ItemOn
    <3> QED
      BY <2>4, <2>5, <2>6
  <2> HIDE DEF ItemOn
  <2> QED
    BY <2>7, FS_Singleton
<1>10. ASSUME NEW p \in 1..pages PROVE \E item \in 0..(count - 1) : ItemOn(item, p)
  <2>1. PICK before : before = (p - 1) * w
    OBVIOUS
  <2>2. before \in Nat /\ before < count /\ Offset(p, w) = before
    BY <1>8, <2>1
  <2>3. before \in 0..(count - 1)
    BY <1>1, <2>2
  <2>4. ItemOn(before, p)
    BY <1>4, <2>2
  <2> QED
    BY <2>3, <2>4
<1> QED
  BY <1>2, <1>3, <1>5, <1>6, <1>9, <1>10 DEF first

\* A search answers with the page it asked for, whatever the configuration
\* (yma-search-client).
LEMMA SearchedPagesDoAgree == SearchedPagesAgree
<1> SUFFICES ASSUME NEW bounds \in [default : 1..LargestPageSize, max : 1..LargestPageSize],
                    NEW page \in AuditPages, NEW size \in AuditSizes, NEW hits \in 0..MaxRows,
                    NEW asked, asked = SearchedPage(bounds, page, size),
                    NEW said, said = SearchPagination(bounds, page, size, hits)
             PROVE  /\ said.page = asked.page /\ said.page_size = asked.page_size
                    /\ asked.offset < hits /\ (asked.page - 1) * asked.page_size < WordSize =>
                         said.page <= said.total_pages
                    /\ said.page <= said.total_pages => asked.offset < hits
  BY DEF SearchedPagesAgree
<1>1. /\ page \in Nat /\ size \in Nat /\ hits \in Nat /\ MaxRows \in Nat
      /\ hits <= MaxRows /\ MaxRows <= WordSize /\ WordSize \in Nat
      /\ LargestPageSize \in Nat
  BY PageParts
<1>2. bounds.default \in 1..LargestPageSize /\ bounds.max \in 1..LargestPageSize
  OBVIOUS
<1>3. PICK w : w = IF size = 0 THEN bounds.default
                   ELSE IF size > bounds.max THEN bounds.max ELSE size
  OBVIOUS
<1>4. w \in Nat \ {0} /\ w <= LargestPageSize
  BY <1>1, <1>2, <1>3
<1>5. PICK p : p = IF page = 0 THEN 1 ELSE page
  OBVIOUS
<1>6. p \in Nat \ {0}
  BY <1>1, <1>5
<1>7. asked = [page |-> p, page_size |-> w, offset |-> Offset(p, w)]
  BY <1>3, <1>5 DEF SearchedPage
<1>8. asked.page = p /\ asked.page_size = w /\ asked.offset = Offset(p, w)
  BY <1>7
<1>9. said = NewPagination(p, w, hits)
  BY <1>8 DEF SearchPagination
<1>10. /\ said.page = p /\ said.page_size = w
       /\ said.total_pages = (hits + w - 1) \div w
  <2>1. p # 0 /\ w # 0 /\ ~(w > LargestPageSize)
    BY <1>1, <1>4, <1>6
  <2>2. said = [page |-> p, page_size |-> w, total |-> hits,
                total_pages |-> (hits + w - 1) \div w]
    BY <1>9, <2>1 DEF NewPagination
  <2> QED
    BY <2>2
<1>11. PICK before : before = (p - 1) * w
  OBVIOUS
<1>12. PICK pages : pages = (hits + w - 1) \div w
  OBVIOUS
<1>13. pages \in Nat /\ before \in Nat /\ (p <= pages <=> before < hits)
  BY <1>1, <1>4, <1>6, <1>11, <1>12, PagesOfTotal
<1>14. before < WordSize => Offset(p, w) = before
  BY <1>4, <1>6, <1>11, OffsetStands
<1>15. /\ asked.offset < hits /\ (asked.page - 1) * asked.page_size < WordSize =>
            said.page <= said.total_pages
  BY <1>8, <1>10, <1>11, <1>12, <1>13, <1>14
<1>16. said.page <= said.total_pages => asked.offset < hits
  <2>1. before < hits => before < WordSize
    BY <1>1, <1>13
  <2> QED
    BY <1>8, <1>10, <1>12, <1>13, <1>14, <2>1
<1> QED
  BY <1>8, <1>10, <1>15, <1>16

=============================================================================
