------------------------------ MODULE CsrfProofs ------------------------------
(***************************************************************************)
(* Proofs about CsrfProtection, for any number of requests, sessions and   *)
(* tokens.                                                                 *)
(*                                                                         *)
(* The argument: a token comes into use for one session, when it is        *)
(* generated, and every later step only makes the sets of tokens in use    *)
(* smaller (UseOnlyShrinks).  So the call that accepts a token clears the  *)
(* only entry that can hold it, although it removes whatever is there, and *)
(* what is spent cannot come back, because it has been generated.          *)
(***************************************************************************)
EXTENDS CsrfProtection, TLAPS

USE TokenAssumption

LEMMA InitCsrfInv == Init => CsrfInv
BY DEF Init, CsrfInv, TypeOK, SpentTokensAreGone, OnlyGeneratedInUse, InUse,
       Spent, Idle

\* What a call of validate_token carries.
LEMMA ValidationTypes ==
  ASSUME TypeOK, NEW t \in Threads
  PROVE  /\ call[t].at = "comparing" => call[t] \in Comparing
         /\ call[t].at = "removing" => call[t] \in Removing
         /\ call[t].at # "idle" =>
              call[t].session \in Sessions /\ call[t].seen \in Tokens
BY DEF TypeOK, Idle, Comparing, Removing

\* Each action keeps the types.
LEMMA NextCsrfTypeOK == TypeOK /\ [Next]_vars => TypeOK'
<1> SUFFICES ASSUME TypeOK, [Next]_vars PROVE TypeOK'
  OBVIOUS
<1>1. ASSUME NEW s \in Sessions, GenerateToken(s) PROVE TypeOK'
  BY <1>1 DEF GenerateToken, TypeOK
<1>2. ASSUME NEW s \in Sessions, CleanupExpired(s) PROVE TypeOK'
  BY <1>2 DEF CleanupExpired, TypeOK
<1>3. ASSUME NEW k \in Tokens, Expire(k) PROVE TypeOK'
  BY <1>3 DEF Expire, TypeOK
<1>4. ASSUME NEW t \in Threads, Lookup(t) PROVE TypeOK'
  <2> PICK s \in Sessions, k \in Tokens :
         /\ token_store[s] # NoToken
         /\ call' = [call EXCEPT ![t] = [at |-> "comparing", session |-> s,
                                         token |-> k, seen |-> token_store[s]]]
    BY <1>4 DEF Lookup
  <2>1. [at |-> "comparing", session |-> s, token |-> k,
         seen |-> token_store[s]] \in Comparing
    BY DEF TypeOK, Comparing
  <2> QED
    BY <1>4, <2>1 DEF Lookup, TypeOK
<1>5. ASSUME NEW t \in Threads, NEW verdict \in BOOLEAN,
             call[t].at = "comparing", RemoveNext(t, verdict),
             UNCHANGED <<token_store, expired, generated, accepted>>
      PROVE  TypeOK'
  <2>1. call[t].session \in Sessions /\ call[t].seen \in Tokens
    BY <1>5, ValidationTypes
  <2>2. [at |-> "removing", session |-> call[t].session, seen |-> call[t].seen,
         verdict |-> verdict] \in Removing
    BY <2>1 DEF Removing
  <2> QED
    BY <1>5, <2>2 DEF RemoveNext, TypeOK
<1>6. ASSUME NEW t \in Threads, Mismatch(t) PROVE TypeOK'
  BY <1>6 DEF Mismatch, TypeOK
<1>7. ASSUME NEW t \in Threads, Remove(t) PROVE TypeOK'
  <2>1. call[t].session \in Sessions /\ call[t].seen \in Tokens
    BY <1>7, ValidationTypes DEF Remove
  <2> QED
    BY <1>7, <2>1 DEF Remove, TypeOK
<1>8. CASE UNCHANGED vars
  BY <1>8 DEF vars, TypeOK
<1> QED
  BY <1>1, <1>2, <1>3, <1>4, <1>5, <1>6, <1>7, <1>8
  DEF Next, LookupMissing, ValidateStep, FoundExpired, Match

(***************************************************************************)
(* Only generate_token brings a token into use; a look-up takes a copy of  *)
(* one that is, and a comparison or a removal drops it.                    *)
(***************************************************************************)
LEMMA UseOnlyShrinks ==
  ASSUME TypeOK, [Next]_vars, \A r \in Sessions : ~GenerateToken(r),
         NEW s \in Sessions
  PROVE  InUse(s)' \subseteq InUse(s)
<1>1. ASSUME NEW r \in Sessions, CleanupExpired(r)
      PROVE  InUse(s)' \subseteq InUse(s)
  BY <1>1 DEF CleanupExpired, InUse, TypeOK
<1>2. ASSUME NEW t \in Threads, Lookup(t) PROVE InUse(s)' \subseteq InUse(s)
  <2> PICK r \in Sessions, k \in Tokens :
         /\ token_store[r] # NoToken
         /\ call' = [call EXCEPT ![t] = [at |-> "comparing", session |-> r,
                                         token |-> k, seen |-> token_store[r]]]
    BY <1>2 DEF Lookup
  <2>1. /\ call'[t].session = r /\ call'[t].seen = token_store[r]
        /\ \A q \in Threads \ {t} : call'[q] = call[q]
        /\ token_store' = token_store
    BY <1>2 DEF Lookup, TypeOK
  <2> QED
    BY <2>1 DEF InUse
<1>3. ASSUME NEW t \in Threads, NEW verdict \in BOOLEAN,
             call[t].at = "comparing", RemoveNext(t, verdict),
             token_store' = token_store
      PROVE  InUse(s)' \subseteq InUse(s)
  <2>1. /\ call'[t].session = call[t].session /\ call'[t].seen = call[t].seen
        /\ \A q \in Threads \ {t} : call'[q] = call[q]
    BY <1>3 DEF RemoveNext, TypeOK
  <2> QED
    BY <1>3, <2>1 DEF InUse
<1>4. ASSUME NEW t \in Threads, call' = [call EXCEPT ![t] = Idle],
             \A r \in Sessions : token_store'[r] \in {token_store[r], NoToken}
      PROVE  InUse(s)' \subseteq InUse(s)
  <2>1. /\ call'[t].at = "idle"
        /\ \A q \in Threads \ {t} : call'[q] = call[q]
    BY <1>4 DEF TypeOK, Idle
  <2> QED
    BY <1>4, <2>1 DEF InUse
<1>5. ASSUME NEW t \in Threads, Remove(t) PROVE InUse(s)' \subseteq InUse(s)
  BY <1>4, <1>5 DEF Remove, TypeOK
<1>6. CASE UNCHANGED <<token_store, call>>
  BY <1>6 DEF InUse
<1> QED
  BY <1>1, <1>2, <1>3, <1>4, <1>5, <1>6
  DEF Next, Expire, LookupMissing, ValidateStep, FoundExpired, Match, Mismatch,
      vars

\* generate_token brings a new token into use, for its own session.
LEMMA GenerateFacts ==
  ASSUME CsrfInv, NEW s \in Sessions, GenerateToken(s)
  PROVE  \E k \in Tokens \ generated :
           /\ generated' = generated \cup {k}
           /\ InUse(s)' \subseteq InUse(s) \cup {k}
           /\ \A r \in Sessions \ {s} : InUse(r)' \subseteq InUse(r)
           /\ ~Spent(k)
<1> PICK k \in Tokens \ generated :
       /\ token_store' = [token_store EXCEPT ![s] = k]
       /\ generated' = generated \cup {k}
  BY DEF GenerateToken
<1>1. InUse(s)' \subseteq InUse(s) \cup {k}
  BY DEF GenerateToken, CsrfInv, TypeOK, InUse
<1>2. \A r \in Sessions \ {s} : InUse(r)' \subseteq InUse(r)
  BY DEF GenerateToken, CsrfInv, TypeOK, InUse
<1>3. ~Spent(k)
  BY DEF CsrfInv, OnlyGeneratedInUse
<1> QED
  BY <1>1, <1>2, <1>3

\* The tokens made so far stay known.
LEMMA GeneratedGrows ==
  ASSUME [Next]_vars PROVE generated \subseteq generated'
BY DEF Next, GenerateToken, CleanupExpired, Expire, Lookup, LookupMissing,
       ValidateStep, FoundExpired, Match, Mismatch, Remove, vars

\* No token comes to be in use for two sessions, or without having been made.
LEMMA NextUse ==
  ASSUME CsrfInv, [Next]_vars
  PROVE  /\ \A s, r \in Sessions : s # r => InUse(s)' \cap InUse(r)' = {}
         /\ \A s \in Sessions : InUse(s)' \subseteq generated'
<1>0. /\ TypeOK
      /\ \A s, r \in Sessions : s # r => InUse(s) \cap InUse(r) = {}
      /\ \A s \in Sessions : InUse(s) \subseteq generated
      /\ generated \subseteq generated'
  BY GeneratedGrows DEF CsrfInv, SpentTokensAreGone, OnlyGeneratedInUse
<1>1. CASE \A q \in Sessions : ~GenerateToken(q)
  <2>1. \A s \in Sessions : InUse(s)' \subseteq InUse(s)
    BY <1>0, <1>1, UseOnlyShrinks
  <2> QED
    BY <1>0, <2>1
<1>2. ASSUME NEW q \in Sessions, GenerateToken(q)
      PROVE  /\ \A s, r \in Sessions : s # r => InUse(s)' \cap InUse(r)' = {}
             /\ \A s \in Sessions : InUse(s)' \subseteq generated'
  <2> PICK k \in Tokens \ generated :
         /\ generated' = generated \cup {k}
         /\ InUse(q)' \subseteq InUse(q) \cup {k}
         /\ \A r \in Sessions \ {q} : InUse(r)' \subseteq InUse(r)
    BY <1>2, GenerateFacts
  <2> QED
    BY <1>0
<1> QED
  BY <1>1, <1>2

(***************************************************************************)
(* Remove: what it accepts was in use for its own session and so for no    *)
(* other, and that session's entry goes.                                   *)
(***************************************************************************)
LEMMA RemoveSpends ==
  ASSUME CsrfInv, NEW t \in Threads, Remove(t)
  PROVE  /\ \A k \in Tokens, s \in Sessions : Spent(k)' => token_store'[s] # k
         /\ \A k \in Tokens : Spent(k)' => k \in generated'
<1> DEFINE own == call[t].session
           seen == call[t].seen
<1>0. /\ TypeOK /\ SpentTokensAreGone /\ OnlyGeneratedInUse
      /\ own \in Sessions /\ seen \in Tokens
  BY ValidationTypes DEF CsrfInv, Remove
<1>1. seen \in InUse(own)
  BY <1>0 DEF Remove, InUse
<1>2. \A k \in Tokens : Spent(k)' => k = seen \/ Spent(k)
  BY <1>0 DEF Remove, Spent, TypeOK
<1>3. \A s \in Sessions : token_store'[s] = IF s = own THEN NoToken
                                            ELSE token_store[s]
  BY <1>0 DEF Remove, TypeOK
<1>4. \A s \in Sessions \ {own} : token_store[s] # seen
  <2> SUFFICES ASSUME NEW s \in Sessions \ {own}, token_store[s] = seen
               PROVE  FALSE
    OBVIOUS
  <2>1. seen \in InUse(s)
    BY <1>0 DEF InUse
  <2> QED
    BY <1>0, <1>1, <2>1 DEF SpentTokensAreGone
<1>5. generated' = generated
  BY DEF Remove
<1> HIDE DEF own, seen
<1> QED
  BY <1>0, <1>1, <1>2, <1>3, <1>4, <1>5
  DEF SpentTokensAreGone, OnlyGeneratedInUse

\* No step brings a spent token back into the store.
LEMMA NextSpent ==
  ASSUME CsrfInv, [Next]_vars
  PROVE  /\ \A k \in Tokens, s \in Sessions : Spent(k)' => token_store'[s] # k
         /\ \A k \in Tokens : Spent(k)' => k \in generated'
<1>0. /\ TypeOK /\ SpentTokensAreGone /\ OnlyGeneratedInUse
      /\ generated \subseteq generated'
  BY GeneratedGrows DEF CsrfInv
<1>1. ASSUME accepted' = accepted,
             \A s \in Sessions :
               \/ token_store'[s] \in {token_store[s], NoToken}
               \/ token_store'[s] \notin generated
      PROVE  /\ \A k \in Tokens, s \in Sessions :
                  Spent(k)' => token_store'[s] # k
             /\ \A k \in Tokens : Spent(k)' => k \in generated'
  BY <1>0, <1>1 DEF SpentTokensAreGone, OnlyGeneratedInUse, Spent
<1>2. ASSUME NEW s \in Sessions, GenerateToken(s)
      PROVE  /\ accepted' = accepted
             /\ \A r \in Sessions :
                  \/ token_store'[r] \in {token_store[r], NoToken}
                  \/ token_store'[r] \notin generated
  BY <1>0, <1>2 DEF GenerateToken, TypeOK
<1>3. ASSUME NEW s \in Sessions, CleanupExpired(s)
      PROVE  /\ accepted' = accepted
             /\ \A r \in Sessions :
                  token_store'[r] \in {token_store[r], NoToken}
  BY <1>0, <1>3 DEF CleanupExpired, TypeOK
<1>4. CASE UNCHANGED <<token_store, accepted>>
  BY <1>1, <1>4
<1> QED
  BY <1>1, <1>2, <1>3, <1>4, RemoveSpends
  DEF Next, Expire, Lookup, LookupMissing, ValidateStep, FoundExpired, Match,
      Mismatch, vars

\* Whatever validations, generations, expiries and sweeps overlap, what is in
\* use is one session's, was made by generate_token, and is not spent.
THEOREM CsrfInvariant == Spec => []CsrfInv
<1>1. CsrfInv /\ [Next]_vars => CsrfInv'
  <2> SUFFICES ASSUME CsrfInv, [Next]_vars PROVE CsrfInv'
    OBVIOUS
  <2>1. TypeOK'
    BY NextCsrfTypeOK DEF CsrfInv
  <2>2. SpentTokensAreGone'
    BY NextUse, NextSpent DEF SpentTokensAreGone
  <2>3. OnlyGeneratedInUse'
    BY NextUse, NextSpent DEF OnlyGeneratedInUse
  <2> QED
    BY <2>1, <2>2, <2>3 DEF CsrfInv
<1> QED
  BY InitCsrfInv, <1>1, PTL DEF Spec

\* The store, the calls and the counts keep their types.
THEOREM CsrfTypeCorrect == Spec => []TypeOK
<1>1. CsrfInv => TypeOK
  BY DEF CsrfInv
<1> QED
  BY <1>1, CsrfInvariant, PTL

\* A token that validate_token has accepted is in no session's entry, although
\* the entry is removed by session and not by token, and after its guard has
\* been dropped; and no token is ever in use for two sessions.
THEOREM CsrfSpentTokensAreGone == Spec => []SpentTokensAreGone
<1>1. CsrfInv => SpentTokensAreGone
  BY DEF CsrfInv
<1> QED
  BY <1>1, CsrfInvariant, PTL

(***************************************************************************)
(* What overlapping does to line 4 is all that is wrong with it: while no  *)
(* two validations compare with one token, a call that is under way has    *)
(* seen a token that is not spent.                                         *)
(***************************************************************************)
SeenAreUnspent ==
  \A t \in Threads : call[t].at # "idle" => ~Spent(call[t].seen)

LEMMA NextOneTime ==
  ASSUME CsrfInv, NoOverlap, SeenAreUnspent, OneTimeToken, [Next]_vars
  PROVE  SeenAreUnspent' /\ OneTimeToken'
<1>0. TypeOK /\ SpentTokensAreGone /\ \A k \in Tokens : accepted[k] \in Nat
  BY DEF CsrfInv, TypeOK
<1>1. ASSUME NEW t \in Threads, Lookup(t)
      PROVE  SeenAreUnspent' /\ OneTimeToken'
  <2> PICK s \in Sessions, k \in Tokens :
         /\ token_store[s] # NoToken
         /\ call' = [call EXCEPT ![t] = [at |-> "comparing", session |-> s,
                                         token |-> k, seen |-> token_store[s]]]
    BY <1>1 DEF Lookup
  <2>1. accepted' = accepted
    BY <1>1 DEF Lookup
  <2>2. ~Spent(token_store[s])
    BY <1>0 DEF TypeOK, SpentTokensAreGone
  <2>3. /\ call'[t].seen = token_store[s]
        /\ \A r \in Threads \ {t} : call'[r] = call[r]
    BY <1>0 DEF TypeOK
  <2> QED
    BY <2>1, <2>2, <2>3 DEF SeenAreUnspent, OneTimeToken, Spent
<1>2. ASSUME NEW t \in Threads, NEW verdict \in BOOLEAN,
             call[t].at = "comparing", RemoveNext(t, verdict),
             accepted' = accepted
      PROVE  SeenAreUnspent' /\ OneTimeToken'
  <2>1. /\ call'[t].seen = call[t].seen
        /\ \A r \in Threads \ {t} : call'[r] = call[r]
    BY <1>0, <1>2 DEF RemoveNext, TypeOK
  <2> QED
    BY <1>2, <2>1 DEF SeenAreUnspent, OneTimeToken, Spent
<1>3. ASSUME NEW t \in Threads, Mismatch(t)
      PROVE  SeenAreUnspent' /\ OneTimeToken'
  BY <1>0, <1>3 DEF Mismatch, SeenAreUnspent, OneTimeToken, Spent, TypeOK, Idle
<1>4. ASSUME NEW t \in Threads, Remove(t)
      PROVE  SeenAreUnspent' /\ OneTimeToken'
  <2> DEFINE seen == call[t].seen
  <2>1. seen \in Tokens /\ accepted[seen] = 0
    BY <1>0, <1>4, ValidationTypes DEF Remove, SeenAreUnspent, Spent
  <2>2. accepted' = [accepted EXCEPT ![seen] = IF call[t].verdict
                                               THEN accepted[seen] + 1
                                               ELSE accepted[seen]]
    BY <1>4 DEF Remove
  <2>3. /\ accepted'[seen] \in {0, 1}
        /\ \A k \in Tokens \ {seen} : accepted'[k] = accepted[k]
    BY <1>0, <2>1, <2>2 DEF TypeOK
  <2>4. /\ call'[t].at = "idle"
        /\ \A r \in Threads \ {t} : call'[r] = call[r]
    BY <1>0, <1>4 DEF Remove, TypeOK, Idle
  <2>5. \A r \in Threads \ {t} :
          call[r].at # "idle" => call[r].seen \in Tokens \ {seen}
    BY <1>0, <1>4, ValidationTypes DEF Remove, NoOverlap
  <2> HIDE DEF seen
  <2>6. SeenAreUnspent'
    BY <2>3, <2>4, <2>5 DEF SeenAreUnspent, Spent
  <2>7. OneTimeToken'
    BY <2>3 DEF OneTimeToken
  <2> QED
    BY <2>6, <2>7
<1>5. CASE UNCHANGED <<call, accepted>>
  BY <1>5 DEF SeenAreUnspent, OneTimeToken, Spent
<1> QED
  BY <1>1, <1>2, <1>3, <1>4, <1>5
  DEF Next, GenerateToken, CleanupExpired, Expire, LookupMissing, ValidateStep,
      FoundExpired, Match, vars

\* The one-time token of line 4: a token is accepted at most once as long as no
\* two validations that compare with it overlap.
THEOREM CsrfOneTimeWithoutOverlap == Spec /\ []NoOverlap => []OneTimeToken
<1>1. Init => SeenAreUnspent /\ OneTimeToken
  BY DEF Init, SeenAreUnspent, OneTimeToken, Idle
<1>2. CsrfInv /\ NoOverlap /\ SeenAreUnspent /\ OneTimeToken /\ [Next]_vars
        => SeenAreUnspent' /\ OneTimeToken'
  BY NextOneTime
<1> QED
  BY <1>1, <1>2, CsrfInvariant, PTL DEF Spec
=============================================================================
