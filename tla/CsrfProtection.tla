---------------------------- MODULE CsrfProtection ----------------------------
(***************************************************************************)
(* The one-time tokens of yma-csrf (yma-csrf/src/lib.rs).                  *)
(*                                                                         *)
(* token_store is a DashMap from session id to the current CsrfToken.      *)
(* generate_token overwrites the session's entry.  validate_token looks    *)
(* the entry up (keeping a read guard on its shard), compares, drops the   *)
(* guard and, if the token matched or has expired, removes the session's   *)
(* entry, whatever that entry is by then.  Other requests run between the  *)
(* two accesses; csrf_middleware gives every request the session           *)
(* "default", so all of them meet on one entry.                            *)
(***************************************************************************)
EXTENDS Naturals, FiniteSets

CONSTANTS
  Threads,        (* requests that are validated concurrently              *)
  Sessions,       (* session ids                                           *)
  Tokens,         (* token values: 32 random bytes, never drawn twice      *)
  NoToken         (* a session with no entry                               *)

ASSUME TokenAssumption == NoToken \notin Tokens

VARIABLES
  token_store,    (* [Sessions -> Tokens], NoToken where there is no entry *)
  expired,        (* the tokens that are past their ttl                    *)
  generated,      (* the tokens CsrfToken::generate has made               *)
  call,           (* what each thread is doing inside validate_token       *)
  accepted        (* [Tokens -> Nat]: calls that answered true, so far     *)

vars == <<token_store, expired, generated, call, accepted>>

(***************************************************************************)
(* A call of validate_token is idle, holds a read guard on the entry it    *)
(* found (its copy is "seen"), or has dropped it and will remove the       *)
(* session's entry, then answer "verdict".                                 *)
(***************************************************************************)
Idle == [at |-> "idle"]

Comparing == [at : {"comparing"}, session : Sessions, token : Tokens,
              seen : Tokens]

Removing == [at : {"removing"}, session : Sessions, seen : Tokens,
             verdict : BOOLEAN]

Init ==
  /\ token_store = [s \in Sessions |-> NoToken]
  /\ expired = {}
  /\ generated = {}
  /\ call = [t \in Threads |-> Idle]
  /\ accepted = [k \in Tokens |-> 0]

\* Mutant of Guarded: the guard of the lookup lives until the call returns.
GuardedToTheEnd(s) ==
  \E t \in Threads : call[t].at # "idle" /\ call[t].session = s

\* A read guard on the entry of s keeps writers of s out.
Guarded(s) == \E t \in Threads : call[t].at = "comparing" /\ call[t].session = s

GenerateToken(s) ==
  /\ ~Guarded(s)
  /\ \E k \in Tokens \ generated :
       /\ token_store' = [token_store EXCEPT ![s] = k]
       /\ generated' = generated \cup {k}
  /\ UNCHANGED <<expired, call, accepted>>

\* The ttl of a token runs out.
Expire(k) ==
  /\ k \in generated \ expired
  /\ expired' = expired \cup {k}
  /\ UNCHANGED <<token_store, generated, call, accepted>>

(***************************************************************************)
(* validate_token.  A request presents any token value, handed out or not. *)
(***************************************************************************)
\* Mutant of Lookup: a missing entry is not told from a stored one.
LookupUnchecked(t) ==
  /\ call[t] = Idle
  /\ \E s \in Sessions, k \in Tokens :
       call' = [call EXCEPT ![t] = [at |-> "comparing", session |-> s,
                                    token |-> k, seen |-> token_store[s]]]
  /\ UNCHANGED <<token_store, expired, generated, accepted>>

Lookup(t) ==
  /\ call[t] = Idle
  /\ \E s \in Sessions, k \in Tokens :
       /\ token_store[s] # NoToken
       /\ call' = [call EXCEPT ![t] = [at |-> "comparing", session |-> s,
                                       token |-> k,
                                       seen |-> token_store[s]]]
  /\ UNCHANGED <<token_store, expired, generated, accepted>>

LookupMissing(t) ==
  /\ call[t] = Idle
  /\ \E s \in Sessions : token_store[s] = NoToken
  /\ UNCHANGED vars

\* The comparison, and the guard is dropped.
RemoveNext(t, verdict) ==
  call' = [call EXCEPT ![t] = [at |-> "removing", session |-> call[t].session,
                               seen |-> call[t].seen, verdict |-> verdict]]

FoundExpired(t) ==
  /\ call[t].at = "comparing"
  /\ call[t].seen \in expired
  /\ RemoveNext(t, FALSE)
  /\ UNCHANGED <<token_store, expired, generated, accepted>>

Match(t) ==
  /\ call[t].at = "comparing"
  /\ call[t].seen \notin expired
  /\ call[t].token = call[t].seen
  /\ RemoveNext(t, TRUE)
  /\ UNCHANGED <<token_store, expired, generated, accepted>>

Mismatch(t) ==
  /\ call[t].at = "comparing"
  /\ call[t].seen \notin expired
  /\ call[t].token # call[t].seen
  /\ call' = [call EXCEPT ![t] = Idle]
  /\ UNCHANGED <<token_store, expired, generated, accepted>>

\* Mutant of Remove: the entry of an accepted token stays.
RemoveKeepsToken(t) ==
  /\ call[t].at = "removing"
  /\ accepted' = [accepted EXCEPT ![call[t].seen] =
                    IF call[t].verdict THEN @ + 1 ELSE @]
  /\ call' = [call EXCEPT ![t] = Idle]
  /\ UNCHANGED <<token_store, expired, generated>>

\* The session's entry is removed and the call returns its verdict.
Remove(t) ==
  /\ call[t].at = "removing"
  /\ ~Guarded(call[t].session)
  /\ token_store' = [token_store EXCEPT ![call[t].session] = NoToken]
  /\ accepted' = [accepted EXCEPT ![call[t].seen] =
                    IF call[t].verdict THEN @ + 1 ELSE @]
  /\ call' = [call EXCEPT ![t] = Idle]
  /\ UNCHANGED <<expired, generated>>

\* cleanup_expired visits the entries one shard at a time.
CleanupExpired(s) ==
  /\ ~Guarded(s)
  /\ token_store[s] \in expired
  /\ token_store' = [token_store EXCEPT ![s] = NoToken]
  /\ UNCHANGED <<expired, generated, call, accepted>>

ValidateStep(t) == \/ FoundExpired(t)
                   \/ Match(t)
                   \/ Mismatch(t)
                   \/ Remove(t)

Next ==
  \/ \E s \in Sessions : GenerateToken(s) \/ CleanupExpired(s)
  \/ \E k \in Tokens : Expire(k)
  \/ \E t \in Threads : Lookup(t) \/ LookupMissing(t) \/ ValidateStep(t)

Spec == Init /\ [][Next]_vars

(***************************************************************************)
(* A call that has started keeps being scheduled.  A shard's lock gives a  *)
(* waiting writer no turn of its own: it is let in when it finds no reader *)
(* inside, so the fairness of its last step is weak.                       *)
(***************************************************************************)
FairSpec == Spec /\ \A t \in Threads : WF_vars(ValidateStep(t))

-----------------------------------------------------------------------------
TypeOK ==
  /\ token_store \in [Sessions -> Tokens \cup {NoToken}]
  /\ expired \in SUBSET Tokens
  /\ generated \in SUBSET Tokens
  /\ call \in [Threads -> {Idle} \cup Comparing \cup Removing]
  /\ accepted \in [Tokens -> Nat]

\* The tokens a session's entry holds or a call about it compares with.
InUse(s) ==
  {k \in Tokens : \/ token_store[s] = k
                  \/ \E t \in Threads : /\ call[t].at # "idle"
                                        /\ call[t].session = s
                                        /\ call[t].seen = k}

\* One-time use, as a caller sees it: once validate_token has answered true
\* for a token, no session holds it any more, so no call that starts later can
\* be answered true for it; and no token is ever in use for two sessions.
Spent(k) == accepted[k] > 0

SpentTokensAreGone ==
  /\ \A k \in Tokens, s \in Sessions : Spent(k) => token_store[s] # k
  /\ \A s, r \in Sessions : s # r => InUse(s) \cap InUse(r) = {}

\* Nothing is in use or spent that generate_token has not made.
OnlyGeneratedInUse ==
  /\ \A s \in Sessions : InUse(s) \subseteq generated
  /\ \A k \in Tokens : Spent(k) => k \in generated

\* The inductive invariant behind the theorems of CsrfProofs.
CsrfInv == TypeOK /\ SpentTokensAreGone /\ OnlyGeneratedInUse

\* Another request looks the entry up that t's call is about.
LooksUpToo(t) ==
  /\ call[t] # Idle
  /\ \E r \in Threads \ {t} : Lookup(r) /\ call'[r].session = call[t].session

\* A validation returns unless other requests look its entry up again and again
\* for ever: the guard of a lookup, its own or another's, is dropped before the
\* entry is removed, so no call waits for itself and no two for each other.
\* (With a reader always inside, the removal does wait for ever.)
ValidationReturns ==
  \A t \in Threads : \/ []<>(call[t] = Idle)
                     \/ []<><<LooksUpToo(t)>>_vars

-----------------------------------------------------------------------------
(***************************************************************************)
(* Line 4 ("a one-time token, invalid at once after it is validated").     *)
(* It holds when validations do not overlap, and fails when two do.        *)
(***************************************************************************)
OneTimeToken == \A k \in Tokens : accepted[k] <= 1

\* No two validations that compare with the same token overlap.
NoOverlap ==
  \A t, r \in Threads :
    (call[t].at # "idle" /\ call[r].at # "idle" /\ call[t].seen = call[r].seen)
      => t = r
=============================================================================
