----------------------------- MODULE RefreshTokens -----------------------------
(***************************************************************************)
(* The refresh tokens of yma-auth (yma-auth/src/session_refresh.rs).       *)
(*                                                                         *)
(* RefreshTokenManager is used through &mut self: one operation at a time, *)
(* so every operation is one action.  What makes it hard is the long life  *)
(* of a token: it is issued, rotated (perhaps again and again), revoked,   *)
(* outlived by the clock and swept, in any order, and each of these reads  *)
(* marks that the others left.                                             *)
(*                                                                         *)
(* A token value and its hash are one element of Tokens.  Time is Utc::now *)
(* in minutes and does not go back.                                        *)
(***************************************************************************)
EXTENDS Naturals, FiniteSets, TLC

CONSTANTS
  Users,
  Tokens,                    (* token values, drawn at random, never twice *)
  TTL,                       (* ttl_days                                   *)
  GRACE,                     (* rotation_grace_period_minutes              *)
  MAX_TOKENS_PER_USER,
  MaxTime,                   (* bound on the clock, for model checking     *)
  NoRecord                   (* a token that is not a key of tokens        *)

RefreshTokenRecord ==
  [user_id    : Users,
   issued_at  : Nat,
   expires_at : Nat,
   rotated    : BOOLEAN,     \* rotated_from.is_some()
   revoked    : BOOLEAN]     \* revoked_at.is_some()

ASSUME ConfigAssumption ==
  /\ TTL \in Nat
  /\ GRACE \in Nat
  /\ MAX_TOKENS_PER_USER \in Nat
  /\ NoRecord \notin RefreshTokenRecord

VARIABLES
  tokens,                    (* [Tokens -> record], NoRecord where absent  *)
  user_tokens,               (* [Users -> SUBSET Tokens], each user's list *)
  rotation_enabled,          (* the switch of RefreshTokenConfig           *)
  issued,                    (* the values generate_random_string has made *)
  now

vars == <<tokens, user_tokens, rotation_enabled, issued, now>>

Init ==
  /\ tokens = [h \in Tokens |-> NoRecord]
  /\ user_tokens = [u \in Users |-> {}]
  /\ rotation_enabled \in BOOLEAN
  /\ issued = {}
  /\ now = 0

-----------------------------------------------------------------------------
(***************************************************************************)
(* get_token_status, check_rotation_grace and validate_token.              *)
(***************************************************************************)
Known(h) == tokens[h] # NoRecord

\* Mutant of Status: a rotated token is reported as rotated, revoked or not.
StatusRotatedFirst(h) ==
  CASE tokens[h].rotated          -> "Rotated"
    [] ~tokens[h].rotated /\ tokens[h].revoked -> "Revoked"
    [] OTHER -> IF now > tokens[h].expires_at THEN "Expired" ELSE "Valid"

Status(h) ==
  CASE tokens[h].revoked          -> "Revoked"
    [] /\ ~tokens[h].revoked
       /\ now > tokens[h].expires_at -> "Expired"
    [] OTHER -> IF tokens[h].rotated THEN "Rotated" ELSE "Valid"

\* The grace period runs from the moment the old token was ISSUED.
InGrace(h) == now <= tokens[h].issued_at + GRACE

Validates(h) ==
  /\ Known(h)
  /\ \/ Status(h) = "Valid"
     \/ Status(h) = "Rotated" /\ InGrace(h)

\* Mutant of AtLimit: one token too many.
OverLimit(u) == Cardinality(user_tokens[u]) > MAX_TOKENS_PER_USER

AtLimit(u) == Cardinality(user_tokens[u]) >= MAX_TOKENS_PER_USER

-----------------------------------------------------------------------------
\* Mutant of NewRecord: the remaining time is stored, which can be negative.
NewRecordRemaining(u) ==
  [user_id |-> u, issued_at |-> now, expires_at |-> TTL - now,
   rotated |-> FALSE, revoked |-> FALSE]

NewRecord(u) ==
  [user_id |-> u, issued_at |-> now, expires_at |-> now + TTL,
   rotated |-> FALSE, revoked |-> FALSE]

\* The tail of issue_token: a fresh token of u enters both maps, on top of the
\* records in known.
Store(u, h, known) ==
  /\ tokens' = [known EXCEPT ![h] = NewRecord(u)]
  /\ user_tokens' = [user_tokens EXCEPT ![u] = @ \cup {h}]
  /\ issued' = issued \cup {h}

IssueToken(u) ==
  /\ ~AtLimit(u)
  /\ \E h \in Tokens \ issued : Store(u, h, tokens)
  /\ UNCHANGED <<rotation_enabled, now>>

IssueRefused(u) ==
  /\ AtLimit(u)
  /\ UNCHANGED vars

(***************************************************************************)
(* rotate_token.  The old record is marked before issue_token is called,   *)
(* and issue_token can still fail on the user's limit.                     *)
(***************************************************************************)
\* Mutant of MarkRotated: the grace period restarts with each rotation.
MarkRotatedNow(h) ==
  [tokens EXCEPT ![h].rotated = TRUE, ![h].issued_at = now]

MarkRotated(h) == [tokens EXCEPT ![h].rotated = TRUE]

MayRotate(h) ==
  /\ rotation_enabled
  /\ Known(h)
  /\ Status(h) \in {"Valid", "Rotated"}

RotateToken(h) ==
  /\ MayRotate(h)
  /\ ~AtLimit(tokens[h].user_id)
  /\ \E g \in Tokens \ issued : Store(tokens[h].user_id, g, MarkRotated(h))
  /\ UNCHANGED <<rotation_enabled, now>>

RotateRefused(h) ==
  /\ MayRotate(h)
  /\ AtLimit(tokens[h].user_id)
  /\ tokens' = MarkRotated(h)
  /\ UNCHANGED <<user_tokens, rotation_enabled, issued, now>>

\* Rotation switched off (the old value is returned whatever it is), or an
\* unknown, expired or revoked token: nothing changes.
RotateWithoutEffect(h) ==
  /\ \/ ~rotation_enabled
     \/ ~Known(h)
     \/ Known(h) /\ Status(h) \in {"Expired", "Revoked"}
  /\ UNCHANGED vars

RevokeToken(h) ==
  /\ Known(h)
  /\ tokens' = [tokens EXCEPT ![h].revoked = TRUE]
  /\ UNCHANGED <<user_tokens, rotation_enabled, issued, now>>

\* revoke_all_user_tokens works from the user's list.
RevokeAllUserTokens(u) ==
  /\ tokens' = [h \in Tokens |->
                  IF h \in user_tokens[u] /\ Known(h)
                  THEN [tokens[h] EXCEPT !.revoked = TRUE]
                  ELSE tokens[h]]
  /\ UNCHANGED <<user_tokens, rotation_enabled, issued, now>>

\* cleanup_expired skips revoked tokens.
CleanupExpired ==
  LET expired == {h \in Tokens : Known(h) /\ Status(h) = "Expired"}
  IN  /\ tokens' = [h \in Tokens |-> IF h \in expired THEN NoRecord
                                     ELSE tokens[h]]
      /\ user_tokens' =
           [u \in Users |-> user_tokens[u] \
              {h \in expired : tokens[h].user_id = u}]
      /\ UNCHANGED <<rotation_enabled, issued, now>>

Tick ==
  /\ now < MaxTime
  /\ now' = now + 1
  /\ UNCHANGED <<tokens, user_tokens, rotation_enabled, issued>>

Next ==
  \/ \E u \in Users : IssueToken(u) \/ IssueRefused(u) \/ RevokeAllUserTokens(u)
  \/ \E h \in Tokens : \/ RotateToken(h)
                       \/ RotateRefused(h)
                       \/ RotateWithoutEffect(h)
                       \/ RevokeToken(h)
  \/ CleanupExpired
  \/ Tick

Spec == Init /\ [][Next]_vars

-----------------------------------------------------------------------------
TypeOK ==
  /\ tokens \in [Tokens -> RefreshTokenRecord \cup {NoRecord}]
  /\ user_tokens \in [Users -> SUBSET Tokens]
  /\ rotation_enabled \in BOOLEAN
  /\ issued \in SUBSET Tokens
  /\ now \in Nat

TokensOf(u) == {h \in Tokens : Known(h) /\ tokens[h].user_id = u}

\* A user's list, which the limit counts and revoke_all works from, holds
\* exactly the user's stored tokens; stored tokens have been issued.
ListMatchesTokens ==
  /\ \A u \in Users : user_tokens[u] = TokensOf(u)
  /\ \A h \in Tokens : Known(h) => h \in issued

\* However tokens are rotated, revoked and swept, the store never holds more
\* than max_tokens_per_user tokens of a user.
TokenLimitHolds ==
  \A u \in Users : /\ IsFiniteSet(user_tokens[u])
                   /\ Cardinality(user_tokens[u]) <= MAX_TOKENS_PER_USER

TokenInv == TypeOK /\ ListMatchesTokens /\ TokenLimitHolds

\* A token that has been issued and that validate_token refuses is refused for
\* ever: no later rotation, revocation, sweep or passage of time revives it.
DeadTokenStaysDead ==
  [][\A h \in issued : ~Validates(h) => ~Validates(h)']_vars

\* After revoke_all_user_tokens no token of the user is accepted, the ones in
\* their grace period included.
RevokeAllLeavesNone ==
  [][\A u \in Users : RevokeAllUserTokens(u) =>
       \A h \in Tokens :
         (Known(h)' /\ tokens'[h].user_id = u) => ~Validates(h)']_vars

-----------------------------------------------------------------------------
\* For TLC: users and tokens are interchangeable.
Symmetry ==
  Permutations(Users) \cup Permutations(Tokens)
=============================================================================
