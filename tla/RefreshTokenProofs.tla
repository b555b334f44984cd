-------------------------- MODULE RefreshTokenProofs --------------------------
(***************************************************************************)
(* Proofs about RefreshTokens, for any users, tokens, lifetimes and limit. *)
(*                                                                         *)
(* TokenInv is inductive: every operation moves the two maps together, and *)
(* only Store makes a list longer, after the limit has been checked.  From *)
(* it follows that a dead token stays dead: a record is written under its  *)
(* own fresh key only, and no operation clears a mark or moves a date.     *)
(***************************************************************************)
EXTENDS RefreshTokens, FiniteSetTheorems, TLAPS

USE ConfigAssumption

LEMMA InitTokenInv == Init => TokenInv
<1> SUFFICES ASSUME Init PROVE TokenInv
  OBVIOUS
<1>1. TypeOK
  BY DEF Init, TypeOK
<1>2. ListMatchesTokens
  BY DEF Init, ListMatchesTokens, TokensOf, Known
<1>3. TokenLimitHolds
  BY FS_EmptySet DEF Init, TokenLimitHolds
<1> QED
  BY <1>1, <1>2, <1>3 DEF TokenInv

\* A record with its marks set is still a record.
LEMMA MarkedRecords ==
  ASSUME TypeOK, NEW h \in Tokens, Known(h)
  PROVE  /\ [tokens[h] EXCEPT !.rotated = TRUE] \in RefreshTokenRecord
         /\ [tokens[h] EXCEPT !.revoked = TRUE] \in RefreshTokenRecord
BY DEF TypeOK, Known, RefreshTokenRecord

\* Marking a token as rotated keeps the types, the owners and the keys.
LEMMA MarkRotatedFacts ==
  ASSUME TypeOK, NEW h \in Tokens, Known(h)
  PROVE  /\ MarkRotated(h) \in [Tokens -> RefreshTokenRecord \cup {NoRecord}]
         /\ \A g \in Tokens : (MarkRotated(h)[g] = NoRecord) <=> ~Known(g)
         /\ \A g \in Tokens : Known(g) =>
              /\ MarkRotated(h)[g].user_id = tokens[g].user_id
              /\ MarkRotated(h)[g].issued_at = tokens[g].issued_at
              /\ MarkRotated(h)[g].expires_at = tokens[g].expires_at
              /\ MarkRotated(h)[g].revoked = tokens[g].revoked
              /\ tokens[g].rotated => MarkRotated(h)[g].rotated
         /\ \A g \in Tokens \ {h} : MarkRotated(h)[g] = tokens[g]
<1>1. MarkRotated(h) = [tokens EXCEPT ![h] =
                          [tokens[h] EXCEPT !.rotated = TRUE]]
  BY DEF MarkRotated
<1>2. /\ [tokens[h] EXCEPT !.rotated = TRUE] \in RefreshTokenRecord
      /\ tokens[h] \in RefreshTokenRecord
  BY MarkedRecords DEF TypeOK, Known
<1>3. /\ MarkRotated(h)[h] = [tokens[h] EXCEPT !.rotated = TRUE]
      /\ \A g \in Tokens \ {h} : MarkRotated(h)[g] = tokens[g]
      /\ MarkRotated(h) \in [Tokens -> RefreshTokenRecord \cup {NoRecord}]
  BY <1>1, <1>2 DEF TypeOK
<1>4. /\ [tokens[h] EXCEPT !.rotated = TRUE].user_id = tokens[h].user_id
      /\ [tokens[h] EXCEPT !.rotated = TRUE].issued_at = tokens[h].issued_at
      /\ [tokens[h] EXCEPT !.rotated = TRUE].expires_at = tokens[h].expires_at
      /\ [tokens[h] EXCEPT !.rotated = TRUE].revoked = tokens[h].revoked
      /\ [tokens[h] EXCEPT !.rotated = TRUE].rotated
      /\ [tokens[h] EXCEPT !.rotated = TRUE] # NoRecord
  BY <1>2 DEF RefreshTokenRecord
<1> HIDE DEF MarkRotated
<1> QED
  BY <1>3, <1>4 DEF Known

(***************************************************************************)
(* What storing a fresh token of u, on top of the records known, does.     *)
(***************************************************************************)
LEMMA StoreKeepsInv ==
  ASSUME TokenInv, NEW u \in Users, NEW g \in Tokens \ issued,
         NEW known \in [Tokens -> RefreshTokenRecord \cup {NoRecord}],
         \A h \in Tokens : (known[h] = NoRecord) <=> ~Known(h),
         \A h \in Tokens : Known(h) => known[h].user_id = tokens[h].user_id,
         ~AtLimit(u), Store(u, g, known),
         rotation_enabled' \in BOOLEAN, now' = now
  PROVE  TokenInv'
<1>1. NewRecord(u) \in RefreshTokenRecord /\ NewRecord(u).user_id = u
  BY DEF NewRecord, RefreshTokenRecord, TokenInv, TypeOK
<1>2. tokens' = [known EXCEPT ![g] = NewRecord(u)]
      /\ user_tokens' = [user_tokens EXCEPT ![u] = @ \cup {g}]
      /\ issued' = issued \cup {g}
  BY DEF Store
<1>3. TypeOK'
  BY <1>1, <1>2 DEF TokenInv, TypeOK
<1>4. ~Known(g) /\ NewRecord(u) # NoRecord
  BY <1>1 DEF TokenInv, ListMatchesTokens
<1>5. ListMatchesTokens'
  <2>1. \A v \in Users : TokensOf(v)' = IF v = u THEN TokensOf(v) \cup {g}
                                        ELSE TokensOf(v)
    BY <1>1, <1>2, <1>4 DEF TokensOf, Known
  <2>2. \A h \in Tokens : Known(h)' => h \in issued'
    BY <1>2 DEF Known, TokenInv, ListMatchesTokens
  <2>3. \A v \in Users : user_tokens'[v] = IF v = u THEN user_tokens[v] \cup {g}
                                           ELSE user_tokens[v]
    BY <1>2 DEF TokenInv, TypeOK
  <2> QED
    BY <2>1, <2>2, <2>3 DEF TokenInv, ListMatchesTokens
<1>6. TokenLimitHolds'
  <2>1. /\ IsFiniteSet(user_tokens[u])
        /\ Cardinality(user_tokens[u]) \in Nat
        /\ Cardinality(user_tokens[u]) < MAX_TOKENS_PER_USER
    BY FS_CardinalityType DEF TokenInv, TokenLimitHolds, AtLimit
  <2>2. /\ IsFiniteSet(user_tokens[u] \cup {g})
        /\ Cardinality(user_tokens[u] \cup {g})
             = IF g \in user_tokens[u] THEN Cardinality(user_tokens[u])
               ELSE Cardinality(user_tokens[u]) + 1
    BY <2>1, FS_AddElement
  <2>3. Cardinality(user_tokens[u] \cup {g}) <= MAX_TOKENS_PER_USER
    BY <2>1, <2>2
  <2> QED
    BY <1>2, <2>2, <2>3 DEF TokenInv, TypeOK, TokenLimitHolds
<1> QED
  BY <1>3, <1>5, <1>6 DEF TokenInv

LEMMA NextTokenInv == TokenInv /\ [Next]_vars => TokenInv'
<1> SUFFICES ASSUME TokenInv, [Next]_vars PROVE TokenInv'
  OBVIOUS
<1>0. TypeOK /\ ListMatchesTokens /\ TokenLimitHolds
  BY DEF TokenInv
<1>1. ASSUME NEW u \in Users, IssueToken(u) PROVE TokenInv'
  <2> PICK g \in Tokens \ issued : Store(u, g, tokens)
    BY <1>1 DEF IssueToken
  <2> QED
    BY <1>0, <1>1, StoreKeepsInv DEF IssueToken, TypeOK, Known
<1>2. ASSUME NEW h \in Tokens, RotateToken(h) PROVE TokenInv'
  <2>1. Known(h) /\ tokens[h].user_id \in Users
    BY <1>0, <1>2 DEF RotateToken, MayRotate, TypeOK, Known, RefreshTokenRecord
  <2>2. PICK g \in Tokens \ issued :
             Store(tokens[h].user_id, g, MarkRotated(h))
    BY <1>2 DEF RotateToken
  <2>3. rotation_enabled' \in BOOLEAN
    BY <1>0, <1>2 DEF RotateToken, TypeOK
  <2> QED
    BY <1>0, <1>2, <2>1, <2>2, <2>3, StoreKeepsInv, MarkRotatedFacts
    DEF RotateToken
<1>3. ASSUME NEW h \in Tokens, RotateRefused(h) PROVE TokenInv'
  <2>1. Known(h) /\ tokens' = MarkRotated(h)
    BY <1>3 DEF RotateRefused, MayRotate
  <2>2. TypeOK'
    BY <1>0, <1>3, <2>1, MarkRotatedFacts DEF RotateRefused, TypeOK
  <2>3. ListMatchesTokens'
    BY <1>0, <1>3, <2>1, MarkRotatedFacts
    DEF RotateRefused, ListMatchesTokens, TokensOf, Known
  <2> QED
    BY <1>0, <1>3, <2>2, <2>3 DEF RotateRefused, TokenLimitHolds, TokenInv
<1>4. ASSUME NEW h \in Tokens, RevokeToken(h) PROVE TokenInv'
  <2>1. /\ Known(h)
        /\ tokens' = [tokens EXCEPT ![h] =
                        [tokens[h] EXCEPT !.revoked = TRUE]]
        /\ [tokens[h] EXCEPT !.revoked = TRUE] \in RefreshTokenRecord
        /\ tokens[h] \in RefreshTokenRecord
    BY <1>0, <1>4, MarkedRecords DEF RevokeToken, TypeOK, Known
  <2>2. TypeOK'
    BY <1>0, <1>4, <2>1 DEF RevokeToken, TypeOK
  <2>3. [tokens[h] EXCEPT !.revoked = TRUE].user_id = tokens[h].user_id
    BY <2>1 DEF RefreshTokenRecord
  <2>4. \A g \in Tokens : /\ (tokens'[g] = NoRecord) <=> ~Known(g)
                          /\ Known(g) => tokens'[g].user_id = tokens[g].user_id
    BY <1>0, <2>1, <2>3 DEF Known, TypeOK
  <2>5. ListMatchesTokens'
    BY <1>0, <1>4, <2>4 DEF RevokeToken, ListMatchesTokens, TokensOf, Known
  <2> QED
    BY <1>0, <1>4, <2>2, <2>5 DEF RevokeToken, TokenLimitHolds, TokenInv
<1>5. ASSUME NEW u \in Users, RevokeAllUserTokens(u) PROVE TokenInv'
  <2>1. \A h \in Tokens : Known(h) =>
          /\ tokens[h] \in RefreshTokenRecord
          /\ [tokens[h] EXCEPT !.revoked = TRUE] \in RefreshTokenRecord
          /\ [tokens[h] EXCEPT !.revoked = TRUE].user_id = tokens[h].user_id
    BY <1>0, MarkedRecords DEF TypeOK, Known, RefreshTokenRecord
  <2>2. tokens' = [h \in Tokens |->
                     IF h \in user_tokens[u] /\ Known(h)
                     THEN [tokens[h] EXCEPT !.revoked = TRUE] ELSE tokens[h]]
    BY <1>5 DEF RevokeAllUserTokens
  <2>3. \A h \in Tokens :
          /\ tokens'[h] \in RefreshTokenRecord \cup {NoRecord}
          /\ (tokens'[h] = NoRecord) <=> ~Known(h)
          /\ Known(h) => tokens'[h].user_id = tokens[h].user_id
    BY <1>0, <2>1, <2>2 DEF Known, TypeOK
  <2>4. TypeOK'
    BY <1>0, <1>5, <2>2, <2>3 DEF RevokeAllUserTokens, TypeOK
  <2>5. ListMatchesTokens'
    BY <1>0, <1>5, <2>3
    DEF RevokeAllUserTokens, ListMatchesTokens, TokensOf, Known
  <2> QED
    BY <1>0, <1>5, <2>4, <2>5 DEF RevokeAllUserTokens, TokenLimitHolds, TokenInv
<1>6. ASSUME CleanupExpired PROVE TokenInv'
  <2> DEFINE expired == {h \in Tokens : Known(h) /\ Status(h) = "Expired"}
  <2>1. /\ tokens' = [h \in Tokens |-> IF h \in expired THEN NoRecord
                                       ELSE tokens[h]]
        /\ user_tokens' = [u \in Users |-> user_tokens[u] \
                             {h \in expired : tokens[h].user_id = u}]
        /\ UNCHANGED <<rotation_enabled, issued, now>>
    BY <1>6 DEF CleanupExpired
  <2> HIDE DEF expired
  <2>2. TypeOK'
    BY <1>0, <2>1 DEF TypeOK
  <2>3. ListMatchesTokens'
    BY <1>0, <2>1 DEF ListMatchesTokens, TokensOf, Known
  <2>4. TokenLimitHolds'
    <3> SUFFICES ASSUME NEW u \in Users
                 PROVE  /\ IsFiniteSet(user_tokens'[u])
                        /\ Cardinality(user_tokens'[u]) <= MAX_TOKENS_PER_USER
      BY DEF TokenLimitHolds
    <3>1. user_tokens'[u] \in SUBSET user_tokens[u]
      BY <2>1
    <3>2. /\ IsFiniteSet(user_tokens'[u])
          /\ Cardinality(user_tokens'[u]) <= Cardinality(user_tokens[u])
      BY <1>0, <3>1, FS_Subset DEF TokenLimitHolds
    <3>3. /\ Cardinality(user_tokens'[u]) \in Nat
          /\ Cardinality(user_tokens[u]) \in Nat
      BY <1>0, <3>2, FS_CardinalityType DEF TokenLimitHolds
    <3> QED
      BY <1>0, <3>2, <3>3 DEF TokenLimitHolds
  <2> QED
    BY <2>2, <2>3, <2>4 DEF TokenInv
<1>7. CASE Tick
  BY <1>0, <1>7
  DEF Tick, TypeOK, ListMatchesTokens, TokensOf, Known, TokenLimitHolds,
      TokenInv
<1>8. CASE UNCHANGED vars
  BY <1>0, <1>8
  DEF vars, TypeOK, ListMatchesTokens, TokensOf, Known, TokenLimitHolds,
      TokenInv
<1> QED
  BY <1>1, <1>2, <1>3, <1>4, <1>5, <1>6, <1>7, <1>8
  DEF Next, IssueRefused, RotateWithoutEffect

\* The types, the agreement of the two maps and the limit per user hold in
\* every reachable state.
THEOREM TokenInvariant == Spec => []TokenInv
BY InitTokenInv, NextTokenInv, PTL DEF Spec

\* Every record, list, mark and date keeps its type.
THEOREM RefreshTypeCorrect == Spec => []TypeOK
<1>1. TokenInv => TypeOK
  BY DEF TokenInv
<1> QED
  BY <1>1, TokenInvariant, PTL

\* The list revoke_all_user_tokens and the limit work from holds exactly the
\* user's stored tokens, after any operation.
THEOREM RefreshListMatchesTokens == Spec => []ListMatchesTokens
<1>1. TokenInv => ListMatchesTokens
  BY DEF TokenInv
<1> QED
  BY <1>1, TokenInvariant, PTL

\* Nobody holds more than max_tokens_per_user stored tokens.
THEOREM RefreshTokenLimitHolds == Spec => []TokenLimitHolds
<1>1. TokenInv => TokenLimitHolds
  BY DEF TokenInv
<1> QED
  BY <1>1, TokenInvariant, PTL

(***************************************************************************)
(* A stored token only ages: its dates and marks stay, and it can be       *)
(* marked or swept.  A key that was used before is not filled again.       *)
(***************************************************************************)
OnlyAges(h) ==
  /\ Known(h)
  /\ tokens'[h].issued_at = tokens[h].issued_at
  /\ tokens'[h].expires_at = tokens[h].expires_at
  /\ tokens[h].revoked => tokens'[h].revoked
  /\ tokens[h].rotated => tokens'[h].rotated

LEMMA TokensOnlyAge ==
  ASSUME TokenInv, [Next]_vars, NEW h \in issued, Known(h)'
  PROVE  OnlyAges(h)
<1>0. /\ TypeOK /\ h \in Tokens
      /\ \A g \in Tokens : Known(g) => g \in issued
  BY DEF TokenInv, TypeOK, ListMatchesTokens
<1>1. ASSUME NEW u \in Users, IssueToken(u) PROVE OnlyAges(h)
  BY <1>0, <1>1 DEF IssueToken, Store, OnlyAges, Known, TypeOK
<1>2. ASSUME NEW g \in Tokens, RotateToken(g) PROVE OnlyAges(h)
  <2>1. PICK n \in Tokens \ issued :
             tokens' = [MarkRotated(g) EXCEPT ![n] = NewRecord(tokens[g].user_id)]
    BY <1>2 DEF RotateToken, Store
  <2>2. Known(g)
    BY <1>2 DEF RotateToken, MayRotate
  <2>3. tokens'[h] = MarkRotated(g)[h]
    BY <1>0, <2>1, <2>2, MarkRotatedFacts
  <2> QED
    BY <1>0, <2>2, <2>3, MarkRotatedFacts DEF OnlyAges, Known
<1>3. ASSUME NEW g \in Tokens, RotateRefused(g) PROVE OnlyAges(h)
  BY <1>0, <1>3, MarkRotatedFacts DEF RotateRefused, MayRotate, OnlyAges, Known
<1>4. ASSUME NEW r \in Tokens, Known(r),
             tokens'[r] = [tokens[r] EXCEPT !.revoked = TRUE], r = h
      PROVE  OnlyAges(h)
  <2>1. tokens[h] \in RefreshTokenRecord
    BY <1>0, <1>4 DEF TypeOK, Known
  <2> QED
    BY <1>4, <2>1 DEF OnlyAges, RefreshTokenRecord
<1>5. ASSUME tokens'[h] = tokens[h] PROVE OnlyAges(h)
  BY <1>5 DEF OnlyAges, Known
<1>6. ASSUME NEW g \in Tokens, RevokeToken(g) PROVE OnlyAges(h)
  BY <1>0, <1>4, <1>5, <1>6 DEF RevokeToken, TypeOK
<1>7. ASSUME NEW u \in Users, RevokeAllUserTokens(u) PROVE OnlyAges(h)
  BY <1>0, <1>4, <1>5, <1>7 DEF RevokeAllUserTokens
<1>8. ASSUME CleanupExpired PROVE OnlyAges(h)
  BY <1>0, <1>5, <1>8 DEF CleanupExpired, Known
<1>9. CASE Tick
  BY <1>5, <1>9 DEF Tick
<1>10. CASE UNCHANGED vars
  BY <1>5, <1>10 DEF vars
<1> QED
  BY <1>1, <1>2, <1>3, <1>6, <1>7, <1>8, <1>9, <1>10
  DEF Next, IssueRefused, RotateWithoutEffect

LEMMA TimeAdvances ==
  ASSUME TypeOK, [Next]_vars PROVE now \in Nat /\ now' \in Nat /\ now <= now'
BY DEF TypeOK, Next, IssueToken, IssueRefused, RotateToken, RotateRefused,
       RotateWithoutEffect, RevokeToken, RevokeAllUserTokens, CleanupExpired,
       Tick, vars

\* A token validate_token has refused is never accepted again.
THEOREM DeadTokensStayDead == Spec => DeadTokenStaysDead
<1>1. ASSUME TokenInv, [Next]_vars, NEW h \in issued, Validates(h)'
      PROVE  Validates(h)
  <2>1. Known(h)'
    BY <1>1 DEF Validates
  <2>2. OnlyAges(h)
    BY <1>1, <2>1, TokensOnlyAge
  <2>3. now \in Nat /\ now' \in Nat /\ now <= now'
    BY <1>1, TimeAdvances DEF TokenInv
  <2>4. tokens[h] \in RefreshTokenRecord
    BY <1>1, <2>2 DEF OnlyAges, TokenInv, TypeOK, Known
  <2>5. TokenInv' /\ tokens'[h] \in RefreshTokenRecord
    BY <1>1, <2>1, NextTokenInv DEF TokenInv, TypeOK, Known
  <2>6. ~tokens'[h].revoked /\ ~(now' > tokens'[h].expires_at)
    BY <1>1, <2>5 DEF Validates, Status, RefreshTokenRecord
  <2>7. ~tokens[h].revoked /\ ~(now > tokens[h].expires_at)
    BY <2>2, <2>3, <2>4, <2>6 DEF OnlyAges, RefreshTokenRecord
  <2>8. Status(h) = IF tokens[h].rotated THEN "Rotated" ELSE "Valid"
    BY <2>7 DEF Status
  <2>9. tokens[h].rotated => InGrace(h)
    <3> SUFFICES ASSUME tokens[h].rotated PROVE InGrace(h)
      OBVIOUS
    <3>1. tokens'[h].rotated
      BY <2>2 DEF OnlyAges
    <3>2. InGrace(h)'
      BY <1>1, <2>6, <3>1 DEF Validates, Status
    <3> QED
      BY <2>2, <2>3, <2>4, <3>2 DEF InGrace, OnlyAges, RefreshTokenRecord
  <2> QED
    BY <2>2, <2>8, <2>9 DEF Validates, OnlyAges
<1>2. TokenInv /\ [Next]_vars =>
        [\A h \in issued : ~Validates(h) => ~Validates(h)']_vars
  BY <1>1
<1> QED
  BY <1>2, TokenInvariant, PTL DEF Spec, DeadTokenStaysDead

\* Revoking all tokens of a user leaves none that is accepted.
THEOREM RevokeAllIsComplete == Spec => RevokeAllLeavesNone
<1>1. ASSUME TokenInv, NEW u \in Users, RevokeAllUserTokens(u),
             NEW h \in Tokens, Known(h)', tokens'[h].user_id = u
      PROVE  ~Validates(h)'
  <2>1. Known(h) /\ tokens[h].user_id = u
    BY <1>1
    DEF RevokeAllUserTokens, Known, TokenInv, TypeOK, RefreshTokenRecord
  <2>2. h \in user_tokens[u]
    BY <1>1, <2>1 DEF TokenInv, ListMatchesTokens, TokensOf
  <2>3. tokens[h] \in RefreshTokenRecord
    BY <1>1, <2>1 DEF TokenInv, TypeOK, Known
  <2>4. tokens'[h] = [tokens[h] EXCEPT !.revoked = TRUE]
    BY <1>1, <2>1, <2>2 DEF RevokeAllUserTokens
  <2>5. tokens'[h].revoked
    BY <2>3, <2>4 DEF RefreshTokenRecord
  <2>6. Status(h)' = "Revoked"
    BY <2>5 DEF Status
  <2> QED
    BY <2>6 DEF Validates
<1>2. TokenInv /\ [Next]_vars =>
        [\A u \in Users : RevokeAllUserTokens(u) =>
           \A h \in Tokens :
             (Known(h)' /\ tokens'[h].user_id = u) => ~Validates(h)']_vars
  BY <1>1
<1> QED
  BY <1>2, TokenInvariant, PTL DEF Spec, RevokeAllLeavesNone
=============================================================================
