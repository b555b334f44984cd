------------------------------ MODULE SystemProofs ------------------------------
(***************************************************************************)
(* Proofs about what is given out, used and taken back: the accounts and   *)
(* their logins, the states of sign-ons, the keys of the pools and the API *)
(* keys; the pages of the social graph, the types of the migrations and    *)
(* the remote commands; and, with what ServiceProofs and LibraryProofs     *)
(* prove of each service and of each function by itself, about the         *)
(* services side by side.                                                  *)
(***************************************************************************)
EXTENDS Services, ServiceProofs, LibraryProofs

(***************************************************************************)
(* Accounts.                                                               *)
(***************************************************************************)
\* What a user and a call are made of.
LEMMA UserParts ==
  \A u \in Users :
    /\ u.id \in UserIds /\ u.username \in Usernames /\ u.role \in Codes
    /\ u.is_active \in BOOLEAN
BY DEF Users

LEMMA AuthCallParts ==
  ASSUME NEW call \in AuthCall
  PROVE  /\ call.at \in {"none", "login", "assign"}
         /\ call.at = "none" => call = NoAuthCall
         /\ call.at = "login" =>
              /\ call.user \in Users /\ call.via \in {"service", "route"}
              /\ call.touched \in BOOLEAN
              /\ [call EXCEPT !.touched = TRUE] \in AuthCall
              /\ [call EXCEPT !.touched = TRUE].at = "login"
              /\ [call EXCEPT !.touched = TRUE].user = call.user
              /\ [call EXCEPT !.touched = TRUE].via = call.via
              /\ [call EXCEPT !.touched = TRUE].touched
         /\ call.at = "assign" => call.id \in UserIds /\ call.code \in Codes
<1>1. CASE call = NoAuthCall
  BY <1>1 DEF NoAuthCall
<1>2. CASE call \in [at : {"login"}, user : Users, via : {"service", "route"},
                     touched : BOOLEAN]
  <2> DEFINE Logins == [at : {"login"}, user : Users, via : {"service", "route"},
                        touched : BOOLEAN]
             noted == [call EXCEPT !.touched = TRUE]
  <2>1. /\ call.at = "login" /\ call.user \in Users /\ call.via \in {"service", "route"}
        /\ call.touched \in BOOLEAN
    BY <1>2
  <2>2. /\ noted \in Logins /\ noted.at = "login" /\ noted.user = call.user
        /\ noted.via = call.via /\ noted.touched
    BY <1>2
  <2>3. noted \in AuthCall
    BY <2>2 DEF AuthCall
  <2> QED
    BY <2>1, <2>2, <2>3
<1>3. CASE call \in [at : {"assign"}, id : UserIds, code : Codes]
  BY <1>3
<1> QED
  BY <1>1, <1>2, <1>3 DEF AuthCall

LEMMA NoAuthCallFacts == NoAuthCall \in AuthCall /\ NoAuthCall.at = "none"
BY DEF NoAuthCall, AuthCall

\* What Touch tells to whom.
LEMMA TouchFacts ==
  ASSUME AccountsTypeOK, NEW u
  PROVE  /\ Touch(u) \in [AuthCalls -> AuthCall]
         /\ \A c \in AuthCalls :
              /\ Touch(u)[c].at = authCall[c].at
              /\ authCall[c].at # "login" => Touch(u)[c] = authCall[c]
              /\ authCall[c].at = "login" =>
                   /\ Touch(u)[c].user = authCall[c].user
                   /\ Touch(u)[c].via = authCall[c].via
                   /\ authCall[c].touched \/ authCall[c].user.id = u => Touch(u)[c].touched
<1>1. \A c \in AuthCalls : authCall[c] \in AuthCall
  BY DEF AccountsTypeOK
<1>2. ASSUME NEW c \in AuthCalls
      PROVE  /\ Touch(u)[c] \in AuthCall
             /\ Touch(u)[c].at = authCall[c].at
             /\ authCall[c].at # "login" => Touch(u)[c] = authCall[c]
             /\ authCall[c].at = "login" =>
                  /\ Touch(u)[c].user = authCall[c].user
                  /\ Touch(u)[c].via = authCall[c].via
                  /\ authCall[c].touched \/ authCall[c].user.id = u => Touch(u)[c].touched
  <2> DEFINE call == authCall[c]
             noted == [call EXCEPT !.touched = TRUE]
  <2>1. Touch(u)[c] = IF call.at = "login" /\ call.user.id = u THEN noted ELSE call
    BY DEF Touch
  <2>2. call \in AuthCall
    BY <1>1
  <2>3. call.at = "login" => /\ noted \in AuthCall /\ noted.at = "login" /\ noted.user = call.user
                             /\ noted.via = call.via /\ noted.touched
    BY <2>2, AuthCallParts
  <2> HIDE DEF noted
  <2> QED
    BY <2>1, <2>2, <2>3
<1>3. Touch(u) \in [AuthCalls -> AuthCall]
  <2>1. Touch(u) = [c \in AuthCalls |-> Touch(u)[c]]
    BY DEF Touch
  <2> QED
    BY <1>2, <2>1
<1> QED
  BY <1>2, <1>3

\* The codes that are known stay known, whatever happens to the roles.
LEMMA KnownStays ==
  ASSUME RolesInv, RoleCalls, NEW code, Known(code)
  PROVE  KnownIn(code, roles', retired')
<1>0. roles \in Seq(RoleDefinitions) /\ DOMAIN roles = 1..Len(roles) /\ Len(roles) \in Nat
  BY DEF RolesInv, RolesTypeOK
<1>1. ASSUME NEW new \in Codes, AddRole(new) PROVE KnownIn(code, roles', retired')
  <2> DEFINE r == RoleDefinition(madeIds.roles + 1, new, FALSE)
  <2>1. retired' = retired /\ (roles' = roles \/ roles' = Append(roles, r))
    BY <1>1 DEF AddRole
  <2> HIDE DEF r
  <2>2. \A i \in DOMAIN roles : i \in DOMAIN roles' /\ roles'[i] = roles[i]
    BY <1>0, <2>1
  <2> QED
    BY <2>1, <2>2 DEF Known, KnownIn
<1>2. ASSUME NEW id \in RoleIds, RemoveRole(id) PROVE KnownIn(code, roles', retired')
  <2> DEFINE pos == ById(roles, id)
             len == Len(roles)
  <2>1. /\ pos # 0 /\ roles' = RemoveAt(roles, pos)
        /\ retired' = retired \cup {roles[pos].code}
    BY <1>2 DEF RemoveRole
  <2>2. pos \in 1..len
    BY <1>0, <2>1, PlaceOfId
  <2> HIDE DEF pos
  <2>3. /\ roles' \in Seq(RoleDefinitions) /\ Len(roles') = len - 1
        /\ \A i \in 1..(len - 1) : roles'[i] = IF i < pos THEN roles[i] ELSE roles[i + 1]
    BY <1>0, <2>1, <2>2, RemovedAt
  <2>4. CASE code \in retired
    BY <2>1, <2>4 DEF Known, KnownIn
  <2>5. ASSUME NEW i \in DOMAIN roles, roles[i].code = code PROVE KnownIn(code, roles', retired')
    <3>1. CASE i = pos
      BY <2>1, <2>5, <3>1 DEF Known, KnownIn
    <3>2. CASE i < pos
      <4>1. i \in 1..(len - 1) /\ i \in DOMAIN roles'
        BY <1>0, <2>2, <2>3, <3>2
      <4> QED
        BY <2>3, <2>5, <3>2, <4>1 DEF Known, KnownIn
    <3>3. CASE i > pos
      <4>1. /\ i - 1 \in 1..(len - 1) /\ i - 1 \in DOMAIN roles' /\ ~(i - 1 < pos)
            /\ (i - 1) + 1 = i
        BY <1>0, <2>2, <2>3, <3>3
      <4>2. roles'[i - 1] = roles[i]
        BY <2>3, <4>1
      <4> QED
        BY <2>5, <4>1, <4>2 DEF Known, KnownIn
    <3> QED
      BY <1>0, <2>2, <3>1, <3>2, <3>3
  <2> QED
    BY <2>4, <2>5 DEF Known, KnownIn
<1>3. ASSUME NEW role \in ToSet(roles), NEW new \in Codes, Recode(role, new)
      PROVE  KnownIn(code, roles', retired')
  <2> DEFINE r == [role EXCEPT !.code = new]
             pos == ById(roles, r.id)
  <2>1. /\ pos # 0 /\ roles' = [roles EXCEPT ![pos] = r]
        /\ retired' = IF roles[pos].code = r.code THEN retired
                      ELSE retired \cup {roles[pos].code}
    BY <1>3 DEF Recode, UpdateRole
  <2> HIDE DEF r
  <2>2. pos \in DOMAIN roles
    BY <1>0, <2>1, PlaceOfId
  <2> HIDE DEF pos
  <2>3. CASE code \in retired
    BY <2>1, <2>3 DEF Known, KnownIn
  <2>4. ASSUME NEW i \in DOMAIN roles, roles[i].code = code PROVE KnownIn(code, roles', retired')
    <3>1. DOMAIN roles' = DOMAIN roles /\ roles'[i] = IF i = pos THEN r ELSE roles[i]
      BY <2>1
    <3>2. CASE i = pos /\ roles[pos].code # r.code
      BY <2>1, <2>4, <3>2 DEF Known, KnownIn
    <3>3. CASE ~(i = pos /\ roles[pos].code # r.code)
      BY <2>4, <3>1, <3>3 DEF Known, KnownIn
    <3> QED
      BY <3>2, <3>3
  <2> QED
    BY <2>3, <2>4 DEF Known, KnownIn
<1> QED
  BY <1>1, <1>2, <1>3 DEF RoleCalls

LEMMA AccountsInitInv == RolesInit /\ AccountsInit => AccountsInv
<1> SUFFICES ASSUME RolesInit, AccountsInit PROVE AccountsInv
  OBVIOUS
<1>1. RolesInv
  BY RolesInitInv
<1>2. accounts = <<>> /\ DOMAIN accounts = {}
  BY DEF AccountsInit
<1>3. DefaultRole \in Codes /\ MaxUsers \in Nat
  BY AccountBounds DEF Codes
<1>4. AccountsTypeOK
  <2>1. authCall \in [AuthCalls -> AuthCall]
    BY NoAuthCallFacts DEF AccountsInit
  <2>2. decided \in [UserIds -> [role : Codes, is_active : BOOLEAN]]
    BY <1>3 DEF AccountsInit, Undecided
  <2>3. accounts \in Seq(Users)
    BY <1>2, EmptySeq
  <2>4. born \in 0..MaxUsers
    BY <1>3 DEF AccountsInit
  <2>5. misled \in BOOLEAN
    BY ZenonT(20) DEF AccountsInit
  <2> QED
    BY <2>1, <2>2, <2>3, <2>4, <2>5 DEF AccountsTypeOK
<1>5. IdsWereBorn /\ IsDecided
  BY <1>2 DEF IdsWereBorn, IsDecided, AccountsInit
<1>6. Known(DefaultRole)
  <2>1. PICK i \in DOMAIN SystemCodes : SystemCodes[i] = DefaultRole
    BY AccountBounds DEF ToSet
  <2>2. i \in DOMAIN roles /\ roles[i] = RoleDefinition(i, SystemCodes[i], TRUE)
    BY DEF RolesInit
  <2>3. RoleDefinition(i, SystemCodes[i], TRUE).code = SystemCodes[i]
    BY DEF RoleDefinition
  <2>4. roles[i].code = DefaultRole
    BY <2>1, <2>2, <2>3
  <2> QED
    BY <2>2, <2>4 DEF Known, KnownIn
<1>7. CodesAreKnown
  BY <1>2, <1>6, NoAuthCallFacts DEF CodesAreKnown, AccountsInit
<1>8. CopiesAreTrue
  BY NoAuthCallFacts DEF CopiesAreTrue, AccountsInit
<1> QED
  BY <1>1, <1>4, <1>5, <1>7, <1>8 DEF AccountsInv

\* A change of one user that is decided and noted.
LEMMA ChangedUserInv ==
  ASSUME AccountsInv, NEW pos \in DOMAIN accounts, NEW r \in Users, NEW id,
         id = accounts[pos].id, r.id = id, Known(r.role),
         accounts' = [accounts EXCEPT ![pos] = r],
         decided' \in [UserIds -> [role : Codes, is_active : BOOLEAN]],
         \A u \in UserIds : u # id => decided'[u] = decided[u],
         decided'[id].role = r.role, decided'[id].is_active = r.is_active,
         authCall' \in [AuthCalls -> AuthCall],
         \A c \in AuthCalls : authCall'[c] \in {NoAuthCall, Touch(id)[c]},
         UNCHANGED <<roleVars, born, misled>>
  PROVE  AccountsInv'
<1>0. /\ accounts \in Seq(Users) /\ DOMAIN accounts = 1..Len(accounts)
      /\ AccountsTypeOK /\ IdsWereBorn /\ IsDecided /\ CodesAreKnown /\ CopiesAreTrue
  BY DEF AccountsInv, AccountsTypeOK
<1>1. /\ accounts' \in Seq(Users) /\ DOMAIN accounts' = DOMAIN accounts
      /\ \A i \in DOMAIN accounts : accounts'[i] = IF i = pos THEN r ELSE accounts[i]
  BY <1>0
<1>2. \A i \in DOMAIN accounts : accounts'[i].id = accounts[i].id
  BY <1>1
<1>3. \A i \in DOMAIN accounts : accounts[i].id \in UserIds
  <2>1. \A i \in DOMAIN accounts : accounts[i] \in Users
    BY <1>0
  <2> QED
    BY <2>1, UserParts
<1>4. \A i \in DOMAIN accounts : i # pos => accounts[i].id # id
  BY <1>0 DEF IdsWereBorn
<1>5. RolesInv'
  BY DEF AccountsInv, RolesInv, RolesTypeOK, IdsWereMade, RolesStand, roleVars
<1>6. AccountsTypeOK'
  BY <1>0, <1>1 DEF AccountsTypeOK
<1>7. IdsWereBorn'
  <2>1. id <= born
    BY <1>0 DEF IdsWereBorn
  <2>2. \A u \in UserIds : u > born => u # id
    BY <1>0, <1>3, <2>1 DEF AccountsTypeOK, UserIds
  <2>3. \A u \in UserIds : u > born => decided'[u] = Undecided
    BY <1>0, <2>2 DEF IdsWereBorn
  <2> QED
    BY <1>0, <1>1, <1>2, <2>3 DEF IdsWereBorn
<1>8. IsDecided'
  <2>1. ASSUME NEW i \in DOMAIN accounts
        PROVE  /\ accounts'[i].role = decided'[accounts'[i].id].role
               /\ accounts'[i].is_active = decided'[accounts'[i].id].is_active
    <3>1. CASE i = pos
      BY <1>1, <3>1
    <3>2. CASE i # pos
      <4>1. accounts'[i] = accounts[i] /\ decided'[accounts[i].id] = decided[accounts[i].id]
        BY <1>1, <1>3, <1>4, <3>2
      <4> QED
        BY <1>0, <4>1 DEF IsDecided
    <3> QED
      BY <3>1, <3>2
  <2> QED
    BY <1>1, <2>1 DEF IsDecided
<1>9. roles' = roles /\ retired' = retired
  BY DEF roleVars
<1>10. \A c \in AuthCalls :
        /\ Touch(id)[c].at = authCall[c].at
        /\ authCall[c].at # "login" => Touch(id)[c] = authCall[c]
        /\ authCall[c].at = "login" =>
             /\ Touch(id)[c].user = authCall[c].user
             /\ Touch(id)[c].via = authCall[c].via
             /\ authCall[c].touched \/ authCall[c].user.id = id => Touch(id)[c].touched
  BY <1>0, TouchFacts
<1>11. CodesAreKnown'
  <2>1. Known(DefaultRole)
    BY <1>0 DEF CodesAreKnown
  <2>2. \A i \in DOMAIN accounts' : Known(accounts'[i].role)
    <3>1. \A i \in DOMAIN accounts' : accounts'[i].role \in {r.role} \cup {accounts[j].role : j \in DOMAIN accounts}
      BY <1>1
    <3>2. \A code \in {r.role} \cup {accounts[j].role : j \in DOMAIN accounts} : Known(code)
      BY <1>0 DEF CodesAreKnown
    <3> QED
      BY <3>1, <3>2
  <2>3. ASSUME NEW c \in AuthCalls, authCall'[c].at = "assign"
        PROVE  Known(authCall'[c].code)
    <3>1. authCall'[c] = Touch(id)[c]
      BY <2>3, NoAuthCallFacts
    <3>2. authCall[c].at = "assign" /\ authCall'[c] = authCall[c]
      BY <1>10, <2>3, <3>1
    <3>3. Known(authCall[c].code)
      BY <1>0, <3>2 DEF CodesAreKnown
    <3> QED
      BY <3>2, <3>3
  <2> QED
    BY <1>9, <2>1, <2>2, <2>3 DEF CodesAreKnown, Known
<1>12. CopiesAreTrue'
  <2>1. ASSUME NEW c \in AuthCalls, authCall'[c].at = "login"
        PROVE  /\ authCall'[c].via = "service" => authCall'[c].user.is_active
               /\ authCall'[c].touched \/ \E i \in DOMAIN accounts' : accounts'[i] = authCall'[c].user
    <3>1. authCall'[c] = Touch(id)[c]
      BY <2>1, NoAuthCallFacts
    <3>2. /\ authCall[c].at = "login" /\ authCall'[c].user = authCall[c].user
          /\ authCall'[c].via = authCall[c].via
          /\ authCall[c].touched \/ authCall[c].user.id = id => authCall'[c].touched
      BY <1>10, <2>1, <3>1
    <3>3. /\ authCall[c].via = "service" => authCall[c].user.is_active
          /\ authCall[c].touched \/ \E i \in DOMAIN accounts : accounts[i] = authCall[c].user
      BY <1>0, <3>2 DEF CopiesAreTrue
    <3>4. ASSUME NEW i \in DOMAIN accounts, accounts[i] = authCall[c].user,
                 authCall[c].user.id # id
          PROVE  i \in DOMAIN accounts' /\ accounts'[i] = authCall'[c].user
      BY <1>1, <3>2, <3>4
    <3> QED
      BY <3>2, <3>3, <3>4
  <2> QED
    BY <1>0, <2>1 DEF CopiesAreTrue
<1> QED
  BY <1>5, <1>6, <1>7, <1>8, <1>11, <1>12 DEF AccountsInv

LEMMA NewUserInv ==
  ASSUME AccountsInv, NEW name \in Usernames, NEW email \in Emails, NEW local \in BOOLEAN,
         NewUser(name, email, local), UNCHANGED roleVars
  PROVE  AccountsInv'
<1> DEFINE u == [id |-> born + 1, username |-> name, email |-> email,
                 has_password |-> local, role |-> DefaultRole, is_active |-> TRUE]
           len == Len(accounts)
<1>0. /\ accounts \in Seq(Users) /\ len \in Nat /\ DOMAIN accounts = 1..len
      /\ AccountsTypeOK /\ IdsWereBorn /\ IsDecided /\ CodesAreKnown /\ CopiesAreTrue
      /\ born \in Nat /\ born < MaxUsers /\ MaxUsers \in Nat
  BY AccountBounds DEF AccountsInv, AccountsTypeOK, NewUser
<1>1. accounts' = Append(accounts, u) /\ born' = born + 1
      /\ UNCHANGED <<authCall, misled, decided>>
  BY DEF NewUser
<1>2. born + 1 \in UserIds /\ DefaultRole \in Codes
  BY <1>0, AccountBounds DEF UserIds, Codes
<1>3. /\ u \in Users /\ u.id = born + 1 /\ u.role = DefaultRole /\ u.is_active = TRUE
  BY <1>2 DEF Users
<1> HIDE DEF u
<1>4. /\ accounts' \in Seq(Users) /\ DOMAIN accounts' = 1..(len + 1)
      /\ \A i \in 1..len : accounts'[i] = accounts[i]
      /\ accounts'[len + 1] = u
  BY <1>0, <1>1, <1>3
<1>5. \A i \in 1..(len + 1) : i \in 1..len \/ i = len + 1
  BY <1>0
<1>6. \A i \in 1..len : accounts[i].id \in Nat /\ accounts[i].id <= born
  <2>1. \A i \in 1..len : accounts[i] \in Users
    BY <1>0
  <2>2. \A i \in 1..len : accounts[i].id \in UserIds
    BY <2>1, UserParts
  <2>3. \A i \in UserIds : i \in Nat
    BY <1>0 DEF UserIds
  <2> QED
    BY <1>0, <2>2, <2>3 DEF IdsWereBorn
<1>7. RolesInv'
  BY DEF AccountsInv, RolesInv, RolesTypeOK, IdsWereMade, RolesStand, roleVars
<1>8. AccountsTypeOK'
  <2>1. born' \in 0..MaxUsers
    BY <1>0, <1>1
  <2> QED
    BY <1>0, <1>1, <1>4, <2>1 DEF AccountsTypeOK
<1>9. decided[born + 1] = Undecided
  <2>1. born + 1 > born
    BY <1>0
  <2> QED
    BY <1>0, <1>2, <2>1 DEF IdsWereBorn
<1>10. IdsWereBorn'
  <2>1. \A i \in DOMAIN accounts' : accounts'[i].id <= born + 1
    BY <1>0, <1>3, <1>4, <1>5, <1>6
  <2>2. \A i, j \in DOMAIN accounts' : accounts'[i].id = accounts'[j].id => i = j
    <3>1. \A i, j \in 1..len : accounts[i].id = accounts[j].id => i = j
      BY <1>0 DEF IdsWereBorn
    <3>2. \A i \in 1..len : accounts[i].id # born + 1
      BY <1>0, <1>6
    <3> QED
      BY <1>3, <1>4, <1>5, <3>1, <3>2
  <2>3. \A v \in UserIds : v > born + 1 => v > born
    BY <1>0 DEF UserIds
  <2>4. \A v \in UserIds : v > born' => decided'[v] = Undecided
    BY <1>0, <1>1, <2>3 DEF IdsWereBorn
  <2> QED
    BY <1>1, <2>1, <2>2, <2>4 DEF IdsWereBorn
<1>11. IsDecided'
  <2>1. u.role = decided[u.id].role /\ u.is_active = decided[u.id].is_active
    <3>1. Undecided.role = DefaultRole /\ Undecided.is_active = TRUE
      BY DEF Undecided
    <3> QED
      BY <1>3, <1>9, <3>1
  <2>2. ASSUME NEW i \in 1..(len + 1)
        PROVE  /\ accounts'[i].role = decided[accounts'[i].id].role
               /\ accounts'[i].is_active = decided[accounts'[i].id].is_active
    BY <1>0, <1>4, <1>5, <2>1 DEF IsDecided
  <2> QED
    BY <1>1, <1>4, <2>2 DEF IsDecided
<1>12. CodesAreKnown'
  <2>1. Known(DefaultRole)
    BY <1>0 DEF CodesAreKnown
  <2>2. \A i \in 1..(len + 1) : Known(accounts'[i].role)
    <3>1. \A i \in 1..len : Known(accounts[i].role)
      BY <1>0 DEF CodesAreKnown
    <3> QED
      BY <1>3, <1>4, <1>5, <2>1, <3>1
  <2>3. \A c \in AuthCalls : authCall'[c].at = "assign" => Known(authCall'[c].code)
    BY <1>0, <1>1 DEF CodesAreKnown
  <2>4. roles' = roles /\ retired' = retired
    BY DEF roleVars
  <2> QED
    BY <1>4, <2>1, <2>2, <2>3, <2>4 DEF CodesAreKnown, Known
<1>13. CopiesAreTrue'
  <2>1. ASSUME NEW c \in AuthCalls, authCall[c].at = "login"
        PROVE  /\ authCall[c].via = "service" => authCall[c].user.is_active
               /\ authCall[c].touched \/ \E i \in DOMAIN accounts' : accounts'[i] = authCall[c].user
    <3>1. /\ authCall[c].via = "service" => authCall[c].user.is_active
          /\ authCall[c].touched \/ \E i \in DOMAIN accounts : accounts[i] = authCall[c].user
      BY <1>0, <2>1 DEF CopiesAreTrue
    <3>2. \A i \in DOMAIN accounts : i \in DOMAIN accounts' /\ accounts'[i] = accounts[i]
      BY <1>0, <1>4
    <3> QED
      BY <3>1, <3>2
  <2> QED
    BY <1>0, <1>1, <2>1 DEF CopiesAreTrue
<1> QED
  BY <1>7, <1>8, <1>10, <1>11, <1>12, <1>13 DEF AccountsInv

LEMMA RemoveUserInv ==
  ASSUME AccountsInv, NEW id \in UserIds, RemoveUser(id), UNCHANGED roleVars
  PROVE  AccountsInv'
<1> DEFINE pos == ById(accounts, id)
           len == Len(accounts)
           old(i) == IF i < pos THEN i ELSE i + 1
<1>0. /\ accounts \in Seq(Users) /\ len \in Nat /\ DOMAIN accounts = 1..len
      /\ AccountsTypeOK /\ IdsWereBorn /\ IsDecided /\ CodesAreKnown /\ CopiesAreTrue
      /\ born \in Nat
  BY AccountBounds DEF AccountsInv, AccountsTypeOK
<1>1. /\ pos # 0 /\ accounts' = RemoveAt(accounts, pos) /\ authCall' = Touch(id)
      /\ decided' = [decided EXCEPT ![id] = Undecided]
      /\ UNCHANGED <<born, misled>>
  BY DEF RemoveUser
<1>2. pos \in 1..len /\ accounts[pos].id = id
  BY <1>0, <1>1, PlaceOfId
<1> HIDE DEF pos
<1>3. /\ accounts' \in Seq(Users) /\ Len(accounts') = len - 1
      /\ \A i \in 1..(len - 1) : accounts'[i] = IF i < pos THEN accounts[i] ELSE accounts[i + 1]
  BY <1>0, <1>1, <1>2, RemovedAt
<1>4. /\ DOMAIN accounts' = 1..(len - 1)
      /\ \A i \in 1..(len - 1) : accounts'[i] = accounts[old(i)] /\ old(i) \in 1..len /\ old(i) # pos
      /\ \A i, j \in 1..(len - 1) : old(i) = old(j) => i = j
      /\ \A i \in 1..len : i # pos => \E j \in 1..(len - 1) : i = old(j)
  <2>2. pos \in Nat /\ pos >= 1 /\ pos <= len
    BY <1>0, <1>2
  <2>3. ASSUME NEW i \in 1..len, i # pos
        PROVE  \E j \in 1..(len - 1) : i = old(j)
    <3>1. CASE i < pos
      <4>1. i \in 1..(len - 1) /\ old(i) = i
        BY <1>0, <2>2, <3>1
      <4> QED
        BY <4>1
    <3>2. CASE ~(i < pos)
      <4>1. i - 1 \in 1..(len - 1) /\ old(i - 1) = i
        BY <1>0, <2>2, <2>3, <3>2
      <4> QED
        BY <4>1
    <3> QED
      BY <3>1, <3>2
  <2>4. \A i \in 1..(len - 1) : old(i) \in 1..len /\ old(i) # pos
    BY <1>0, <2>2
  <2>5. \A i, j \in 1..(len - 1) : old(i) = old(j) => i = j
    BY <1>0, <2>2
  <2>6. DOMAIN accounts' = 1..(len - 1)
    BY <1>3
  <2>7. \A i \in 1..(len - 1) : accounts'[i] = accounts[old(i)]
    BY <1>3
  <2> HIDE DEF old
  <2> QED
    BY <2>3, <2>4, <2>5, <2>6, <2>7
<1> HIDE DEF old
<1>5. \A i \in 1..len : accounts[i].id \in UserIds
  <2>1. \A i \in 1..len : accounts[i] \in Users
    BY <1>0
  <2> QED
    BY <2>1, UserParts
<1>6. \A i \in 1..(len - 1) : accounts[old(i)].id # id
  BY <1>0, <1>2, <1>4 DEF IdsWereBorn
<1>7. \A u \in UserIds : decided'[u] = IF u = id THEN Undecided ELSE decided[u]
  BY <1>0, <1>1 DEF AccountsTypeOK
<1>8. RolesInv'
  BY DEF AccountsInv, RolesInv, RolesTypeOK, IdsWereMade, RolesStand, roleVars
<1>9. AccountsTypeOK'
  <2>1. Undecided \in [role : Codes, is_active : BOOLEAN]
    BY AccountBounds DEF Undecided, Codes
  <2>2. decided' \in [UserIds -> [role : Codes, is_active : BOOLEAN]]
    BY <1>0, <1>1, <2>1 DEF AccountsTypeOK
  <2>3. authCall' \in [AuthCalls -> AuthCall]
    BY <1>0, <1>1, TouchFacts
  <2> QED
    BY <1>0, <1>1, <1>3, <2>2, <2>3 DEF AccountsTypeOK
<1>10. IdsWereBorn'
  <2>1. \A i \in DOMAIN accounts' : accounts'[i].id <= born
    BY <1>0, <1>4 DEF IdsWereBorn
  <2>2. ASSUME NEW i \in 1..(len - 1), NEW j \in 1..(len - 1), accounts'[i].id = accounts'[j].id
        PROVE  i = j
    <3>1. accounts[old(i)].id = accounts[old(j)].id /\ old(i) \in 1..len /\ old(j) \in 1..len
      BY <1>4, <2>2
    <3>2. old(i) = old(j)
      BY <1>0, <3>1 DEF IdsWereBorn
    <3> QED
      BY <1>4, <3>2
  <2>3. \A u \in UserIds : u > born => decided'[u] = Undecided
    BY <1>0, <1>7 DEF IdsWereBorn
  <2> QED
    BY <1>1, <1>4, <2>1, <2>2, <2>3 DEF IdsWereBorn
<1>11. IsDecided'
  <2>1. ASSUME NEW i \in 1..(len - 1)
        PROVE  /\ accounts'[i].role = decided'[accounts'[i].id].role
               /\ accounts'[i].is_active = decided'[accounts'[i].id].is_active
    <3>1. accounts'[i] = accounts[old(i)] /\ old(i) \in 1..len
      BY <1>4
    <3>2. decided'[accounts[old(i)].id] = decided[accounts[old(i)].id]
      BY <1>5, <1>6, <1>7, <3>1
    <3> QED
      BY <1>0, <3>1, <3>2 DEF IsDecided
  <2> QED
    BY <1>4, <2>1 DEF IsDecided
<1>12. \A c \in AuthCalls :
        /\ Touch(id)[c].at = authCall[c].at
        /\ authCall[c].at # "login" => Touch(id)[c] = authCall[c]
        /\ authCall[c].at = "login" =>
             /\ Touch(id)[c].user = authCall[c].user
             /\ Touch(id)[c].via = authCall[c].via
             /\ authCall[c].touched \/ authCall[c].user.id = id => Touch(id)[c].touched
  BY <1>0, TouchFacts
<1>13. CodesAreKnown'
  <2>1. Known(DefaultRole)
    BY <1>0 DEF CodesAreKnown
  <2>2. \A i \in 1..(len - 1) : Known(accounts'[i].role)
    BY <1>0, <1>4 DEF CodesAreKnown
  <2>3. \A c \in AuthCalls : authCall'[c].at = "assign" => Known(authCall'[c].code)
    BY <1>0, <1>1, <1>12 DEF CodesAreKnown
  <2>4. roles' = roles /\ retired' = retired
    BY DEF roleVars
  <2> QED
    BY <1>4, <2>1, <2>2, <2>3, <2>4 DEF CodesAreKnown, Known
<1>14. CopiesAreTrue'
  <2>1. ASSUME NEW c \in AuthCalls, authCall'[c].at = "login"
        PROVE  /\ authCall'[c].via = "service" => authCall'[c].user.is_active
               /\ authCall'[c].touched \/ \E i \in DOMAIN accounts' : accounts'[i] = authCall'[c].user
    <3>1. /\ authCall[c].at = "login" /\ authCall'[c].user = authCall[c].user
          /\ authCall'[c].via = authCall[c].via
          /\ authCall[c].touched \/ authCall[c].user.id = id => authCall'[c].touched
      BY <1>1, <1>12, <2>1
    <3>2. /\ authCall[c].via = "service" => authCall[c].user.is_active
          /\ authCall[c].touched \/ \E i \in DOMAIN accounts : accounts[i] = authCall[c].user
      BY <1>0, <3>1 DEF CopiesAreTrue
    <3>3. ASSUME NEW i \in DOMAIN accounts, accounts[i] = authCall[c].user,
                 authCall[c].user.id # id
          PROVE  \E j \in DOMAIN accounts' : accounts'[j] = authCall[c].user
      <4>1. i \in 1..len /\ i # pos
        BY <1>0, <1>2, <3>3
      <4>2. PICK j \in 1..(len - 1) : i = old(j)
        BY <1>4, <4>1
      <4> QED
        BY <1>4, <3>3, <4>2
    <3> QED
      BY <3>1, <3>2, <3>3
  <2> QED
    BY <1>0, <1>1, <2>1 DEF CopiesAreTrue
<1> QED
  BY <1>8, <1>9, <1>10, <1>11, <1>13, <1>14 DEF AccountsInv

LEMMA SetActiveInv ==
  ASSUME AccountsInv, NEW id \in UserIds, NEW active \in BOOLEAN, SetActive(id, active),
         UNCHANGED roleVars
  PROVE  AccountsInv'
<1> DEFINE pos == ById(accounts, id)
           r == [accounts[pos] EXCEPT !.is_active = active]
<1>0. /\ accounts \in Seq(Users) /\ AccountsTypeOK /\ IsDecided /\ CodesAreKnown
  BY DEF AccountsInv, AccountsTypeOK
<1>1. /\ pos # 0 /\ UNCHANGED <<born, misled>> /\ authCall' = Touch(id)
  BY DEF SetActive
<1>2. pos \in DOMAIN accounts /\ accounts[pos].id = id
  BY <1>0, <1>1, PlaceOfId
<1>3. accounts' = [accounts EXCEPT ![pos] = r]
  BY <1>2 DEF SetActive
<1>4. decided' = [decided EXCEPT ![id] = [decided[id] EXCEPT !.is_active = active]]
  BY DEF SetActive
<1> HIDE DEF pos
<1>5. accounts[pos] \in Users
  BY <1>0, <1>2
<1>6. r \in Users /\ r.id = id /\ r.role = accounts[pos].role /\ r.is_active = active
  BY <1>2, <1>5 DEF Users
<1>7. /\ decided[id] \in [role : Codes, is_active : BOOLEAN]
      /\ decided[id].role = accounts[pos].role
  BY <1>0, <1>2 DEF IsDecided, AccountsTypeOK
<1> DEFINE d == [decided[id] EXCEPT !.is_active = active]
<1>8. /\ d \in [role : Codes, is_active : BOOLEAN]
      /\ d.role = decided[id].role /\ d.is_active = active
  BY <1>7
<1> HIDE DEF d, r
<1>9. /\ decided' \in [UserIds -> [role : Codes, is_active : BOOLEAN]]
      /\ decided'[id] = d
      /\ \A u \in UserIds : u # id => decided'[u] = decided[u]
  <2>1. decided' = [decided EXCEPT ![id] = d]
    BY <1>4 DEF d
  <2> QED
    BY <1>0, <1>8, <2>1 DEF AccountsTypeOK
<1>10. decided'[id].role = r.role /\ decided'[id].is_active = r.is_active
  BY <1>6, <1>7, <1>8, <1>9
<1>11. Known(r.role)
  BY <1>0, <1>2, <1>6 DEF CodesAreKnown
<1>12. /\ authCall' \in [AuthCalls -> AuthCall]
       /\ \A c \in AuthCalls : authCall'[c] \in {NoAuthCall, Touch(id)[c]}
  BY <1>0, <1>1, TouchFacts
<1> QED
  BY <1>1, <1>2, <1>3, <1>6, <1>9, <1>10, <1>11, <1>12, ChangedUserInv

LEMMA AssignWritesInv ==
  ASSUME AccountsInv, NEW c \in AuthCalls, AssignWrites(c), UNCHANGED roleVars
  PROVE  AccountsInv'
<1> DEFINE id == authCall[c].id
           code == authCall[c].code
           pos == ById(accounts, id)
           r == [accounts[pos] EXCEPT !.role = code]
           d == [decided[id] EXCEPT !.role = code]
<1>0. /\ accounts \in Seq(Users) /\ AccountsTypeOK /\ IsDecided /\ CodesAreKnown
  BY DEF AccountsInv, AccountsTypeOK
<1>1. /\ authCall[c].at = "assign" /\ pos # 0 /\ UNCHANGED <<born, misled>>
      /\ authCall' = [Touch(id) EXCEPT ![c] = NoAuthCall]
      /\ accounts' = [accounts EXCEPT ![pos].role = code]
      /\ decided' = [decided EXCEPT ![id] = d]
  BY DEF AssignWrites
<1>2. id \in UserIds /\ code \in Codes /\ Known(code)
  <2>1. authCall[c] \in AuthCall
    BY <1>0 DEF AccountsTypeOK
  <2> QED
    BY <1>0, <1>1, <2>1, AuthCallParts DEF CodesAreKnown
<1> HIDE DEF id, code
<1>3. pos \in DOMAIN accounts /\ accounts[pos].id = id
  BY <1>0, <1>1, PlaceOfId
<1> HIDE DEF pos
<1>4. accounts' = [accounts EXCEPT ![pos] = r]
  BY <1>1, <1>3
<1>5. accounts[pos] \in Users
  BY <1>0, <1>3
<1>6. r \in Users /\ r.id = id /\ r.role = code /\ r.is_active = accounts[pos].is_active
  BY <1>2, <1>3, <1>5 DEF Users
<1>7. /\ decided[id] \in [role : Codes, is_active : BOOLEAN]
      /\ decided[id].is_active = accounts[pos].is_active
  BY <1>0, <1>2, <1>3 DEF IsDecided, AccountsTypeOK
<1>8. /\ d \in [role : Codes, is_active : BOOLEAN]
      /\ d.role = code /\ d.is_active = decided[id].is_active
  BY <1>2, <1>7
<1> HIDE DEF d, r
<1>9. /\ decided' \in [UserIds -> [role : Codes, is_active : BOOLEAN]]
      /\ decided'[id] = d
      /\ \A u \in UserIds : u # id => decided'[u] = decided[u]
  BY <1>0, <1>1, <1>2, <1>8 DEF AccountsTypeOK
<1>10. decided'[id].role = r.role /\ decided'[id].is_active = r.is_active
  BY <1>6, <1>7, <1>8, <1>9
<1>11. Known(r.role)
  BY <1>2, <1>6
<1>12. /\ authCall' \in [AuthCalls -> AuthCall]
       /\ \A b \in AuthCalls : authCall'[b] \in {NoAuthCall, Touch(id)[b]}
  <2>1. Touch(id) \in [AuthCalls -> AuthCall]
    BY <1>0, TouchFacts
  <2> QED
    BY <1>1, <2>1, NoAuthCallFacts
<1> QED
  BY <1>1, <1>3, <1>4, <1>6, <1>9, <1>10, <1>11, <1>12, ChangedUserInv

\* What is written back after a login is what is there.
LEMMA RewrittenSame ==
  ASSUME AccountsInv, NEW c \in AuthCalls
  PROVE  Rewritten(c) = accounts
<1> DEFINE name == authCall[c].user.username
           I == {i \in 1..Len(accounts) : accounts[i].username = name}
           pos == ByUsername(name)
<1>0. accounts \in Seq(Users) /\ DOMAIN accounts = 1..Len(accounts) /\ IdsWereBorn
  BY DEF AccountsInv, AccountsTypeOK
<1>1. pos = IF I # {} THEN Min(I) ELSE 0
  BY DEF ByUsername, SelectInSeq
<1>2. I # {} => Min(I) \in I
  <2>1. I \in SUBSET Nat
    OBVIOUS
  <2> HIDE DEF I
  <2> QED
    BY <2>1, FirstPlace
<1>3. pos # 0 => pos \in DOMAIN accounts
  BY <1>0, <1>1, <1>2
<1>4. Rewritten(c) =
        IF pos = 0 THEN accounts
        ELSE [accounts EXCEPT ![ById(accounts, accounts[pos].id)] = accounts[pos]]
  BY DEF Rewritten
<1> HIDE DEF pos
<1>5. ASSUME pos # 0 PROVE [accounts EXCEPT ![ById(accounts, accounts[pos].id)] = accounts[pos]] = accounts
  <2> DEFINE spot == ById(accounts, accounts[pos].id)
  <2>1. pos \in DOMAIN accounts
    BY <1>3, <1>5
  <2>2. spot \in DOMAIN accounts /\ accounts[spot].id = accounts[pos].id
    BY <1>0, <2>1, PlaceOfId
  <2> HIDE DEF spot
  <2>3. spot = pos
    BY <1>0, <2>1, <2>2 DEF IdsWereBorn
  <2>4. [accounts EXCEPT ![pos] = accounts[pos]] = accounts
    BY <1>0, <2>1
  <2> QED
    BY <2>3, <2>4 DEF spot
<1> QED
  BY <1>4, <1>5

\* A call begins, goes on or ends, and the users are as they were.
LEMMA CallStepInv ==
  ASSUME AccountsInv, NEW c \in AuthCalls, NEW call \in AuthCall,
         authCall' = [authCall EXCEPT ![c] = call],
         call.at = "assign" => Known(call.code),
         call.at = "login" =>
           /\ call.via = "service" => call.user.is_active
           /\ \E i \in DOMAIN accounts : accounts[i] = call.user,
         misled' = FALSE, UNCHANGED <<roleVars, accounts, born, decided>>
  PROVE  AccountsInv'
<1>0. AccountsTypeOK /\ IdsWereBorn /\ IsDecided /\ CodesAreKnown /\ CopiesAreTrue
  BY DEF AccountsInv
<1>1. \A b \in AuthCalls : authCall'[b] = IF b = c THEN call ELSE authCall[b]
  BY <1>0 DEF AccountsTypeOK
<1>2. authCall' \in [AuthCalls -> AuthCall]
  BY <1>0 DEF AccountsTypeOK
<1>3. RolesInv'
  BY DEF AccountsInv, RolesInv, RolesTypeOK, IdsWereMade, RolesStand, roleVars
<1>4. misled' \in BOOLEAN
  OBVIOUS
<1>5. AccountsTypeOK'
  BY <1>0, <1>2, <1>4 DEF AccountsTypeOK
<1>6. IdsWereBorn' /\ IsDecided'
  BY <1>0 DEF IdsWereBorn, IsDecided
<1>7. CodesAreKnown'
  <2>1. \A b \in AuthCalls : authCall'[b].at = "assign" => Known(authCall'[b].code)
    BY <1>0, <1>1 DEF CodesAreKnown
  <2>2. roles' = roles /\ retired' = retired
    BY DEF roleVars
  <2> QED
    BY <1>0, <2>1, <2>2 DEF CodesAreKnown, Known
<1>8. CopiesAreTrue'
  BY <1>0, <1>1 DEF CopiesAreTrue
<1> QED
  BY <1>3, <1>5, <1>6, <1>7, <1>8 DEF AccountsInv

\* A login copies a user who is in the store, and may log in.
LEMMA LoginReadsInv ==
  ASSUME AccountsInv, NEW c \in AuthCalls, NEW name \in Usernames,
         NEW via \in {"service", "route"}, LoginReads(c, name, via), UNCHANGED roleVars
  PROVE  AccountsInv'
<1> DEFINE I == {i \in 1..Len(accounts) : accounts[i].username = name}
           pos == ByUsername(name)
           call == [at |-> "login", user |-> accounts[pos], via |-> via, touched |-> FALSE]
<1>0. accounts \in Seq(Users) /\ DOMAIN accounts = 1..Len(accounts)
  BY DEF AccountsInv, AccountsTypeOK
<1>1. /\ pos # 0
      /\ via = "service" => accounts[pos].is_active
      /\ authCall' = [authCall EXCEPT ![c] = call]
      /\ UNCHANGED <<accounts, born, misled, decided>>
  BY DEF LoginReads
<1>2. pos \in DOMAIN accounts
  <2>1. pos = IF I # {} THEN Min(I) ELSE 0
    BY DEF ByUsername, SelectInSeq
  <2>2. I # {} => Min(I) \in I
    <3>1. I \in SUBSET Nat
      OBVIOUS
    <3> HIDE DEF I
    <3> QED
      BY <3>1, FirstPlace
  <2> QED
    BY <1>0, <1>1, <2>1, <2>2
<1> HIDE DEF pos
<1>3. accounts[pos] \in Users
  BY <1>0, <1>2
<1>4. /\ call \in AuthCall /\ call.at = "login" /\ call.via = via /\ call.user = accounts[pos]
  BY <1>3 DEF AuthCall
<1> HIDE DEF call
<1>5. misled' = FALSE
  <2>1. ~misled /\ misled \in BOOLEAN
    BY DEF AccountsInv, AccountsTypeOK, CopiesAreTrue
  <2>2. misled = FALSE
    BY <2>1
  <2> QED
    BY <1>1, <2>2
<1>6. /\ call.at # "assign"
      /\ call.via = "service" => call.user.is_active
      /\ \E i \in DOMAIN accounts : accounts[i] = call.user
  BY <1>1, <1>2, <1>4
<1> QED
  BY <1>1, <1>4, <1>5, <1>6, CallStepInv

\* A token says what the store says, or the login was noted of a change.
LEMMA LoginIssuesInv ==
  ASSUME AccountsInv, NEW c \in AuthCalls, LoginIssues(c), UNCHANGED roleVars
  PROVE  AccountsInv'
<1> DEFINE user == authCall[c].user
           via == authCall[c].via
<1>1. /\ authCall[c].at = "login"
      /\ authCall' = [authCall EXCEPT ![c] = NoAuthCall]
      /\ UNCHANGED <<born, decided>>
  BY DEF LoginIssues
<1>2. accounts' = accounts
  BY RewrittenSame DEF LoginIssues
<1>3. misled' = (misled \/ ~(authCall[c].touched \/ SaysTheTruth(user, via)))
  BY DEF LoginIssues
<1>4. authCall[c].touched \/ SaysTheTruth(user, via)
  <2>1. /\ via = "service" => user.is_active
        /\ authCall[c].touched \/ \E i \in DOMAIN accounts : accounts[i] = user
    BY <1>1 DEF AccountsInv, CopiesAreTrue
  <2>2. ASSUME NEW i \in DOMAIN accounts, accounts[i] = user PROVE SaysTheTruth(user, via)
    BY <2>1, <2>2 DEF SaysTheTruth
  <2> QED
    BY <2>1, <2>2
<1>5. misled' = FALSE
  <2>1. misled = FALSE
    <3>1. ~misled /\ misled \in BOOLEAN
      BY DEF AccountsInv, AccountsTypeOK, CopiesAreTrue
    <3> QED
      BY <3>1
  <2> QED
    BY <1>3, <1>4, <2>1
<1> QED
  BY <1>1, <1>2, <1>5, NoAuthCallFacts, CallStepInv

LEMMA AssignReadsInv ==
  ASSUME AccountsInv, NEW c \in AuthCalls, NEW id \in UserIds, NEW roleId \in RoleIds,
         AssignReads(c, id, roleId), UNCHANGED roleVars
  PROVE  AccountsInv'
<1> DEFINE pos == ById(roles, roleId)
           call == [at |-> "assign", id |-> id, code |-> roles[pos].code]
<1>0. roles \in Seq(RoleDefinitions)
  BY DEF AccountsInv, RolesInv, RolesTypeOK
<1>1. /\ pos # 0 /\ authCall' = [authCall EXCEPT ![c] = call]
      /\ UNCHANGED <<accounts, born, misled, decided>>
  BY DEF AssignReads
<1>2. pos \in DOMAIN roles
  BY <1>0, <1>1, PlaceOfId
<1> HIDE DEF pos
<1>3. roles[pos] \in RoleDefinitions
  BY <1>0, <1>2
<1>4. roles[pos].code \in Codes
  BY <1>3 DEF RoleDefinitions
<1>5. /\ call \in AuthCall /\ call.at = "assign" /\ call.code = roles[pos].code
  BY <1>4 DEF AuthCall
<1>6. Known(call.code)
  BY <1>2, <1>5 DEF Known, KnownIn
<1> HIDE DEF call
<1>7. misled' = FALSE
  <2>1. ~misled /\ misled \in BOOLEAN
    BY DEF AccountsInv, AccountsTypeOK, CopiesAreTrue
  <2>2. misled = FALSE
    BY <2>1
  <2> QED
    BY <1>1, <2>2
<1> QED
  BY <1>1, <1>5, <1>6, <1>7, CallStepInv

LEMMA AssignFailsInv ==
  ASSUME AccountsInv, NEW c \in AuthCalls, AssignFails(c), UNCHANGED roleVars
  PROVE  AccountsInv'
<1>1. /\ authCall' = [authCall EXCEPT ![c] = NoAuthCall]
      /\ UNCHANGED <<accounts, born, misled, decided>>
  BY DEF AssignFails
<1>2. misled' = FALSE
  <2>1. ~misled /\ misled \in BOOLEAN
    BY DEF AccountsInv, AccountsTypeOK, CopiesAreTrue
  <2>2. misled = FALSE
    BY <2>1
  <2> QED
    BY <1>1, <2>2
<1> QED
  BY <1>1, <1>2, NoAuthCallFacts, CallStepInv

\* What happens to the roles leaves the users alone and every code known.
LEMMA RoleCallsInv ==
  ASSUME AccountsInv, RoleCalls, UNCHANGED accountVars
  PROVE  AccountsInv'
<1>1. UNCHANGED <<accounts, born, authCall, misled, decided>>
  BY DEF accountVars
<1>2. RolesInv
  BY DEF AccountsInv
<1>3. RolesInv'
  <2>1. RolesNext
    BY DEF RoleCalls, RolesNext
  <2> QED
    BY <1>2, <2>1, RolesStepInv
<1>4. CodesAreKnown'
  <2>1. \A code : Known(code) => KnownIn(code, roles', retired')
    BY <1>2, KnownStays
  <2> QED
    BY <1>1, <2>1 DEF AccountsInv, CodesAreKnown, Known
<1>5. AccountsTypeOK' /\ IdsWereBorn' /\ IsDecided' /\ CopiesAreTrue'
  BY <1>1 DEF AccountsInv, AccountsTypeOK, IdsWereBorn, IsDecided, CopiesAreTrue
<1> QED
  BY <1>3, <1>4, <1>5 DEF AccountsInv

LEMMA AccountsStepInv ==
  ASSUME AccountsInv, [AccountsNext]_<<roleVars, accountVars>>
  PROVE  AccountsInv'
<1>1. ASSUME UserCalls, UNCHANGED roleVars PROVE AccountsInv'
  <2>1. ASSUME NEW name \in Usernames, NEW email \in Emails,
               AddUser(name, email) \/ SsoUser(name, email)
        PROVE  AccountsInv'
    BY <1>1, <2>1, NewUserInv DEF AddUser, SsoUser
  <2>2. ASSUME NEW id \in UserIds, RemoveUser(id) PROVE AccountsInv'
    BY <1>1, <2>2, RemoveUserInv
  <2>3. ASSUME NEW id \in UserIds, NEW active \in BOOLEAN, SetActive(id, active)
        PROVE  AccountsInv'
    BY <1>1, <2>3, SetActiveInv
  <2>4. ASSUME NEW c \in AuthCalls, NEW name \in Usernames,
               NEW via \in {"service", "route"}, LoginReads(c, name, via)
        PROVE  AccountsInv'
    BY <1>1, <2>4, LoginReadsInv
  <2>5. ASSUME NEW c \in AuthCalls, LoginIssues(c) PROVE AccountsInv'
    BY <1>1, <2>5, LoginIssuesInv
  <2>6. ASSUME NEW c \in AuthCalls, NEW id \in UserIds, NEW roleId \in RoleIds,
               AssignReads(c, id, roleId)
        PROVE  AccountsInv'
    BY <1>1, <2>6, AssignReadsInv
  <2>7. ASSUME NEW c \in AuthCalls, AssignWrites(c) PROVE AccountsInv'
    BY <1>1, <2>7, AssignWritesInv
  <2>8. ASSUME NEW c \in AuthCalls, AssignFails(c) PROVE AccountsInv'
    BY <1>1, <2>8, AssignFailsInv
  <2> QED
    BY <1>1, <2>1, <2>2, <2>3, <2>4, <2>5, <2>6, <2>7, <2>8 DEF UserCalls
<1>2. ASSUME RoleCalls, UNCHANGED accountVars PROVE AccountsInv'
  BY <1>2, RoleCallsInv
<1>3. CASE UNCHANGED <<roleVars, accountVars>>
  BY <1>3 DEF roleVars, accountVars, AccountsInv, RolesInv, RolesTypeOK, IdsWereMade,
              RolesStand, AccountsTypeOK, IdsWereBorn, IsDecided, CodesAreKnown, Known,
              CopiesAreTrue
<1> QED
  BY <1>1, <1>2, <1>3 DEF AccountsNext

\* The users, their logins and the roles meanwhile: the types, the ids, the
\* decisions, the codes and the copies are as the invariant says, for ever.
THEOREM AccountsInvariant == AccountsSpec => []AccountsInv
<1>1. RolesInit /\ AccountsInit => AccountsInv
  BY AccountsInitInv
<1>2. AccountsInv /\ [AccountsNext]_<<roleVars, accountVars>> => AccountsInv'
  BY AccountsStepInv
<1> QED
  BY <1>1, <1>2, PTL DEF AccountsSpec

LEMMA AccountsAnswer == AccountsInv => LoginsAreFaithful
<1> SUFFICES ASSUME AccountsInv PROVE LoginsAreFaithful
  OBVIOUS
<1>0. /\ roles \in Seq(RoleDefinitions) /\ accounts \in Seq(Users)
      /\ IdsWereBorn /\ IsDecided /\ CodesAreKnown /\ CopiesAreTrue
  BY DEF AccountsInv, RolesInv, RolesTypeOK, AccountsTypeOK
<1>1. ASSUME NEW code, Known(code), ByCode(roles, code) = 0 PROVE code \in retired
  <2>1. \A i \in DOMAIN roles : roles[i].code # code
    BY <1>0, <1>1, PlaceOfCode
  <2> QED
    BY <1>1, <2>1 DEF Known, KnownIn
<1>2. ASSUME NEW i \in DOMAIN accounts
      PROVE  /\ accounts[i].role = decided[accounts[i].id].role
             /\ accounts[i].is_active = decided[accounts[i].id].is_active
             /\ ByCode(roles, accounts[i].role) = 0 => accounts[i].role \in retired
             /\ \A code \in PermissionCodes :
                  CheckPermission(accounts[i].id, code) = "role not found" =>
                    accounts[i].role \in retired
  <2>1. /\ accounts[i].role = decided[accounts[i].id].role
        /\ accounts[i].is_active = decided[accounts[i].id].is_active
    BY <1>0 DEF IsDecided
  <2>2. Known(accounts[i].role)
    BY <1>0 DEF CodesAreKnown
  <2>3. ByCode(roles, accounts[i].role) = 0 => accounts[i].role \in retired
    BY <1>1, <2>2
  <2>4. ASSUME NEW code \in PermissionCodes,
               CheckPermission(accounts[i].id, code) = "role not found"
        PROVE  ByCode(roles, accounts[i].role) = 0
    <3> DEFINE pos == ById(accounts, accounts[i].id)
    <3>1. pos \in DOMAIN accounts /\ accounts[pos].id = accounts[i].id
      BY <1>0, PlaceOfId
    <3>2. pos # 0
      BY <1>0, <3>1
    <3>3. CheckPermission(accounts[i].id, code) = CheckRole(accounts[pos].role, code)
      BY <3>2 DEF CheckPermission
    <3> HIDE DEF pos
    <3>4. pos = i
      BY <1>0, <3>1 DEF IdsWereBorn
    <3>5. CheckRole(accounts[i].role, code) = "role not found"
      BY <2>4, <3>3, <3>4
    <3>6. SUFFICES ASSUME ByCode(roles, accounts[i].role) # 0 PROVE FALSE
      OBVIOUS
    <3>7. CheckRole(accounts[i].role, code) \in {"refused", "granted", "never answers"}
      BY <3>6 DEF CheckRole, HasPermissionRecursive
    <3> QED
      BY <3>5, <3>7
  <2> QED
    BY <2>1, <2>3, <2>4
<1>3. ASSUME NEW u \in ToSet(accounts)
      PROVE  /\ u.role = decided[u.id].role
             /\ u.is_active = decided[u.id].is_active
             /\ ByCode(roles, u.role) = 0 => u.role \in retired
             /\ \A code \in PermissionCodes :
                  CheckPermission(u.id, code) = "role not found" => u.role \in retired
  <2>1. PICK i \in DOMAIN accounts : accounts[i] = u
    BY DEF ToSet
  <2> QED
    BY <1>2, <2>1
<1>4. ~misled
  BY <1>0 DEF CopiesAreTrue
<1>5. \A i, j \in DOMAIN accounts : accounts[i].id = accounts[j].id => i = j
  BY <1>0 DEF IdsWereBorn
<1> QED
  BY <1>3, <1>4, <1>5 DEF LoginsAreFaithful

\* No login undoes what was decided about a user meanwhile, a token says what
\* the store says unless just that was changed during the login, ids are unique,
\* and a user whose role is not found has a code some role has given up.
THEOREM AccountsLoginsAreFaithful == AccountsSpec => []LoginsAreFaithful
BY AccountsInvariant, AccountsAnswer, PTL

-----------------------------------------------------------------------------
(***************************************************************************)
(* Single sign-on.                                                         *)
(***************************************************************************)
LEMMA StateAtFacts ==
  ASSUME SsoTypeOK, NEW token
  PROVE  IF \E i \in DOMAIN states : states[i].state_token = token
           THEN StateAt(token) \in DOMAIN states /\ states[StateAt(token)].state_token = token
           ELSE StateAt(token) = 0
<1> DEFINE I == {i \in 1..Len(states) : states[i].state_token = token}
<1>1. StateAt(token) = IF I # {} THEN Min(I) ELSE 0
  BY DEF StateAt, SelectInSeq
<1>2. I \in SUBSET Nat /\ DOMAIN states = 1..Len(states)
  BY DEF SsoTypeOK
<1>3. I # {} => Min(I) \in I
  <2> HIDE DEF I
  <2> QED
    BY <1>2, FirstPlace
<1> QED
  BY <1>1, <1>2, <1>3

\* When states go and none comes, those that stay differ and were drawn.
LEMMA StatesStay ==
  ASSUME SsoInv, states' \in Seq(SsoState), stateTokens' = stateTokens,
         NEW keep \in SUBSET (1..Len(states)), TakenFrom(states', states, keep)
  PROVE  StatesDiffer' /\ StatesWereDrawn'
<1>1. DOMAIN states = 1..Len(states) /\ DOMAIN states' = 1..Len(states')
  BY DEF SsoInv, SsoTypeOK
<1>2. PICK spot \in [1..Len(states') -> keep] :
        /\ \A i \in 1..Len(states') : states'[i] = states[spot[i]]
        /\ \A i, j \in 1..Len(states') : spot[i] = spot[j] => i = j
  BY DEF TakenFrom
<1>3. \A i \in 1..Len(states') : spot[i] \in DOMAIN states
  BY <1>1, <1>2
<1>4. StatesDiffer'
  BY <1>1, <1>2, <1>3 DEF SsoInv, StatesDiffer
<1>5. StatesWereDrawn'
  BY <1>1, <1>2, <1>3 DEF SsoInv, StatesWereDrawn
<1> QED
  BY <1>4, <1>5

LEMMA GenerateAuthUrlInv ==
  ASSUME SsoInv, NEW id \in SsoProviderIds, GenerateAuthUrl(id)
  PROVE  SsoInv'
<1>1. /\ stateTokens < MaxSsoStates /\ stateTokens' = stateTokens + 1
      /\ UNCHANGED <<ssoProviders, ssoNow, stateAnswers>>
  BY DEF GenerateAuthUrl
<1> DEFINE new == [state_token |-> stateTokens + 1, provider_id |-> id,
                   expires_at |-> ssoNow + SsoLifetime]
<1>2. states' = Append(states, new)
  BY DEF GenerateAuthUrl
<1>3. /\ stateTokens \in Nat /\ stateTokens + 1 \in 1..MaxSsoStates
      /\ stateTokens' \in 0..MaxSsoStates
  BY <1>1, SsoBounds DEF SsoInv, SsoTypeOK
<1>4. ssoNow + SsoLifetime \in 0..(MaxSsoTime + SsoLifetime)
  BY SsoBounds DEF SsoInv, SsoTypeOK
<1>5. new \in SsoState /\ new.state_token = stateTokens + 1
  BY <1>3, <1>4 DEF SsoState
<1> HIDE DEF new
<1>6. /\ states \in Seq(SsoState) /\ Len(states) \in Nat
      /\ DOMAIN states = 1..Len(states)
      /\ \A i \in 1..Len(states) : states[i] \in SsoState
  BY LenProperties DEF SsoInv, SsoTypeOK
<1>7. /\ states' \in Seq(SsoState) /\ DOMAIN states' = 1..(Len(states) + 1)
      /\ \A i \in 1..Len(states) : states'[i] = states[i]
      /\ states'[Len(states) + 1] = new
  BY <1>2, <1>5, <1>6, AppendProperties
<1>8. SsoTypeOK'
  BY <1>1, <1>3, <1>7 DEF SsoInv, SsoTypeOK
<1>9. \A i \in 1..Len(states) :
        states[i].state_token \in Nat /\ states[i].state_token <= stateTokens
  BY <1>6 DEF SsoInv, StatesWereDrawn, SsoState
<1>10. \A i \in 1..(Len(states) + 1) : i \in 1..Len(states) \/ i = Len(states) + 1
  BY <1>6
<1>11. StatesWereDrawn'
  BY <1>1, <1>3, <1>5, <1>7, <1>9, <1>10 DEF StatesWereDrawn
<1>12. StatesDiffer'
  <2>1. \A i \in 1..Len(states) : states'[i].state_token # stateTokens + 1
    BY <1>3, <1>7, <1>9
  <2>2. states'[Len(states) + 1].state_token = stateTokens + 1
    BY <1>5, <1>7
  <2> QED
    BY <1>6, <1>7, <1>10, <2>1, <2>2 DEF SsoInv, StatesDiffer
<1>13. AnsweredAreGone'
  <2> SUFFICES ASSUME NEW t \in 1..MaxSsoStates
               PROVE  /\ stateAnswers'[t] <= 1
                      /\ stateAnswers'[t] = 1 =>
                           /\ t <= stateTokens'
                           /\ \A i \in DOMAIN states' : states'[i].state_token # t
    BY DEF AnsweredAreGone
  <2>1. /\ stateAnswers'[t] <= 1
        /\ stateAnswers'[t] = 1 =>
             t <= stateTokens /\ \A i \in 1..Len(states) : states[i].state_token # t
    BY <1>1, <1>6 DEF SsoInv, AnsweredAreGone
  <2>2. t <= stateTokens => t # stateTokens + 1 /\ t <= stateTokens + 1
    BY <1>3
  <2> QED
    BY <1>1, <1>5, <1>7, <1>10, <2>1, <2>2
<1> QED
  BY <1>8, <1>11, <1>12, <1>13 DEF SsoInv

LEMMA ValidateStateInv ==
  ASSUME SsoInv, NEW token \in 1..MaxSsoStates, ValidateState(token)
  PROVE  SsoInv'
<1> DEFINE pos == StateAt(token)
<1>1. /\ pos # 0 /\ states' = RemoveAt(states, pos)
      /\ stateAnswers' = IF ssoNow <= states[pos].expires_at
                         THEN [stateAnswers EXCEPT ![token] = @ + 1] ELSE stateAnswers
      /\ UNCHANGED <<ssoProviders, ssoNow, stateTokens>>
  BY DEF ValidateState
<1>2. pos \in DOMAIN states /\ states[pos].state_token = token
  BY <1>1, StateAtFacts DEF SsoInv
<1> HIDE DEF pos
<1>3. /\ states \in Seq(SsoState) /\ Len(states) \in Nat
      /\ DOMAIN states = 1..Len(states)
  BY LenProperties DEF SsoInv, SsoTypeOK
<1>4. states' \in Seq(SsoState) /\ DOMAIN states' = 1..Len(states')
  <2>1. pos \in 1..Len(states)
    BY <1>2, <1>3
  <2>2. states' \in Seq(SsoState)
    BY <1>1, <1>3, <2>1, RemovedFacts
  <2> QED
    BY <2>2, LenProperties
<1>0. TakenFrom(states', states, (1..Len(states)) \ {pos})
  BY <1>1, <1>2, <1>3, RemovedFacts
<1>5. PICK spot \in [1..Len(states') -> (1..Len(states)) \ {pos}] :
        \A i \in 1..Len(states') : states'[i] = states[spot[i]]
  BY <1>0 DEF TakenFrom
<1>6. StatesDiffer' /\ StatesWereDrawn'
  BY <1>0, <1>1, <1>4, StatesStay
<1>7. ASSUME NEW i \in 1..Len(states')
      PROVE  states'[i].state_token # token
  <2>1. spot[i] \in 1..Len(states) /\ spot[i] # pos /\ states'[i] = states[spot[i]]
    BY <1>5
  <2> QED
    BY <1>2, <1>3, <2>1 DEF SsoInv, StatesDiffer
<1>8. /\ stateAnswers \in [1..MaxSsoStates -> 0..MaxSsoStates]
      /\ stateAnswers[token] \in Nat /\ stateAnswers[token] <= 1
      /\ token \in Nat /\ token <= stateTokens
  <2>1. /\ stateAnswers \in [1..MaxSsoStates -> 0..MaxSsoStates]
        /\ token \in Nat /\ MaxSsoStates \in Nat
    BY SsoBounds DEF SsoInv, SsoTypeOK
  <2>2. stateAnswers[token] \in Nat
    BY <2>1
  <2>3. stateAnswers[token] <= 1 /\ token <= stateTokens
    BY <1>2 DEF SsoInv, AnsweredAreGone, StatesWereDrawn
  <2> QED
    BY <2>1, <2>2, <2>3
<1>9. stateAnswers[token] = 0
  BY <1>2, <1>8 DEF SsoInv, AnsweredAreGone
<1>10. /\ stateAnswers'[token] \in {0, 1}
       /\ \A t \in 1..MaxSsoStates : t # token => stateAnswers'[t] = stateAnswers[t]
       /\ stateAnswers' \in [1..MaxSsoStates -> 0..MaxSsoStates]
  <2>1. 0 \in 0..MaxSsoStates /\ 1 \in 0..MaxSsoStates
    BY SsoBounds
  <2>2. CASE ssoNow <= states[pos].expires_at
    <3>1. stateAnswers' = [stateAnswers EXCEPT ![token] = 1]
      BY <1>1, <1>9, <2>2
    <3> QED
      BY <1>8, <2>1, <3>1
  <2>3. CASE ~(ssoNow <= states[pos].expires_at)
    BY <1>1, <1>8, <1>9, <2>3
  <2> QED
    BY <2>2, <2>3
<1>11. SsoTypeOK'
  BY <1>1, <1>4, <1>10 DEF SsoInv, SsoTypeOK
<1>12. AnsweredAreGone'
  <2> SUFFICES ASSUME NEW t \in 1..MaxSsoStates
               PROVE  /\ stateAnswers'[t] <= 1
                      /\ stateAnswers'[t] = 1 =>
                           /\ t <= stateTokens'
                           /\ \A i \in DOMAIN states' : states'[i].state_token # t
    BY DEF AnsweredAreGone
  <2>1. CASE t = token
    BY <1>1, <1>4, <1>7, <1>8, <1>10, <2>1
  <2>2. CASE t # token
    <3>1. /\ stateAnswers'[t] <= 1
          /\ stateAnswers'[t] = 1 =>
               t <= stateTokens /\ \A i \in 1..Len(states) : states[i].state_token # t
      BY <1>3, <1>10, <2>2 DEF SsoInv, AnsweredAreGone
    <3>2. \A i \in 1..Len(states') : spot[i] \in 1..Len(states)
      BY <1>5
    <3>3. \A i \in 1..Len(states') :
            stateAnswers'[t] = 1 => states'[i].state_token # t
      BY <1>5, <3>1, <3>2
    <3> QED
      BY <1>1, <1>4, <3>1, <3>3
  <2> QED
    BY <2>1, <2>2
<1> QED
  BY <1>6, <1>11, <1>12 DEF SsoInv

LEMMA CleanupStatesInv ==
  ASSUME SsoInv, CleanupExpiredStates
  PROVE  SsoInv'
<1> DEFINE keep == {i \in DOMAIN states : ssoNow <= states[i].expires_at}
<1>1. /\ states' = Retain(states, keep)
      /\ UNCHANGED <<ssoProviders, ssoNow, stateTokens, stateAnswers>>
  BY DEF CleanupExpiredStates
<1>2. /\ states \in Seq(SsoState) /\ DOMAIN states = 1..Len(states)
      /\ keep \in SUBSET (1..Len(states))
  BY DEF SsoInv, SsoTypeOK
<1> HIDE DEF keep
<1>3. states' \in Seq(SsoState) /\ DOMAIN states' = 1..Len(states')
  BY <1>1, <1>2, RetainedFacts
<1>4. TakenFrom(states', states, keep)
  BY <1>1, <1>2, RetainedFacts
<1>5. PICK spot \in [1..Len(states') -> keep] :
        \A i \in 1..Len(states') : states'[i] = states[spot[i]]
  BY <1>4 DEF TakenFrom
<1>6. StatesDiffer' /\ StatesWereDrawn'
  BY <1>1, <1>2, <1>3, <1>4, StatesStay
<1>7. SsoTypeOK'
  BY <1>1, <1>3 DEF SsoInv, SsoTypeOK
<1>8. AnsweredAreGone'
  <2>1. \A i \in 1..Len(states') : spot[i] \in 1..Len(states)
    BY <1>2, <1>5
  <2> QED
    BY <1>1, <1>2, <1>3, <1>5, <2>1 DEF SsoInv, AnsweredAreGone
<1> QED
  BY <1>6, <1>7, <1>8 DEF SsoInv

\* Providers come and go and leave the states alone.
LEMMA ProvidersInv ==
  ASSUME SsoInv, NEW id \in SsoProviderIds,
         RemoveSso(id) \/ \E enabled \in BOOLEAN : RegisterSso(id, enabled)
  PROVE  SsoInv'
<1> DEFINE Provider == [id : SsoProviderIds, enabled : BOOLEAN]
<1>1. /\ UNCHANGED <<states, ssoNow, stateTokens, stateAnswers>>
      /\ \/ /\ ProviderAt(id) # 0
            /\ ssoProviders' = RemoveAt(ssoProviders, ProviderAt(id))
         \/ \E enabled \in BOOLEAN :
              ssoProviders' = Append(ssoProviders, [id |-> id, enabled |-> enabled])
  BY DEF RemoveSso, RegisterSso
<1>2. ssoProviders \in Seq(Provider)
  BY DEF SsoInv, SsoTypeOK
<1>3. ProviderAt(id) # 0 => ProviderAt(id) \in 1..Len(ssoProviders)
  <2> DEFINE I == {i \in 1..Len(ssoProviders) : ssoProviders[i].id = id}
  <2>1. ProviderAt(id) = IF I # {} THEN Min(I) ELSE 0
    BY DEF ProviderAt, SelectInSeq
  <2>2. I \in SUBSET Nat
    OBVIOUS
  <2>3. I # {} => Min(I) \in I
    <3> HIDE DEF I
    <3> QED
      BY <2>2, FirstPlace
  <2> QED
    BY <2>1, <2>3
<1>4. \A enabled \in BOOLEAN : [id |-> id, enabled |-> enabled] \in Provider
  OBVIOUS
<1> HIDE DEF Provider
<1>5. ssoProviders' \in Seq(Provider)
  <2>1. ASSUME ProviderAt(id) # 0,
               ssoProviders' = RemoveAt(ssoProviders, ProviderAt(id))
        PROVE  ssoProviders' \in Seq(Provider)
    BY <1>2, <1>3, <2>1, RemovedFacts
  <2>2. ASSUME NEW enabled \in BOOLEAN,
               ssoProviders' = Append(ssoProviders, [id |-> id, enabled |-> enabled])
        PROVE  ssoProviders' \in Seq(Provider)
    BY <1>2, <1>4, <2>2, AppendProperties
  <2> QED
    BY <1>1, <2>1, <2>2
<1>6. SsoTypeOK'
  BY <1>1, <1>5 DEF SsoInv, SsoTypeOK, Provider
<1>7. AnsweredAreGone' /\ StatesDiffer' /\ StatesWereDrawn'
  BY <1>1 DEF SsoInv, AnsweredAreGone, StatesDiffer, StatesWereDrawn
<1> QED
  BY <1>6, <1>7 DEF SsoInv

\* The states of sign-ons that wait are the ones that were drawn and not answered.
THEOREM SsoInvariant == SsoSpec => []SsoInv
<1>1. SsoInit => SsoInv
  <2> SUFFICES ASSUME SsoInit PROVE SsoInv
    OBVIOUS
  <2>1. /\ states = <<>> /\ ssoProviders = <<>> /\ ssoNow = 0 /\ stateTokens = 0
        /\ stateAnswers = [t \in 1..MaxSsoStates |-> 0]
    BY DEF SsoInit
  <2>2. /\ states \in Seq(SsoState) /\ DOMAIN states = {}
        /\ ssoProviders \in Seq([id : SsoProviderIds, enabled : BOOLEAN])
    BY <2>1
  <2>3. 0 \in 0..MaxSsoTime /\ 0 \in 0..MaxSsoStates
    BY SsoBounds
  <2>4. SsoTypeOK
    BY <2>1, <2>2, <2>3 DEF SsoTypeOK
  <2>5. AnsweredAreGone /\ StatesDiffer /\ StatesWereDrawn
    BY <2>1, <2>2 DEF AnsweredAreGone, StatesDiffer, StatesWereDrawn
  <2> QED
    BY <2>4, <2>5 DEF SsoInv
<1>2. SsoInv /\ [SsoNext]_ssoVars => SsoInv'
  <2> SUFFICES ASSUME SsoInv, [SsoNext]_ssoVars PROVE SsoInv'
    OBVIOUS
  <2>1. ASSUME NEW id \in SsoProviderIds,
               RemoveSso(id) \/ \E enabled \in BOOLEAN : RegisterSso(id, enabled)
        PROVE  SsoInv'
    BY <2>1, ProvidersInv
  <2>2. ASSUME NEW id \in SsoProviderIds, GenerateAuthUrl(id) PROVE SsoInv'
    BY <2>2, GenerateAuthUrlInv
  <2>3. ASSUME NEW token \in 1..MaxSsoStates, ValidateState(token) PROVE SsoInv'
    BY <2>3, ValidateStateInv
  <2>4. CASE CleanupExpiredStates
    BY <2>4, CleanupStatesInv
  <2>5. CASE SsoTick
    <3>1. /\ ssoNow' = ssoNow + 1 /\ ssoNow < MaxSsoTime
          /\ UNCHANGED <<ssoProviders, states, stateTokens, stateAnswers>>
      BY <2>5 DEF SsoTick
    <3>2. ssoNow' \in 0..MaxSsoTime
      BY <3>1, SsoBounds DEF SsoInv, SsoTypeOK
    <3>3. SsoTypeOK'
      BY <3>1, <3>2 DEF SsoInv, SsoTypeOK
    <3>4. AnsweredAreGone' /\ StatesDiffer' /\ StatesWereDrawn'
      BY <3>1 DEF SsoInv, AnsweredAreGone, StatesDiffer, StatesWereDrawn
    <3> QED
      BY <3>3, <3>4 DEF SsoInv
  <2>6. CASE UNCHANGED ssoVars
    BY <2>6 DEF ssoVars, SsoInv, SsoTypeOK, AnsweredAreGone, StatesDiffer, StatesWereDrawn
  <2> QED
    BY <2>1, <2>2, <2>3, <2>4, <2>5, <2>6 DEF SsoNext
<1> QED
  BY <1>1, <1>2, PTL DEF SsoSpec

\* A state of a sign-on is given out at most once (yma-auth, validate_state),
\* however authorisations are begun, answered and thrown away.
THEOREM SsoStatesAnsweredOnce == SsoSpec => []StatesAnsweredOnce
<1>1. SsoInv => StatesAnsweredOnce
  <2> SUFFICES ASSUME SsoInv PROVE StatesAnsweredOnce
    OBVIOUS
  <2>1. \A t \in 1..MaxSsoStates : stateAnswers[t] = 1 => StateAt(t) = 0
    BY StateAtFacts DEF SsoInv, AnsweredAreGone
  <2> QED
    BY <2>1 DEF StatesAnsweredOnce, SsoInv, AnsweredAreGone, StatesDiffer
<1> QED
  BY <1>1, SsoInvariant, PTL

-----------------------------------------------------------------------------
(***************************************************************************)
(* Key pools.                                                              *)
(***************************************************************************)
LEMMA PoolParts ==
  ASSUME PoolsTypeOK, NEW n \in PoolNames
  PROVE  /\ pools[n].exists \in BOOLEAN
         /\ pools[n].keys \in Seq(PoolKey) /\ Len(pools[n].keys) \in Nat
         /\ DOMAIN pools[n].keys = 1..Len(pools[n].keys)
         /\ \A i \in 1..Len(pools[n].keys) : pools[n].keys[i] \in PoolKey
         /\ pools[n] = [exists |-> pools[n].exists, keys |-> pools[n].keys]
<1>1. pools[n] \in [exists : BOOLEAN, keys : Seq(PoolKey)]
  BY DEF PoolsTypeOK
<1>2. /\ pools[n].exists \in BOOLEAN /\ pools[n].keys \in Seq(PoolKey)
      /\ pools[n] = [exists |-> pools[n].exists, keys |-> pools[n].keys]
  BY <1>1
<1>3. PICK list : list = pools[n].keys
  OBVIOUS
<1>4. list \in Seq(PoolKey)
  BY <1>2, <1>3
<1>5. /\ Len(list) \in Nat /\ DOMAIN list = 1..Len(list)
      /\ \A i \in 1..Len(list) : list[i] \in PoolKey
  BY <1>4, LenProperties
<1> QED
  BY <1>2, <1>3, <1>5

LEMMA PoolKeyParts ==
  ASSUME NEW k \in PoolKey
  PROVE  /\ k.key_id \in PoolKeyIds /\ k.is_active \in BOOLEAN
         /\ k.usage_count \in 0..MaxUses
         /\ [k EXCEPT !.is_active = FALSE] \in PoolKey
         /\ [k EXCEPT !.is_active = FALSE].key_id = k.key_id
         /\ [k EXCEPT !.is_active = FALSE].is_active = FALSE
BY DEF PoolKey

\* A step that changes one pool.
LEMMA OnePoolChanges ==
  ASSUME PoolsInv, NEW n \in PoolNames, NEW e \in BOOLEAN, NEW list \in Seq(PoolKey),
         pools' = [pools EXCEPT ![n] = [exists |-> e, keys |-> list]],
         poolNow' = poolNow,
         outOfUse' \subseteq PoolNames \X PoolKeyIds,
         \A m \in PoolNames, id \in PoolKeyIds :
           m # n => (<<m, id>> \in outOfUse' <=> <<m, id>> \in outOfUse),
         KeysGood(list, {id \in PoolKeyIds : <<n, id>> \in outOfUse'}),
         list # <<>> => e
  PROVE  PoolsInv'
<1>1. PoolsTypeOK'
  BY DEF PoolsInv, PoolsTypeOK
<1>2. ASSUME NEW m \in PoolNames
      PROVE  /\ KeysGood(pools'[m].keys, {id \in PoolKeyIds : <<m, id>> \in outOfUse'})
             /\ pools'[m].keys # <<>> => pools'[m].exists
  <2>1. CASE m = n
    <3>1. pools'[m].keys = list /\ pools'[m].exists = e
      BY <2>1 DEF PoolsInv, PoolsTypeOK
    <3> QED
      BY <2>1, <3>1
  <2>2. CASE m # n
    <3>1. pools'[m] = pools[m]
      BY <2>2 DEF PoolsInv, PoolsTypeOK
    <3>2. {id \in PoolKeyIds : <<m, id>> \in outOfUse'}
            = {id \in PoolKeyIds : <<m, id>> \in outOfUse}
      BY <2>2
    <3>3. /\ KeysGood(pools[m].keys, {id \in PoolKeyIds : <<m, id>> \in outOfUse})
          /\ pools[m].keys # <<>> => pools[m].exists
      BY DEF PoolsInv, GoneFrom
    <3> QED
      BY <3>1, <3>2, <3>3
  <2> QED
    BY <2>1, <2>2
<1> QED
  BY <1>1, <1>2 DEF PoolsInv, GoneFrom

\* A key that comes with a new id.
LEMMA KeyComes ==
  ASSUME NEW list \in Seq(PoolKey), NEW gone, KeysGood(list, gone),
         NEW k \in PoolKey, Len(list) < DefaultMaxKeys,
         \A i \in 1..Len(list) : list[i].key_id # k.key_id
  PROVE  Append(list, k) \in Seq(PoolKey) /\ KeysGood(Append(list, k), gone)
<1>1. PICK r : r = Append(list, k)
  OBVIOUS
<1>2. /\ r \in Seq(PoolKey) /\ Len(r) = Len(list) + 1 /\ Len(list) \in Nat
      /\ \A i \in 1..Len(list) : r[i] = list[i]
      /\ r[Len(list) + 1] = k
  BY <1>1, AppendProperties, LenProperties
<1>3. Len(r) <= DefaultMaxKeys
  BY <1>2, PoolBounds
<1>4. \A i \in 1..Len(r) : i \in 1..Len(list) \/ i = Len(list) + 1
  BY <1>2
<1>5. \A i, j \in 1..Len(r) : r[i].key_id = r[j].key_id => i = j
  <2> SUFFICES ASSUME NEW i \in 1..Len(r), NEW j \in 1..Len(r), r[i].key_id = r[j].key_id
               PROVE  i = j
    OBVIOUS
  <2>1. CASE i \in 1..Len(list) /\ j \in 1..Len(list)
    BY <1>2, <2>1 DEF KeysGood
  <2>2. CASE i \in 1..Len(list) /\ j = Len(list) + 1
    BY <1>2, <2>2
  <2>3. CASE i = Len(list) + 1 /\ j \in 1..Len(list)
    BY <1>2, <2>3
  <2> QED
    BY <1>4, <2>1, <2>2, <2>3
<1>6. ASSUME NEW id \in gone
      PROVE  \E i \in 1..Len(r) : r[i].key_id = id /\ r[i].is_active = FALSE
  <2>1. PICK i \in 1..Len(list) : list[i].key_id = id /\ list[i].is_active = FALSE
    BY DEF KeysGood
  <2>2. i \in 1..Len(r)
    BY <1>2
  <2> QED
    BY <1>2, <2>1, <2>2
<1> QED
  BY <1>1, <1>2, <1>3, <1>5, <1>6 DEF KeysGood

\* A key that changes in its place, and may be out of use then.
LEMMA KeyChanges ==
  ASSUME NEW list \in Seq(PoolKey), NEW gone, KeysGood(list, gone),
         NEW pos \in 1..Len(list), NEW k \in PoolKey, k.key_id = list[pos].key_id,
         list[pos].is_active = FALSE => k.is_active = FALSE,
         NEW more, \A id \in more : id \in gone \/ (id = k.key_id /\ k.is_active = FALSE)
  PROVE  /\ [list EXCEPT ![pos] = k] \in Seq(PoolKey)
         /\ KeysGood([list EXCEPT ![pos] = k], more)
         /\ [list EXCEPT ![pos] = k] # <<>> => list # <<>>
<1>1. PICK r : r = [list EXCEPT ![pos] = k]
  OBVIOUS
<1>2. /\ r \in Seq(PoolKey) /\ Len(r) = Len(list) /\ Len(list) \in Nat
      /\ \A i \in 1..Len(list) : r[i] = IF i = pos THEN k ELSE list[i]
  BY <1>1, LenProperties, ExceptSeq
<1>3. \A i \in 1..Len(list) : r[i].key_id = list[i].key_id
  BY <1>2
<1>4. \A i, j \in 1..Len(r) : r[i].key_id = r[j].key_id => i = j
  BY <1>2, <1>3 DEF KeysGood
<1>5. ASSUME NEW id \in more
      PROVE  \E i \in 1..Len(r) : r[i].key_id = id /\ r[i].is_active = FALSE
  <2>1. CASE id \in gone
    <3>1. PICK i \in 1..Len(list) : list[i].key_id = id /\ list[i].is_active = FALSE
      BY <2>1 DEF KeysGood
    <3>2. r[i].is_active = FALSE
      BY <1>2, <3>1
    <3> QED
      BY <1>2, <1>3, <3>1, <3>2
  <2>2. CASE id = k.key_id /\ k.is_active = FALSE
    <3>1. r[pos] = k /\ pos \in 1..Len(r)
      BY <1>2
    <3> QED
      BY <2>2, <3>1
  <2> QED
    BY <2>1, <2>2
<1>6. list # <<>>
  BY EmptySeq
<1>7. Len(r) <= DefaultMaxKeys
  BY <1>2 DEF KeysGood
<1> QED
  BY <1>1, <1>2, <1>4, <1>5, <1>6, <1>7 DEF KeysGood

\* Keys that are thrown out: the others stay.
LEMMA KeysGo ==
  ASSUME NEW list \in Seq(PoolKey), NEW gone, KeysGood(list, gone),
         NEW keep \in SUBSET (1..Len(list)),
         NEW fewer \in SUBSET gone,
         \A i \in 1..Len(list) : list[i].key_id \in fewer => i \in keep
  PROVE  /\ Retain(list, keep) \in Seq(PoolKey)
         /\ KeysGood(Retain(list, keep), fewer)
         /\ Retain(list, keep) # <<>> => list # <<>>
<1>1. PICK r : r = Retain(list, keep)
  OBVIOUS
<1>2. /\ r \in Seq(PoolKey) /\ Len(r) <= Len(list)
      /\ TakenFrom(r, list, keep) /\ TakesAll(r, list, keep)
  BY <1>1, RetainedFacts
<1>3. Len(r) \in Nat /\ Len(list) \in Nat
  BY <1>2, LenProperties
<1>4. Len(r) <= DefaultMaxKeys
  BY <1>2, <1>3, PoolBounds DEF KeysGood
<1>5. \A i, j \in 1..Len(r) : r[i].key_id = r[j].key_id => i = j
  <2>1. PICK spot \in [1..Len(r) -> keep] :
          /\ \A i \in 1..Len(r) : r[i] = list[spot[i]]
          /\ \A i, j \in 1..Len(r) : spot[i] = spot[j] => i = j
    BY <1>2 DEF TakenFrom
  <2>2. \A i \in 1..Len(r) : spot[i] \in 1..Len(list)
    BY <2>1
  <2> QED
    BY <2>1, <2>2 DEF KeysGood
<1>6. ASSUME NEW id \in fewer
      PROVE  \E i \in 1..Len(r) : r[i].key_id = id /\ r[i].is_active = FALSE
  <2>1. PICK spot \in [1..Len(r) -> keep] :
          /\ \A i \in 1..Len(r) : r[i] = list[spot[i]]
          /\ \A k \in keep : \E i \in 1..Len(r) : spot[i] = k
    BY <1>2 DEF TakesAll
  <2>2. PICK j \in 1..Len(list) : list[j].key_id = id /\ list[j].is_active = FALSE
    BY DEF KeysGood
  <2>3. PICK i \in 1..Len(r) : spot[i] = j
    BY <2>1, <2>2
  <2> QED
    BY <2>1, <2>2, <2>3
<1>7. r # <<>> => list # <<>>
  <2> SUFFICES ASSUME list = <<>>, r # <<>> PROVE FALSE
    OBVIOUS
  <2>1. Len(list) = 0 /\ Len(r) # 0
    BY <1>2, EmptySeq
  <2> QED
    BY <1>2, <1>3, <2>1
<1>8. KeysGood(r, fewer)
  BY <1>4, <1>5, <1>6 DEF KeysGood
<1> QED
  BY <1>1, <1>2, <1>7, <1>8

\* The place of the first active key with an id.
LEMMA ActiveAtFacts ==
  ASSUME PoolsTypeOK, NEW n \in PoolNames, NEW id
  PROVE  IF \E i \in 1..Len(pools[n].keys) :
              pools[n].keys[i].key_id = id /\ pools[n].keys[i].is_active
           THEN /\ ActiveAt(n, id) \in 1..Len(pools[n].keys)
                /\ pools[n].keys[ActiveAt(n, id)].key_id = id
                /\ pools[n].keys[ActiveAt(n, id)].is_active
           ELSE ActiveAt(n, id) = 0
<1> DEFINE I == {i \in 1..Len(pools[n].keys) :
                   pools[n].keys[i].key_id = id /\ pools[n].keys[i].is_active}
<1>1. ActiveAt(n, id) = IF I # {} THEN Min(I) ELSE 0
  BY DEF ActiveAt, SelectInSeq
<1>2. I \in SUBSET Nat
  BY PoolParts
<1>3. I # {} => Min(I) \in I
  <2> HIDE DEF I
  <2> QED
    BY <1>2, FirstPlace
<1> QED
  BY <1>1, <1>2, <1>3

LEMMA ActiveIsThere ==
  ASSUME PoolsInv, NEW n \in PoolNames, NEW id, ActiveAt(n, id) # 0
  PROVE  /\ ActiveAt(n, id) \in 1..Len(pools[n].keys)
         /\ pools[n].keys[ActiveAt(n, id)].key_id = id
         /\ pools[n].keys[ActiveAt(n, id)].is_active
BY ActiveAtFacts DEF PoolsInv

\* A step that changes the list of one pool.
LEMMA OneListChanges ==
  ASSUME PoolsInv, NEW n \in PoolNames, NEW list \in Seq(PoolKey),
         pools' = [pools EXCEPT ![n].keys = list],
         poolNow' = poolNow,
         outOfUse' \subseteq PoolNames \X PoolKeyIds,
         \A m \in PoolNames, id \in PoolKeyIds :
           m # n => (<<m, id>> \in outOfUse' <=> <<m, id>> \in outOfUse),
         KeysGood(list, {id \in PoolKeyIds : <<n, id>> \in outOfUse'}),
         list # <<>> => pools[n].keys # <<>> \/ pools[n].exists
  PROVE  PoolsInv'
<1>1. pools' = [pools EXCEPT ![n] = [exists |-> pools[n].exists, keys |-> list]]
  <2>1. [pools[n] EXCEPT !.keys = list] = [exists |-> pools[n].exists, keys |-> list]
    BY PoolParts DEF PoolsInv, PoolsTypeOK
  <2> QED
    BY <2>1
<1>2. pools[n].exists \in BOOLEAN
  BY PoolParts DEF PoolsInv
<1>3. list # <<>> => pools[n].exists
  BY DEF PoolsInv
<1> QED
  BY <1>1, <1>2, <1>3, OnePoolChanges

LEMMA CreatePoolInv ==
  ASSUME PoolsInv, NEW n \in PoolNames, CreatePool(n)
  PROVE  PoolsInv'
<1>1. /\ pools' = [pools EXCEPT ![n].exists = TRUE]
      /\ UNCHANGED <<poolNow, outOfUse>>
  BY DEF CreatePool
<1>2. pools' = [pools EXCEPT ![n] = [exists |-> TRUE, keys |-> pools[n].keys]]
  <2>1. PICK r : r = pools[n]
    OBVIOUS
  <2>2. r = [exists |-> pools[n].exists, keys |-> pools[n].keys]
    BY <2>1, PoolParts DEF PoolsInv
  <2>3. PICK e : e = TRUE
    OBVIOUS
  <2>4. [r EXCEPT !.exists = e] = [exists |-> e, keys |-> pools[n].keys]
    BY <2>2
  <2> QED
    BY <1>1, <2>1, <2>3, <2>4
<1>3. /\ pools[n].keys \in Seq(PoolKey)
      /\ KeysGood(pools[n].keys, {id \in PoolKeyIds : <<n, id>> \in outOfUse'})
  BY <1>1, PoolParts DEF PoolsInv, GoneFrom
<1>4. outOfUse' \subseteq PoolNames \X PoolKeyIds
  BY <1>1 DEF PoolsInv, PoolsTypeOK
<1> QED
  BY <1>1, <1>2, <1>3, <1>4, OnePoolChanges

LEMMA AddKeyInv ==
  ASSUME PoolsInv, NEW n \in PoolNames, NEW id \in PoolKeyIds,
         NEW expiry \in KeyExpiries \cup {NeverExpires}, AddKey(n, id, expiry)
  PROVE  PoolsInv'
<1> DEFINE k == [key_id |-> id, expires_at |-> expiry, usage_count |-> 0,
                 is_active |-> TRUE]
           list == pools[n].keys
<1>1. /\ pools[n].exists /\ ~HasKey(n, id) /\ Len(list) < DefaultMaxKeys
      /\ pools' = [pools EXCEPT ![n].keys = Append(list, k)]
      /\ UNCHANGED <<poolNow, outOfUse>>
  BY DEF AddKey
<1>2. k \in PoolKey /\ k.key_id = id
  BY PoolBounds DEF PoolKey
<1>3. /\ list \in Seq(PoolKey) /\ DOMAIN list = 1..Len(list)
      /\ KeysGood(list, GoneFrom(n))
  BY PoolParts DEF PoolsInv
<1>4. \A i \in 1..Len(list) : list[i].key_id # id
  BY <1>1, <1>3 DEF HasKey, ToSet
<1> HIDE DEF k
<1>5. Append(list, k) \in Seq(PoolKey) /\ KeysGood(Append(list, k), GoneFrom(n))
  <2> HIDE DEF list
  <2> QED BY <1>1, <1>2, <1>3, <1>4, KeyComes
<1>6. GoneFrom(n) = {x \in PoolKeyIds : <<n, x>> \in outOfUse'}
  BY <1>1 DEF GoneFrom
<1>7. outOfUse' \subseteq PoolNames \X PoolKeyIds
  BY <1>1 DEF PoolsInv, PoolsTypeOK
<1> QED
  BY <1>1, <1>5, <1>6, <1>7, OneListChanges

\* get_key and deactivate_key: a key changes in its place.
LEMMA KeyTouchedInv ==
  ASSUME PoolsInv, NEW n \in PoolNames, NEW id \in PoolKeyIds,
         NEW pos \in 1..Len(pools[n].keys), NEW k \in PoolKey,
         k.key_id = id, pools[n].keys[pos].key_id = id,
         pools[n].keys[pos].is_active = FALSE => k.is_active = FALSE,
         pools' = [pools EXCEPT ![n].keys = [pools[n].keys EXCEPT ![pos] = k]],
         poolNow' = poolNow,
         \/ outOfUse' = outOfUse
         \/ k.is_active = FALSE /\ outOfUse' = outOfUse \cup {<<n, id>>}
  PROVE  PoolsInv'
<1> DEFINE list == pools[n].keys
           more == {x \in PoolKeyIds : <<n, x>> \in outOfUse'}
<1>1. list \in Seq(PoolKey) /\ KeysGood(list, GoneFrom(n))
  BY PoolParts DEF PoolsInv
<1>2. \A x \in more : x \in GoneFrom(n) \/ (x = k.key_id /\ k.is_active = FALSE)
  BY DEF GoneFrom
<1> HIDE DEF more
<1>3. /\ [list EXCEPT ![pos] = k] \in Seq(PoolKey)
      /\ KeysGood([list EXCEPT ![pos] = k], more)
      /\ [list EXCEPT ![pos] = k] # <<>> => list # <<>>
  <2>1. /\ pos \in 1..Len(list) /\ k.key_id = list[pos].key_id
        /\ list[pos].is_active = FALSE => k.is_active = FALSE
    OBVIOUS
  <2> HIDE DEF list
  <2> QED
    BY <1>1, <1>2, <2>1, KeyChanges
<1>4. /\ outOfUse' \subseteq PoolNames \X PoolKeyIds
      /\ \A m \in PoolNames, x \in PoolKeyIds :
           m # n => (<<m, x>> \in outOfUse' <=> <<m, x>> \in outOfUse)
  BY DEF PoolsInv, PoolsTypeOK
<1> QED
  BY <1>3, <1>4, OneListChanges DEF more

LEMMA GetKeyInv ==
  ASSUME PoolsInv, NEW n \in PoolNames, NEW id \in PoolKeyIds, GetKey(n, id)
  PROVE  PoolsInv'
<1> DEFINE pos == ActiveAt(n, id)
           key == pools[n].keys[pos]
           k == [key EXCEPT !.usage_count = @ + 1]
<1>1. /\ pos # 0 /\ key.usage_count < MaxUses
      /\ pools' = [pools EXCEPT ![n].keys = [pools[n].keys EXCEPT ![pos] = k]]
      /\ UNCHANGED <<poolNow, outOfUse>>
  BY DEF GetKey
<1>2. pos \in 1..Len(pools[n].keys) /\ key.key_id = id
  BY <1>1, ActiveIsThere
<1>3. key \in PoolKey
  BY <1>2, PoolParts DEF PoolsInv
<1> HIDE DEF pos
<1>4. k \in PoolKey /\ k.key_id = id /\ k.is_active = key.is_active
  <2> HIDE DEF key
  <2>1. key.usage_count + 1 \in 0..MaxUses
    BY <1>1, <1>3, PoolBounds DEF PoolKey
  <2> QED
    BY <1>2, <1>3, <2>1 DEF PoolKey
<1> HIDE DEF k
<1> QED
  BY <1>1, <1>2, <1>4, KeyTouchedInv

\* A key that is taken out of use, late or on purpose.
LEMMA KeyTakenOutInv ==
  ASSUME PoolsInv, NEW n \in PoolNames, NEW id \in PoolKeyIds,
         NEW pos \in 1..Len(pools[n].keys), pools[n].keys[pos].key_id = id,
         pools' = [pools EXCEPT ![n].keys[pos].is_active = FALSE],
         outOfUse' = outOfUse \cup {<<n, id>>}, poolNow' = poolNow
  PROVE  PoolsInv'
<1> DEFINE key == pools[n].keys[pos]
           k == [key EXCEPT !.is_active = FALSE]
<1>1. pools' = [pools EXCEPT ![n].keys = [pools[n].keys EXCEPT ![pos] = k]]
  OBVIOUS
<1>2. key \in PoolKey
  BY PoolParts DEF PoolsInv
<1>3. k \in PoolKey /\ k.key_id = id /\ k.is_active = FALSE
  <2> HIDE DEF key
  <2> QED BY <1>2, PoolKeyParts DEF key
<1> HIDE DEF k
<1> QED
  BY <1>1, <1>3, KeyTouchedInv

LEMMA TooLateInv ==
  ASSUME PoolsInv, NEW n \in PoolNames, NEW id \in PoolKeyIds,
         GetKeyTooLate(n, id) \/ DeactivateKey(n, id)
  PROVE  PoolsInv'
<1>1. CASE GetKeyTooLate(n, id)
  <2> DEFINE pos == ActiveAt(n, id)
  <2>1. /\ pos # 0 /\ pools' = [pools EXCEPT ![n].keys[pos].is_active = FALSE]
        /\ outOfUse' = outOfUse \cup {<<n, id>>} /\ poolNow' = poolNow
    BY <1>1 DEF GetKeyTooLate
  <2>2. pos \in 1..Len(pools[n].keys) /\ pools[n].keys[pos].key_id = id
    BY <2>1, ActiveIsThere
  <2> HIDE DEF pos
  <2> QED
    BY <2>1, <2>2, KeyTakenOutInv
<1>2. CASE DeactivateKey(n, id)
  <2> DEFINE pos == SelectInSeq(pools[n].keys, LAMBDA k : k.key_id = id)
             I == {i \in 1..Len(pools[n].keys) : pools[n].keys[i].key_id = id}
  <2>1. /\ pos # 0 /\ pools' = [pools EXCEPT ![n].keys[pos].is_active = FALSE]
        /\ outOfUse' = outOfUse \cup {<<n, id>>} /\ poolNow' = poolNow
    BY <1>2 DEF DeactivateKey
  <2>2. pos = IF I # {} THEN Min(I) ELSE 0
    BY DEF SelectInSeq
  <2>3. I \in SUBSET Nat
    OBVIOUS
  <2>4. I # {} => Min(I) \in I
    <3> HIDE DEF I
    <3> QED
      BY <2>3, FirstPlace
  <2>5. pos \in I
    <3> HIDE DEF pos, I
    <3> QED
      BY <2>1, <2>2, <2>4
  <2>6. pos \in 1..Len(pools[n].keys) /\ pools[n].keys[pos].key_id = id
    BY <2>5
  <2> HIDE DEF pos
  <2> QED
    BY <2>1, <2>6, KeyTakenOutInv
<1> QED
  BY <1>1, <1>2

\* remove_key and the sweep: keys are thrown out, and are out of use no longer.
LEMMA KeysThrownOutInv ==
  ASSUME PoolsInv, NEW n \in PoolNames,
         CleanupPool(n) \/ \E id \in PoolKeyIds : RemoveKey(n, id)
  PROVE  PoolsInv'
<1>1. PICK list : list = pools[n].keys
  OBVIOUS
<1>2. /\ list \in Seq(PoolKey) /\ DOMAIN list = 1..Len(list)
      /\ KeysGood(list, GoneFrom(n))
  BY <1>1, PoolParts DEF PoolsInv
<1>3. ASSUME NEW keep \in SUBSET (1..Len(list)), NEW gone,
             pools' = [pools EXCEPT ![n].keys = Retain(list, keep)],
             poolNow' = poolNow,
             outOfUse' = outOfUse \ gone,
             \A m \in PoolNames, id \in PoolKeyIds : <<m, id>> \in gone => m = n,
             \A i \in 1..Len(list) : i \in keep \/ <<n, list[i].key_id>> \in gone
      PROVE  PoolsInv'
  <2> DEFINE fewer == {id \in PoolKeyIds : <<n, id>> \in outOfUse'}
  <2>1. fewer \in SUBSET GoneFrom(n)
    BY <1>3 DEF GoneFrom
  <2>2. \A i \in 1..Len(list) : list[i].key_id \in fewer => i \in keep
    BY <1>3
  <2>3. /\ outOfUse' \subseteq PoolNames \X PoolKeyIds
        /\ \A m \in PoolNames, x \in PoolKeyIds :
             m # n => (<<m, x>> \in outOfUse' <=> <<m, x>> \in outOfUse)
    BY <1>3 DEF PoolsInv, PoolsTypeOK
  <2> HIDE DEF fewer
  <2>4. /\ Retain(list, keep) \in Seq(PoolKey)
        /\ KeysGood(Retain(list, keep), fewer)
        /\ Retain(list, keep) # <<>> => list # <<>>
    BY <1>2, <1>3, <2>1, <2>2, KeysGo
  <2> QED
    BY <1>1, <1>3, <2>3, <2>4, OneListChanges DEF fewer
<1>4. CASE CleanupPool(n)
  <2> DEFINE keep == {i \in DOMAIN list : ~Expired(list[i])}
             gone == {<<n, k.key_id>> : k \in {x \in ToSet(list) : Expired(x)}}
  <2>1. /\ pools' = [pools EXCEPT ![n].keys = Retain(list, keep)]
        /\ poolNow' = poolNow /\ outOfUse' = outOfUse \ gone
    BY <1>1, <1>4 DEF CleanupPool
  <2>2. keep \in SUBSET (1..Len(list))
    BY <1>2
  <2>3. \A m \in PoolNames, id \in PoolKeyIds : <<m, id>> \in gone => m = n
    OBVIOUS
  <2>4. \A i \in 1..Len(list) : i \in keep \/ <<n, list[i].key_id>> \in gone
    BY <1>2 DEF ToSet
  <2> HIDE DEF keep, gone
  <2> QED
    BY <1>3, <2>1, <2>2, <2>3, <2>4
<1>5. ASSUME NEW id \in PoolKeyIds, RemoveKey(n, id)
      PROVE  PoolsInv'
  <2> DEFINE keep == {i \in DOMAIN list : list[i].key_id # id}
             gone == {<<n, id>>}
  <2>1. /\ pools' = [pools EXCEPT ![n].keys = Retain(list, keep)]
        /\ poolNow' = poolNow /\ outOfUse' = outOfUse \ gone
    BY <1>1, <1>5 DEF RemoveKey
  <2>2. keep \in SUBSET (1..Len(list))
    BY <1>2
  <2>3. \A m \in PoolNames, x \in PoolKeyIds : <<m, x>> \in gone => m = n
    OBVIOUS
  <2>4. \A i \in 1..Len(list) : i \in keep \/ <<n, list[i].key_id>> \in gone
    BY <1>2
  <2> HIDE DEF keep, gone
  <2> QED
    BY <1>3, <2>1, <2>2, <2>3, <2>4
<1> QED
  BY <1>4, <1>5

\* The keys of a pool stay few, differ, and what was taken out of use stays out.
THEOREM PoolsInvariant == PoolsSpec => []PoolsInv
<1>1. PoolsInit => PoolsInv
  <2> SUFFICES ASSUME PoolsInit PROVE PoolsInv
    OBVIOUS
  <2>1. /\ pools = [n \in PoolNames |-> [exists |-> FALSE, keys |-> <<>>]]
        /\ poolNow = 0 /\ outOfUse = {}
    BY DEF PoolsInit
  <2>2. <<>> \in Seq(PoolKey) /\ Len(<<>>) = 0
    BY EmptySeq
  <2>3. [exists |-> FALSE, keys |-> <<>>] \in [exists : BOOLEAN, keys : Seq(PoolKey)]
    BY <2>2
  <2>4. pools \in [PoolNames -> [exists : BOOLEAN, keys : Seq(PoolKey)]]
    BY <2>1, <2>3
  <2>5. PoolsTypeOK
    BY <2>1, <2>4, PoolBounds DEF PoolsTypeOK
  <2>6. ASSUME NEW n \in PoolNames
        PROVE  /\ KeysGood(pools[n].keys, GoneFrom(n))
               /\ pools[n].keys # <<>> => pools[n].exists
    <3>1. pools[n].keys = <<>> /\ GoneFrom(n) = {}
      BY <2>1 DEF GoneFrom
    <3>2. KeysGood(<<>>, {})
      BY <2>2, PoolBounds DEF KeysGood
    <3> QED
      BY <3>1, <3>2
  <2> QED
    BY <2>5, <2>6 DEF PoolsInv
<1>2. PoolsInv /\ [PoolsNext]_poolVars => PoolsInv'
  <2> SUFFICES ASSUME PoolsInv, [PoolsNext]_poolVars PROVE PoolsInv'
    OBVIOUS
  <2>1. ASSUME NEW n \in PoolNames, CreatePool(n) PROVE PoolsInv'
    BY <2>1, CreatePoolInv
  <2>2. ASSUME NEW n \in PoolNames, NEW id \in PoolKeyIds,
               NEW expiry \in KeyExpiries \cup {NeverExpires}, AddKey(n, id, expiry)
        PROVE  PoolsInv'
    BY <2>2, AddKeyInv
  <2>3. ASSUME NEW n \in PoolNames, NEW id \in PoolKeyIds, GetKey(n, id) PROVE PoolsInv'
    BY <2>3, GetKeyInv
  <2>4. ASSUME NEW n \in PoolNames, NEW id \in PoolKeyIds,
               GetKeyTooLate(n, id) \/ DeactivateKey(n, id)
        PROVE  PoolsInv'
    BY <2>4, TooLateInv
  <2>5. ASSUME NEW n \in PoolNames,
               CleanupPool(n) \/ \E id \in PoolKeyIds : RemoveKey(n, id)
        PROVE  PoolsInv'
    BY <2>5, KeysThrownOutInv
  <2>6. CASE PoolTick
    <3>1. /\ poolNow' = poolNow + 1 /\ poolNow < MaxPoolTime
          /\ UNCHANGED <<pools, outOfUse>>
      BY <2>6 DEF PoolTick
    <3>2. poolNow' \in 0..MaxPoolTime
      BY <3>1, PoolBounds DEF PoolsInv, PoolsTypeOK
    <3>3. \A n : GoneFrom(n)' = GoneFrom(n)
      BY <3>1 DEF GoneFrom
    <3> QED
      BY <3>1, <3>2, <3>3 DEF PoolsInv, PoolsTypeOK
  <2>7. CASE UNCHANGED poolVars
    BY <2>7 DEF poolVars, PoolsInv, PoolsTypeOK, GoneFrom
  <2> QED
    BY <2>1, <2>2, <2>3, <2>4, <2>5, <2>6, <2>7 DEF PoolsNext
<1> QED
  BY <1>1, <1>2, PTL DEF PoolsSpec

\* What the invariant says of the answers of a pool.
LEMMA PoolsAnswer == PoolsInv => PoolsHold
<1> SUFFICES ASSUME PoolsInv, NEW n \in PoolNames
             PROVE  /\ Len(pools[n].keys) <= DefaultMaxKeys
                    /\ pools[n].keys # <<>> => pools[n].exists
                    /\ \A i, j \in DOMAIN pools[n].keys :
                         pools[n].keys[i].key_id = pools[n].keys[j].key_id => i = j
                    /\ \A id \in PoolKeyIds : <<n, id>> \in outOfUse =>
                         /\ \A k \in ToSet(ListKeys(n)) : k.key_id # id
                         /\ ~GetKeyReadonly(n, id)
                    /\ \A k \in ToSet(ListKeys(n)) :
                         GetKeyReadonly(n, k.key_id) \/ Expired(k)
  BY DEF PoolsHold
<1>1. PICK list : list = pools[n].keys
  OBVIOUS
<1>2. /\ list \in Seq(PoolKey) /\ DOMAIN list = 1..Len(list)
      /\ KeysGood(list, GoneFrom(n))
      /\ list # <<>> => pools[n].exists
  BY <1>1, PoolParts DEF PoolsInv
<1> DEFINE keep == {i \in DOMAIN list : list[i].is_active}
<1>3. ASSUME NEW k \in ToSet(ListKeys(n))
      PROVE  \E i \in 1..Len(list) : k = list[i] /\ list[i].is_active
  <2>1. PICK r : r = Retain(list, keep)
    OBVIOUS
  <2>2. ListKeys(n) = r
    BY <1>1, <2>1 DEF ListKeys
  <2>3. keep \in SUBSET (1..Len(list)) /\ \A i \in keep : list[i].is_active
    BY <1>2
  <2> HIDE DEF keep
  <2>4. r \in Seq(PoolKey) /\ TakenFrom(r, list, keep)
    BY <1>2, <2>1, <2>3, RetainedFacts
  <2>5. PICK spot \in [1..Len(r) -> keep] : \A i \in 1..Len(r) : r[i] = list[spot[i]]
    BY <2>4 DEF TakenFrom
  <2>6. PICK i \in 1..Len(r) : k = r[i]
    BY <2>2, <2>4 DEF ToSet
  <2>7. spot[i] \in keep
    BY <2>5
  <2> QED
    BY <2>3, <2>5, <2>6, <2>7
<1>4. ASSUME NEW id \in PoolKeyIds, <<n, id>> \in outOfUse
      PROVE  \A i \in 1..Len(list) : list[i].is_active => list[i].key_id # id
  <2>1. id \in GoneFrom(n)
    BY <1>4 DEF GoneFrom
  <2>2. PICK j \in 1..Len(list) : list[j].key_id = id /\ list[j].is_active = FALSE
    BY <1>2, <2>1 DEF KeysGood
  <2> QED
    BY <1>2, <2>2 DEF KeysGood
<1>5. \A id \in PoolKeyIds : <<n, id>> \in outOfUse => ~GetKeyReadonly(n, id)
  BY <1>1, <1>4, ActiveIsThere DEF GetKeyReadonly
<1>6. ASSUME NEW k \in ToSet(ListKeys(n))
      PROVE  GetKeyReadonly(n, k.key_id) \/ Expired(k)
  <2>1. PICK i \in 1..Len(list) : k = list[i] /\ list[i].is_active
    BY <1>3
  <2>2. /\ ActiveAt(n, k.key_id) \in 1..Len(list)
        /\ list[ActiveAt(n, k.key_id)].key_id = k.key_id
    BY <1>1, <2>1, ActiveAtFacts DEF PoolsInv
  <2>3. ActiveAt(n, k.key_id) = i
    BY <1>2, <2>1, <2>2 DEF KeysGood
  <2>4. ActiveAt(n, k.key_id) # 0
    BY <1>2, <2>2
  <2> QED
    BY <1>1, <2>1, <2>3, <2>4 DEF GetKeyReadonly
<1>7. /\ Len(list) <= DefaultMaxKeys
      /\ \A i, j \in DOMAIN list : list[i].key_id = list[j].key_id => i = j
  BY <1>2 DEF KeysGood
<1>8. \A id \in PoolKeyIds : <<n, id>> \in outOfUse =>
        \A k \in ToSet(ListKeys(n)) : k.key_id # id
  BY <1>3, <1>4
<1> QED
  BY <1>1, <1>2, <1>5, <1>6, <1>7, <1>8

\* No pool outgrows its capacity or holds two keys with one id; a key that was
\* taken out of use, late or on purpose, is not listed and not handed out until
\* it is removed, and both ways to ask for a key agree (yma-crypto, key_pool.rs).
THEOREM KeyPoolsHold == PoolsSpec => []PoolsHold
BY PoolsInvariant, PoolsAnswer, PTL

-----------------------------------------------------------------------------
(***************************************************************************)
(* API keys.                                                               *)
(***************************************************************************)
LEMMA ApiKeyParts ==
  ASSUME ApiKeysTypeOK, NEW p \in KeyPrefixes
  PROVE  /\ keys[p].kept \in BOOLEAN
         /\ ~keys[p].kept => keys[p] = NoKey
         /\ keys[p].kept => /\ keys[p] \in ApiKeyRecord /\ keys[p].tenant_id \in Tenants
                            /\ keys[p].id \in 1..MaxKeys
<1>1. keys[p] = NoKey \/ keys[p] \in ApiKeyRecord
  BY DEF ApiKeysTypeOK
<1>2. CASE keys[p] = NoKey
  BY <1>2 DEF NoKey
<1>3. CASE keys[p] \in ApiKeyRecord
  BY <1>3 DEF ApiKeyRecord
<1> QED
  BY <1>1, <1>2, <1>3

LEMMA TenantLists ==
  ASSUME ApiKeysTypeOK, NEW t \in Tenants
  PROVE  /\ tenant_keys[t] \in Seq(KeyPrefixes) /\ Len(tenant_keys[t]) \in Nat
         /\ DOMAIN tenant_keys[t] = 1..Len(tenant_keys[t])
         /\ \A i \in 1..Len(tenant_keys[t]) : tenant_keys[t][i] \in KeyPrefixes
<1>1. PICK list : list = tenant_keys[t]
  OBVIOUS
<1>2. list \in Seq(KeyPrefixes)
  BY <1>1 DEF ApiKeysTypeOK
<1> QED
  BY <1>1, <1>2, LenProperties

\* One more entry on a list.
LEMMA PrefixComes ==
  ASSUME NEW list \in Seq(KeyPrefixes), NEW q \in KeyPrefixes, NEW p
  PROVE  /\ Append(list, q) \in Seq(KeyPrefixes)
         /\ p # q /\ ListedOnce(list, p) => ListedOnce(Append(list, q), p)
         /\ p # q /\ NotListed(list, p) => NotListed(Append(list, q), p)
         /\ NotListed(list, q) => ListedOnce(Append(list, q), q)
         /\ ~NotListed(Append(list, q), q)
         /\ ~NotListed(list, p) => ~NotListed(Append(list, q), p)
<1>1. PICK r : r = Append(list, q)
  OBVIOUS
<1>2. /\ r \in Seq(KeyPrefixes) /\ Len(r) = Len(list) + 1 /\ Len(list) \in Nat
      /\ \A i \in 1..Len(list) : r[i] = list[i]
      /\ r[Len(list) + 1] = q
  BY <1>1, AppendProperties, LenProperties
<1>3. /\ \A i \in 1..Len(r) : i \in 1..Len(list) \/ i = Len(list) + 1
      /\ \A i \in 1..Len(list) : i \in 1..Len(r)
      /\ Len(list) + 1 \in 1..Len(r)
  BY <1>2
<1>4. p # q /\ ListedOnce(list, p) => ListedOnce(r, p)
  BY <1>2, <1>3 DEF ListedOnce
<1>5. p # q /\ NotListed(list, p) => NotListed(r, p)
  BY <1>2, <1>3 DEF NotListed
<1>6. NotListed(list, q) => ListedOnce(r, q)
  BY <1>2, <1>3 DEF NotListed, ListedOnce
<1>7. ~NotListed(r, q) /\ (~NotListed(list, p) => ~NotListed(r, p))
  BY <1>2, <1>3 DEF NotListed
<1> QED
  BY <1>1, <1>2, <1>4, <1>5, <1>6, <1>7

\* Entries thrown off a list.
LEMMA PrefixesGo ==
  ASSUME NEW list \in Seq(KeyPrefixes), NEW keep \in SUBSET (1..Len(list)), NEW p
  PROVE  /\ Retain(list, keep) \in Seq(KeyPrefixes)
         /\ (\A i \in 1..Len(list) : list[i] = p => i \in keep) /\ ListedOnce(list, p)
              => ListedOnce(Retain(list, keep), p)
         /\ NotListed(list, p) => NotListed(Retain(list, keep), p)
         /\ (\A i \in keep : list[i] # p) => NotListed(Retain(list, keep), p)
         /\ (\A i \in 1..Len(list) : list[i] = p => i \in keep) /\ ~NotListed(list, p)
              => ~NotListed(Retain(list, keep), p)
<1>1. PICK r : r = Retain(list, keep)
  OBVIOUS
<1>2. /\ r \in Seq(KeyPrefixes)
      /\ TakenFrom(r, list, keep) /\ TakesAll(r, list, keep)
  BY <1>1, RetainedFacts
<1>3. PICK spot \in [1..Len(r) -> keep] :
        /\ \A i \in 1..Len(r) : r[i] = list[spot[i]]
        /\ \A i, j \in 1..Len(r) : spot[i] = spot[j] => i = j
  BY <1>2 DEF TakenFrom
<1>4. \A i \in 1..Len(r) : spot[i] \in keep /\ spot[i] \in 1..Len(list)
  BY <1>3
<1>5. ASSUME \A i \in 1..Len(list) : list[i] = p => i \in keep, ListedOnce(list, p)
      PROVE  ListedOnce(r, p)
  <2>1. PICK to \in [1..Len(r) -> keep] :
          /\ \A i \in 1..Len(r) : r[i] = list[to[i]]
          /\ \A k \in keep : \E i \in 1..Len(r) : to[i] = k
    BY <1>2 DEF TakesAll
  <2>2. PICK j \in 1..Len(list) : list[j] = p
    BY <1>5 DEF ListedOnce
  <2>3. PICK i \in 1..Len(r) : to[i] = j
    BY <1>5, <2>1, <2>2
  <2>4. r[i] = p
    BY <2>1, <2>2, <2>3
  <2>5. ASSUME NEW k \in 1..Len(r), NEW l \in 1..Len(r), r[k] = p, r[l] = p
        PROVE  k = l
    <3>1. /\ spot[k] \in 1..Len(list) /\ list[spot[k]] = p
          /\ spot[l] \in 1..Len(list) /\ list[spot[l]] = p
      BY <1>3, <1>4, <2>5
    <3>2. spot[k] = spot[l]
      BY <1>5, <3>1 DEF ListedOnce
    <3> QED
      BY <1>3, <3>2
  <2> QED
    BY <2>4, <2>5 DEF ListedOnce
<1>6. NotListed(list, p) => NotListed(r, p)
  BY <1>3, <1>4 DEF NotListed
<1>7. (\A i \in keep : list[i] # p) => NotListed(r, p)
  BY <1>3, <1>4 DEF NotListed
<1>8. ASSUME \A i \in 1..Len(list) : list[i] = p => i \in keep, ~NotListed(list, p)
      PROVE  ~NotListed(r, p)
  <2>1. PICK to \in [1..Len(r) -> keep] :
          /\ \A i \in 1..Len(r) : r[i] = list[to[i]]
          /\ \A k \in keep : \E i \in 1..Len(r) : to[i] = k
    BY <1>2 DEF TakesAll
  <2>2. PICK j \in 1..Len(list) : list[j] = p
    BY <1>8 DEF NotListed
  <2>3. PICK i \in 1..Len(r) : to[i] = j
    BY <1>8, <2>1, <2>2
  <2> QED
    BY <2>1, <2>2, <2>3 DEF NotListed
<1> QED
  BY <1>1, <1>2, <1>5, <1>6, <1>7, <1>8

LEMMA CreateKeyInv ==
  ASSUME ApiKeysInv, NEW prefix \in KeyPrefixes, NEW tenant \in Tenants,
         NEW days \in KeyDays \cup {Forever}, CreateKey(prefix, tenant, days)
  PROVE  ApiKeysInv'
<1> DEFINE record == [kept |-> TRUE, id |-> keysCreated + 1, tenant_id |-> tenant,
                      enabled |-> TRUE,
                      expires_at |-> IF days = Forever THEN Forever ELSE keysDay + days]
<1>1. /\ keysCreated < MaxKeys /\ keysCreated' = keysCreated + 1
      /\ keys' = [keys EXCEPT ![prefix] = record]
      /\ tenant_keys' = [tenant_keys EXCEPT ![tenant] = Append(@, prefix)]
      /\ drawnTwice' = IF \E t \in Tenants : prefix \in ToSet(tenant_keys[t])
                       THEN drawnTwice \cup {prefix} ELSE drawnTwice
      /\ keysDay' = keysDay
  BY DEF CreateKey
<1>2. /\ keysCreated \in Nat /\ keysCreated + 1 \in 1..MaxKeys /\ keysDay \in Nat
      /\ keysCreated + 1 \in 0..MaxKeys
  BY <1>1, ApiKeyBounds DEF ApiKeysInv, ApiKeysTypeOK
<1>3. (IF days = Forever THEN Forever ELSE keysDay + days) \in {Forever} \cup Nat
  BY <1>2, ApiKeyBounds
<1>4. /\ record \in ApiKeyRecord /\ record.kept /\ record.id = keysCreated + 1
      /\ record.tenant_id = tenant
  BY <1>2, <1>3 DEF ApiKeyRecord
<1> HIDE DEF record
<1>5. /\ \A p \in KeyPrefixes : keys'[p] = IF p = prefix THEN record ELSE keys[p]
      /\ keys' \in [KeyPrefixes -> {NoKey} \cup ApiKeyRecord]
  BY <1>1, <1>4 DEF ApiKeysInv, ApiKeysTypeOK
<1>6. /\ \A t \in Tenants : tenant_keys'[t] =
           IF t = tenant THEN Append(tenant_keys[t], prefix) ELSE tenant_keys[t]
      /\ tenant_keys' \in [Tenants -> Seq(KeyPrefixes)]
  <2>1. Append(tenant_keys[tenant], prefix) \in Seq(KeyPrefixes)
    BY TenantLists, PrefixComes DEF ApiKeysInv
  <2> QED
    BY <1>1, <2>1 DEF ApiKeysInv, ApiKeysTypeOK
<1>7. drawnTwice' \subseteq KeyPrefixes /\ drawnTwice \subseteq drawnTwice'
  BY <1>1 DEF ApiKeysInv, ApiKeysTypeOK
<1>8. ApiKeysTypeOK'
  BY <1>1, <1>2, <1>5, <1>6, <1>7 DEF ApiKeysInv, ApiKeysTypeOK
<1>9. KeysAreShown'
  <2> SUFFICES ASSUME NEW p \in KeyPrefixes, NEW t \in Tenants,
                      keys'[p].kept, keys'[p].tenant_id = t
               PROVE  ~NotListed(tenant_keys'[t], p)
    BY DEF KeysAreShown
  <2>1. tenant_keys[t] \in Seq(KeyPrefixes)
    BY TenantLists DEF ApiKeysInv
  <2>2. CASE p = prefix
    <3>1. t = tenant
      BY <1>4, <1>5, <2>2
    <3>2. tenant_keys'[t] = Append(tenant_keys[t], prefix)
      BY <1>6, <3>1
    <3>3. ~NotListed(Append(tenant_keys[t], prefix), prefix)
      BY <2>1, PrefixComes
    <3> QED
      BY <2>2, <3>2, <3>3
  <2>3. CASE p # prefix
    <3>1. ~NotListed(tenant_keys[t], p)
      BY <1>5, <2>3 DEF ApiKeysInv, KeysAreShown
    <3>2. ~NotListed(Append(tenant_keys[t], prefix), p)
      BY <2>1, <3>1, PrefixComes
    <3>3. tenant_keys'[t] \in {tenant_keys[t], Append(tenant_keys[t], prefix)}
      BY <1>6
    <3> QED
      BY <3>1, <3>2, <3>3
  <2> QED
    BY <2>2, <2>3
<1>10. ASSUME NEW p \in KeyPrefixes, p \notin drawnTwice', NEW t \in Tenants
       PROVE  IF keys'[p].kept /\ keys'[p].tenant_id = t THEN ListedOnce(tenant_keys'[t], p)
              ELSE NotListed(tenant_keys'[t], p)
  <2>1. /\ p \in KeyPrefixes \ drawnTwice
        /\ tenant_keys[t] \in Seq(KeyPrefixes)
    BY <1>7, <1>10, TenantLists DEF ApiKeysInv
  <2>2. IF keys[p].kept /\ keys[p].tenant_id = t THEN ListedOnce(tenant_keys[t], p)
        ELSE NotListed(tenant_keys[t], p)
    BY <2>1 DEF ApiKeysInv, KeysAreListed
  <2>3. CASE p # prefix
    <3>1. keys'[p] = keys[p]
      BY <1>5, <2>3
    <3>2. tenant_keys'[t] \in {tenant_keys[t], Append(tenant_keys[t], prefix)}
      BY <1>6
    <3>3. /\ ListedOnce(tenant_keys[t], p) => ListedOnce(Append(tenant_keys[t], prefix), p)
          /\ NotListed(tenant_keys[t], p) => NotListed(Append(tenant_keys[t], prefix), p)
      BY <2>1, <2>3, PrefixComes
    <3> QED
      BY <2>2, <3>1, <3>2, <3>3
  <2>4. CASE p = prefix
    <3>1. p \notin ToSet(tenant_keys[t])
      BY <1>1, <1>10, <2>4
    <3>2. NotListed(tenant_keys[t], p)
      BY <2>1, <3>1 DEF NotListed, ToSet
    <3>3. keys'[p].kept /\ keys'[p].tenant_id = tenant
      BY <1>4, <1>5, <2>4
    <3>4. CASE t = tenant
      <4>1. tenant_keys'[t] = Append(tenant_keys[t], prefix)
        BY <1>6, <3>4
      <4>2. ListedOnce(tenant_keys'[t], p)
        BY <2>1, <2>4, <3>2, <4>1, PrefixComes
      <4> QED
        BY <3>3, <3>4, <4>2
    <3>5. CASE t # tenant
      BY <1>6, <3>2, <3>3, <3>5
    <3> QED
      BY <3>4, <3>5
  <2> QED
    BY <2>3, <2>4
<1>11. KeysAreListed'
  BY <1>10 DEF KeysAreListed
<1> QED
  BY <1>8, <1>9, <1>11 DEF ApiKeysInv

LEMMA RemovedInv ==
  ASSUME ApiKeysInv, NEW prefixes \in SUBSET KeyPrefixes,
         \A p \in prefixes : keys[p].kept, Removed(prefixes)
  PROVE  ApiKeysInv'
<1> DEFINE keep(t) == {i \in DOMAIN tenant_keys[t] :
              ~(tenant_keys[t][i] \in prefixes /\ keys[tenant_keys[t][i]].tenant_id = t)}
<1>1. /\ keys' = [p \in KeyPrefixes |-> IF p \in prefixes THEN NoKey ELSE keys[p]]
      /\ tenant_keys' = [t \in Tenants |-> Retain(tenant_keys[t], keep(t))]
      /\ UNCHANGED <<keysDay, keysCreated, drawnTwice>>
  BY DEF Removed
<1>2. \A t \in Tenants : keep(t) \in SUBSET (1..Len(tenant_keys[t]))
  BY TenantLists DEF ApiKeysInv
<1>3. ASSUME NEW t \in Tenants, NEW i \in 1..Len(tenant_keys[t])
      PROVE  i \in keep(t) <=>
               ~(tenant_keys[t][i] \in prefixes /\ keys[tenant_keys[t][i]].tenant_id = t)
  BY TenantLists DEF ApiKeysInv
<1>4. \A p \in KeyPrefixes : keys'[p] = IF p \in prefixes THEN NoKey ELSE keys[p]
  BY <1>1
<1>5. \A t \in Tenants : tenant_keys'[t] = Retain(tenant_keys[t], keep(t))
  BY <1>1
<1> HIDE DEF keep
<1>6. keys' \in [KeyPrefixes -> {NoKey} \cup ApiKeyRecord]
  BY <1>1 DEF ApiKeysInv, ApiKeysTypeOK
<1>7. tenant_keys' \in [Tenants -> Seq(KeyPrefixes)]
  <2>1. \A t \in Tenants : Retain(tenant_keys[t], keep(t)) \in Seq(KeyPrefixes)
    BY <1>2, TenantLists, PrefixesGo DEF ApiKeysInv
  <2> QED
    BY <1>1, <2>1
<1>8. ApiKeysTypeOK'
  BY <1>1, <1>6, <1>7 DEF ApiKeysInv, ApiKeysTypeOK
<1>9. \A p \in KeyPrefixes : keys'[p].kept => p \notin prefixes /\ keys'[p] = keys[p]
  BY <1>4 DEF NoKey
<1>10. KeysAreShown'
  <2> SUFFICES ASSUME NEW p \in KeyPrefixes, NEW t \in Tenants,
                      keys'[p].kept, keys'[p].tenant_id = t
               PROVE  ~NotListed(tenant_keys'[t], p)
    BY DEF KeysAreShown
  <2> DEFINE list == tenant_keys[t]
  <2>1. p \notin prefixes /\ ~NotListed(list, p)
    BY <1>9 DEF ApiKeysInv, KeysAreShown
  <2>2. list \in Seq(KeyPrefixes) /\ keep(t) \in SUBSET (1..Len(list))
    BY <1>2, TenantLists DEF ApiKeysInv
  <2>3. \A i \in 1..Len(list) : list[i] = p => i \in keep(t)
    BY <1>3, <2>1
  <2>4. tenant_keys'[t] = Retain(list, keep(t))
    BY <1>5
  <2> HIDE DEF list
  <2> QED
    BY <2>1, <2>2, <2>3, <2>4, PrefixesGo
<1>11. ASSUME NEW p \in KeyPrefixes, p \notin drawnTwice', NEW t \in Tenants
       PROVE  IF keys'[p].kept /\ keys'[p].tenant_id = t THEN ListedOnce(tenant_keys'[t], p)
              ELSE NotListed(tenant_keys'[t], p)
  <2> DEFINE list == tenant_keys[t]
  <2>1. /\ p \in KeyPrefixes \ drawnTwice /\ list \in Seq(KeyPrefixes)
        /\ keep(t) \in SUBSET (1..Len(list))
    BY <1>1, <1>2, <1>11, TenantLists DEF ApiKeysInv
  <2>2. IF keys[p].kept /\ keys[p].tenant_id = t THEN ListedOnce(list, p)
        ELSE NotListed(list, p)
    BY <2>1 DEF ApiKeysInv, KeysAreListed
  <2>3. \A i \in 1..Len(list) :
          i \in keep(t) <=> ~(list[i] \in prefixes /\ keys[list[i]].tenant_id = t)
    BY <1>3
  <2>4. tenant_keys'[t] = Retain(list, keep(t))
    BY <1>5
  <2> HIDE DEF list
  <2>5. CASE p \notin prefixes
    <3>1. \A i \in 1..Len(list) : list[i] = p => i \in keep(t)
      BY <2>3, <2>5
    <3>2. keys'[p] = keys[p]
      BY <1>4, <2>5
    <3>3. ListedOnce(list, p) => ListedOnce(tenant_keys'[t], p)
      BY <2>1, <2>4, <3>1, PrefixesGo
    <3>4. NotListed(list, p) => NotListed(tenant_keys'[t], p)
      BY <2>1, <2>4, PrefixesGo
    <3> QED
      BY <2>2, <3>2, <3>3, <3>4
  <2>6. CASE p \in prefixes
    <3>1. ~keys'[p].kept
      BY <1>9, <2>6
    <3>2. NotListed(tenant_keys'[t], p)
      <4>1. CASE keys[p].tenant_id = t
        <5>1. \A i \in keep(t) : list[i] # p
          BY <2>1, <2>3, <2>6, <4>1
        <5> QED
          BY <2>1, <2>4, <5>1, PrefixesGo
      <4>2. CASE keys[p].tenant_id # t
        BY <2>1, <2>2, <2>4, <4>2, PrefixesGo
      <4> QED
        BY <4>1, <4>2
    <3> QED
      BY <3>1, <3>2
  <2> QED
    BY <2>5, <2>6
<1>12. KeysAreListed'
  BY <1>11 DEF KeysAreListed
<1> QED
  BY <1>8, <1>10, <1>12 DEF ApiKeysInv

LEMMA SetEnabledInv ==
  ASSUME ApiKeysInv, NEW prefix \in KeyPrefixes, NEW enabled \in BOOLEAN,
         SetEnabled(prefix, enabled)
  PROVE  ApiKeysInv'
<1> DEFINE record == [keys[prefix] EXCEPT !.enabled = enabled]
<1>1. /\ keys[prefix].kept /\ keys' = [keys EXCEPT ![prefix] = record]
      /\ UNCHANGED <<tenant_keys, keysDay, keysCreated, drawnTwice>>
  BY DEF SetEnabled
<1>2. keys[prefix] \in ApiKeyRecord
  BY <1>1, ApiKeyParts DEF ApiKeysInv
<1>3. /\ record \in ApiKeyRecord /\ record.kept /\ record.id = keys[prefix].id
      /\ record.tenant_id = keys[prefix].tenant_id
  BY <1>2 DEF ApiKeyRecord
<1> HIDE DEF record
<1>4. /\ keys' \in [KeyPrefixes -> {NoKey} \cup ApiKeyRecord]
      /\ \A p \in KeyPrefixes : keys'[p] = IF p = prefix THEN record ELSE keys[p]
  BY <1>1, <1>3 DEF ApiKeysInv, ApiKeysTypeOK
<1>5. \A p \in KeyPrefixes :
        /\ keys'[p].kept <=> keys[p].kept
        /\ keys'[p].id = keys[p].id \/ ~keys[p].kept
        /\ keys'[p].tenant_id = keys[p].tenant_id \/ ~keys[p].kept
  BY <1>1, <1>3, <1>4
<1>6. ApiKeysTypeOK'
  BY <1>1, <1>4 DEF ApiKeysInv, ApiKeysTypeOK
<1>7. KeysAreShown'
  BY <1>1, <1>5 DEF ApiKeysInv, KeysAreShown
<1>8. KeysAreListed'
  BY <1>1, <1>5 DEF ApiKeysInv, KeysAreListed
<1> QED
  BY <1>6, <1>7, <1>8 DEF ApiKeysInv

\* The lists of the tenants and the table of keys fit together.
THEOREM ApiKeysInvariant == ApiKeysSpec => []ApiKeysInv
<1>1. ApiKeysInit => ApiKeysInv
  <2> SUFFICES ASSUME ApiKeysInit PROVE ApiKeysInv
    OBVIOUS
  <2>1. /\ keys = [p \in KeyPrefixes |-> NoKey]
        /\ tenant_keys = [t \in Tenants |-> <<>>]
        /\ keysDay = 0 /\ keysCreated = 0 /\ drawnTwice = {}
    BY DEF ApiKeysInit
  <2>2. <<>> \in Seq(KeyPrefixes) /\ Len(<<>>) = 0
    BY EmptySeq
  <2>3. 0 \in 0..MaxDay /\ 0 \in 0..MaxKeys
    BY ApiKeyBounds
  <2>4. ApiKeysTypeOK
    BY <2>1, <2>2, <2>3 DEF ApiKeysTypeOK
  <2>5. \A p \in KeyPrefixes : keys[p].kept = FALSE
    BY <2>1 DEF NoKey
  <2>6. \A t \in Tenants, p \in KeyPrefixes : NotListed(tenant_keys[t], p)
    BY <2>1, <2>2 DEF NotListed
  <2>7. KeysAreShown /\ KeysAreListed
    BY <2>5, <2>6 DEF KeysAreShown, KeysAreListed
  <2> QED
    BY <2>4, <2>7 DEF ApiKeysInv
<1>2. ApiKeysInv /\ [ApiKeysNext]_apiKeyVars => ApiKeysInv'
  <2> SUFFICES ASSUME ApiKeysInv, [ApiKeysNext]_apiKeyVars PROVE ApiKeysInv'
    OBVIOUS
  <2>1. ASSUME NEW prefix \in KeyPrefixes, NEW tenant \in Tenants,
               NEW days \in KeyDays \cup {Forever}, CreateKey(prefix, tenant, days)
        PROVE  ApiKeysInv'
    BY <2>1, CreateKeyInv
  <2>2. ASSUME NEW prefix \in KeyPrefixes, NEW enabled \in BOOLEAN,
               SetEnabled(prefix, enabled)
        PROVE  ApiKeysInv'
    BY <2>2, SetEnabledInv
  <2>3. ASSUME NEW prefix \in KeyPrefixes, DeleteKey(prefix) PROVE ApiKeysInv'
    <3>1. /\ {prefix} \in SUBSET KeyPrefixes /\ \A p \in {prefix} : keys[p].kept
          /\ Removed({prefix})
      BY <2>3 DEF DeleteKey
    <3> QED
      BY <3>1, RemovedInv
  <2>4. CASE CleanupExpired
    <3> DEFINE overdue == {p \in KeyPrefixes : /\ keys[p].kept
                                            /\ keys[p].expires_at # Forever
                                            /\ keysDay > keys[p].expires_at}
    <3>1. overdue \in SUBSET KeyPrefixes /\ \A p \in overdue : keys[p].kept
      OBVIOUS
    <3>2. Removed(overdue)
      BY <2>4 DEF CleanupExpired
    <3> HIDE DEF overdue
    <3> QED
      BY <3>1, <3>2, RemovedInv
  <2>5. CASE ApiKeysTick
    <3>1. /\ keysDay' = keysDay + 1 /\ keysDay < MaxDay
          /\ UNCHANGED <<keys, tenant_keys, keysCreated, drawnTwice>>
      BY <2>5 DEF ApiKeysTick
    <3>2. keysDay' \in 0..MaxDay
      BY <3>1, ApiKeyBounds DEF ApiKeysInv, ApiKeysTypeOK
    <3> QED
      BY <3>1, <3>2 DEF ApiKeysInv, ApiKeysTypeOK, KeysAreShown, KeysAreListed
  <2>6. CASE UNCHANGED apiKeyVars
    BY <2>6 DEF apiKeyVars, ApiKeysInv, ApiKeysTypeOK, KeysAreShown, KeysAreListed
  <2> QED
    BY <2>1, <2>2, <2>3, <2>4, <2>5, <2>6 DEF ApiKeysNext
<1> QED
  BY <1>1, <1>2, PTL DEF ApiKeysSpec

\* What the invariant says of what is shown and let pass.
LEMMA ApiKeysAnswer == ApiKeysInv => KeyListsAgree
<1> SUFFICES ASSUME ApiKeysInv PROVE KeyListsAgree
  OBVIOUS
<1>1. ASSUME NEW p \in KeyPrefixes, keys[p].kept
      PROVE  keys[p].tenant_id \in Tenants /\ keys[p] \in GetTenantKeys(keys[p].tenant_id)
  <2>1. PICK t \in Tenants : t = keys[p].tenant_id
    BY <1>1, ApiKeyParts DEF ApiKeysInv
  <2>2. ~NotListed(tenant_keys[t], p)
    BY <1>1, <2>1 DEF ApiKeysInv, KeysAreShown
  <2>3. p \in ToSet(tenant_keys[t])
    BY <2>2, TenantLists DEF ApiKeysInv, NotListed, ToSet
  <2> QED
    BY <1>1, <2>1, <2>3 DEF GetTenantKeys
<1>2. ASSUME NEW p \in KeyPrefixes, NEW secret \in KeySecrets,
             ValidateKey(<<"yma", p, secret>>)
      PROVE  \E t \in Tenants : keys[p] \in GetTenantKeys(t)
  <2>1. keys[p].kept
    BY <1>2 DEF ValidateKey, GetByFullKey, NoKey
  <2> QED
    BY <1>1, <2>1
<1> QED
  BY <1>1, <1>2 DEF KeyListsAgree, ApiKeysInv

\* However often prefixes are drawn again, a tenant is shown every key of its own
\* and so every one that passes; a key whose prefix was drawn once is on the list of
\* its tenant once and on no other (yma-auth, api_key_store.rs), for any prefixes,
\* tenants and lifetimes.
THEOREM ApiKeyListsAgree == ApiKeysSpec => []KeyListsAgree
BY ApiKeysInvariant, ApiKeysAnswer, PTL

-----------------------------------------------------------------------------
(***************************************************************************)
(* Migrations.                                                             *)
(***************************************************************************)
\* What the call of a migrator is made of.
MigrationCall ==
  [at : {"none", "reading", "executing", "marking"},
   version : Versions \cup {0}, rest : SUBSET Versions]

\* The first of some versions is one of them.
LEMMA FirstIsOne ==
  ASSUME NEW some \in SUBSET Versions, some # {}
  PROVE  FirstOf(some) \in some
<1>1. some \in SUBSET Nat
  BY MigrationBounds
<1>2. \E m \in some : \A i \in some : m <= i
  BY <1>1, LeastOf
<1> QED
  BY <1>2 DEF FirstOf, Min

LEMMA MigrationInitInv == MigrationInit => MigrationTypeOK
<1> SUFFICES ASSUME MigrationInit PROVE MigrationTypeOK
  OBVIOUS
<1>1. NoMigration \in MigrationCall
  BY DEF NoMigration, MigrationCall
<1>2. migrating \in [Migrators -> MigrationCall]
  BY <1>1 DEF MigrationInit
<1> QED
  BY <1>2, MigrationBounds DEF MigrationInit, MigrationTypeOK, MigrationCall

LEMMA MigrationStepInv ==
  ASSUME MigrationTypeOK, [MigrationNext]_migrationVars
  PROVE  MigrationTypeOK'
<1>0. /\ DOMAIN records \subseteq Versions /\ \A v \in DOMAIN records : records[v] \in BOOLEAN
      /\ committed \in [Versions -> Nat]
      /\ migrating \in [Migrators -> MigrationCall]
      /\ restarts \in 0 .. MaxRestarts
  BY DEF MigrationTypeOK, MigrationCall
<1>1. SUFFICES
        /\ DOMAIN records' \subseteq Versions
        /\ \A v \in DOMAIN records' : records'[v] \in BOOLEAN
        /\ committed' \in [Versions -> Nat]
        /\ migrating' \in [Migrators -> MigrationCall]
        /\ restarts' \in 0 .. MaxRestarts
  BY DEF MigrationTypeOK, MigrationCall
<1>2. NoMigration \in MigrationCall
  BY DEF NoMigration, MigrationCall
<1>3. Unapplied \in SUBSET Versions
  BY <1>0 DEF Unapplied
<1>4. CASE UNCHANGED migrationVars
  BY <1>0, <1>4 DEF migrationVars
<1>5. CASE Restart
  BY <1>0, <1>2, <1>5, MigrationBounds DEF Restart
<1>6. ASSUME NEW v \in Versions, LoadMigration(v)
      PROVE  /\ DOMAIN records' \subseteq Versions
             /\ \A w \in DOMAIN records' : records'[w] \in BOOLEAN
             /\ UNCHANGED <<committed, migrating, restarts>>
  BY <1>0, <1>6 DEF LoadMigration
<1>7. ASSUME NEW m \in Migrators, NEW v \in Versions, ApplyMigration(m, v)
      PROVE  migrating' \in [Migrators -> MigrationCall] /\ UNCHANGED <<records, committed, restarts>>
  <2>1. [at |-> "reading", version |-> v, rest |-> {}] \in MigrationCall
    BY DEF MigrationCall
  <2> QED
    BY <1>0, <1>7, <2>1 DEF ApplyMigration
<1>8. ASSUME NEW m \in Migrators, ApplyAll(m)
      PROVE  migrating' \in [Migrators -> MigrationCall] /\ UNCHANGED <<records, committed, restarts>>
  <2>1. FirstOf(Unapplied) \in Versions
    BY <1>3, <1>8, FirstIsOne DEF ApplyAll
  <2>2. [at |-> "reading", version |-> FirstOf(Unapplied),
         rest |-> Unapplied \ {FirstOf(Unapplied)}] \in MigrationCall
    BY <1>3, <2>1 DEF MigrationCall
  <2> QED
    BY <1>0, <1>8, <2>2 DEF ApplyAll
<1>9. ASSUME NEW m \in Migrators, ApplyFails(m)
      PROVE  migrating' \in [Migrators -> MigrationCall] /\ UNCHANGED <<records, committed, restarts>>
  BY <1>0, <1>2, <1>9 DEF ApplyFails
<1>10. ASSUME NEW m \in Migrators, NEW to \in {"executing", "marking"}
       PROVE  [migrating EXCEPT ![m].at = to] \in [Migrators -> MigrationCall]
  <2>1. PICK call \in MigrationCall : call = migrating[m]
    BY <1>0
  <2>2. [call EXCEPT !.at = to] \in MigrationCall
    BY <2>1 DEF MigrationCall
  <2>3. PICK next \in MigrationCall : next = [call EXCEPT !.at = to]
    BY <2>2
  <2>4. [migrating EXCEPT ![m].at = to] = [migrating EXCEPT ![m] = next]
    BY <1>0, <2>1, <2>3
  <2>5. [migrating EXCEPT ![m] = next] \in [Migrators -> MigrationCall]
    BY <1>0
  <2> QED
    BY <2>4, <2>5
<1>11. ASSUME NEW m \in Migrators, ReadSql(m)
       PROVE  migrating' \in [Migrators -> MigrationCall] /\ UNCHANGED <<records, committed, restarts>>
  <2>1. [migrating EXCEPT ![m].at = "executing"] \in [Migrators -> MigrationCall]
    BY <1>10
  <2> QED
    BY <1>11, <2>1 DEF ReadSql
<1>12. ASSUME NEW m \in Migrators, Commit(m)
       PROVE  /\ migrating' \in [Migrators -> MigrationCall] /\ committed' \in [Versions -> Nat]
              /\ UNCHANGED <<records, restarts>>
  <2>1. committed' \in [Versions -> Nat]
    <3>1. PICK v : v = migrating[m].version
      OBVIOUS
    <3>2. committed' = [committed EXCEPT ![v] = committed[v] + 1]
      BY <1>12, <3>1 DEF Commit
    <3>3. CASE v \in Versions
      BY <1>0, <3>2, <3>3
    <3>4. CASE v \notin Versions
      BY <1>0, <3>2, <3>4
    <3> QED
      BY <3>3, <3>4
  <2>2. [migrating EXCEPT ![m].at = "marking"] \in [Migrators -> MigrationCall]
    BY <1>10
  <2> QED
    BY <1>12, <2>1, <2>2 DEF Commit
<1>13. ASSUME NEW m \in Migrators, MarkApplied(m)
       PROVE  /\ migrating' \in [Migrators -> MigrationCall]
              /\ DOMAIN records' \subseteq Versions
              /\ \A w \in DOMAIN records' : records'[w] \in BOOLEAN
              /\ UNCHANGED <<committed, restarts>>
  <2>1. PICK rest : rest = migrating[m].rest
    OBVIOUS
  <2>2. rest \in SUBSET Versions
    BY <1>0, <2>1 DEF MigrationCall
  <2>3. PICK next : next = IF rest = {} THEN NoMigration
                           ELSE [at |-> "reading", version |-> FirstOf(rest),
                                 rest |-> rest \ {FirstOf(rest)}]
    OBVIOUS
  <2>4. next \in MigrationCall
    <3>1. CASE rest = {}
      BY <1>2, <2>3, <3>1
    <3>2. CASE rest # {}
      <4>1. FirstOf(rest) \in Versions
        BY <2>2, <3>2, FirstIsOne
      <4> QED
        BY <2>2, <2>3, <3>2, <4>1 DEF MigrationCall
    <3> QED
      BY <3>1, <3>2
  <2>5. migrating' = [migrating EXCEPT ![m] = next]
    BY <1>13, <2>1, <2>3 DEF MarkApplied
  <2>6. /\ records' = [records EXCEPT ![migrating[m].version] = TRUE]
        /\ UNCHANGED <<committed, restarts>>
    BY <1>13 DEF MarkApplied
  <2>7. DOMAIN records' = DOMAIN records /\ \A w \in DOMAIN records : records'[w] \in BOOLEAN
    BY <1>0, <2>6
  <2> QED
    BY <1>0, <2>4, <2>5, <2>6, <2>7
<1> QED
  BY <1>0, <1>4, <1>5, <1>6, <1>7, <1>8, <1>9, <1>11, <1>12, <1>13 DEF MigrationNext

-----------------------------------------------------------------------------
(***************************************************************************)
(* What the social graph answers.  The ids are in some order, each once; a *)
(* page takes those of its places, and shows the users who are registered. *)
(***************************************************************************)
\* The order a set is listed in.
LEMMA SetListed ==
  ASSUME NEW S, IsFiniteSet(S), NEW n, n = Cardinality(S), NEW ids, ids = SetToSeq(S)
  PROVE  /\ n \in Nat /\ ids \in Seq(S) /\ Len(ids) = n
         /\ \A i, j \in 1..n : ids[i] = ids[j] => i = j
         /\ \A x \in S : \E i \in 1..n : ids[i] = x
<1>1. n \in Nat /\ ExistsBijection(1..n, S)
  BY FS_CardinalityType
<1>2. \E f \in [1..n -> S] : IsInjective(f)
  BY <1>1 DEF ExistsBijection, Bijection, Injection
<1>3. ids \in [1..n -> S] /\ IsInjective(ids)
  BY <1>2 DEF SetToSeq
<1>4. ids \in Injection(1..n, S)
  BY <1>3 DEF Injection
<1>5. IsFiniteSet(1..n) /\ Cardinality(1..n) = n
  <2>1. 1 \in Int /\ n \in Int
    BY <1>1
  <2>2. IsFiniteSet(1..n) /\ Cardinality(1..n) = IF 1 > n THEN 0 ELSE n - 1 + 1
    BY <2>1, FS_Interval
  <2> QED
    BY <1>1, <2>2
<1>6. ids \in Surjection(1..n, S)
  BY <1>4, <1>5, FS_Injection
<1>7. ids \in Seq(S) /\ Len(ids) = n
  BY <1>1, <1>3, SeqDef, LenProperties
<1>8. \A i, j \in 1..n : ids[i] = ids[j] => i = j
  BY <1>3 DEF IsInjective
<1>9. \A x \in S : \E i \in 1..n : ids[i] = x
  BY <1>6 DEF Surjection
<1> QED
  BY <1>1, <1>7, <1>8, <1>9

\* The places of ids a page of the size shows that begins behind the first `first'.
PlacesShown(spot, shown, ids, first, size, known) ==
  /\ spot \in [1..Len(shown) -> 1..Len(ids)]
  /\ \A i \in 1..Len(shown) :
       /\ spot[i] > first /\ spot[i] <= first + size
       /\ shown[i] = ids[spot[i]] /\ ids[spot[i]] \in known
  /\ \A i, j \in 1..Len(shown) : spot[i] = spot[j] => i = j
  /\ \A k \in 1..Len(ids) :
       k > first /\ k <= first + size /\ ids[k] \in known => \E i \in 1..Len(shown) : spot[i] = k

LEMMA SmallerOfTwo ==
  ASSUME NEW a \in Nat, NEW b \in Nat
  PROVE  Min({a, b}) = IF a <= b THEN a ELSE b
<1>1. \E x \in {a, b} : \A y \in {a, b} : x <= y
  OBVIOUS
<1>2. PICK x : x = Min({a, b})
  OBVIOUS
<1>3. x \in {a, b} /\ \A y \in {a, b} : x <= y
  BY <1>1, <1>2 DEF Min
<1> QED
  BY <1>2, <1>3

\* What RetainFacts says of one list.
KeptAt(of, kept, list, keep) ==
  /\ of \in [1..Len(kept) -> keep]
  /\ \A i \in 1..Len(kept) : kept[i] = list[of[i]]
  /\ \A i, j \in 1..Len(kept) : i < j => of[i] < of[j]
  /\ \A k \in keep : \E i \in 1..Len(kept) : of[i] = k

LEMMA RetainedAt ==
  ASSUME NEW S, NEW list \in Seq(S), NEW keep \in SUBSET (1..Len(list)),
         NEW kept, kept = Retain(list, keep)
  PROVE  /\ kept \in Seq(S) /\ Len(kept) \in Nat /\ DOMAIN kept = 1..Len(kept)
         /\ \E of : KeptAt(of, kept, list, keep)
<1>1. kept \in Seq(S)
  BY RetainFacts
<1>2. \E spot \in [1..Len(kept) -> keep] :
        /\ \A i \in 1..Len(kept) : kept[i] = list[spot[i]]
        /\ \A i, j \in 1..Len(kept) : i < j => spot[i] < spot[j]
        /\ \A k \in keep : \E i \in 1..Len(kept) : spot[i] = k
  <2>1. \E spot \in [1..Len(Retain(list, keep)) -> keep] :
          /\ \A i \in 1..Len(Retain(list, keep)) : Retain(list, keep)[i] = list[spot[i]]
          /\ \A i, j \in 1..Len(Retain(list, keep)) : i < j => spot[i] < spot[j]
          /\ \A k \in keep : \E i \in 1..Len(Retain(list, keep)) : spot[i] = k
    BY ONLY list \in Seq(S), keep \in SUBSET (1..Len(list)), RetainFacts, SMTT(40)
  <2> QED
    BY ONLY <2>1, kept = Retain(list, keep)
<1>3. \E of : KeptAt(of, kept, list, keep)
  BY <1>2 DEF KeptAt
<1> QED
  BY <1>1, <1>3, LenProperties

\* The users of ids whom a page shows that begins behind the first `first'.
ShownOf(ids, first, size, known) ==
  LET piece == SubSeq(ids, first + 1, Min({first + size, Len(ids)}))
  IN Retain(piece, {i \in DOMAIN piece : piece[i] \in known})

LEMMA TakenIsShown ==
  ASSUME NEW S, NEW ids \in Seq(S), NEW first \in Nat, NEW size \in Nat \ {0}, NEW known,
         NEW shown, shown = ShownOf(ids, first, size, known)
  PROVE  /\ DOMAIN shown = 1..Len(shown)
         /\ \E spot : PlacesShown(spot, shown, ids, first, size, known)
<1>21. PICK last : last = Min({first + size, Len(ids)})
  OBVIOUS
<1>22. PICK piece : piece = SubSeq(ids, first + 1, last)
  OBVIOUS
<1>23. shown = Retain(piece, {i \in DOMAIN piece : piece[i] \in known})
  BY <1>21, <1>22 DEF ShownOf
<1>1. PICK n : n = Len(ids)
  OBVIOUS
<1>2. n \in Nat /\ \A k \in 1..n : ids[k] \in S
  BY <1>1, LenProperties, ElementOfSeq
<1>3. last = IF first + size <= n THEN first + size ELSE n
  BY <1>1, <1>2, <1>21, SmallerOfTwo
<1>4. last \in Nat /\ last <= n /\ last <= first + size
  BY <1>2, <1>3
<1>5. PICK from \in Nat : from = first + 1
  OBVIOUS
<1>6. piece = SubSeq(ids, from, last)
  BY <1>5, <1>22
<1>7. \A i \in from .. last : ids[i] \in S
  BY <1>2, <1>4, <1>5
<1>8. /\ piece \in Seq(S)
      /\ Len(piece) = IF from <= last THEN last - from + 1 ELSE 0
      /\ \A i \in 1 .. last - from + 1 : piece[i] = ids[from + i - 1]
  <2>1. from \in Int /\ last \in Int
    BY <1>4, <1>5
  <2> QED
    BY ONLY <1>6, <1>7, <2>1, SubSeqProperties
<1>9. PICK m : m = Len(piece)
  OBVIOUS
<1>10. /\ m \in Nat /\ DOMAIN piece = 1..m
       /\ m = IF from <= last THEN last - from + 1 ELSE 0
  BY <1>8, <1>9, LenProperties
<1>11. ASSUME NEW i \in 1..m
       PROVE  first + i \in 1..n /\ first + i <= last /\ piece[i] = ids[first + i]
  <2>1. i \in 1 .. last - from + 1 /\ from <= last
    BY ONLY <1>4, <1>5, <1>10, i \in 1..m
  <2>2. from + i - 1 = first + i
    BY <1>5
  <2>3. piece[i] = ids[first + i]
    BY <1>8, <2>1, <2>2
  <2>4. first + i \in 1..n /\ first + i <= last
    BY ONLY <1>4, <1>2, <1>5, <2>1, first \in Nat
  <2> QED
    BY <2>3, <2>4
<1> DEFINE keep == {i \in 1..m : piece[i] \in known}
<1>12. shown = Retain(piece, keep) /\ keep \in SUBSET (1..Len(piece))
  BY <1>9, <1>10, <1>23
<1> HIDE DEF keep
<1>13. /\ Len(shown) \in Nat /\ DOMAIN shown = 1..Len(shown)
       /\ \E of : KeptAt(of, shown, piece, keep)
  BY ONLY <1>8, <1>12, RetainedAt
<1>14. PICK of : KeptAt(of, shown, piece, keep)
  BY <1>13
<1>20. \A i \in 1..Len(shown) : of[i] \in 1..m /\ piece[of[i]] \in known
  BY <1>14 DEF keep, KeptAt
<1> DEFINE spot == [i \in 1..Len(shown) |-> first + of[i]]
<1>15. spot \in [1..Len(shown) -> 1..Len(ids)]
  BY <1>1, <1>11, <1>20
<1>16. ASSUME NEW i \in 1..Len(shown)
       PROVE  /\ spot[i] > first /\ spot[i] <= first + size
              /\ shown[i] = ids[spot[i]] /\ ids[spot[i]] \in known
  <2>1. PICK k \in 1..m : k = of[i]
    BY <1>20
  <2>2. spot[i] = first + k
    BY <2>1
  <2>3. first + k <= last /\ piece[k] = ids[first + k]
    BY <1>11
  <2>4. shown[i] = piece[k] /\ piece[k] \in known
    BY <1>14, <1>20, <2>1 DEF KeptAt
  <2>5. first + k > first /\ first + k <= first + size
    BY ONLY <1>4, <1>10, <2>3, k \in 1..m, first \in Nat, size \in Nat
  <2> QED
    BY <2>2, <2>3, <2>4, <2>5
<1>17. ASSUME NEW i \in 1..Len(shown), NEW j \in 1..Len(shown), spot[i] = spot[j]
       PROVE  i = j
  <2>1. PICK k \in 1..m : k = of[i]
    BY <1>20
  <2>2. PICK h \in 1..m : h = of[j]
    BY <1>20
  <2>3. first + k = first + h
    BY <1>17, <2>1, <2>2
  <2>4. k = h
    BY ONLY <1>10, <2>3, k \in 1..m, h \in 1..m, first \in Nat
  <2>5. ~(i < j) /\ ~(j < i)
    <3>1. ~(k < k)
      BY <1>10
    <3>2. (i < j => of[i] < of[j]) /\ (j < i => of[j] < of[i])
      BY <1>14 DEF KeptAt
    <3> QED
      BY ONLY <2>1, <2>2, <2>4, <3>1, <3>2
  <2> QED
    BY <1>13, <2>5
<1>18. ASSUME NEW k \in 1..Len(ids), k > first, k <= first + size, ids[k] \in known
       PROVE  \E i \in 1..Len(shown) : spot[i] = k
  <2>1. k \in 1..n /\ k <= last
    BY ONLY <1>1, <1>2, <1>3, <1>18, k \in 1..Len(ids)
  <2>2. PICK place : place = k - first
    OBVIOUS
  <2>3. place \in 1..m /\ first + place = k
    BY ONLY <1>2, <1>4, <1>5, <1>10, <1>18, <2>1, <2>2, first \in Nat
  <2>4. place \in keep
    BY <1>11, <1>18, <2>3 DEF keep
  <2>5. PICK i \in 1..Len(shown) : of[i] = place
    BY <1>14, <2>4 DEF KeptAt
  <2>6. spot[i] = k
    BY <2>3, <2>5
  <2> QED
    BY <2>6
<1>19. PlacesShown(spot, shown, ids, first, size, known)
  <2> HIDE DEF spot
  <2> QED
    BY <1>15, <1>16, <1>17, <1>18 DEF PlacesShown
<1> QED
  BY <1>13, <1>19

\* A page of the ids shows those of its places.
LEMMA PageShown ==
  ASSUME NEW S, NEW ids \in Seq(S), NEW page \in Nat \ {0}, NEW size \in Nat \ {0},
         NEW shown, shown = PageOf(ids, page, size)
  PROVE  /\ DOMAIN shown = 1..Len(shown) /\ (page - 1) * size \in Nat
         /\ \E spot : PlacesShown(spot, shown, ids, (page - 1) * size, size, users)
<1>1. PICK first : first = (page - 1) * size
  OBVIOUS
<1>2. first \in Nat
  <2>1. page - 1 \in Nat
    OBVIOUS
  <2> QED
    BY <1>1, <2>1, Products
<1>3. shown = ShownOf(ids, first, size, users)
  <2>1. (PageNumber(page) - 1) * size = first
    BY <1>1 DEF PageNumber
  <2> QED
    BY <2>1 DEF PageOf, ShownOf
<1>4. PICK known : known = users
  OBVIOUS
<1>5. shown = ShownOf(ids, first, size, known)
  BY <1>3, <1>4
<1>6. /\ DOMAIN shown = 1..Len(shown)
      /\ \E spot : PlacesShown(spot, shown, ids, first, size, known)
  BY <1>2, <1>5, TakenIsShown
<1> QED
  BY <1>1, <1>2, <1>4, <1>6

\* The followers of a user on the pages of any size: those who are registered,
\* each of them once.
LEMMA FollowersOnPages ==
  ASSUME SocialTypeOK, NEW u \in SocialUsers, NEW size \in Nat \ {0},
         NEW pages, pages = [p \in 1..FollowersCount(u) |-> GetFollowers(u, p, size)]
  PROVE  EachOnce(pages, FollowersOf(u) \cap users)
<1>1. PICK S : S = FollowersOf(u)
  OBVIOUS
<1>2. S \in SUBSET SocialUsers /\ IsFiniteSet(S)
  <2>1. S \in SUBSET SocialUsers
    BY <1>1 DEF FollowersOf
  <2> QED
    BY <2>1, SocialBounds, FS_Subset
<1>3. PICK n : n = Cardinality(S)
  OBVIOUS
<1>4. PICK ids : ids = SetToSeq(S)
  OBVIOUS
<1>5. /\ n \in Nat /\ ids \in Seq(S) /\ Len(ids) = n
      /\ \A i, j \in 1..n : ids[i] = ids[j] => i = j
      /\ \A x \in S : \E i \in 1..n : ids[i] = x
  BY <1>2, <1>3, <1>4, SetListed
<1>6. DOMAIN pages = 1..n /\ \A p \in 1..n : pages[p] = PageOf(ids, p, size)
  BY <1>1, <1>3, <1>4 DEF FollowersCount, GetFollowers
<1>7. ASSUME NEW p \in 1..n
      PROVE  /\ DOMAIN pages[p] = 1..Len(pages[p]) /\ (p - 1) * size \in Nat
             /\ \E spot : PlacesShown(spot, pages[p], ids, (p - 1) * size, size, users)
  <2>1. p \in Nat \ {0}
    BY <1>5
  <2> QED
    BY <1>5, <1>6, <2>1, PageShown
<1>8. ASSUME NEW x \in UNION {ToSet(pages[p]) : p \in DOMAIN pages}
      PROVE  x \in S \cap users
  <2>1. PICK p \in 1..n : x \in ToSet(pages[p])
    BY <1>6
  <2>2. PICK i \in 1..Len(pages[p]) : x = pages[p][i]
    BY <1>7, <2>1 DEF ToSet
  <2>3. PICK spot : PlacesShown(spot, pages[p], ids, (p - 1) * size, size, users)
    BY <1>7
  <2>4. spot[i] \in 1..n /\ x = ids[spot[i]] /\ x \in users
    BY <1>5, <2>2, <2>3 DEF PlacesShown
  <2>5. ids[spot[i]] \in S
    BY <1>5, <2>4, ElementOfSeq
  <2> QED
    BY <2>4, <2>5
<1>9. ASSUME NEW x \in S \cap users
      PROVE  x \in UNION {ToSet(pages[p]) : p \in DOMAIN pages}
  <2>1. PICK k \in 1..n : ids[k] = x
    BY <1>5
  <2>2. PICK item : item = k - 1
    OBVIOUS
  <2>3. item \in Nat /\ k = item + 1 /\ k <= n
    BY <1>5, <2>2
  <2>4. PICK q : q = item \div size
    OBVIOUS
  <2>5. PICK before : before = q * size
    OBVIOUS
  <2>6. q \in Nat /\ before <= item /\ item < before + size
    BY <2>3, <2>4, <2>5, Divided
  <2>7. before \in Nat /\ q <= before
    BY <2>5, <2>6, Products, AtLeastAsMany
  <2>8. PICK p : p = q + 1
    OBVIOUS
  <2>9. p \in 1..n /\ p - 1 = q
    BY <1>5, <2>3, <2>6, <2>7, <2>8
  <2>10. PICK spot : PlacesShown(spot, pages[p], ids, before, size, users)
    BY <1>7, <2>5, <2>9
  <2>11. k > before /\ k <= before + size
    BY <2>3, <2>6, <2>7
  <2>12. PICK i \in 1..Len(pages[p]) : spot[i] = k
    BY <1>5, <2>1, <2>10, <2>11 DEF PlacesShown
  <2>13. pages[p][i] = x
    BY <2>1, <2>10, <2>12 DEF PlacesShown
  <2>14. x \in ToSet(pages[p])
    BY <1>7, <2>9, <2>13 DEF ToSet
  <2> QED
    BY <1>6, <2>9, <2>14
<1>10. ASSUME NEW p \in 1..n, NEW q \in 1..n,
              NEW i \in DOMAIN pages[p], NEW j \in DOMAIN pages[q],
              pages[p][i] = pages[q][j]
       PROVE  p = q /\ i = j
  <2>1. i \in 1..Len(pages[p]) /\ j \in 1..Len(pages[q])
    BY <1>7
  <2>2. PICK a, b : a = (p - 1) * size /\ b = (q - 1) * size
    OBVIOUS
  <2>3. a \in Nat /\ b \in Nat
    BY <1>7, <2>2
  <2>4. PICK spot : PlacesShown(spot, pages[p], ids, a, size, users)
    BY <1>7, <2>2
  <2>5. PICK to : PlacesShown(to, pages[q], ids, b, size, users)
    BY <1>7, <2>2
  <2>6. /\ spot[i] \in 1..n /\ spot[i] > a /\ spot[i] <= a + size /\ pages[p][i] = ids[spot[i]]
        /\ to[j] \in 1..n /\ to[j] > b /\ to[j] <= b + size /\ pages[q][j] = ids[to[j]]
    BY <1>5, <2>1, <2>4, <2>5 DEF PlacesShown
  <2>7. PICK k \in 1..n : k = spot[i]
    BY <2>6
  <2>8. to[j] = k
    BY <1>5, <1>10, <2>6, <2>7
  <2>9. PICK item \in Nat : item = k - 1
    BY <1>5
  <2>10. a <= item /\ item < a + size /\ b <= item /\ item < b + size
    BY <1>5, <2>3, <2>6, <2>7, <2>8, <2>9
  <2>11. p \in Nat \ {0} /\ q \in Nat \ {0}
    BY <1>5
  <2>12. p = item \div size + 1
    <3>1. (p - 1) * size <= item /\ item < (p - 1) * size + size
      BY <2>2, <2>10
    <3> QED
      BY <2>11, <3>1, OnOnePage
  <2>13. q = item \div size + 1
    <3>1. (q - 1) * size <= item /\ item < (q - 1) * size + size
      BY <2>2, <2>10
    <3> QED
      BY <2>11, <3>1, OnOnePage
  <2>14. p = q
    BY <2>12, <2>13
  <2>15. PlacesShown(spot, pages[p], ids, b, size, users) /\ j \in 1..Len(pages[p])
    BY <2>1, <2>2, <2>4, <2>14
  <2>16. spot[j] \in 1..n /\ pages[p][j] = ids[spot[j]]
    BY <1>5, <2>15 DEF PlacesShown
  <2>17. spot[j] = spot[i]
    BY <1>5, <1>10, <2>6, <2>14, <2>16
  <2>18. i = j
    BY <2>1, <2>4, <2>15, <2>17 DEF PlacesShown
  <2> QED
    BY <2>14, <2>18
<1>11. UNION {ToSet(pages[p]) : p \in DOMAIN pages} = S \cap users
  BY ONLY <1>8, <1>9
<1>12. \A p, q \in DOMAIN pages :
         \A i \in DOMAIN pages[p], j \in DOMAIN pages[q] :
           pages[p][i] = pages[q][j] => p = q /\ i = j
  BY ONLY <1>6, <1>10
<1> QED
  BY ONLY <1>1, <1>11, <1>12 DEF EachOnce

\* Every friend is among those one follows, on a page that is large enough.
LEMMA FriendsAreFollowed ==
  ASSUME SocialTypeOK, NEW u \in SocialUsers, NEW t \in GetFriends(u)
  PROVE  t \in ToSet(GetFollowing(u, 1, FollowingCount(u)))
<1>1. PICK S : S = followers[u]
  OBVIOUS
<1>2. t \in S /\ t \in users
  BY <1>1 DEF GetFriends
<1>3. S \in SUBSET SocialUsers /\ IsFiniteSet(S)
  <2>1. S \in SUBSET SocialUsers
    BY <1>1 DEF SocialTypeOK
  <2> QED
    BY <2>1, SocialBounds, FS_Subset
<1>4. PICK n : n = Cardinality(S)
  OBVIOUS
<1>5. PICK ids : ids = SetToSeq(S)
  OBVIOUS
<1>6. /\ n \in Nat /\ ids \in Seq(S) /\ Len(ids) = n
      /\ \A x \in S : \E i \in 1..n : ids[i] = x
  BY <1>3, <1>4, <1>5, SetListed
<1>7. PICK k \in 1..n : ids[k] = t
  BY <1>2, <1>6
<1>8. n \in Nat \ {0}
  BY <1>6
<1>9. PICK shown : shown = PageOf(ids, 1, n)
  OBVIOUS
<1>10. shown = GetFollowing(u, 1, FollowingCount(u))
  BY <1>1, <1>4, <1>5, <1>9 DEF GetFollowing, FollowingCount
<1>11. 1 \in Nat \ {0} /\ (1 - 1) * n = 0
  BY <1>8
<1>12. /\ DOMAIN shown = 1..Len(shown)
       /\ \E spot : PlacesShown(spot, shown, ids, (1 - 1) * n, n, users)
  BY <1>6, <1>8, <1>9, <1>11, PageShown
<1>13. PICK spot : PlacesShown(spot, shown, ids, 0, n, users)
  BY <1>11, <1>12
<1>14. k > 0 /\ k <= 0 + n
  BY <1>8
<1>15. PICK i \in 1..Len(shown) : spot[i] = k
  BY <1>2, <1>6, <1>7, <1>13, <1>14 DEF PlacesShown
<1>16. shown[i] = t
  BY <1>7, <1>13, <1>15 DEF PlacesShown
<1> QED
  BY <1>10, <1>12, <1>16 DEF ToSet

\* The two ends of a relation tell the same story.
LEMMA RelationsAgree ==
  ASSUME NEW u, NEW t
  PROVE  /\ Relation(u, t) = "Friend" <=> Relation(t, u) = "Friend"
         /\ Relation(u, t) = "Follow" <=> Relation(t, u) = "FollowedBy"
         /\ Relation(u, t) = "BlockedBy" => Relation(t, u) = "Block"
<1>1. CASE t \in blocks[u]
  BY <1>1 DEF Relation
<1>2. CASE t \notin blocks[u] /\ u \in blocks[t]
  BY <1>2 DEF Relation
<1>3. CASE t \notin blocks[u] /\ u \notin blocks[t]
  <2> DEFINE a == t \in followers[u]
             b == u \in followers[t]
  <2>1. CASE a /\ b
    BY <1>3, <2>1 DEF Relation
  <2>2. CASE a /\ ~b
    BY <1>3, <2>2 DEF Relation
  <2>3. CASE ~a /\ b
    BY <1>3, <2>3 DEF Relation
  <2>4. CASE ~a /\ ~b
    BY <1>3, <2>4 DEF Relation
  <2> QED
    BY <2>1, <2>2, <2>3, <2>4
<1> QED
  BY <1>1, <1>2, <1>3

LEMMA SocialAnswers == SocialTypeOK => SocialViewsAgree
<1> SUFFICES ASSUME SocialTypeOK PROVE SocialViewsAgree
  OBVIOUS
<1>1. ASSUME NEW u \in SocialUsers, NEW size \in 1..MaxPageSize
      PROVE  EachOnce([p \in 1..FollowersCount(u) |-> GetFollowers(u, p, size)],
                      FollowersOf(u) \cap users)
  <2>1. size \in Nat \ {0}
    BY SocialBounds
  <2> QED
    BY ONLY <2>1, SocialTypeOK, u \in SocialUsers, FollowersOnPages
<1>2. ASSUME NEW u, NEW size PROVE GetFollowers(u, 0, size) = GetFollowers(u, 1, size)
  <2>1. PageNumber(0) = PageNumber(1)
    BY DEF PageNumber
  <2> QED
    BY <2>1 DEF GetFollowers, PageOf
<1>3. ASSUME NEW u \in SocialUsers, NEW t \in SocialUsers
      PROVE  t \in GetFriends(u) => t \in ToSet(GetFollowing(u, 1, FollowingCount(u)))
  BY FriendsAreFollowed
<1> QED
  BY ONLY <1>1, <1>2, <1>3, RelationsAgree DEF SocialViewsAgree

\* Relations are seen alike from both ends, and the pages of a list hold the
\* registered users once each, for any number of users and pages of any size
\* (yma-social).
THEOREM SocialViewsDoAgree == SocialSpec => []SocialViewsAgree
<1>1. SocialInv => SocialTypeOK
  BY DEF SocialInv
<1> QED
  BY <1>1, SocialInvariant, SocialAnswers, PTL

-----------------------------------------------------------------------------
(***************************************************************************)
(* Remote commands.                                                        *)
(***************************************************************************)
\* What is collected with a piece, and with the status.
WithPiece(c, stream, piece) == [c EXCEPT ![stream] = Append(c[stream], piece)]
WithStatus(c, code) == [c EXCEPT !.exit_code = code]

LEMMA CollectedParts ==
  ASSUME NEW c \in Collections
  PROVE  /\ c.exit_code \in ExitStatuses
         /\ \A stream \in Streams : c[stream] \in Seq(1..MaxPieces)
         /\ \A code \in ExitStatuses :
              /\ WithStatus(c, code) \in Collections
              /\ WithStatus(c, code).exit_code = code
              /\ \A stream \in Streams : WithStatus(c, code)[stream] = c[stream]
<1>1. /\ c.exit_code \in ExitStatuses
      /\ c.Data \in Seq(1..MaxPieces) /\ c.ExtendedData \in Seq(1..MaxPieces)
  BY DEF Collections
<1>2. ASSUME NEW stream \in Streams PROVE c[stream] \in Seq(1..MaxPieces)
  BY <1>1, <1>2 DEF Streams
<1>4. ASSUME NEW code \in ExitStatuses, NEW noted, noted = WithStatus(c, code)
      PROVE  /\ noted \in Collections
             /\ noted.exit_code = code
             /\ \A stream \in Streams : noted[stream] = c[stream]
  BY <1>1, <1>4 DEF Collections, Streams, WithStatus
<1> QED
  BY <1>1, <1>2, <1>4

LEMMA PieceCollected ==
  ASSUME NEW c \in Collections, NEW stream \in Streams, NEW piece \in 1..MaxPieces,
         NEW more, more = WithPiece(c, stream, piece)
  PROVE  /\ more \in Collections
         /\ more.exit_code = c.exit_code
         /\ more[stream] = Append(c[stream], piece)
         /\ \A other \in Streams : other # stream => more[other] = c[other]
<1>1. /\ c.exit_code \in ExitStatuses
      /\ c.Data \in Seq(1..MaxPieces) /\ c.ExtendedData \in Seq(1..MaxPieces)
  BY DEF Collections
<1>2. Append(c[stream], piece) \in Seq(1..MaxPieces)
  <2>1. c[stream] \in Seq(1..MaxPieces)
    BY CollectedParts
  <2> QED
    BY <2>1, AppendProperties
<1>3. PICK list : list = Append(c[stream], piece)
  OBVIOUS
<1>4. CASE stream = "Data"
  BY <1>1, <1>2, <1>3, <1>4 DEF Collections, Streams, WithPiece
<1>5. CASE stream = "ExtendedData"
  BY <1>1, <1>2, <1>3, <1>5 DEF Collections, Streams, WithPiece
<1> QED
  BY <1>4, <1>5 DEF Streams

LEMMA MessageParts ==
  \A m \in WireMessages :
    /\ m.kind \in Streams \cup {"ExitStatus", "Eof"}
    /\ m.kind \in Streams => m.piece \in 1..MaxPieces
    /\ m.kind = "ExitStatus" => m.status \in ExitStatuses
BY DEF WireMessages, Streams

\* What is known of a state, for the steps below.
LEMMA SshParts ==
  ASSUME SshInv
  PROVE  /\ wire \in Seq(WireMessages) /\ Len(wire) \in Nat /\ DOMAIN wire = 1..Len(wire)
         /\ collected \in Collections
         /\ \A stream \in Streams :
              /\ Len(collected[stream]) \in Nat
              /\ DOMAIN collected[stream] = 1..Len(collected[stream])
         /\ server.pieces \in 0..MaxPieces /\ MaxPieces \in Nat
         /\ server.status \in ExitStatuses
         /\ server.told \in BOOLEAN /\ server.ended \in BOOLEAN
         /\ server.closed \in BOOLEAN /\ server.cut \in BOOLEAN
         /\ server.lost \in BOOLEAN
         /\ \A k \in DOMAIN wire : wire[k] \in WireMessages
<1>1. wire \in Seq(WireMessages) /\ collected \in Collections
  BY DEF SshInv, SshTypeOK
<1>2. \A stream \in Streams : collected[stream] \in Seq(1..MaxPieces)
  BY <1>1, CollectedParts
<1>3. /\ server.pieces \in 0..MaxPieces /\ server.status \in ExitStatuses
      /\ server.told \in BOOLEAN /\ server.ended \in BOOLEAN
      /\ server.closed \in BOOLEAN /\ server.cut \in BOOLEAN
      /\ server.lost \in BOOLEAN
  BY DEF SshInv, SshTypeOK
<1> QED
  BY <1>1, <1>2, <1>3, LenProperties, ElementOfSeq, SshBounds

LEMMA SshInitInv == SshInit => SshInv
<1> SUFFICES ASSUME SshInit PROVE SshInv
  OBVIOUS
<1>1. /\ sshCall = [at |-> "connecting"] /\ accepted = FALSE
      /\ wire = <<>> /\ collected = NothingCollected /\ deadline = 0 /\ sshNow = 0
  BY DEF SshInit
<1>2. PICK code \in ExitStatuses :
        server = [status |-> code, pieces |-> 0, told |-> FALSE, ended |-> FALSE,
                  closed |-> FALSE, cut |-> FALSE, lost |-> FALSE]
  BY DEF SshInit
<1>3. /\ \A S : <<>> \in Seq(S)
      /\ DOMAIN wire = {}
  BY <1>1, EmptySeq
<1>4. NothingCollected \in Collections
  BY <1>3, SshBounds DEF NothingCollected, Collections
<1>5. \A stream \in Streams : DOMAIN collected[stream] = {}
  BY <1>1 DEF NothingCollected, Streams
<1>6. SshTypeOK
  <2>1. MaxPieces \in Nat /\ CommandTimeout \in Nat /\ MaxSshTime \in Nat
    BY SshBounds
  <2>2. /\ deadline \in 0..(MaxSshTime + CommandTimeout) /\ sshNow \in 0..MaxSshTime
        /\ server \in [status : ExitStatuses, pieces : 0..MaxPieces, told : BOOLEAN,
                       ended : BOOLEAN, closed : BOOLEAN, cut : BOOLEAN,
                       lost : BOOLEAN]
    BY <1>1, <1>2, <2>1
  <2>3. wire \in Seq(WireMessages) /\ collected \in Collections /\ accepted \in BOOLEAN
    BY <1>1, <1>3, <1>4
  <2>4. sshCall \in [at : {"connecting", "authenticating", "opening", "asking", "waiting"}]
    BY <1>1
  <2> QED
    BY <2>2, <2>3, <2>4 DEF SshTypeOK
<1>7. OnlyWhenAccepted /\ PiecesInOrder /\ NoPieceIsLost /\ EofEndsOutput
  BY <1>1, <1>2, <1>3, <1>5 DEF OnlyWhenAccepted, PiecesInOrder, NoPieceIsLost, EofEndsOutput
<1>8. StatusComes
  BY <1>1, <1>2, <1>3 DEF StatusComes, NothingCollected
<1>9. ResultsAreTrue
  BY <1>1 DEF ResultsAreTrue, Succeeded
<1> QED
  BY <1>6, <1>7, <1>8, <1>9 DEF SshInv

\* No piece is lost as long as those that have come are the same.
LEMMA ComeStays ==
  ASSUME NoPieceIsLost, server'.pieces = server.pieces,
         server'.lost = server.lost, server.closed => server'.closed,
         \A p \in 1..server.pieces : HasCome(p)' <=> HasCome(p)
  PROVE  NoPieceIsLost'
BY DEF NoPieceIsLost

\* A step that leaves the wire and what was collected alone, and of the server
\* changes no more than that its channel is closed and its output cut.
LEMMA QuietInv ==
  ASSUME SshInv, wire' = wire, collected' = collected,
         server'.status = server.status, server'.pieces = server.pieces,
         server'.told = server.told, server'.ended = server.ended,
         server'.lost = server.lost, server.closed => server'.closed,
         server.cut => server'.cut
  PROVE  PiecesInOrder' /\ NoPieceIsLost' /\ StatusComes' /\ EofEndsOutput'
<1>1. NoPieceIsLost'
  BY ComeStays DEF SshInv, HasCome
<1>2. PiecesInOrder' /\ StatusComes' /\ EofEndsOutput'
  BY DEF SshInv, PiecesInOrder, StatusComes, EofEndsOutput
<1> QED
  BY <1>1, <1>2

\* What is said of an answer when there is no new one.
LEMMA NoAnswerYet ==
  ASSUME OnlyWhenAccepted', ~Succeeded'
  PROVE  ResultsAreTrue'
BY DEF OnlyWhenAccepted, ResultsAreTrue

LEMMA SshCallsInv ==
  ASSUME SshInv,
         \/ \E how \in {"timeout", "failed", "through"} : ConnectEnds(how)
         \/ \E how \in {"accepted", "rejected", "failed"} : Authenticates(how)
         \/ \E fails \in BOOLEAN : OpensChannel(fails)
         \/ AsksDeadline
  PROVE  SshInv'
<1>1. UNCHANGED <<wire, collected, server, sshNow>>
  BY DEF ConnectEnds, Authenticates, OpensChannel, AsksDeadline
<1>2. \/ sshCall' \in [at : {"authenticating", "opening", "asking", "waiting"}]
      \/ \E why \in {"timeout", "failed", "refused"} :
           sshCall' = [at |-> "returned", answer |-> [ok |-> FALSE, why |-> why]]
  BY DEF ConnectEnds, Authenticates, OpensChannel, AsksDeadline, Fails, Answers
<1>3. ~Succeeded'
  BY <1>2 DEF Succeeded
<1>4. accepted' \in BOOLEAN /\ deadline' \in 0..(MaxSshTime + CommandTimeout)
  <2>1. /\ CommandTimeout \in Nat /\ MaxSshTime \in Nat /\ sshNow \in 0..MaxSshTime
        /\ accepted \in BOOLEAN /\ deadline \in 0..(MaxSshTime + CommandTimeout)
    BY SshBounds DEF SshInv, SshTypeOK
  <2>2. sshNow + CommandTimeout \in 0..(MaxSshTime + CommandTimeout)
    BY <2>1
  <2>3. accepted' = accepted \/ \E how : accepted' = (how = "accepted")
    BY DEF ConnectEnds, Authenticates, OpensChannel, AsksDeadline
  <2>4. deadline' \in {deadline, sshNow + CommandTimeout}
    BY DEF ConnectEnds, Authenticates, OpensChannel, AsksDeadline
  <2> QED
    BY <2>1, <2>2, <2>3, <2>4
<1>5. SshTypeOK'
  <2>1. \/ sshCall' \in [at : {"connecting", "authenticating", "opening", "asking", "waiting"}]
        \/ /\ sshCall'.at = "returned"
           /\ sshCall'.answer \in [ok : {FALSE}, why : {"timeout", "failed", "refused"}]
    <3>1. CASE sshCall' \in [at : {"authenticating", "opening", "asking", "waiting"}]
      BY <3>1
    <3>2. ASSUME NEW why \in {"timeout", "failed", "refused"},
                 sshCall' = [at |-> "returned", answer |-> [ok |-> FALSE, why |-> why]]
          PROVE  /\ sshCall'.at = "returned"
                 /\ sshCall'.answer \in [ok : {FALSE}, why : {"timeout", "failed", "refused"}]
      BY <3>2
    <3> QED
      BY <1>2, <3>1, <3>2
  <2>2. /\ wire' \in Seq(WireMessages) /\ collected' \in Collections
        /\ server' \in [status : ExitStatuses, pieces : 0..MaxPieces, told : BOOLEAN,
                        ended : BOOLEAN, closed : BOOLEAN, cut : BOOLEAN,
                        lost : BOOLEAN]
        /\ sshNow' \in 0..MaxSshTime
    BY <1>1 DEF SshInv, SshTypeOK
  <2> QED
    BY <1>4, <2>1, <2>2 DEF SshTypeOK
<1>6. OnlyWhenAccepted'
  BY <1>1 DEF SshInv, OnlyWhenAccepted, ConnectEnds, Authenticates, OpensChannel, AsksDeadline,
              AtStep, Fails, Answers
<1> QED
  BY <1>1, <1>3, <1>5, <1>6, QuietInv, NoAnswerYet DEF SshInv

LEMMA ChannelClosesInv == SshInv /\ ChannelCloses => SshInv'
<1> SUFFICES ASSUME SshInv, ChannelCloses PROVE SshInv'
  OBVIOUS
<1>1. /\ UNCHANGED <<sshCall, accepted, wire, collected, deadline, sshNow>>
      /\ server' = [server EXCEPT !.closed = TRUE, !.cut = server.cut \/ ~server.told]
      /\ Running
  BY DEF ChannelCloses
<1>2. /\ server' \in [status : ExitStatuses, pieces : 0..MaxPieces, told : BOOLEAN,
                      ended : BOOLEAN, closed : BOOLEAN, cut : BOOLEAN,
                      lost : BOOLEAN]
      /\ server'.status = server.status /\ server'.pieces = server.pieces
      /\ server'.told = server.told /\ server'.ended = server.ended
      /\ server'.lost = server.lost /\ server'.closed
      /\ server.cut => server'.cut
  <2>1. PICK new \in BOOLEAN : new = (server.cut \/ ~server.told)
    OBVIOUS
  <2>2. server' = [server EXCEPT !.closed = TRUE, !.cut = new]
    BY <1>1, <2>1
  <2>3. server \in [status : ExitStatuses, pieces : 0..MaxPieces, told : BOOLEAN,
                    ended : BOOLEAN, closed : BOOLEAN, cut : BOOLEAN,
                    lost : BOOLEAN]
    BY DEF SshInv, SshTypeOK
  <2> QED
    BY <2>1, <2>2, <2>3
<1>3. SshTypeOK' /\ OnlyWhenAccepted'
  BY <1>1, <1>2 DEF SshInv, SshTypeOK, OnlyWhenAccepted
<1>4. ~Succeeded'
  BY <1>1 DEF Running, Succeeded
<1> QED
  BY <1>1, <1>2, <1>3, <1>4, QuietInv, NoAnswerYet DEF SshInv

\* The messages that were on their way are gone, the later ones first: what has
\* come has still no gap, and the answer is not yet given.
LEMMA ConnectionLostInv == SshInv /\ ConnectionLost => SshInv'
<1> SUFFICES ASSUME SshInv, ConnectionLost PROVE SshInv'
  OBVIOUS
<1>1. PICK kept \in 0..Len(wire) : wire' = SubSeq(wire, 1, kept)
  BY DEF ConnectionLost
<1>2. /\ UNCHANGED <<sshCall, accepted, collected, deadline, sshNow>>
      /\ server' = [server EXCEPT !.closed = TRUE, !.lost = TRUE]
      /\ sshCall.at \in {"asking", "waiting"}
  BY DEF ConnectionLost, Running
<1>3. /\ wire \in Seq(WireMessages) /\ Len(wire) \in Nat /\ DOMAIN wire = 1..Len(wire)
  BY SshParts
<1>4. /\ wire' \in Seq(WireMessages) /\ DOMAIN wire' = 1..kept
      /\ \A k \in 1..kept : k \in DOMAIN wire /\ wire'[k] = wire[k]
  <2>1. kept \in Nat /\ kept <= Len(wire)
    BY <1>3
  <2>2. /\ wire' \in Seq(WireMessages)
        /\ Len(wire') = kept
        /\ \A k \in 1..kept : wire'[k] = wire[1 + k - 1]
    BY <1>1, <1>3, <2>1, SubSeqProperties
  <2> QED
    BY <1>3, <2>1, <2>2, LenProperties
<1>5. /\ server' \in [status : ExitStatuses, pieces : 0..MaxPieces, told : BOOLEAN,
                      ended : BOOLEAN, closed : BOOLEAN, cut : BOOLEAN,
                      lost : BOOLEAN]
      /\ server'.status = server.status /\ server'.pieces = server.pieces
      /\ server'.told = server.told /\ server'.ended = server.ended
      /\ server'.lost /\ server'.closed /\ server'.cut = server.cut
  BY <1>2 DEF SshInv, SshTypeOK
<1>6. SshTypeOK' /\ OnlyWhenAccepted' /\ ~Succeeded'
  BY <1>2, <1>4, <1>5 DEF SshInv, SshTypeOK, OnlyWhenAccepted, Succeeded
<1>7. PiecesInOrder' /\ StatusComes' /\ EofEndsOutput'
  BY <1>2, <1>4, <1>5 DEF SshInv, PiecesInOrder, StatusComes, EofEndsOutput
<1>8. NoPieceIsLost'
  <2> SUFFICES ASSUME NEW p \in 1..server.pieces, NEW q \in 1..server.pieces,
                      q < p, HasCome(p)'
               PROVE  HasCome(q)'
    BY <1>5 DEF NoPieceIsLost
  <2>1. HasCome(p)
    BY <1>2, <1>4 DEF HasCome
  <2>2. CASE \E stream \in Streams : \E i \in DOMAIN collected[stream] :
               collected[stream][i] = q
    BY <1>2, <2>2 DEF HasCome
  <2>3. ASSUME NEW l \in DOMAIN wire, wire[l].kind \in Streams, wire[l].piece = q
        PROVE  HasCome(q)'
    <3>1. \A stream \in Streams : \A i \in DOMAIN collected[stream] :
            collected[stream][i] # p
      <4> SUFFICES ASSUME NEW stream \in Streams, NEW i \in DOMAIN collected[stream],
                          collected[stream][i] = p
                   PROVE  FALSE
        OBVIOUS
      <4>1. p < q
        BY <2>3 DEF SshInv, PiecesInOrder
      <4> QED
        BY <4>1
    <3>2. PICK k \in DOMAIN wire' : wire'[k].kind \in Streams /\ wire'[k].piece = p
      BY <1>2, <3>1 DEF HasCome
    <3>3. k \in DOMAIN wire /\ wire[k].kind \in Streams /\ wire[k].piece = p
      BY <1>4, <3>2
    <3>4. ~(k < l)
      <4>1. k < l => p < q
        BY <2>3, <3>3 DEF SshInv, PiecesInOrder
      <4> QED
        BY <4>1
    <3>5. l \in DOMAIN wire'
      BY <1>3, <1>4, <3>2, <3>3, <3>4
    <3> QED
      BY <1>4, <2>3, <3>5 DEF HasCome
  <2>4. HasCome(q)
    BY <2>1 DEF SshInv, NoPieceIsLost
  <2> QED
    BY <2>2, <2>3, <2>4 DEF HasCome
<1> QED
  BY <1>6, <1>7, <1>8, NoAnswerYet DEF SshInv

LEMMA SshTickInv == SshInv /\ SshTick => SshInv'
<1> SUFFICES ASSUME SshInv, SshTick PROVE SshInv'
  OBVIOUS
<1>1. UNCHANGED <<sshCall, accepted, wire, server, collected, deadline>>
  BY DEF SshTick
<1>2. sshNow' \in 0..MaxSshTime
  <2>1. MaxSshTime \in Nat /\ sshNow \in 0..MaxSshTime
    BY SshBounds DEF SshInv, SshTypeOK
  <2> QED
    BY <2>1 DEF SshTick
<1>4. SshTypeOK' /\ OnlyWhenAccepted'
  BY <1>1, <1>2 DEF SshInv, SshTypeOK, OnlyWhenAccepted
<1>3. ResultsAreTrue'
  BY <1>1 DEF SshInv, ResultsAreTrue, Succeeded
<1> QED
  BY <1>1, <1>3, <1>4, QuietInv DEF SshInv

\* An answer given when no piece is on the wire any more, and the status, if it
\* is still there, comes behind the end of the output.
LEMMA AnswerIsTrue ==
  ASSUME SshInv, sshCall.at = "waiting", Answers(Result),
         UNCHANGED <<accepted, server, collected>>,
         \A k \in DOMAIN wire : wire[k].kind \notin Streams,
         \A k \in DOMAIN wire : wire[k].kind = "ExitStatus" => server.cut
  PROVE  ResultsAreTrue'
<1>1. /\ Succeeded' /\ sshCall'.answer.result = collected /\ sshCall'.at = "returned"
  BY DEF Answers, Result, Succeeded
<1>2. accepted'
  BY DEF SshInv, OnlyWhenAccepted
<1> DEFINE got == ToSet(collected.Data) \cup ToSet(collected.ExtendedData)
<1>3. /\ got \subseteq 1..server.pieces
      /\ \A p \in got : 1..p \subseteq got
      /\ ~server.lost => got = 1..server.pieces
  <2>1. \A stream \in Streams : ToSet(collected[stream]) \subseteq 1..server.pieces
    BY SshParts DEF SshInv, PiecesInOrder, ToSet
  <2>2. \A p : p \in got <=> \E stream \in Streams : p \in ToSet(collected[stream])
    BY DEF Streams
  <2>3. \A p : HasCome(p) <=> p \in got
    BY <2>2 DEF HasCome, ToSet
  <2> HIDE DEF got
  <2>4. got \subseteq 1..server.pieces
    BY <2>1, <2>2
  <2>5. ~server.lost => got = 1..server.pieces
    BY <2>3, <2>4 DEF SshInv, NoPieceIsLost
  <2>6. ASSUME NEW p \in got, NEW q \in 1..p PROVE q \in got
    <3>1. /\ p \in 1..server.pieces /\ server.pieces \in Nat
          /\ q \in 1..server.pieces /\ (q = p \/ q < p)
      BY <2>4, <2>6, SshParts
    <3> QED
      BY <2>3, <3>1 DEF SshInv, NoPieceIsLost
  <2> QED
    BY <2>4, <2>5, <2>6
<1>4. \A stream \in Streams : \A i, j \in DOMAIN collected[stream] :
        i < j => collected[stream][i] < collected[stream][j]
  BY DEF SshInv, PiecesInOrder
<1>5. \/ collected.exit_code = server.status
      \/ collected.exit_code = 0 /\ (server.cut \/ ~server.told \/ server.lost)
  BY DEF SshInv, StatusComes
<1> QED
  BY <1>1, <1>2, <1>3, <1>4, <1>5 DEF ResultsAreTrue

LEMMA AnswerTypes ==
  ASSUME SshInv, Answers(Result), UNCHANGED <<accepted, server, collected, deadline, sshNow>>,
         wire' \in Seq(WireMessages), wire = <<>> => wire' = <<>>
  PROVE  SshTypeOK' /\ OnlyWhenAccepted'
<1>1. sshCall'.at = "returned" /\ sshCall'.answer = [ok |-> TRUE, result |-> collected]
  BY DEF Answers, Result
<1> QED
  BY <1>1 DEF SshInv, SshTypeOK, OnlyWhenAccepted

LEMMA ChannelIsClosedInv == SshInv /\ ChannelIsClosed => SshInv'
<1> SUFFICES ASSUME SshInv, ChannelIsClosed PROVE SshInv'
  OBVIOUS
<1>1. /\ sshCall.at = "waiting" /\ wire = <<>> /\ Answers(Result)
      /\ UNCHANGED <<accepted, wire, server, collected, deadline, sshNow>>
  BY DEF ChannelIsClosed, AtStep
<1>2. DOMAIN wire = {}
  BY <1>1
<1>3. ResultsAreTrue'
  BY <1>1, <1>2, AnswerIsTrue
<1>4. SshTypeOK' /\ OnlyWhenAccepted'
  BY <1>1, SshParts, AnswerTypes
<1> QED
  BY <1>1, <1>3, <1>4, QuietInv DEF SshInv

\* The messages that are left are those behind the first.
LEMMA ReadingWire ==
  ASSUME SshInv, wire # <<>>, wire' = Tail(wire)
  PROVE  /\ wire' \in Seq(WireMessages) /\ Len(wire') \in Nat
         /\ DOMAIN wire' = 1..Len(wire') /\ Len(wire) = Len(wire') + 1
         /\ \A k \in DOMAIN wire' : k + 1 \in DOMAIN wire /\ wire'[k] = wire[k + 1]
         /\ 1 \in DOMAIN wire /\ Head(wire) = wire[1] /\ wire[1] \in WireMessages
         /\ \A k \in DOMAIN wire : k = 1 \/ (k - 1 \in DOMAIN wire' /\ wire'[k - 1] = wire[k])
<1>1. /\ wire \in Seq(WireMessages) /\ Len(wire) \in Nat /\ DOMAIN wire = 1..Len(wire)
  BY SshParts
<1>2. Len(wire) > 0
  BY <1>1, EmptySeq
<1>3. /\ wire' \in Seq(WireMessages) /\ Len(wire') = Len(wire) - 1
      /\ \A i \in 1..Len(wire') : wire'[i] = wire[i + 1]
  BY <1>1, HeadTailProperties
<1>4. /\ DOMAIN wire' = 1..Len(wire') /\ Len(wire') \in Nat
  BY <1>3, LenProperties
<1>5. \A k \in DOMAIN wire' : k + 1 \in DOMAIN wire /\ wire'[k] = wire[k + 1]
  BY <1>1, <1>3, <1>4
<1>6. /\ 1 \in DOMAIN wire /\ wire[1] \in WireMessages
  BY <1>1, <1>2, ElementOfSeq
<1>7. Head(wire) = wire[1]
  BY <1>1, <1>2
<1>8. ASSUME NEW k \in DOMAIN wire, k # 1
      PROVE  k - 1 \in DOMAIN wire' /\ wire'[k - 1] = wire[k]
  <2>1. k - 1 \in DOMAIN wire' /\ (k - 1) + 1 = k
    BY <1>1, <1>3, <1>4, <1>8
  <2> QED
    BY <1>5, <2>1
<1> QED
  BY <1>1, <1>3, <1>4, <1>5, <1>6, <1>7, <1>8

\* What is left on the wire is in order and ends as before, whatever is done with
\* the message that was taken off.
LEMMA ReadingKeeps ==
  ASSUME SshInv, wire # <<>>, wire' = Tail(wire), server' = server
  PROVE  /\ EofEndsOutput'
         /\ \A k \in DOMAIN wire' : wire'[k].kind \in Streams =>
              /\ wire'[k].piece \in 1..server.pieces
              /\ \A l \in DOMAIN wire' :
                   k < l /\ wire'[l].kind \in Streams => wire'[k].piece < wire'[l].piece
         /\ \A k \in DOMAIN wire' :
              wire'[k].kind = "ExitStatus" => wire'[k].status = server.status
<1>1. /\ DOMAIN wire' = 1..Len(wire') /\ Len(wire') \in Nat
      /\ \A k \in DOMAIN wire' : k + 1 \in DOMAIN wire /\ wire'[k] = wire[k + 1]
  BY ReadingWire
<1>2. \A k, l \in DOMAIN wire' : k < l => k + 1 < l + 1
  BY <1>1
<1>3. EofEndsOutput'
  BY <1>1, <1>2 DEF SshInv, EofEndsOutput
<1>4. ASSUME NEW k \in DOMAIN wire', wire'[k].kind \in Streams
      PROVE  /\ wire'[k].piece \in 1..server.pieces
             /\ \A l \in DOMAIN wire' :
                  k < l /\ wire'[l].kind \in Streams => wire'[k].piece < wire'[l].piece
  BY <1>1, <1>2, <1>4 DEF SshInv, PiecesInOrder
<1>5. \A k \in DOMAIN wire' : wire'[k].kind = "ExitStatus" => wire'[k].status = server.status
  BY <1>1 DEF SshInv, StatusComes
<1> QED
  BY <1>3, <1>4, <1>5

LEMMA ReadingTypes ==
  ASSUME SshInv, AtStep("waiting"), sshCall' = [at |-> "asking"], collected' \in Collections,
         wire' \in Seq(WireMessages), UNCHANGED <<accepted, server, deadline, sshNow>>
  PROVE  SshTypeOK' /\ OnlyWhenAccepted' /\ ResultsAreTrue'
<1>1. accepted'
  BY DEF SshInv, OnlyWhenAccepted, AtStep
<1>2. SshTypeOK'
  BY DEF SshInv, SshTypeOK
<1>3. OnlyWhenAccepted' /\ ~Succeeded'
  BY <1>1 DEF OnlyWhenAccepted, Succeeded
<1> QED
  BY <1>2, <1>3, NoAnswerYet

\* A piece of the output goes from the wire to the end of its buffer.
LEMMA PieceIsReadInv ==
  ASSUME SshInv, ReceivesMessage, NEW stream \in Streams, Head(wire).kind = stream
  PROVE  SshInv'
<1> DEFINE piece == Head(wire).piece
<1>0. /\ AtStep("waiting") /\ wire # <<>> /\ wire' = Tail(wire)
      /\ collected' = [collected EXCEPT ![stream] = Append(collected[stream], piece)]
      /\ sshCall' = [at |-> "asking"]
      /\ UNCHANGED <<accepted, server, deadline, sshNow>>
  <2>1. stream # "ExitStatus" /\ stream # "Eof"
    BY DEF Streams
  <2> QED
    BY <2>1 DEF ReceivesMessage
<1>1. /\ wire' \in Seq(WireMessages) /\ DOMAIN wire' = 1..Len(wire')
      /\ \A k \in DOMAIN wire' : k + 1 \in DOMAIN wire /\ wire'[k] = wire[k + 1]
      /\ Len(wire') \in Nat
      /\ 1 \in DOMAIN wire /\ Head(wire) = wire[1]
      /\ \A k \in DOMAIN wire : k = 1 \/ (k - 1 \in DOMAIN wire' /\ wire'[k - 1] = wire[k])
  BY <1>0, ReadingWire
<1>2. piece = wire[1].piece /\ wire[1].kind = stream /\ piece \in 1..server.pieces
  BY <1>1 DEF SshInv, PiecesInOrder
<1>3. piece \in 1..MaxPieces
  BY <1>2, SshParts
<1> HIDE DEF piece
<1>4. /\ collected' \in Collections
      /\ collected'.exit_code = collected.exit_code
      /\ collected'[stream] = Append(collected[stream], piece)
      /\ \A other \in Streams : other # stream => collected'[other] = collected[other]
  <2>1. collected \in Collections
    BY SshParts
  <2>2. collected' = WithPiece(collected, stream, piece)
    BY <1>0 DEF WithPiece
  <2> QED
    BY <1>3, <2>1, <2>2, PieceCollected
<1>5. /\ collected[stream] \in Seq(1..MaxPieces) /\ Len(collected[stream]) \in Nat
      /\ DOMAIN collected[stream] = 1..Len(collected[stream])
  BY SshParts, CollectedParts
<1> DEFINE n == Len(collected[stream]) + 1
<1>6. /\ DOMAIN collected'[stream] = 1..n /\ collected'[stream][n] = piece
      /\ \A i \in 1..(n - 1) : collected'[stream][i] = collected[stream][i]
  BY <1>3, <1>4, <1>5, AppendProperties, LenProperties
<1>7. SshTypeOK' /\ OnlyWhenAccepted' /\ ResultsAreTrue'
  BY <1>0, <1>1, <1>4, ReadingTypes
<1>8. /\ EofEndsOutput'
      /\ \A k \in DOMAIN wire' : wire'[k].kind \in Streams =>
           /\ wire'[k].piece \in 1..server.pieces
           /\ \A l \in DOMAIN wire' :
                k < l /\ wire'[l].kind \in Streams => wire'[k].piece < wire'[l].piece
      /\ \A k \in DOMAIN wire' : wire'[k].kind = "ExitStatus" => wire'[k].status = server.status
  BY <1>0, ReadingKeeps
<1>9. ASSUME NEW k \in DOMAIN wire', wire'[k].kind \in Streams
      PROVE  /\ piece < wire'[k].piece
             /\ \A s \in Streams : \A i \in DOMAIN collected[s] :
                  collected[s][i] < wire'[k].piece
  <2>1. k + 1 \in DOMAIN wire /\ 1 < k + 1 /\ wire[k + 1] = wire'[k]
    BY <1>1
  <2> QED
    BY <1>1, <1>2, <1>9, <2>1 DEF SshInv, PiecesInOrder
<1>10. \A s \in Streams : \A i \in DOMAIN collected[s] :
         collected[s][i] \in 1..server.pieces /\ collected[s][i] < piece
  BY <1>1, <1>2 DEF SshInv, PiecesInOrder
<1>11. ASSUME NEW s \in Streams, NEW i \in DOMAIN collected'[s]
       PROVE  /\ collected'[s][i] \in 1..server.pieces
              /\ \A j \in DOMAIN collected'[s] :
                   i < j => collected'[s][i] < collected'[s][j]
              /\ \A k \in DOMAIN wire' :
                   wire'[k].kind \in Streams => collected'[s][i] < wire'[k].piece
  <2>1. CASE s # stream
    BY <1>4, <1>9, <1>11, <2>1 DEF SshInv, PiecesInOrder
  <2>2. CASE s = stream /\ i = n
    BY <1>2, <1>5, <1>6, <1>9, <1>11, <2>2
  <2>3. CASE s = stream /\ i # n
    <3>1. i \in 1..(n - 1) /\ i \in DOMAIN collected[stream]
      BY <1>5, <1>6, <1>11, <2>3
    <3>2. collected'[stream][i] = collected[stream][i]
      BY <1>6, <3>1
    <3>3. ASSUME NEW j \in DOMAIN collected'[stream], i < j
          PROVE  collected'[stream][i] < collected'[stream][j]
      <4>1. CASE j = n
        BY <1>6, <1>10, <3>1, <3>2, <4>1
      <4>2. CASE j # n
        <5>1. j \in 1..(n - 1) /\ j \in DOMAIN collected[stream]
          BY <1>5, <1>6, <3>3, <4>2
        <5> QED
          BY <1>6, <3>1, <3>2, <3>3, <5>1 DEF SshInv, PiecesInOrder
      <4> QED
        BY <4>1, <4>2
    <3> QED
      BY <1>9, <1>10, <2>3, <3>1, <3>2, <3>3
  <2> QED
    BY <2>1, <2>2, <2>3
<1>12. PiecesInOrder'
  BY <1>0, <1>8, <1>11 DEF PiecesInOrder
<1>13. NoPieceIsLost'
  <2>1. ASSUME NEW p \in 1..server.pieces, HasCome(p) PROVE HasCome(p)'
    <3>1. ASSUME NEW s \in Streams, NEW i \in DOMAIN collected[s], collected[s][i] = p
          PROVE  HasCome(p)'
      <4>1. CASE s # stream
        BY <1>4, <3>1, <4>1 DEF HasCome
      <4>2. CASE s = stream
        <5>1. i \in 1..(n - 1) /\ i \in 1..n
          BY <1>5, <3>1, <4>2
        <5> QED
          BY <1>6, <3>1, <4>2, <5>1 DEF HasCome
      <4> QED
        BY <4>1, <4>2
    <3>2. ASSUME NEW k \in DOMAIN wire, wire[k].kind \in Streams, wire[k].piece = p
          PROVE  HasCome(p)'
      <4>1. CASE k = 1
        <5>1. n \in 1..n
          BY <1>5
        <5> QED
          BY <1>2, <1>6, <3>2, <4>1, <5>1 DEF HasCome
      <4>2. CASE k # 1
        BY <1>1, <3>2, <4>2 DEF HasCome
      <4> QED
        BY <4>1, <4>2
    <3> QED
      BY <2>1, <3>1, <3>2 DEF HasCome
  <2>2. ASSUME NEW p \in 1..server.pieces, HasCome(p)' PROVE HasCome(p)
    <3>1. ASSUME NEW s \in Streams, NEW i \in DOMAIN collected'[s], collected'[s][i] = p
          PROVE  HasCome(p)
      <4>1. CASE s # stream
        BY <1>4, <3>1, <4>1 DEF HasCome
      <4>2. CASE s = stream /\ i = n
        BY <1>1, <1>2, <1>6, <3>1, <4>2 DEF HasCome
      <4>3. CASE s = stream /\ i # n
        <5>1. i \in 1..(n - 1) /\ i \in DOMAIN collected[s]
          BY <1>5, <1>6, <3>1, <4>3
        <5> QED
          BY <1>6, <3>1, <4>3, <5>1 DEF HasCome
      <4> QED
        BY <4>1, <4>2, <4>3
    <3>2. ASSUME NEW k \in DOMAIN wire', wire'[k].kind \in Streams, wire'[k].piece = p
          PROVE  HasCome(p)
      BY <1>1, <3>2 DEF HasCome
    <3> QED
      BY <2>2, <3>1, <3>2 DEF HasCome
  <2> QED
    BY <1>0, <2>1, <2>2, ComeStays DEF SshInv
<1>14. StatusComes'
  <2>1. server.told => \/ collected.exit_code = server.status
                       \/ \E k \in DOMAIN wire' : wire'[k].kind = "ExitStatus"
                       \/ server.lost
    <3> SUFFICES ASSUME NEW k \in DOMAIN wire, wire[k].kind = "ExitStatus"
                 PROVE  \E j \in DOMAIN wire' : wire'[j].kind = "ExitStatus"
      BY DEF SshInv, StatusComes
    <3>1. k # 1
      BY <1>2 DEF Streams
    <3> QED
      BY <1>1, <3>1
  <2> QED
    BY <1>0, <1>4, <1>8, <2>1 DEF SshInv, StatusComes
<1> QED
  BY <1>7, <1>8, <1>12, <1>13, <1>14 DEF SshInv

\* The status goes from the wire to where the result keeps it.
LEMMA StatusIsReadInv ==
  ASSUME SshInv, ReceivesMessage, Head(wire).kind = "ExitStatus"
  PROVE  SshInv'
<1>0. /\ AtStep("waiting") /\ wire # <<>> /\ wire' = Tail(wire)
      /\ collected' = [collected EXCEPT !.exit_code = Head(wire).status]
      /\ sshCall' = [at |-> "asking"]
      /\ UNCHANGED <<accepted, server, deadline, sshNow>>
  <2>1. Head(wire).kind \notin Streams /\ Head(wire).kind # "Eof"
    BY DEF Streams
  <2> QED
    BY <2>1 DEF ReceivesMessage
<1>1. /\ wire' \in Seq(WireMessages)
      /\ \A k \in DOMAIN wire' : k + 1 \in DOMAIN wire /\ wire'[k] = wire[k + 1]
      /\ 1 \in DOMAIN wire /\ Head(wire) = wire[1]
      /\ \A k \in DOMAIN wire : k = 1 \/ (k - 1 \in DOMAIN wire' /\ wire'[k - 1] = wire[k])
  BY <1>0, ReadingWire
<1>2. Head(wire).status = server.status
  BY <1>1 DEF SshInv, StatusComes
<1>3. /\ collected' \in Collections
      /\ collected'.exit_code = server.status
      /\ \A stream \in Streams : collected'[stream] = collected[stream]
  <2>1. collected \in Collections /\ server.status \in ExitStatuses
    BY SshParts
  <2>2. collected' = WithStatus(collected, server.status)
    BY <1>0, <1>2 DEF WithStatus
  <2> QED
    BY <2>1, <2>2, CollectedParts
<1>4. SshTypeOK' /\ OnlyWhenAccepted' /\ ResultsAreTrue'
  BY <1>0, <1>1, <1>3, ReadingTypes
<1>5. /\ EofEndsOutput'
      /\ \A k \in DOMAIN wire' : wire'[k].kind \in Streams =>
           /\ wire'[k].piece \in 1..server.pieces
           /\ \A l \in DOMAIN wire' :
                k < l /\ wire'[l].kind \in Streams => wire'[k].piece < wire'[l].piece
      /\ \A k \in DOMAIN wire' : wire'[k].kind = "ExitStatus" => wire'[k].status = server.status
  BY <1>0, ReadingKeeps
<1>6. PiecesInOrder'
  <2>1. ASSUME NEW s \in Streams, NEW i \in DOMAIN collected'[s]
        PROVE  /\ collected'[s][i] \in 1..server.pieces
               /\ \A j \in DOMAIN collected'[s] :
                    i < j => collected'[s][i] < collected'[s][j]
               /\ \A k \in DOMAIN wire' :
                    wire'[k].kind \in Streams => collected'[s][i] < wire'[k].piece
    <3>1. collected'[s] = collected[s]
      BY <1>3
    <3> QED
      BY <1>1, <2>1, <3>1 DEF SshInv, PiecesInOrder
  <2> QED
    BY <1>0, <1>5, <2>1 DEF PiecesInOrder
<1>7. NoPieceIsLost'
  <2>1. \A k \in DOMAIN wire : wire[k].kind \in Streams => k # 1
    BY <1>1 DEF Streams
  <2>2. \A p \in 1..server.pieces : HasCome(p)' <=> HasCome(p)
    BY <1>1, <1>3, <2>1 DEF HasCome
  <2> QED
    BY <1>0, <2>2, ComeStays DEF SshInv
<1>8. StatusComes'
  BY <1>0, <1>3, <1>5 DEF SshInv, StatusComes
<1> QED
  BY <1>4, <1>5, <1>6, <1>7, <1>8 DEF SshInv

\* The end of the output is the answer.
LEMMA EofIsReadInv ==
  ASSUME SshInv, ReceivesMessage, Head(wire).kind = "Eof"
  PROVE  SshInv'
<1>0. /\ sshCall.at = "waiting" /\ wire # <<>> /\ wire' = Tail(wire)
      /\ Answers(Result)
      /\ UNCHANGED <<collected, accepted, server, deadline, sshNow>>
  <2>1. Head(wire).kind \notin Streams /\ Head(wire).kind # "ExitStatus"
    BY DEF Streams
  <2> QED
    BY <2>1 DEF ReceivesMessage, AtStep
<1>1. /\ wire' \in Seq(WireMessages) /\ DOMAIN wire' \subseteq Nat \ {0}
      /\ \A k \in DOMAIN wire' : k + 1 \in DOMAIN wire /\ wire'[k] = wire[k + 1]
      /\ 1 \in DOMAIN wire /\ Head(wire) = wire[1]
      /\ \A k \in DOMAIN wire : k = 1 \/ (k - 1 \in DOMAIN wire' /\ wire'[k - 1] = wire[k])
  BY <1>0, ReadingWire
<1>2. ASSUME NEW k \in DOMAIN wire
      PROVE  /\ wire[k].kind \notin Streams
             /\ wire[k].kind = "ExitStatus" => server.cut
  <2>1. CASE k = 1
    BY <1>1, <2>1 DEF Streams
  <2>2. CASE k # 1
    <3>1. 1 < k
      BY <2>2, SshParts
    <3> QED
      BY <1>1, <3>1 DEF SshInv, EofEndsOutput
  <2> QED
    BY <2>1, <2>2
<1>3. ResultsAreTrue'
  BY <1>0, <1>2, AnswerIsTrue
<1>4. SshTypeOK' /\ OnlyWhenAccepted'
  BY <1>0, <1>1, AnswerTypes
<1>5. /\ EofEndsOutput'
      /\ \A k \in DOMAIN wire' : wire'[k].kind \in Streams =>
           /\ wire'[k].piece \in 1..server.pieces
           /\ \A l \in DOMAIN wire' :
                k < l /\ wire'[l].kind \in Streams => wire'[k].piece < wire'[l].piece
      /\ \A k \in DOMAIN wire' : wire'[k].kind = "ExitStatus" => wire'[k].status = server.status
  BY <1>0, ReadingKeeps
<1>6. PiecesInOrder'
  BY <1>0, <1>1, <1>5 DEF SshInv, PiecesInOrder
<1>7. NoPieceIsLost'
  <2>1. \A k \in DOMAIN wire' : wire'[k].kind \notin Streams
    BY <1>1, <1>2
  <2>2. \A p \in 1..server.pieces : HasCome(p)' <=> HasCome(p)
    BY <1>0, <1>2, <2>1 DEF HasCome
  <2> QED
    BY <1>0, <2>2, ComeStays DEF SshInv
<1>8. StatusComes'
  <2>1. \A k \in DOMAIN wire : wire[k].kind = "ExitStatus" => k # 1
    BY <1>1
  <2>2. server.told => \/ collected.exit_code = server.status
                       \/ \E k \in DOMAIN wire' : wire'[k].kind = "ExitStatus"
                       \/ server.lost
    BY <1>1, <2>1 DEF SshInv, StatusComes
  <2>3. collected.exit_code \in {0, server.status}
    BY DEF SshInv, StatusComes
  <2> QED
    BY <1>0, <1>5, <2>2, <2>3 DEF StatusComes
<1> QED
  BY <1>3, <1>4, <1>5, <1>6, <1>7, <1>8 DEF SshInv

LEMMA AllHaveCome ==
  ASSUME ~server'.lost, \A p \in 1..server'.pieces : HasCome(p)'
  PROVE  NoPieceIsLost'
BY DEF NoPieceIsLost

\* The server sends one message more.
LEMMA SendingWire ==
  ASSUME SshInv, NEW message \in WireMessages, NEW does, ServerSends(message, does)
  PROVE  /\ wire' \in Seq(WireMessages)
         /\ DOMAIN wire' = 1..(Len(wire) + 1) /\ DOMAIN wire = 1..Len(wire) /\ Len(wire) \in Nat
         /\ wire'[Len(wire) + 1] = message
         /\ \A k \in DOMAIN wire : wire'[k] = wire[k]
         /\ server' = does /\ UNCHANGED <<sshCall, accepted, collected, deadline, sshNow>>
         /\ accepted /\ ~Succeeded' /\ OnlyWhenAccepted'
         /\ ~server.lost /\ \A p \in 1..server.pieces : HasCome(p)'
<1>1. /\ wire \in Seq(WireMessages) /\ Len(wire) \in Nat /\ DOMAIN wire = 1..Len(wire)
  BY SshParts
<1>2. /\ wire' = Append(wire, message) /\ server' = does
      /\ UNCHANGED <<sshCall, accepted, collected, deadline, sshNow>>
      /\ sshCall.at \in {"asking", "waiting"}
  BY DEF ServerSends, Running
<1>3. /\ wire' \in Seq(WireMessages) /\ Len(wire') = Len(wire) + 1
      /\ \A k \in 1..Len(wire) : wire'[k] = wire[k]
      /\ wire'[Len(wire) + 1] = message
  BY <1>1, <1>2, AppendProperties
<1>4. DOMAIN wire' = 1..Len(wire')
  BY <1>3, LenProperties
<1>5. accepted /\ ~Succeeded' /\ OnlyWhenAccepted'
  BY <1>2 DEF SshInv, OnlyWhenAccepted, Succeeded
<1>6. ~server.lost
  BY DEF SshInv, NoPieceIsLost, ServerSends, Running
<1>7. ASSUME NEW p \in 1..server.pieces PROVE HasCome(p)'
  <2>1. HasCome(p)
    BY <1>6 DEF SshInv, NoPieceIsLost
  <2>2. \A k \in DOMAIN wire : k \in DOMAIN wire' /\ wire'[k] = wire[k]
    BY <1>1, <1>3, <1>4
  <2> QED
    BY <1>2, <2>1, <2>2 DEF HasCome
<1> QED
  BY <1>1, <1>2, <1>3, <1>4, <1>5, <1>6, <1>7

ServerFields == [status : ExitStatuses, pieces : 0..MaxPieces, told : BOOLEAN,
                 ended : BOOLEAN, closed : BOOLEAN, cut : BOOLEAN,
                 lost : BOOLEAN]

LEMMA SendsOutputInv ==
  ASSUME SshInv, NEW stream \in Streams, SendsOutput(stream)
  PROVE  SshInv'
<1> DEFINE p == server.pieces + 1
           message == [kind |-> stream, piece |-> p]
           n == Len(wire) + 1
<1>1. /\ server.pieces \in 0..MaxPieces /\ MaxPieces \in Nat
      /\ server.pieces < MaxPieces /\ ~server.ended
      /\ server \in ServerFields
  BY SshParts DEF SendsOutput, SshInv, SshTypeOK, ServerFields
<1>2. message \in WireMessages /\ message.kind = stream /\ message.piece = p
  BY <1>1 DEF WireMessages
<1>3. ServerSends(message, [server EXCEPT !.pieces = p])
  BY DEF SendsOutput
<1> HIDE DEF message
<1>4. /\ wire' \in Seq(WireMessages) /\ DOMAIN wire' = 1..n
      /\ DOMAIN wire = 1..Len(wire) /\ Len(wire) \in Nat
      /\ wire'[n] = message /\ \A k \in DOMAIN wire : wire'[k] = wire[k]
      /\ server' = [server EXCEPT !.pieces = p]
      /\ UNCHANGED <<sshCall, accepted, collected, deadline, sshNow>>
      /\ ~Succeeded' /\ OnlyWhenAccepted'
      /\ ~server.lost /\ \A q \in 1..server.pieces : HasCome(q)'
  BY <1>2, <1>3, SendingWire
<1>5. /\ server' \in ServerFields /\ server'.pieces = p /\ p \in 1..p
      /\ server'.status = server.status /\ server'.told = server.told
      /\ server'.ended = server.ended /\ server'.cut = server.cut
      /\ server'.lost = server.lost
      /\ \A i \in 1..p : i \in 1..server.pieces \/ i = p
      /\ \A i \in 1..server.pieces : i \in 1..p /\ i < p
  BY <1>1, <1>4 DEF ServerFields
<1> HIDE DEF p
<1>6. SshTypeOK'
  BY <1>4, <1>5 DEF SshInv, SshTypeOK, ServerFields
<1>7. \A k \in DOMAIN wire' : k = n \/ (k \in DOMAIN wire /\ wire'[k] = wire[k] /\ k < n)
  BY <1>4
<1> HIDE DEF n
<1>8. PiecesInOrder'
  <2>1. ASSUME NEW k \in DOMAIN wire', wire'[k].kind \in Streams
        PROVE  /\ wire'[k].piece \in 1..p
               /\ \A l \in DOMAIN wire' :
                    k < l /\ wire'[l].kind \in Streams => wire'[k].piece < wire'[l].piece
    <3>1. CASE k = n
      <4>1. \A l \in DOMAIN wire' : ~(k < l)
        BY <1>4, <3>1 DEF n
      <4> QED
        BY <1>2, <1>4, <1>5, <3>1, <4>1
    <3>2. CASE k \in DOMAIN wire /\ wire'[k] = wire[k]
      <4>1. wire[k].piece \in 1..server.pieces
        BY <2>1, <3>2 DEF SshInv, PiecesInOrder
      <4>2. ASSUME NEW l \in DOMAIN wire', k < l, wire'[l].kind \in Streams
            PROVE  wire'[k].piece < wire'[l].piece
        <5>1. CASE l = n
          BY <1>2, <1>4, <1>5, <3>2, <4>1, <5>1
        <5>2. CASE l \in DOMAIN wire /\ wire'[l] = wire[l]
          BY <2>1, <3>2, <4>2, <5>2 DEF SshInv, PiecesInOrder
        <5> QED
          BY <1>7, <5>1, <5>2
      <4> QED
        BY <1>5, <3>2, <4>1, <4>2
    <3> QED
      BY <1>7, <3>1, <3>2
  <2>2. ASSUME NEW s \in Streams, NEW i \in DOMAIN collected[s]
        PROVE  /\ collected[s][i] \in 1..p
               /\ \A j \in DOMAIN collected[s] : i < j => collected[s][i] < collected[s][j]
               /\ \A k \in DOMAIN wire' :
                    wire'[k].kind \in Streams => collected[s][i] < wire'[k].piece
    <3>1. /\ collected[s][i] \in 1..server.pieces
          /\ \A j \in DOMAIN collected[s] : i < j => collected[s][i] < collected[s][j]
          /\ \A k \in DOMAIN wire : wire[k].kind \in Streams => collected[s][i] < wire[k].piece
      BY DEF SshInv, PiecesInOrder
    <3>2. collected[s][i] \in 1..p /\ collected[s][i] < p
      BY <1>5, <3>1
    <3> QED
      BY <1>2, <1>4, <1>7, <3>1, <3>2
  <2> QED
    BY <1>4, <1>5, <2>1, <2>2 DEF PiecesInOrder
<1>9. NoPieceIsLost'
  <2>1. n \in DOMAIN wire'
    BY <1>4 DEF n
  <2>2. PICK last : last = p
    OBVIOUS
  <2>3. HasCome(last)'
    BY <1>2, <1>4, <2>1, <2>2 DEF HasCome
  <2>4. \A q \in 1..server'.pieces : q \in 1..server.pieces \/ q = last
    BY <1>5, <2>2
  <2>5. \A q \in 1..server'.pieces : HasCome(q)'
    BY <1>4, <2>3, <2>4
  <2> QED
    BY <1>4, <1>5, <2>5, AllHaveCome
<1>10. message.kind # "ExitStatus" /\ message.kind # "Eof"
  BY <1>2 DEF Streams
<1>11. StatusComes'
  <2>1. \A k \in DOMAIN wire : k \in DOMAIN wire'
    BY <1>4 DEF n
  <2> QED
    BY <1>4, <1>5, <1>7, <1>10, <2>1 DEF SshInv, StatusComes
<1>12. EofEndsOutput'
  <2>1. \A k \in DOMAIN wire' : wire'[k].kind # "Eof"
    BY <1>1, <1>4, <1>7, <1>10 DEF SshInv, EofEndsOutput
  <2> QED
    BY <2>1 DEF EofEndsOutput
<1> QED
  BY <1>4, <1>6, <1>8, <1>9, <1>11, <1>12, NoAnswerYet DEF SshInv

LEMMA SendsStatusInv == SshInv /\ SendsStatus => SshInv'
<1> SUFFICES ASSUME SshInv, SendsStatus PROVE SshInv'
  OBVIOUS
<1> DEFINE message == [kind |-> "ExitStatus", status |-> server.status]
           does == [server EXCEPT !.told = TRUE, !.cut = server.ended]
           n == Len(wire) + 1
<1>1. server \in ServerFields
  BY DEF SshInv, SshTypeOK, ServerFields
<1>2. message \in WireMessages /\ message.kind = "ExitStatus" /\ message.status = server.status
  BY <1>1 DEF WireMessages, ServerFields
<1>3. ServerSends(message, does)
  BY DEF SendsStatus
<1>4. /\ does \in ServerFields /\ does.pieces = server.pieces /\ does.status = server.status
      /\ does.ended = server.ended /\ does.cut = server.ended /\ does.lost = server.lost
  <2>1. PICK e \in BOOLEAN : e = server.ended
    BY <1>1 DEF ServerFields
  <2>2. does = [server EXCEPT !.told = TRUE, !.cut = e]
    BY <2>1
  <2> HIDE DEF does
  <2> QED
    BY <1>1, <2>1, <2>2 DEF ServerFields
<1> HIDE DEF message, does
<1>5. /\ wire' \in Seq(WireMessages) /\ DOMAIN wire' = 1..n
      /\ DOMAIN wire = 1..Len(wire) /\ Len(wire) \in Nat
      /\ wire'[n] = message /\ \A k \in DOMAIN wire : wire'[k] = wire[k]
      /\ server' = does
      /\ UNCHANGED <<sshCall, accepted, collected, deadline, sshNow>>
      /\ ~Succeeded' /\ OnlyWhenAccepted'
      /\ ~server.lost /\ \A q \in 1..server.pieces : HasCome(q)'
  BY <1>2, <1>3, SendingWire
<1>6. SshTypeOK'
  BY <1>4, <1>5 DEF SshInv, SshTypeOK, ServerFields
<1>7. \A k \in DOMAIN wire' : k = n \/ (k \in DOMAIN wire /\ wire'[k] = wire[k])
  BY <1>5
<1>8. n \in DOMAIN wire' /\ \A k \in DOMAIN wire : k \in DOMAIN wire' /\ k < n
  BY <1>5
<1> HIDE DEF n
<1>9. message.kind \notin Streams /\ message.kind # "Eof"
  BY <1>2 DEF Streams
<1>10. PiecesInOrder'
  BY <1>4, <1>5, <1>7, <1>9 DEF SshInv, PiecesInOrder
<1>11. NoPieceIsLost'
  BY <1>4, <1>5, AllHaveCome
<1>12. StatusComes'
  BY <1>2, <1>4, <1>5, <1>7, <1>8 DEF SshInv, StatusComes
<1>13. EofEndsOutput'
  <2> SUFFICES ASSUME NEW k \in DOMAIN wire', wire'[k].kind = "Eof"
               PROVE  /\ server'.ended
                      /\ \A l \in DOMAIN wire' : k < l =>
                           /\ wire'[l].kind \notin Streams
                           /\ wire'[l].kind = "ExitStatus" => server'.cut
    BY DEF EofEndsOutput
  <2>1. k \in DOMAIN wire /\ wire'[k] = wire[k]
    BY <1>5, <1>7, <1>9
  <2>2. server.ended /\ server'.ended /\ server'.cut
    BY <1>4, <1>5, <2>1 DEF SshInv, EofEndsOutput
  <2>3. \A l \in DOMAIN wire : k < l => wire[l].kind \notin Streams
    BY <2>1 DEF SshInv, EofEndsOutput
  <2> QED
    BY <1>5, <1>7, <1>9, <2>2, <2>3
<1> QED
  BY <1>5, <1>6, <1>10, <1>11, <1>12, <1>13, NoAnswerYet DEF SshInv

LEMMA SendsEofInv == SshInv /\ SendsEof => SshInv'
<1> SUFFICES ASSUME SshInv, SendsEof PROVE SshInv'
  OBVIOUS
<1> DEFINE message == [kind |-> "Eof"]
           does == [server EXCEPT !.ended = TRUE, !.cut = ~server.told]
           n == Len(wire) + 1
<1>1. server \in ServerFields /\ ~server.ended
  BY DEF SshInv, SshTypeOK, ServerFields, SendsEof
<1>2. message \in WireMessages /\ message.kind = "Eof"
  BY DEF WireMessages
<1>3. ServerSends(message, does)
  BY DEF SendsEof
<1>4. /\ does \in ServerFields /\ does.pieces = server.pieces /\ does.status = server.status
      /\ does.ended /\ does.told = server.told /\ does.lost = server.lost
  <2>1. PICK e \in BOOLEAN : e = ~server.told
    OBVIOUS
  <2>2. does = [server EXCEPT !.ended = TRUE, !.cut = e]
    BY <2>1
  <2> HIDE DEF does
  <2> QED
    BY <1>1, <2>1, <2>2 DEF ServerFields
<1> HIDE DEF message, does
<1>5. /\ wire' \in Seq(WireMessages) /\ DOMAIN wire' = 1..n
      /\ DOMAIN wire = 1..Len(wire) /\ Len(wire) \in Nat
      /\ wire'[n] = message /\ \A k \in DOMAIN wire : wire'[k] = wire[k]
      /\ server' = does
      /\ UNCHANGED <<sshCall, accepted, collected, deadline, sshNow>>
      /\ ~Succeeded' /\ OnlyWhenAccepted'
      /\ ~server.lost /\ \A q \in 1..server.pieces : HasCome(q)'
  BY <1>2, <1>3, SendingWire
<1>6. SshTypeOK'
  BY <1>4, <1>5 DEF SshInv, SshTypeOK, ServerFields
<1>7. \A k \in DOMAIN wire' : k = n \/ (k \in DOMAIN wire /\ wire'[k] = wire[k])
  BY <1>5
<1>8. n \in DOMAIN wire' /\ (\A l \in DOMAIN wire' : ~(n < l)) /\ DOMAIN wire \subseteq DOMAIN wire'
  BY <1>5
<1> HIDE DEF n
<1>9. message.kind \notin Streams /\ message.kind # "ExitStatus"
  BY <1>2 DEF Streams
<1>10. PiecesInOrder'
  BY <1>4, <1>5, <1>7, <1>9 DEF SshInv, PiecesInOrder
<1>11. NoPieceIsLost'
  BY <1>4, <1>5, AllHaveCome
<1>12. StatusComes'
  BY <1>4, <1>5, <1>7, <1>8, <1>9 DEF SshInv, StatusComes
<1>13. EofEndsOutput'
  <2>1. \A k \in DOMAIN wire' : wire'[k].kind = "Eof" => k = n
    BY <1>1, <1>7 DEF SshInv, EofEndsOutput
  <2> QED
    BY <1>4, <1>5, <1>8, <2>1 DEF EofEndsOutput
<1> QED
  BY <1>5, <1>6, <1>10, <1>11, <1>12, <1>13, NoAnswerYet DEF SshInv

LEMMA SshStepInv ==
  ASSUME SshInv, [SshNext]_sshVars
  PROVE  SshInv'
<1>1. CASE ReceivesMessage
  <2>1. Head(wire).kind \in Streams \cup {"ExitStatus", "Eof"}
    <3>1. wire # <<>>
      BY <1>1 DEF ReceivesMessage
    <3>2. Head(wire) \in WireMessages
      BY <3>1, SshParts, HeadTailProperties
    <3> QED
      BY <3>2, MessageParts
  <2> QED
    BY <1>1, <2>1, PieceIsReadInv, StatusIsReadInv, EofIsReadInv
<1>2. CASE UNCHANGED sshVars
  <2>1. UNCHANGED <<sshCall, accepted, wire, server, collected, deadline, sshNow>>
    BY <1>2 DEF sshVars
  <2>2. SshTypeOK' /\ OnlyWhenAccepted' /\ ResultsAreTrue'
    BY <2>1 DEF SshInv, SshTypeOK, OnlyWhenAccepted, ResultsAreTrue, Succeeded
  <2> QED
    BY <2>1, <2>2, QuietInv DEF SshInv
<1>3. CASE \/ \E how \in {"timeout", "failed", "through"} : ConnectEnds(how)
           \/ \E how \in {"accepted", "rejected", "failed"} : Authenticates(how)
           \/ \E fails \in BOOLEAN : OpensChannel(fails)
           \/ AsksDeadline
  BY <1>3, SshCallsInv
<1>4. ASSUME NEW stream \in Streams, SendsOutput(stream) PROVE SshInv'
  BY <1>4, SendsOutputInv
<1> QED
  BY <1>1, <1>2, <1>3, <1>4, ChannelIsClosedInv, SendsStatusInv, SendsEofInv,
     ChannelClosesInv, ConnectionLostInv, SshTickInv DEF SshNext

\* A command that succeeds gives back what it wrote, in order and without a gap,
\* up to its end unless the connection was lost, and the status it ended with, but
\* for a zero when the connection was lost or the output cut; however many pieces
\* there are and whenever the server sends, ends and goes away (yma-ssh, execute).
THEOREM SshResultsAreTrue == SshSpec => []ResultsAreTrue
<1>1. SshInit => SshInv
  BY SshInitInv
<1>2. SshInv /\ [SshNext]_sshVars => SshInv'
  BY SshStepInv
<1>3. SshInv => ResultsAreTrue
  BY DEF SshInv
<1> QED
  BY <1>1, <1>2, <1>3, PTL DEF SshSpec


-----------------------------------------------------------------------------
(***************************************************************************)
(* The services side by side.  A step of Services is a step of the service *)
(* that is looked at and changes nothing of any other: a behaviour of all  *)
(* of them is a behaviour of each, and what was proved of each holds.  The *)
(* roles are in two services: alone, and with the accounts.                *)
(***************************************************************************)
\* A step of one service leaves the others as they are.
LEMMA OtherServicesStay ==
  ASSUME NEW name, Others(name)
  PROVE  /\ service = name /\ service' = service
         /\ name # "social" => UNCHANGED socialVars
         /\ name # "scheduler" => UNCHANGED schedulerVars
         /\ name # "events" => UNCHANGED busVars
         /\ name # "websocket" => UNCHANGED wsVars
         /\ name # "p2p" => UNCHANGED nodeVars
         /\ name # "migration" => UNCHANGED migrationVars
         /\ name # "sandbox" => UNCHANGED sandboxVars
         /\ name # "health" => UNCHANGED healthVars
         /\ name # "redis" => UNCHANGED redisVars
         /\ name # "limiter" => UNCHANGED limiterVars
         /\ name # "mfa" => UNCHANGED mfaVars
         /\ name # "sso" => UNCHANGED ssoVars
         /\ name # "apikeys" => UNCHANGED apiKeyVars
         /\ name # "keypool" => UNCHANGED poolVars
         /\ name # "storage" => UNCHANGED storageVars
         /\ name # "versions" => UNCHANGED versionVars
         /\ name # "audit" => UNCHANGED auditVars
         /\ name # "config" => UNCHANGED configVars
         /\ name # "logging" => UNCHANGED logVars
         /\ name # "ssh" => UNCHANGED sshVars
         /\ name # "search" => UNCHANGED searchVars
         /\ name # "accounts" => UNCHANGED accountVars
         /\ name \notin {"accounts", "roles"} => UNCHANGED roleVars
         /\ UNCHANGED input
BY DEF Others

\* A step of all services is one of each, or leaves it as it is.
LEMMA ServicesStep ==
  ASSUME [ServicesNext]_servicesVars
  PROVE  /\ service' = service /\ UNCHANGED input
         /\ [SocialNext]_socialVars
         /\ [SchedulerNext]_schedulerVars
         /\ [BusNext]_busVars
         /\ [WsNext]_wsVars
         /\ [NodeNext]_nodeVars
         /\ [MigrationNext]_migrationVars
         /\ [SandboxNext]_sandboxVars
         /\ [HealthNext]_healthVars
         /\ [RedisNext]_redisVars
         /\ [LimiterNext]_limiterVars
         /\ [MfaNext]_mfaVars
         /\ [SsoNext]_ssoVars
         /\ [ApiKeysNext]_apiKeyVars
         /\ [PoolsNext]_poolVars
         /\ [StorageNext]_storageVars
         /\ [VersionsNext]_versionVars
         /\ [AuditNext]_auditVars
         /\ [ConfigNext]_configVars
         /\ [LogNext]_logVars
         /\ [SshNext]_sshVars
         /\ [SearchNext]_searchVars
         /\ service = "roles" => [RolesNext]_roleVars /\ UNCHANGED accountVars
         /\ service # "roles" => [AccountsNext]_<<roleVars, accountVars>>
<1>1. CASE UNCHANGED servicesVars
  <2>1. /\ UNCHANGED service /\ UNCHANGED input /\ UNCHANGED roleVars /\ UNCHANGED accountVars
        /\ UNCHANGED socialVars /\ UNCHANGED schedulerVars /\ UNCHANGED busVars
        /\ UNCHANGED wsVars /\ UNCHANGED nodeVars /\ UNCHANGED migrationVars
        /\ UNCHANGED sandboxVars /\ UNCHANGED healthVars
        /\ UNCHANGED redisVars /\ UNCHANGED limiterVars /\ UNCHANGED mfaVars
        /\ UNCHANGED ssoVars /\ UNCHANGED apiKeyVars /\ UNCHANGED poolVars
        /\ UNCHANGED storageVars /\ UNCHANGED versionVars /\ UNCHANGED auditVars
        /\ UNCHANGED configVars /\ UNCHANGED logVars /\ UNCHANGED sshVars
        /\ UNCHANGED searchVars
    BY <1>1 DEF servicesVars
  <2> QED
    BY <2>1
<1>2. CASE Others("social") /\ SocialNext
  BY <1>2, OtherServicesStay
<1>3. CASE Others("scheduler") /\ SchedulerNext
  BY <1>3, OtherServicesStay
<1>4. CASE Others("events") /\ BusNext
  BY <1>4, OtherServicesStay
<1>5. CASE Others("websocket") /\ WsNext
  BY <1>5, OtherServicesStay
<1>6. CASE Others("p2p") /\ NodeNext
  BY <1>6, OtherServicesStay
<1>7. CASE Others("migration") /\ MigrationNext
  BY <1>7, OtherServicesStay
<1>8. CASE Others("sandbox") /\ SandboxNext
  BY <1>8, OtherServicesStay
<1>9. CASE Others("health") /\ HealthNext
  BY <1>9, OtherServicesStay
<1>10. CASE Others("redis") /\ RedisNext
  BY <1>10, OtherServicesStay
<1>11. CASE Others("limiter") /\ LimiterNext
  BY <1>11, OtherServicesStay
<1>12. CASE Others("mfa") /\ MfaNext
  BY <1>12, OtherServicesStay
<1>13. CASE Others("sso") /\ SsoNext
  BY <1>13, OtherServicesStay
<1>14. CASE Others("apikeys") /\ ApiKeysNext
  BY <1>14, OtherServicesStay
<1>15. CASE Others("keypool") /\ PoolsNext
  BY <1>15, OtherServicesStay
<1>16. CASE Others("storage") /\ StorageNext
  BY <1>16, OtherServicesStay
<1>17. CASE Others("versions") /\ VersionsNext
  BY <1>17, OtherServicesStay
<1>18. CASE Others("audit") /\ AuditNext
  BY <1>18, OtherServicesStay
<1>19. CASE Others("config") /\ ConfigNext
  BY <1>19, OtherServicesStay
<1>20. CASE Others("logging") /\ LogNext
  BY <1>20, OtherServicesStay
<1>21. CASE Others("ssh") /\ SshNext
  BY <1>21, OtherServicesStay
<1>22. CASE Others("search") /\ SearchNext
  BY <1>22, OtherServicesStay
<1>23. CASE Others("roles") /\ RolesNext
  BY <1>23, OtherServicesStay
<1>24. CASE Others("accounts") /\ AccountsNext
  BY <1>24, OtherServicesStay
<1>25. CASE ServicesNext
  BY <1>25,
     <1>2, <1>3, <1>4, <1>5, <1>6, <1>7, <1>8, <1>9, <1>10, <1>11, <1>12, <1>13,
     <1>14, <1>15, <1>16, <1>17, <1>18, <1>19, <1>20, <1>21, <1>22, <1>23, <1>24
  DEF ServicesNext
<1> QED
  BY <1>1, <1>25

\* A behaviour of the services side by side is one of each.
LEMMA ServicesImplyEach ==
  ServicesSpec =>
    /\ SocialSpec /\ SchedulerSpec /\ BusSpec
    /\ (WsInit /\ [][WsNext]_wsVars) /\ NodeSpec /\ (MigrationInit /\ [][MigrationNext]_migrationVars)
    /\ SandboxSpec /\ HealthSpec
    /\ RedisSpec /\ LimiterSpec /\ MfaSpec
    /\ SsoSpec /\ ApiKeysSpec /\ PoolsSpec
    /\ StorageSpec /\ VersionsSpec /\ AuditSpec
    /\ ConfigSpec /\ LogSpec /\ SshSpec
    /\ SearchSpec
<1>1. ServicesInit =>
        /\ SocialInit /\ SchedulerInit /\ BusInit /\ WsInit
        /\ NodeInit /\ MigrationInit /\ SandboxInit
        /\ HealthInit /\ RedisInit /\ LimiterInit /\ MfaInit
        /\ SsoInit /\ ApiKeysInit /\ PoolsInit /\ StorageInit
        /\ VersionsInit /\ AuditInit /\ ConfigInit /\ LogInit
        /\ SshInit /\ SearchInit
  BY DEF ServicesInit, LogStart, SshStart
<1>2. [ServicesNext]_servicesVars =>
        /\ [SocialNext]_socialVars /\ [SchedulerNext]_schedulerVars /\ [BusNext]_busVars
        /\ [WsNext]_wsVars /\ [NodeNext]_nodeVars /\ [MigrationNext]_migrationVars
        /\ [SandboxNext]_sandboxVars /\ [HealthNext]_healthVars
        /\ [RedisNext]_redisVars /\ [LimiterNext]_limiterVars /\ [MfaNext]_mfaVars
        /\ [SsoNext]_ssoVars /\ [ApiKeysNext]_apiKeyVars /\ [PoolsNext]_poolVars
        /\ [StorageNext]_storageVars /\ [VersionsNext]_versionVars /\ [AuditNext]_auditVars
        /\ [ConfigNext]_configVars /\ [LogNext]_logVars /\ [SshNext]_sshVars
        /\ [SearchNext]_searchVars
  BY ServicesStep
<1>3. ServicesSpec => SocialSpec
  BY <1>1, <1>2, PTL DEF ServicesSpec, SocialSpec
<1>4. ServicesSpec => SchedulerSpec
  BY <1>1, <1>2, PTL DEF ServicesSpec, SchedulerSpec
<1>5. ServicesSpec => BusSpec
  BY <1>1, <1>2, PTL DEF ServicesSpec, BusSpec
<1>6. ServicesSpec => WsInit /\ [][WsNext]_wsVars
  BY <1>1, <1>2, PTL DEF ServicesSpec
<1>7. ServicesSpec => NodeSpec
  BY <1>1, <1>2, PTL DEF ServicesSpec, NodeSpec
<1>8. ServicesSpec => MigrationInit /\ [][MigrationNext]_migrationVars
  BY <1>1, <1>2, PTL DEF ServicesSpec
<1>9. ServicesSpec => SandboxSpec
  BY <1>1, <1>2, PTL DEF ServicesSpec, SandboxSpec
<1>10. ServicesSpec => HealthSpec
  BY <1>1, <1>2, PTL DEF ServicesSpec, HealthSpec
<1>11. ServicesSpec => RedisSpec
  BY <1>1, <1>2, PTL DEF ServicesSpec, RedisSpec
<1>12. ServicesSpec => LimiterSpec
  BY <1>1, <1>2, PTL DEF ServicesSpec, LimiterSpec
<1>13. ServicesSpec => MfaSpec
  BY <1>1, <1>2, PTL DEF ServicesSpec, MfaSpec
<1>14. ServicesSpec => SsoSpec
  BY <1>1, <1>2, PTL DEF ServicesSpec, SsoSpec
<1>15. ServicesSpec => ApiKeysSpec
  BY <1>1, <1>2, PTL DEF ServicesSpec, ApiKeysSpec
<1>16. ServicesSpec => PoolsSpec
  BY <1>1, <1>2, PTL DEF ServicesSpec, PoolsSpec
<1>17. ServicesSpec => StorageSpec
  BY <1>1, <1>2, PTL DEF ServicesSpec, StorageSpec
<1>18. ServicesSpec => VersionsSpec
  BY <1>1, <1>2, PTL DEF ServicesSpec, VersionsSpec
<1>19. ServicesSpec => AuditSpec
  BY <1>1, <1>2, PTL DEF ServicesSpec, AuditSpec
<1>20. ServicesSpec => ConfigSpec
  BY <1>1, <1>2, PTL DEF ServicesSpec, ConfigSpec
<1>21. ServicesSpec => LogSpec
  BY <1>1, <1>2, PTL DEF ServicesSpec, LogSpec
<1>22. ServicesSpec => SshSpec
  BY <1>1, <1>2, PTL DEF ServicesSpec, SshSpec
<1>23. ServicesSpec => SearchSpec
  BY <1>1, <1>2, PTL DEF ServicesSpec, SearchSpec
<1> QED
  BY <1>3, <1>4, <1>5, <1>6, <1>7, <1>8, <1>9, <1>10, <1>11, <1>12, <1>13, <1>14,
     <1>15, <1>16, <1>17, <1>18, <1>19, <1>20, <1>21, <1>22, <1>23

\* In every behaviour of the services a backup code passes once for each time it
\* was given out, the answer to a sign-on's state is taken once, and a pool hands
\* out no key that was disabled, used up or removed, whatever else is served
\* (yma-auth, yma-crypto).
THEOREM CredentialsHoldForEver == ServicesSpec => []CredentialsHold
<1>1. SecondFactorHolds /\ StatesAnsweredOnce /\ PoolsHold => CredentialsHold
  BY DEF CredentialsHold
<1> QED
  BY <1>1, ServicesImplyEach, MfaSecondFactorHolds, SsoStatesAnsweredOnce, KeyPoolsHold, PTL

\* In every behaviour of the services what is measured and answered is what
\* happened: the peak of the sizes sampled, verdicts of health checks, pages and
\* totals, versions, what is told of a configuration by updates that do not
\* overlap, bounds of log files, changes of search indexes whose tasks succeeded,
\* the relations and lists of users.
THEOREM AnswersHoldForEver == ServicesSpec => []AnswersAreTrue
<1>1. PeakIsLargest /\ ReportsAreTrue /\ PagesMatchTotal /\ VersionsHold
        /\ ConfigFollowed /\ LogFilesBounded /\ ChangesAreSeen
        /\ SocialViewsAgree => AnswersAreTrue
  <2>1. PagesCutUp /\ SearchedPagesAgree
    BY PagesAreCutUp, SearchedPagesDoAgree
  <2> QED
    BY <2>1 DEF AnswersAreTrue
<1> QED
  BY <1>1, ServicesImplyEach, SandboxPeakIsLargest, HealthReportsAreTrue,
     AuditPagesMatch, VersionsHoldForEver, ConfigIsFollowed, LogFilesStayBounded,
     SearchChangesAreSeen, SocialViewsDoAgree, PTL

\* What is decided about accounts and roles: what holds of the service looked at.
DecisionsInv ==
  /\ service = "roles" => RolesInv /\ AccountsTypeOK
  /\ service # "roles" => AccountsInv

LEMMA DecisionsHold == ServicesSpec => []DecisionsInv
<1>1. ServicesInit => DecisionsInv
  <2>1. AccountsInv => AccountsTypeOK
    BY DEF AccountsInv
  <2> QED
    BY <2>1, RolesInitInv, AccountsInitInv DEF ServicesInit, DecisionsInv
<1>2. DecisionsInv /\ [ServicesNext]_servicesVars => DecisionsInv'
  <2>1. AccountsTypeOK /\ UNCHANGED accountVars => AccountsTypeOK'
    BY DEF AccountsTypeOK, accountVars
  <2> QED
    BY <2>1, ServicesStep, RolesStepInv, AccountsStepInv DEF DecisionsInv
<1> QED
  BY <1>1, <1>2, PTL DEF ServicesSpec

\* In every behaviour of the services a login says what was decided about its
\* user, the roles the store began with stand, and the walk up the parents finds
\* the permissions of the roles above (yma-auth).
THEOREM AccountsHoldForEver == ServicesSpec => []AccountsHold
<1>1. DecisionsInv => AccountsHold
  <2>1. RolesInv => RolesStand
    BY DEF RolesInv
  <2> QED
    BY <2>1, WalkIsRight, AccountsAnswer DEF DecisionsInv, AccountsHold
<1> QED
  BY <1>1, DecisionsHold, PTL

\* In every behaviour of the services the state of the one looked at is what the
\* types of the code allow: the type invariants of all services.
THEOREM TypesHoldForEver == ServicesSpec => []ServicesTypeOK
<1>1. ServicesSpec => []SocialTypeOK
  <2>1. SocialInv => SocialTypeOK
    BY DEF SocialInv
  <2> QED
    BY <2>1, ServicesImplyEach, SocialInvariant, PTL
<1>2. ServicesSpec => []SchedulerTypeOK
  <2>1. SchedulerInv => SchedulerTypeOK
    BY DEF SchedulerInv
  <2> QED
    BY <2>1, ServicesImplyEach, SchedulerInvariant, PTL
<1>3. ServicesSpec => []BusTypeOK
  <2>1. BusInv => BusTypeOK
    BY DEF BusInv
  <2> QED
    BY <2>1, ServicesImplyEach, BusInvariant, PTL
<1>4. ServicesSpec => []WsTypeOK
  <2>1. RoomsInv => WsTypeOK
    BY DEF RoomsInv
  <2> QED
    BY <2>1, ServicesImplyEach, RoomsInvariant, PTL
<1>5. ServicesSpec => []NodeTypeOK
  <2>1. NodeInv => NodeTypeOK
    BY DEF NodeInv
  <2> QED
    BY <2>1, ServicesImplyEach, NodeInvariant, PTL
<1>6. ServicesSpec => []MigrationTypeOK
  <2>1. MigrationInit => MigrationTypeOK
    BY MigrationInitInv
  <2>2. MigrationTypeOK /\ [MigrationNext]_migrationVars => MigrationTypeOK'
    BY MigrationStepInv
  <2> QED
    BY <2>1, <2>2, ServicesImplyEach, PTL
<1>7. ServicesSpec => []SandboxTypeOK
  <2>1. SandboxInv => SandboxTypeOK
    BY DEF SandboxInv
  <2> QED
    BY <2>1, ServicesImplyEach, SandboxInvariant, PTL
<1>8. ServicesSpec => []HealthTypeOK
  <2>1. HealthInit => HealthInv
    BY HealthInitInv
  <2>2. HealthInv /\ [HealthNext]_healthVars => HealthInv'
    BY HealthStepInv
  <2>3. HealthInv => HealthTypeOK
    BY DEF HealthInv
  <2> QED
    BY <2>1, <2>2, <2>3, ServicesImplyEach, PTL DEF HealthSpec
<1>9. ServicesSpec => []RedisTypeOK
  <2>1. RedisInv => RedisTypeOK
    BY DEF RedisInv
  <2> QED
    BY <2>1, ServicesImplyEach, RedisInvariant, PTL
<1>10. ServicesSpec => []LimiterTypeOK
  <2>1. LimiterInv => LimiterTypeOK
    BY DEF LimiterInv
  <2> QED
    BY <2>1, ServicesImplyEach, LimiterInvariant, PTL
<1>11. ServicesSpec => []MfaTypeOK
  <2>1. MfaInv => MfaTypeOK
    BY DEF MfaInv
  <2> QED
    BY <2>1, ServicesImplyEach, MfaInvariant, PTL
<1>12. ServicesSpec => []SsoTypeOK
  <2>1. SsoInv => SsoTypeOK
    BY DEF SsoInv
  <2> QED
    BY <2>1, ServicesImplyEach, SsoInvariant, PTL
<1>13. ServicesSpec => []ApiKeysTypeOK
  <2>1. ApiKeysInv => ApiKeysTypeOK
    BY DEF ApiKeysInv
  <2> QED
    BY <2>1, ServicesImplyEach, ApiKeysInvariant, PTL
<1>14. ServicesSpec => []PoolsTypeOK
  <2>1. PoolsInv => PoolsTypeOK
    BY DEF PoolsInv
  <2> QED
    BY <2>1, ServicesImplyEach, PoolsInvariant, PTL
<1>15. ServicesSpec => []StorageTypeOK
  <2>1. StorageInv => StorageTypeOK
    BY DEF StorageInv
  <2> QED
    BY <2>1, ServicesImplyEach, StorageInvariant, PTL
<1>16. ServicesSpec => []VersionsTypeOK
  <2>1. VersionsInit => VersionsInv
    BY VersionsInitInv
  <2>2. VersionsInv /\ [VersionsNext]_versionVars => VersionsInv'
    BY VersionsStepInv
  <2>3. VersionsInv => VersionsTypeOK
    BY DEF VersionsInv
  <2> QED
    BY <2>1, <2>2, <2>3, ServicesImplyEach, PTL DEF VersionsSpec
<1>17. ServicesSpec => []AuditTypeOK
  <2>1. AuditInit => AuditInv
    BY AuditInitInv
  <2>2. AuditInv /\ [AuditNext]_auditVars => AuditInv'
    BY AuditStepInv
  <2>3. AuditInv => AuditTypeOK
    BY DEF AuditInv
  <2> QED
    BY <2>1, <2>2, <2>3, ServicesImplyEach, PTL DEF AuditSpec
<1>18. ServicesSpec => []ConfigTypeOK
  <2>1. ConfigInv => ConfigTypeOK
    BY DEF ConfigInv
  <2> QED
    BY <2>1, ServicesImplyEach, ConfigInvariant, PTL
<1>19. ServicesSpec => []LogTypeOK
  <2>1. LogInv => LogTypeOK
    BY DEF LogInv
  <2> QED
    BY <2>1, ServicesImplyEach, LogInvariant, PTL
<1>20. ServicesSpec => []SshTypeOK
  <2>1. SshInit => SshInv
    BY SshInitInv
  <2>2. SshInv /\ [SshNext]_sshVars => SshInv'
    BY SshStepInv
  <2>3. SshInv => SshTypeOK
    BY DEF SshInv
  <2> QED
    BY <2>1, <2>2, <2>3, ServicesImplyEach, PTL DEF SshSpec
<1>21. ServicesSpec => []SearchTypeOK
  <2>1. SearchInv => SearchTypeOK
    BY DEF SearchInv
  <2> QED
    BY <2>1, ServicesImplyEach, SearchInvariant, PTL
<1>22. ServicesSpec => []DecisionsInv
  BY DecisionsHold
<1>23. ServicesSpec => [](service \in ServiceNames)
  <2>1. ServicesInit => service \in ServiceNames
    BY DEF ServicesInit
  <2>2. service \in ServiceNames /\ [ServicesNext]_servicesVars => (service \in ServiceNames)'
    BY ServicesStep
  <2> QED
    BY <2>1, <2>2, PTL DEF ServicesSpec
<1>24. service \in ServiceNames /\ DecisionsInv
        /\ SocialTypeOK /\ SchedulerTypeOK /\ BusTypeOK /\ WsTypeOK
        /\ NodeTypeOK /\ MigrationTypeOK /\ SandboxTypeOK
        /\ HealthTypeOK /\ RedisTypeOK /\ LimiterTypeOK /\ MfaTypeOK
        /\ SsoTypeOK /\ ApiKeysTypeOK /\ PoolsTypeOK /\ StorageTypeOK
        /\ VersionsTypeOK /\ AuditTypeOK /\ ConfigTypeOK /\ LogTypeOK
        /\ SshTypeOK /\ SearchTypeOK
      => ServicesTypeOK
  <2>1. DecisionsInv => RolesTypeOK /\ AccountsTypeOK
    BY DEF DecisionsInv, AccountsInv, RolesInv
  <2> QED
    BY <2>1 DEF ServicesTypeOK
<1> QED
  BY <1>1, <1>2, <1>3, <1>4, <1>5, <1>6, <1>7, <1>8, <1>9, <1>10, <1>11, <1>12,
     <1>13, <1>14, <1>15, <1>16, <1>17, <1>18, <1>19, <1>20, <1>21, <1>22, <1>23, <1>24,
     PTL

(***************************************************************************)
(* The functions in the behaviours of the services: an input is chosen at  *)
(* the beginning and stays.                                                *)
(***************************************************************************)
Answered == InputsInit \/ input = NoInput

\* What is typed by hand, the tables, masks and words need nothing else.
LEMMA TextsAnswered ==
  /\ \A words \in WordLists : WordsFound(words)
  /\ \A n \in 0..MaxText : \A places \in SUBSET (1..n) : MasksHold(n, places)
  /\ \A digits \in CardDigits : CheckDigitCatches(digits)
  /\ \A digits \in OctetDigits : OctetsHold(digits)
  /\ \A count \in PasswordCounts : PasswordsHold(count)
  /\ \A raw \in RawInputs : InputsCleaned(raw)
  /\ \A name \in FileNamesGiven : FilenamesHold(name)
<1>1. \A words \in WordLists : WordsFound(words)
  BY WordsAreFound
<1>2. ASSUME NEW n \in 0..MaxText, NEW places \in SUBSET (1..n) PROVE MasksHold(n, places)
  <2>1. n \in Nat
    BY NoCharacter
  <2> QED
    BY <2>1, MasksAreSafe
<1>3. \A digits \in CardDigits : CheckDigitCatches(digits)
  BY InputsAssumption, CardsChecked
<1>4. \A digits \in OctetDigits : OctetsHold(digits)
  BY InputsAssumption, OctetsAreBytes
<1>5. \A count \in PasswordCounts : PasswordsHold(count)
  BY InputsAssumption, PasswordsAreStrong
<1>6. ASSUME NEW raw \in RawInputs PROVE InputsCleaned(raw)
  <2>1. raw \in Seq(ToSet(raw))
    BY InputsAssumption DEF IsText
  <2>2. PICK X : X = ToSet(raw)
    OBVIOUS
  <2>3. raw \in Seq(X)
    BY <2>1, <2>2
  <2>4. MaxInput \in Nat
    BY InputIsCut
  <2> QED
    BY ONLY <2>3, <2>4, InputsStayClean
<1>7. ASSUME NEW name \in FileNamesGiven PROVE FilenamesHold(name)
  <2>1. name \in Seq(ToSet(name))
    BY InputsAssumption DEF IsText
  <2>2. PICK X : X = ToSet(name)
    OBVIOUS
  <2>3. name \in Seq(X)
    BY <2>1, <2>2
  <2> QED
    BY ONLY <2>3, FilenamesAreSafe
<1> QED
  BY <1>1, <1>2, <1>3, <1>4, <1>5, <1>6, <1>7

\* What a service asks about its users, requests, files and mails.
LEMMA FormsAnswered ==
  /\ \A graph \in RoleGraphs, assigned \in RoleLists : RolesCollected(graph, assigned)
  /\ \A token \in TokensIssued : TokensHold(token)
  /\ \A call \in RequestsMade : BodiesHold(call)
  /\ \A upload \in UploadsMade : UploadsHold(upload, FreshName)
  /\ \A mails \in MailsSent : BatchHolds(mails)
  /\ \A headers, inner, outer \in [HeaderNames -> HeaderValues \cup {NotFound, Unsendable}] :
       (\A h \in HeaderNames : headers[h] # Unsendable) => HeadersHold(headers, inner, outer)
<1>1. ASSUME NEW graph \in RoleGraphs, NEW assigned \in RoleLists
      PROVE  RolesCollected(graph, assigned)
  <2>1. RoleGraph(graph)
    BY InputsAssumption
  <2>2. assigned \in Seq(RbacRoles)
    BY InputsAssumption
  <2>3. Nobody \notin RbacRoles
    BY RolesBounds
  <2>4. IsFiniteSet(RbacRoles)
    BY RolesBounds
  <2> QED
    BY ONLY <2>1, <2>2, <2>3, <2>4, RolesAreCollected
<1>2. ASSUME NEW token \in TokensIssued PROVE TokensHold(token)
  <2>1. {token.now, token.wait, token.ttl.access, token.ttl.refresh} \subseteq Nat
    BY InputsAssumption
  <2>2. token.now \in Nat /\ token.wait \in Nat /\ token.ttl.access \in Nat /\ token.ttl.refresh \in Nat
    BY ONLY <2>1
  <2> QED
    BY <2>2, TokensKeepUsers
<1>3. \A call \in RequestsMade : BodiesHold(call)
  BY InputsAssumption, BodiesAlwaysHold
<1>4. ASSUME NEW upload \in UploadsMade PROVE UploadsHold(upload, FreshName)
  <2>1. IsText(upload.name) /\ IsText(FreshName) /\ FreshName # <<>>
    BY InputsAssumption
  <2>2. PICK X : X = ToSet(upload.name) \cup ToSet(FreshName) \cup {FullStop}
    OBVIOUS
  <2>3. FullStop \in X
    BY <2>2
  <2>4. upload.name \in Seq(X)
    <3>1. upload.name \in Seq(ToSet(upload.name)) /\ ToSet(upload.name) \subseteq X
      BY <2>1, <2>2 DEF IsText
    <3> QED
      BY <3>1, SeqMonotonic
  <2>5. FreshName \in Seq(X)
    <3>1. FreshName \in Seq(ToSet(FreshName)) /\ ToSet(FreshName) \subseteq X
      BY <2>1, <2>2 DEF IsText
    <3> QED
      BY <3>1, SeqMonotonic
  <2>6. FreshName # <<>>
    BY <2>1
  <2>7. DOMAIN upload = {"size", "max", "name", "allowed", "mime", "mimes"}
    BY InputsAssumption
  <2> QED
    BY ONLY <2>3, <2>4, <2>5, <2>6, <2>7, UploadsPassAgain
<1>5. \A mails \in MailsSent : BatchHolds(mails)
  BY InputsAssumption, BatchesAreFair
<1>6. ASSUME NEW headers \in [HeaderNames -> HeaderValues \cup {NotFound, Unsendable}],
             NEW inner \in [HeaderNames -> HeaderValues \cup {NotFound, Unsendable}],
             NEW outer \in [HeaderNames -> HeaderValues \cup {NotFound, Unsendable}],
             \A h \in HeaderNames : headers[h] # Unsendable
      PROVE  HeadersHold(headers, inner, outer)
  <2>1. NotFound \notin HeaderValues
    BY InputsAssumption
  <2>2. Unsendable \notin HeaderValues
    BY InputsAssumption
  <2> QED
    BY <1>6, <2>1, <2>2, HeadersReplaced
<1> QED
  BY <1>1, <1>2, <1>3, <1>4, <1>5, <1>6

\* Whatever is asked is answered as it should be.
LEMMA InputsAnswered ==
  ASSUME Answered PROVE TextsHold /\ RulesHold
<1>1. CASE \E words \in WordLists : input = [to |-> "words", words |-> words]
  BY <1>1, TextsAnswered DEF TextsHold, RulesHold
<1>2. CASE \E n \in 0..MaxText : \E places \in SUBSET (1..n) :
             /\ n <= 7 \/ places = {}
             /\ input = [to |-> "mask", n |-> n, places |-> places]
  BY <1>2, TextsAnswered DEF TextsHold, RulesHold
<1>3. CASE \E digits \in CardDigits : input = [to |-> "card", digits |-> digits]
  BY <1>3, TextsAnswered DEF TextsHold, RulesHold
<1>4. CASE \E digits \in OctetDigits : input = [to |-> "octet", digits |-> digits]
  BY <1>4, TextsAnswered DEF TextsHold, RulesHold
<1>5. CASE \E count \in PasswordCounts : input = [to |-> "password", count |-> count]
  BY <1>5, TextsAnswered DEF TextsHold, RulesHold
<1>6. CASE \E raw \in RawInputs : input = [to |-> "clean", raw |-> raw]
  BY <1>6, TextsAnswered DEF TextsHold, RulesHold
<1>7. CASE \E name \in FileNamesGiven : input = [to |-> "filename", name |-> name]
  BY <1>7, TextsAnswered DEF TextsHold, RulesHold
<1>8. CASE \E graph \in RoleGraphs, assigned \in RoleLists :
             input = [to |-> "rbac", graph |-> graph, assigned |-> assigned]
  BY <1>8, FormsAnswered DEF TextsHold, RulesHold
<1>9. CASE \E token \in TokensIssued : input = [to |-> "token", token |-> token]
  BY <1>9, FormsAnswered DEF TextsHold, RulesHold
<1>10. CASE \E call \in RequestsMade : input = [to |-> "request", request |-> call]
  BY <1>10, FormsAnswered DEF TextsHold, RulesHold
<1>11. CASE \E upload \in UploadsMade : input = [to |-> "upload", upload |-> upload]
  BY <1>11, FormsAnswered DEF TextsHold, RulesHold
<1>12. CASE \E mails \in MailsSent : input = [to |-> "mail", mails |-> mails]
  BY <1>12, FormsAnswered DEF TextsHold, RulesHold
<1>13. CASE \E headers, inner, outer \in [HeaderNames -> HeaderValues \cup {NotFound, Unsendable}] :
              /\ \A h \in HeaderNames : headers[h] # Unsendable
              /\ input = [to |-> "headers", headers |-> headers, inner |-> inner, outer |-> outer]
  BY <1>13, FormsAnswered DEF TextsHold, RulesHold
<1>14. CASE input = [to |-> "tables"]
  BY <1>14, TablesAgree DEF TextsHold, RulesHold
<1>15. CASE input = NoInput
  BY <1>15 DEF TextsHold, RulesHold, NoInput
<1> QED
  BY <1>1, <1>2, <1>3, <1>4, <1>5, <1>6, <1>7, <1>8, <1>9, <1>10, <1>11, <1>12, <1>13,
     <1>14, <1>15 DEF Answered, InputsInit

\* The input stays what it was chosen to be.
LEMMA InputStays == ServicesSpec => []Answered
<1>1. ServicesInit => Answered
  BY DEF ServicesInit, Answered
<1>2. Answered /\ [ServicesNext]_servicesVars => Answered'
  <2> SUFFICES ASSUME Answered, [ServicesNext]_servicesVars PROVE Answered'
    OBVIOUS
  <2>1. input' = input
    BY DEF ServicesNext, Others, servicesVars
  <2> QED
    BY <2>1 DEF Answered, InputsInit
<1> QED
  BY <1>1, <1>2, PTL DEF ServicesSpec

\* For every text of the constants' bounds: the word filter finds what occurs and,
\* if its replacement occurs in no word, leaves nothing to be found; masks show no
\* more than the ends; check digits catch slips; what is cleaned is clean
\* (yma-sensitive-filter, yma-utils, yma-validation, yma-auth).
THEOREM TextsHoldForEver == ServicesSpec => []TextsHold
<1>1. Answered => TextsHold
  BY InputsAnswered
<1> QED
  BY <1>1, InputStays, PTL

\* For every role graph, token, request, upload, batch of mails and set of headers:
\* roles collect what they inherit, a refresh gives its user and no permission the
\* token it was called with did not have, and the layers around a handler agree
\* (yma-rbac, yma-auth, yma-request-limit, yma-upload, yma-email).
THEOREM RulesHoldForEver == ServicesSpec => []RulesHold
<1>1. Answered => RulesHold
  BY InputsAnswered
<1> QED
  BY <1>1, InputStays, PTL

================================================================================
