-------------------------------- MODULE Accounts --------------------------------
(***************************************************************************)
(* The authentication service of yma-auth with its users, and the login    *)
(* route.  The users are a list behind one lock.  A login looks its user   *)
(* up under the read lock and copies it; the service then writes the time  *)
(* of the login under the write lock, and the token says what the copy     *)
(* said.  Giving a user a role is two steps too: the code of the role is   *)
(* read under one lock and written to the user under another.              *)
(* check_permission changes nothing and is answered in one state here.     *)
(***************************************************************************)
EXTENDS RoleStore

CONSTANTS
  Usernames,
  Emails,
  DefaultRole,            (* the code new users are given, "user"           *)
  AuthCalls,              (* the threads that log in and assign roles       *)
  MaxUsers                (* bound on the users ever added                  *)

ASSUME AccountBounds == DefaultRole \in ToSet(SystemCodes) /\ MaxUsers \in Nat

VARIABLES
  accounts,               (* the users, in the order they were added        *)
  born,                   (* how many users were ever added                 *)
  authCall,               (* authCall[c]: the call c is in the middle of    *)
  misled,                 (* history: has a token been issued that said     *)
                          (* what was neither so nor just changed?         *)
  decided                 (* history: what was last decided about a user    *)

accountVars == <<accounts, born, authCall, misled, decided>>

UserIds == 1..MaxUsers
NoAuthCall == [at |-> "none"]
Undecided == [role |-> DefaultRole, is_active |-> TRUE]

AccountsInit ==
  /\ accounts = <<>>
  /\ born = 0
  /\ authCall = [c \in AuthCalls |-> NoAuthCall]
  /\ misled = FALSE
  /\ decided = [u \in UserIds |-> Undecided]

ByUsername(name) == SelectInSeq(accounts, LAMBDA u : u.username = name)
ByEmail(email) == SelectInSeq(accounts, LAMBDA u : u.email = email)

\* History: the logins that are under way are told that user u was changed.
Touch(u) ==
  [c \in AuthCalls |->
     IF authCall[c].at = "login" /\ authCall[c].user.id = u
       THEN [authCall[c] EXCEPT !.touched = TRUE] ELSE authCall[c]]

-----------------------------------------------------------------------------
(* The store of users: neither names nor addresses are checked for others. *)

NewUser(name, email, local) ==
  /\ born < MaxUsers
  /\ born' = born + 1
  /\ accounts' = Append(accounts,
       [id |-> born + 1, username |-> name, email |-> email,
        has_password |-> local, role |-> DefaultRole, is_active |-> TRUE])
  /\ UNCHANGED <<authCall, misled, decided>>

AddUser(name, email) == NewUser(name, email, TRUE)

\* find_or_create_sso_user: whoever has the address, else a user without a
\* password.
SsoUser(name, email) ==
  /\ ByEmail(email) = 0
  /\ NewUser(name, email, FALSE)

RemoveUser(id) ==
  /\ ById(accounts, id) # 0
  /\ accounts' = RemoveAt(accounts, ById(accounts, id))
  /\ authCall' = Touch(id)
  /\ decided' = [decided EXCEPT ![id] = Undecided]
  /\ UNCHANGED <<born, misled>>

\* enable and disable, written back with update_user under one guard.
SetActive(id, active) ==
  LET pos == ById(accounts, id)
  IN  /\ pos # 0
      /\ accounts[pos].is_active # active
      /\ accounts' = [accounts EXCEPT ![pos].is_active = active]
      /\ decided' = [decided EXCEPT ![id].is_active = active]
      /\ authCall' = Touch(id)
      /\ UNCHANGED <<born, misled>>

-----------------------------------------------------------------------------
(***************************************************************************)
(* login and login_handler: only the service asks whether the user is      *)
(* active, only the service writes the last login.                         *)
(***************************************************************************)
LoginReads(c, name, via) ==
  LET pos == ByUsername(name)
  IN  /\ authCall[c] = NoAuthCall
      /\ pos # 0
      /\ via = "service" => accounts[pos].is_active
      /\ accounts[pos].has_password
      /\ authCall' = [authCall EXCEPT ![c] =
           [at |-> "login", user |-> accounts[pos], via |-> via, touched |-> FALSE]]
      /\ UNCHANGED <<accounts, born, misled, decided>>

\* Mutant of Rewritten: the copy of the read lock is written back.
RewrittenStale(c) ==
  LET pos == ById(accounts, authCall[c].user.id)
  IN  IF pos = 0 THEN accounts
      ELSE [accounts EXCEPT ![pos] = authCall[c].user]

\* The user is looked up by name again, whoever that is by now, and written
\* back with the time of the login.
Rewritten(c) ==
  LET pos == ByUsername(authCall[c].user.username)
  IN  IF pos = 0 THEN accounts
      ELSE [accounts EXCEPT ![ById(accounts, accounts[pos].id)] = accounts[pos]]

\* History: does the token say of its user what the store says now?
SaysTheTruth(user, via) ==
  \E pos \in DOMAIN accounts :
    /\ accounts[pos].id = user.id
    /\ accounts[pos].role = user.role
    /\ via = "service" => accounts[pos].is_active

LoginIssues(c) ==
  /\ authCall[c].at = "login"
  /\ accounts' = IF authCall[c].via = "service" THEN Rewritten(c) ELSE accounts
  /\ misled' = (misled \/ ~(\/ authCall[c].touched
                            \/ SaysTheTruth(authCall[c].user, authCall[c].via)))
  /\ authCall' = [authCall EXCEPT ![c] = NoAuthCall]
  /\ UNCHANGED <<born, decided>>

-----------------------------------------------------------------------------
(* add_role_to_user. *)

AssignReads(c, id, roleId) ==
  LET pos == ById(roles, roleId)
  IN  /\ authCall[c] = NoAuthCall
      /\ pos # 0
      /\ authCall' = [authCall EXCEPT ![c] =
           [at |-> "assign", id |-> id, code |-> roles[pos].code]]
      /\ UNCHANGED <<accounts, born, misled, decided>>

AssignWrites(c) ==
  LET call == authCall[c]
      pos  == ById(accounts, call.id)
  IN  /\ call.at = "assign"
      /\ pos # 0
      /\ accounts' = [accounts EXCEPT ![pos].role = call.code]
      /\ decided' = [decided EXCEPT ![call.id].role = call.code]
      /\ authCall' = [Touch(call.id) EXCEPT ![c] = NoAuthCall]
      /\ UNCHANGED <<born, misled>>

AssignFails(c) ==
  /\ authCall[c].at = "assign"
  /\ ById(accounts, authCall[c].id) = 0
  /\ authCall' = [authCall EXCEPT ![c] = NoAuthCall]
  /\ UNCHANGED <<accounts, born, misled, decided>>

UserCalls ==
  \/ \E name \in Usernames, email \in Emails :
       \/ AddUser(name, email)
       \/ SsoUser(name, email)
  \/ \E id \in UserIds :
       \/ RemoveUser(id)
       \/ \E active \in BOOLEAN : SetActive(id, active)
  \/ \E c \in AuthCalls :
       \/ \E name \in Usernames, via \in {"service", "route"} : LoginReads(c, name, via)
       \/ LoginIssues(c)
       \/ \E id \in UserIds, roleId \in RoleIds : AssignReads(c, id, roleId)
       \/ AssignWrites(c)
       \/ AssignFails(c)

\* What happens to the roles meanwhile that the users can notice.
RoleCalls ==
  \/ \E code \in Codes : AddRole(code)
  \/ \E id \in RoleIds : RemoveRole(id)
  \/ \E role \in ToSet(roles), code \in Codes : Recode(role, code)

AccountsNext ==
  \/ UserCalls /\ UNCHANGED roleVars
  \/ RoleCalls /\ UNCHANGED accountVars

AccountsSpec ==
  RolesInit /\ AccountsInit /\ [][AccountsNext]_<<roleVars, accountVars>>

CheckPermission(id, permissionCode) ==
  LET pos == ById(accounts, id)
  IN  IF pos = 0 THEN "user not found"
      ELSE CheckRole(accounts[pos].role, permissionCode)

-----------------------------------------------------------------------------
Users == [id : UserIds, username : Usernames, email : Emails,
          has_password : BOOLEAN, role : Codes, is_active : BOOLEAN]

AuthCall ==
  {NoAuthCall}
  \cup [at : {"login"}, user : Users, via : {"service", "route"}, touched : BOOLEAN]
  \cup [at : {"assign"}, id : UserIds, code : Codes]

AccountsTypeOK ==
  /\ accounts \in Seq(Users)
  /\ born \in 0..MaxUsers
  /\ authCall \in [AuthCalls -> AuthCall]
  /\ misled \in BOOLEAN
  /\ decided \in [UserIds -> [role : Codes, is_active : BOOLEAN]]

\* No login undoes what was decided about a user while it was under way; a
\* token says what the store says of its user, unless just that was changed
\* during the login; a user whose role cannot be found was given a code some
\* role has since given up.
LoginsAreFaithful ==
  /\ \A u \in ToSet(accounts) :
       /\ u.role = decided[u.id].role
       /\ u.is_active = decided[u.id].is_active
       /\ ByCode(roles, u.role) = 0 => u.role \in retired
       /\ \A code \in PermissionCodes :
            CheckPermission(u.id, code) = "role not found" => u.role \in retired
  /\ ~misled
  /\ \A i, j \in DOMAIN accounts : accounts[i].id = accounts[j].id => i = j

(***************************************************************************)
(* What the proof in SystemProofs needs: ids are given once, and what      *)
(* is undecided is so by default; the codes users have and calls are about *)
(* to write are a role's or were given up; and who logs in is still in the *)
(* store as it was copied, unless the call was told otherwise.             *)
(***************************************************************************)
IdsWereBorn ==
  /\ \A i \in DOMAIN accounts : accounts[i].id <= born
  /\ \A i, j \in DOMAIN accounts : accounts[i].id = accounts[j].id => i = j
  /\ \A u \in UserIds : u > born => decided[u] = Undecided

IsDecided ==
  \A i \in DOMAIN accounts :
    /\ accounts[i].role = decided[accounts[i].id].role
    /\ accounts[i].is_active = decided[accounts[i].id].is_active

KnownIn(code, list, gone) == code \in gone \/ \E i \in DOMAIN list : list[i].code = code
Known(code) == KnownIn(code, roles, retired)

CodesAreKnown ==
  /\ Known(DefaultRole)
  /\ \A i \in DOMAIN accounts : Known(accounts[i].role)
  /\ \A c \in AuthCalls : authCall[c].at = "assign" => Known(authCall[c].code)

CopiesAreTrue ==
  /\ ~misled
  /\ \A c \in AuthCalls : authCall[c].at = "login" =>
       /\ authCall[c].via = "service" => authCall[c].user.is_active
       /\ authCall[c].touched \/ \E i \in DOMAIN accounts : accounts[i] = authCall[c].user

AccountsInv ==
  /\ RolesInv
  /\ AccountsTypeOK
  /\ IdsWereBorn
  /\ IsDecided
  /\ CodesAreKnown
  /\ CopiesAreTrue
=============================================================================
