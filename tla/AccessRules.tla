------------------------------ MODULE AccessRules ------------------------------
(***************************************************************************)
(* The rules of access of yma-auth that keep no state of their own: the    *)
(* closure of roles of the RBAC engine, the levels of roles, the public    *)
(* paths and permissions of the middleware, the tokens of the JWT service. *)
(***************************************************************************)
EXTENDS Naturals, Sequences, FiniteSets, SequencesExt

CONSTANTS
  RbacRoles,              (* names of roles                                *)
  KeyOf(_),               (* "resource:action", the key of a grant, which  *)
                          (* is the pair of the two                        *)
  Wildcard,               (* "*"                                           *)
  Nobody,                 (* no parent, no user                            *)
  Uuids,                  (* the subjects of tokens that are UUIDs         *)
  NilUuid                 (* Uuid::default                                 *)

ASSUME RolesBounds == IsFiniteSet(RbacRoles) /\ Nobody \notin RbacRoles

-----------------------------------------------------------------------------
(***************************************************************************)
(* collect_permissions, over a list of roles of the user: the role and its *)
(* ancestors are walked in order, with one set of what has been seen, in   *)
(* which the names of roles and the keys of permissions lie side by side.  *)
(* graph[r] is the definition of r: its permissions in order, its parent.  *)
(***************************************************************************)
\* The permissions that some role is given.
Given(graph) == UNION {ToSet(graph[r].permissions) : r \in DOMAIN graph}

\* The definitions of roles; a parent need not be defined.
RoleGraph(graph) ==
  /\ DOMAIN graph \subseteq RbacRoles
  /\ \A r \in DOMAIN graph : /\ graph[r].parent \in RbacRoles \cup {Nobody}
                             /\ graph[r].permissions \in Seq(Given(graph))

CollectPermission(walk, grant) ==
  IF KeyOf(grant) \in walk.seen THEN walk
  ELSE [seen |-> walk.seen \cup {KeyOf(grant)}, result |-> Append(walk.result, grant)]

CollectPermissions(graph, start, walk) ==
  LET up[n \in 0..Cardinality(RbacRoles)] ==      \* the walk after n roles
        IF n = 0 THEN [at |-> start, walk |-> walk]
        ELSE LET role == up[n - 1].at
                 seen == up[n - 1].walk.seen
             IN  IF role = Nobody \/ role \in seen
                   THEN [at |-> Nobody, walk |-> up[n - 1].walk]
                 ELSE IF role \notin DOMAIN graph
                   THEN [at |-> Nobody,
                         walk |-> [up[n - 1].walk EXCEPT !.seen = @ \cup {role}]]
                 ELSE [at   |-> graph[role].parent,
                       walk |-> FoldLeft(CollectPermission,
                                  [up[n - 1].walk EXCEPT !.seen = @ \cup {role}],
                                  graph[role].permissions)]
  IN  up[Cardinality(RbacRoles)].walk

ListPermissions(graph, userRoles) ==
  FoldLeft(LAMBDA walk, role : CollectPermissions(graph, role, walk),
           [seen |-> {}, result |-> <<>>], userRoles).result

CheckRbac(graph, userRoles, resource, action) ==
  \E i \in DOMAIN ListPermissions(graph, userRoles) :
    LET p == ListPermissions(graph, userRoles)[i]
    IN  p[1] \in {Wildcard, resource} /\ p[2] \in {Wildcard, action}

\* The roles a user has by inheritance.
Inherited(graph, userRoles) ==
  LET up[n \in 0..Cardinality(RbacRoles)] ==
        IF n = 0 THEN ToSet(userRoles)
        ELSE up[n - 1] \cup {graph[r].parent : r \in up[n - 1] \cap DOMAIN graph}
  IN  up[Cardinality(RbacRoles)]

Granted(graph, userRoles) ==
  UNION {ToSet(graph[r].permissions) :
           r \in Inherited(graph, userRoles) \cap DOMAIN graph}

\* The key of a permission is the name of a role too, or the key of another
\* permission (a name may hold a colon).
Clash(graph) ==
  \E p \in Given(graph) :
    KeyOf(p) \in RbacRoles \/ \E q \in Given(graph) : p # q /\ KeyOf(p) = KeyOf(q)

\* The permissions listed are those of the user's roles and of all they inherit
\* from, each once, also where the parents form a cycle or are not defined.  Of
\* names and keys that clash one can hide another: then some may be missing, but
\* there are never more.
RolesCollected(graph, userRoles) ==
  LET listed == ListPermissions(graph, userRoles)
  IN  /\ IsInjective(listed)
      /\ ToSet(listed) \subseteq Granted(graph, userRoles)
      /\ ~Clash(graph) => ToSet(listed) = Granted(graph, userRoles)
      /\ \A p \in ToSet(listed) : CheckRbac(graph, userRoles, p[1], p[2])

-----------------------------------------------------------------------------
(* Role: the enumeration and the table of system roles. *)

RoleLevels ==
  [admin |-> 10, user |-> 5, guest |-> 3, level_10 |-> 10, level_9 |-> 9,
   level_8 |-> 8, level_7 |-> 7, level_6 |-> 6, level_5 |-> 5, level_4 |-> 4,
   level_3 |-> 3, level_2 |-> 2, level_1 |-> 1]

FromLevel(level) ==
  CASE level = 10 -> "level_10" [] level = 9 -> "level_9" [] level = 8 -> "level_8"
    [] level = 7 -> "level_7" [] level = 6 -> "level_6" [] level = 5 -> "level_5"
    [] level = 4 -> "level_4" [] level = 3 -> "level_3" [] level = 2 -> "level_2"
    [] OTHER -> "level_1"

HasPermission(role, required) == RoleLevels[role] >= RoleLevels[required]

SystemRoles ==
  [admin |-> 10, level_9 |-> 9, level_8 |-> 8, level_7 |-> 7, level_6 |-> 6,
   user |-> 5, level_4 |-> 4, guest |-> 3, level_2 |-> 2, level_1 |-> 1]

\* The roles the store begins with are on the level the enumeration gives the
\* same code, one on each level; from_level and level undo each other.
LevelsAgree ==
  /\ \A code \in DOMAIN SystemRoles : SystemRoles[code] = RoleLevels[code]
  /\ {SystemRoles[code] : code \in DOMAIN SystemRoles} = 1..10
  /\ Cardinality(DOMAIN SystemRoles) = 10
  /\ \A level \in 1..10 : RoleLevels[FromLevel(level)] = level
  /\ \A a, b \in DOMAIN RoleLevels :
       HasPermission(a, b) /\ HasPermission(b, a) <=> RoleLevels[a] = RoleLevels[b]

-----------------------------------------------------------------------------
(* The middleware: a path is a sequence of characters. *)

IsPublicPath(public, path) == \E p \in public : IsPrefix(p, path)

UserHasPermission(user, permission) ==
  Wildcard \in user.permissions \/ permission \in user.permissions

HasRole(user, role) == user.role = role \/ user.role = "admin"

\* A subject that is no UUID becomes the nil one: all such are one user.
FromClaims(claims) ==
  [user_id |-> IF claims.sub \in Uuids THEN claims.sub ELSE NilUuid,
   role |-> claims.role, permissions |-> claims.permissions]

FromApiKey(tenant, granted) ==
  [user_id |-> tenant, role |-> "api_key", permissions |-> granted]

(***************************************************************************)
(* The tokens: claims, signed with the key of the service or not.  verify  *)
(* asks whether the signature is good and the token is not over; refresh   *)
(* issues a pair from the claims of a token that passes, and an access     *)
(* token, which carries permissions, passes like a refresh token.          *)
(***************************************************************************)
Claims(sub, role, granted, exp) ==
  [sub |-> sub, role |-> role, permissions |-> granted, exp |-> exp, signed |-> TRUE]

\* A request without a token in its header.
NoToken == [signed |-> FALSE]

\* Mutant of Issue: the refresh token carries the permissions too.
IssueGrantingBoth(sub, role, granted, now, ttl) ==
  [access_token  |-> Claims(sub, role, granted, now + ttl.access),
   refresh_token |-> Claims(sub, role, granted, now + ttl.refresh)]

Issue(sub, role, granted, now, ttl) ==
  [access_token  |-> Claims(sub, role, granted, now + ttl.access),
   refresh_token |-> Claims(sub, role, {}, now + ttl.refresh)]

Verify(claims, now) == claims.signed /\ claims.exp >= now

\* The pairs a refresh gives: one or none.
Refresh(claims, now, ttl) ==
  IF Verify(claims, now) THEN {Issue(claims.sub, claims.role, claims.permissions, now, ttl)}
  ELSE {}

(***************************************************************************)
(* auth_middleware: the handler of a public path runs and is told nobody;  *)
(* any other runs for a token that passes only and is told whose it is.    *)
(***************************************************************************)
Handles(user) == [handled |-> TRUE, user |-> user]
Unauthorized(why) == [handled |-> FALSE, code |-> 401, detail |-> why]

Authenticate(public, path, claims, now) ==
  IF IsPublicPath(public, path) THEN Handles(Nobody)
  ELSE IF claims = NoToken THEN Unauthorized("No authentication provided")
  ELSE IF Verify(claims, now) THEN Handles(FromClaims(claims))
  ELSE Unauthorized("JWT verify failed")

\* What a request comes with: the access token of a pair, one that was signed with
\* another key, or none.
Presented(how, pair) ==
  CASE how = "token"  -> pair.access_token
    [] how = "forged" -> [pair.access_token EXCEPT !.signed = FALSE]
    [] OTHER          -> NoToken

\* A token that is presented to refresh in time, and no other, gives a pair with its
\* own subject and role: without permissions from a refresh token, with the same
\* ones for another lifetime from an access token, never with more.  With the pair
\* a request gets past the middleware exactly where the path is public or until the
\* new access token is over; its handler is told the role and the permissions of the
\* token, and a user who is the subject of the token or nil, where the path is not
\* public.
TokensHold(token) ==
  LET first == Issue(token.sub, token.role, token.granted, token.now, token.ttl)
      given == IF token.refreshes = "access" THEN token.granted ELSE {}
      lives == IF token.refreshes = "access" THEN token.ttl.access ELSE token.ttl.refresh
      later == token.now + token.wait
      pairs == Refresh(IF token.refreshes = "access" THEN first.access_token
                       ELSE first.refresh_token, later, token.ttl)
  IN  /\ pairs # {} <=> token.wait <= lives
      /\ \A pair \in pairs :
           LET answer == Authenticate(token.public, token.path, Presented(token.presents, pair),
                                      later + token.wait)
               open   == \E p \in token.public : IsPrefix(p, token.path)
           IN  /\ pair.access_token.permissions = given /\ pair.refresh_token.permissions = {}
               /\ answer.handled <=>
                    \/ open
                    \/ token.presents = "token" /\ token.wait <= token.ttl.access
               /\ answer.handled /\ open => answer.user = Nobody
               /\ answer.handled /\ ~open =>
                    /\ answer.user.user_id \in {token.sub, NilUuid}
                    /\ HasRole(answer.user, token.role)
                    /\ \A p \in token.granted \cup {Wildcard} :
                         UserHasPermission(answer.user, p) <=> p \in given \/ Wildcard \in given
=============================================================================
