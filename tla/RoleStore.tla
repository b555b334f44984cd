------------------------------- MODULE RoleStore -------------------------------
(***************************************************************************)
(* The roles and permissions of yma-auth (role.rs, permission.rs): a list  *)
(* of role definitions with parent links and a list of permissions, each   *)
(* behind a lock of parking_lot; every operation changes its list under    *)
(* one write guard.                                                        *)
(***************************************************************************)
EXTENDS Naturals, Sequences, SequencesExt

CONSTANTS
  SystemCodes,            (* the codes of the roles the store begins with   *)
  CustomCodes,            (* the codes callers give to roles of their own   *)
  PermissionCodes,
  NoId,                   (* no parent                                      *)
  MaxRoles,               (* bound on the roles ever made                   *)
  MaxPermissions          (* bound on the permissions ever made             *)

ASSUME RoleBounds ==
  /\ SystemCodes \in Seq(ToSet(SystemCodes)) /\ IsInjective(SystemCodes)
  /\ {MaxRoles, MaxPermissions} \subseteq Nat
  /\ Len(SystemCodes) <= MaxRoles /\ NoId \notin Nat

VARIABLES
  roles,                  (* the roles, in the order they were added        *)
  permissions,            (* the permissions, likewise                      *)
  madeIds,                (* how many of each were ever made: the next ids  *)
  retired                 (* history: the codes some role has given up      *)

roleVars == <<roles, permissions, madeIds, retired>>

Codes == ToSet(SystemCodes) \cup CustomCodes
RoleIds == 1..MaxRoles
PermissionIds == 1..MaxPermissions

RoleDefinition(id, code, system) ==
  [id |-> id, code |-> code, permission_ids |-> {}, parent_role_id |-> NoId,
   is_system_role |-> system]

RolesInit ==
  /\ roles = [i \in DOMAIN SystemCodes |-> RoleDefinition(i, SystemCodes[i], TRUE)]
  /\ permissions = <<>>
  /\ madeIds = [roles |-> Len(SystemCodes), permissions |-> 0]
  /\ retired = {}

\* The place of the first entry with the id or the code, 0 when there is none.
ById(list, id) == SelectInSeq(list, LAMBDA e : e.id = id)
ByCode(list, code) == SelectInSeq(list, LAMBDA e : e.code = code)

(***************************************************************************)
(* add_role: a code that is taken is left alone, and the caller is given   *)
(* the id of the role that was not added all the same.                     *)
(***************************************************************************)
AddRole(code) ==
  /\ madeIds.roles < MaxRoles
  /\ madeIds' = [madeIds EXCEPT !.roles = @ + 1]
  /\ roles' = IF ByCode(roles, code) # 0 THEN roles
              ELSE Append(roles, RoleDefinition(madeIds.roles + 1, code, FALSE))
  /\ UNCHANGED <<permissions, retired>>

\* remove_role
RemoveRole(id) ==
  LET pos == ById(roles, id)
  IN  /\ pos # 0
      /\ ~roles[pos].is_system_role
      /\ roles' = RemoveAt(roles, pos)
      /\ retired' = retired \cup {roles[pos].code}
      /\ UNCHANGED <<permissions, madeIds>>

(***************************************************************************)
(* update_role replaces the definition with the same id: the code and the  *)
(* parent are taken as they come, only a system role stays one.            *)
(***************************************************************************)
UpdateRole(role) ==
  LET pos == ById(roles, role.id)
  IN  /\ pos # 0
      /\ roles[pos].is_system_role => role.is_system_role
      /\ roles' = [roles EXCEPT ![pos] = role]
      /\ retired' = IF roles[pos].code = role.code THEN retired
                    ELSE retired \cup {roles[pos].code}
      /\ UNCHANGED <<permissions, madeIds>>

AddPermissionToRole(id, permission) ==
  LET pos == ById(roles, id)
  IN  /\ pos # 0
      /\ roles' = [roles EXCEPT ![pos].permission_ids = @ \cup {permission}]
      /\ UNCHANGED <<permissions, madeIds, retired>>

AddPermission(code) ==
  /\ madeIds.permissions < MaxPermissions
  /\ madeIds' = [madeIds EXCEPT !.permissions = @ + 1]
  /\ permissions' = Append(permissions, [id |-> madeIds.permissions + 1, code |-> code])
  /\ UNCHANGED <<roles, retired>>

RemovePermission(id) ==
  LET pos == ById(permissions, id)
  IN  /\ pos # 0
      /\ permissions' = RemoveAt(permissions, pos)
      /\ UNCHANGED <<roles, madeIds, retired>>

SetParent(role, parent) ==
  UpdateRole([role EXCEPT !.parent_role_id = parent])

Demote(role) == UpdateRole([role EXCEPT !.is_system_role = FALSE])

Recode(role, code) == UpdateRole([role EXCEPT !.code = code])

RolesNext ==
  \/ \E code \in Codes : AddRole(code)
  \/ \E id \in RoleIds :
       \/ RemoveRole(id)
       \/ \E permission \in PermissionIds : AddPermissionToRole(id, permission)
  \/ \E role \in ToSet(roles) :
       \/ \E parent \in RoleIds \cup {NoId} : SetParent(role, parent)
       \/ Demote(role)
       \/ \E code \in Codes : Recode(role, code)
  \/ \E code \in PermissionCodes : AddPermission(code)
  \/ \E id \in PermissionIds : RemovePermission(id)

RolesSpec == RolesInit /\ [][RolesNext]_roleVars

-----------------------------------------------------------------------------
(***************************************************************************)
(* has_permission_recursive goes from the role to its parent until one has *)
(* the permission or has no parent in the store.  After as many roles as   *)
(* there are it is on a cycle, and the recursion never ends.               *)
(***************************************************************************)
ParentOf(pos) ==
  IF pos = 0 THEN 0
  ELSE IF roles[pos].parent_role_id = NoId THEN 0
  ELSE ById(roles, roles[pos].parent_role_id)

Ancestor(pos) ==
  LET up[n \in 0..Len(roles)] == IF n = 0 THEN pos ELSE ParentOf(up[n - 1])
  IN  up

HasPermissionRecursive(pos, permission) ==
  IF \E n \in 0..Len(roles) :
       /\ Ancestor(pos)[n] # 0
       /\ permission \in roles[Ancestor(pos)[n]].permission_ids
    THEN "granted"
  ELSE IF Ancestor(pos)[Len(roles)] = 0 THEN "refused" ELSE "never answers"

\* The rest of check_permission, once the code of the user's role is known.
CheckRole(code, permissionCode) ==
  LET role       == ByCode(roles, code)
      permission == ByCode(permissions, permissionCode)
  IN  CASE role = 0 -> "role not found"
        [] role # 0 /\ permission = 0 -> "refused"
        [] OTHER -> HasPermissionRecursive(role, permissions[permission].id)

-----------------------------------------------------------------------------
RoleDefinitions ==
  [id : RoleIds, code : Codes, permission_ids : SUBSET PermissionIds,
   parent_role_id : RoleIds \cup {NoId}, is_system_role : BOOLEAN]

RolesTypeOK ==
  /\ roles \in Seq(RoleDefinitions)
  /\ permissions \in Seq([id : PermissionIds, code : PermissionCodes])
  /\ madeIds \in [roles : 0..MaxRoles, permissions : 0..MaxPermissions]
  /\ retired \subseteq Codes

\* The roles the store began with are still there, and no id names two roles.
RolesStand ==
  /\ \A i \in DOMAIN SystemCodes : \E r \in ToSet(roles) :
       r.id = i /\ r.is_system_role
  /\ \A i, j \in DOMAIN roles : roles[i].id = roles[j].id => i = j
  /\ \A i, j \in DOMAIN roles :
       roles[i].code = roles[j].code /\ i # j => retired # {}

\* What the proof in ServiceProofs needs: the ids were given out by add_role, and
\* codes stay apart while none is given up.
IdsWereMade == \A i \in DOMAIN roles : roles[i].id <= madeIds.roles

RolesInv == RolesTypeOK /\ IdsWereMade /\ RolesStand

\* What the walk along the parents answers is what the inheritance of roles
\* says: granted exactly if the role or one it inherits from has the
\* permission; it fails to answer only if a cycle lies above the role.
WalkAgrees ==
  \A start \in DOMAIN roles, permission \in PermissionIds :
    LET closed(s) == \A i \in s : ParentOf(i) # 0 => ParentOf(i) \in s
        above     == {i \in DOMAIN roles :
                        \A s \in SUBSET DOMAIN roles :
                          start \in s /\ closed(s) => i \in s}
        answer    == HasPermissionRecursive(start, permission)
    IN  /\ answer = "granted" <=>
             \E i \in above : permission \in roles[i].permission_ids
        /\ answer = "never answers" => \A i \in above : ParentOf(i) # 0
=============================================================================
