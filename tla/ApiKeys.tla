-------------------------------- MODULE ApiKeys --------------------------------
(***************************************************************************)
(* The API keys of yma-auth (api_key.rs, api_key_store.rs): records by the *)
(* eight-character prefix of the key, and per tenant the list of prefixes. *)
(* A prefix is drawn at random and not checked for an earlier one.  The    *)
(* store is used by one thread at a time.                                  *)
(***************************************************************************)
EXTENDS Naturals, Sequences, SequencesExt, Lists

CONSTANTS
  KeyPrefixes,            (* the prefixes the generator can draw            *)
  KeySecrets,             (* the last parts a caller presents               *)
  LengthOf(_),            (* how long a part is                             *)
  Tenants,
  KeyDays,                (* the lifetimes keys are asked for with          *)
  Forever,                (* a key without one                              *)
  MaxKeys,                (* bound on the keys ever created                 *)
  MaxDay                  (* bound on the clock, in days                    *)

ASSUME ApiKeyBounds ==
  /\ MaxKeys \in Nat /\ MaxDay \in Nat /\ KeyDays \subseteq Nat
  /\ \A p \in KeyPrefixes : LengthOf(p) = 8

VARIABLES
  keys,                   (* keys[p]: the record with the prefix            *)
  tenant_keys,            (* tenant_keys[t]: the prefixes of the tenant     *)
  keysDay,
  keysCreated,            (* the keys created, each with a new id           *)
  drawnTwice              (* history: the prefixes drawn while they were    *)
                          (* in use                                        *)

apiKeyVars == <<keys, tenant_keys, keysDay, keysCreated, drawnTwice>>

NoKey == [kept |-> FALSE]

ApiKeysInit ==
  /\ keys = [p \in KeyPrefixes |-> NoKey]
  /\ tenant_keys = [t \in Tenants |-> <<>>]
  /\ keysDay = 0
  /\ keysCreated = 0
  /\ drawnTwice = {}

\* Mutant of CreateKey: only a key that takes no other's place is put on the list.
CreateKeyListingNew(prefix, tenant, days) ==
  /\ keysCreated < MaxKeys
  /\ keysCreated' = keysCreated + 1
  /\ keys' = [keys EXCEPT ![prefix] =
       [kept |-> TRUE, id |-> keysCreated + 1, tenant_id |-> tenant, enabled |-> TRUE,
        expires_at |-> IF days = Forever THEN Forever ELSE keysDay + days]]
  /\ tenant_keys' = IF keys[prefix].kept THEN tenant_keys
                    ELSE [tenant_keys EXCEPT ![tenant] = Append(@, prefix)]
  /\ drawnTwice' = IF \E t \in Tenants : prefix \in ToSet(tenant_keys[t])
                   THEN drawnTwice \cup {prefix} ELSE drawnTwice
  /\ UNCHANGED keysDay

CreateKey(prefix, tenant, days) ==
  /\ keysCreated < MaxKeys
  /\ keysCreated' = keysCreated + 1
  /\ keys' = [keys EXCEPT ![prefix] =
       [kept |-> TRUE, id |-> keysCreated + 1, tenant_id |-> tenant, enabled |-> TRUE,
        expires_at |-> IF days = Forever THEN Forever ELSE keysDay + days]]
  /\ tenant_keys' = [tenant_keys EXCEPT ![tenant] = Append(@, prefix)]
  /\ drawnTwice' = IF \E t \in Tenants : prefix \in ToSet(tenant_keys[t])
                   THEN drawnTwice \cup {prefix} ELSE drawnTwice
  /\ UNCHANGED keysDay

\* disable_key and enable_key
SetEnabled(prefix, enabled) ==
  /\ keys[prefix].kept
  /\ keys' = [keys EXCEPT ![prefix].enabled = enabled]
  /\ UNCHANGED <<tenant_keys, keysDay, keysCreated, drawnTwice>>

\* Records taken away, each from the list of its own tenant too.
Removed(prefixes) ==
  /\ keys' = [p \in KeyPrefixes |-> IF p \in prefixes THEN NoKey ELSE keys[p]]
  /\ tenant_keys' = [t \in Tenants |-> Retain(tenant_keys[t],
       {i \in DOMAIN tenant_keys[t] :
          ~(tenant_keys[t][i] \in prefixes /\ keys[tenant_keys[t][i]].tenant_id = t)})]
  /\ UNCHANGED <<keysDay, keysCreated, drawnTwice>>

DeleteKey(prefix) == keys[prefix].kept /\ Removed({prefix})

CleanupExpired ==
  Removed({p \in KeyPrefixes : /\ keys[p].kept
                               /\ keys[p].expires_at # Forever
                               /\ keysDay > keys[p].expires_at})

ApiKeysTick ==
  /\ keysDay < MaxDay
  /\ keysDay' = keysDay + 1
  /\ UNCHANGED <<keys, tenant_keys, keysCreated, drawnTwice>>

ApiKeysNext ==
  \/ \E prefix \in KeyPrefixes :
       \/ \E tenant \in Tenants, days \in KeyDays \cup {Forever} :
            CreateKey(prefix, tenant, days)
       \/ \E enabled \in BOOLEAN : SetEnabled(prefix, enabled)
       \/ DeleteKey(prefix)
  \/ CleanupExpired
  \/ ApiKeysTick

ApiKeysSpec == ApiKeysInit /\ [][ApiKeysNext]_apiKeyVars

-----------------------------------------------------------------------------
(***************************************************************************)
(* A full key is its prefix and a secret; well formed it has three parts   *)
(* of the right lengths.  The record is found by the prefix alone: the     *)
(* secret is not kept and compared with nothing, so any of the right       *)
(* length passes, and a key that was deleted passes again as soon as its   *)
(* prefix is drawn for another.                                            *)
(***************************************************************************)
WellFormed(parts) ==
  Len(parts) = 3 /\ parts[1] = "yma" /\ LengthOf(parts[2]) = 8 /\ LengthOf(parts[3]) = 24

GetByFullKey(parts) ==
  IF WellFormed(parts) /\ parts[2] \in KeyPrefixes THEN keys[parts[2]] ELSE NoKey

ValidateKey(parts) ==
  LET record == GetByFullKey(parts)
  IN  /\ record.kept
      /\ record.enabled
      /\ record.expires_at = Forever \/ keysDay <= record.expires_at

GetTenantKeys(tenant) ==
  {keys[p] : p \in {q \in ToSet(tenant_keys[tenant]) : keys[q].kept}}

-----------------------------------------------------------------------------
ApiKeyRecord ==
  [kept : {TRUE}, id : 1..MaxKeys, tenant_id : Tenants, enabled : BOOLEAN,
   expires_at : {Forever} \cup Nat]

ApiKeysTypeOK ==
  /\ keys \in [KeyPrefixes -> {NoKey} \cup ApiKeyRecord]
  /\ tenant_keys \in [Tenants -> Seq(KeyPrefixes)]
  /\ keysDay \in 0..MaxDay
  /\ keysCreated \in 0..MaxKeys
  /\ drawnTwice \subseteq KeyPrefixes

\* Whose list a prefix is on (api_key_store.rs, create_key and delete_key keep it
\* beside the table).
ListedOnce(list, p) ==
  /\ \E i \in 1..Len(list) : list[i] = p
  /\ \A i, j \in 1..Len(list) : list[i] = p /\ list[j] = p => i = j

NotListed(list, p) == \A i \in 1..Len(list) : list[i] # p

KeysAreListed ==
  \A p \in KeyPrefixes \ drawnTwice, t \in Tenants :
    IF keys[p].kept /\ keys[p].tenant_id = t THEN ListedOnce(tenant_keys[t], p)
    ELSE NotListed(tenant_keys[t], p)

\* However often prefixes are drawn again while they are in use, deleted and swept,
\* a tenant is shown every key of its own that is kept, so also every one some
\* string passes for; and a key whose prefix was drawn once is on the list of its
\* tenant once and on no other.
KeyListsAgree ==
  /\ \A p \in KeyPrefixes :
       keys[p].kept => keys[p] \in GetTenantKeys(keys[p].tenant_id)
  /\ \A p \in KeyPrefixes, secret \in KeySecrets :
       ValidateKey(<<"yma", p, secret>>) => \E t \in Tenants : keys[p] \in GetTenantKeys(t)
  /\ KeysAreListed

(***************************************************************************)
(* What the proof in SystemProofs needs besides: the lists of the tenants  *)
(* hold the prefixes of their keys.                                        *)
(***************************************************************************)
KeysAreShown ==
  \A p \in KeyPrefixes, t \in Tenants :
    keys[p].kept /\ keys[p].tenant_id = t => ~NotListed(tenant_keys[t], p)

ApiKeysInv == ApiKeysTypeOK /\ KeysAreShown /\ KeysAreListed
=============================================================================
