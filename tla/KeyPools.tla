-------------------------------- MODULE KeyPools --------------------------------
(***************************************************************************)
(* The key pools of yma-crypto (key_pool.rs): named lists of keys with an  *)
(* expiry and a flag.  get_key notices that a key has expired and takes it *)
(* out of use; the sweep removes it.  One thread at a time.                *)
(***************************************************************************)
EXTENDS Naturals, Sequences, SequencesExt, Lists

CONSTANTS
  PoolNames,
  PoolKeyIds,
  KeyExpiries,            (* the expiry times keys are added with           *)
  NeverExpires,
  DefaultMaxKeys,         (* the capacity of every pool                     *)
  MaxUses,                (* bound on the uses counted                      *)
  MaxPoolTime             (* bound on the clock                             *)

ASSUME PoolBounds == {DefaultMaxKeys, MaxUses, MaxPoolTime} \subseteq Nat

VARIABLES
  pools,                  (* pools[n]: whether the pool exists, and its keys *)
  poolNow,
  outOfUse                (* history: the keys taken out of use, by pool    *)

poolVars == <<pools, poolNow, outOfUse>>

PoolsInit ==
  /\ pools = [n \in PoolNames |-> [exists |-> FALSE, keys |-> <<>>]]
  /\ poolNow = 0
  /\ outOfUse = {}

\* create_pool: the capacity asked for only sizes the allocation.
CreatePool(n) ==
  /\ pools' = [pools EXCEPT ![n].exists = TRUE]
  /\ UNCHANGED <<poolNow, outOfUse>>

HasKey(n, id) == \E k \in ToSet(pools[n].keys) : k.key_id = id

\* add_key: a key that is out of use still has its id and its place.
AddKey(n, id, expiry) ==
  /\ pools[n].exists
  /\ ~HasKey(n, id)
  /\ Len(pools[n].keys) < DefaultMaxKeys
  /\ pools' = [pools EXCEPT ![n].keys = Append(@,
       [key_id |-> id, expires_at |-> expiry, usage_count |-> 0, is_active |-> TRUE])]
  /\ UNCHANGED <<poolNow, outOfUse>>

Expired(key) == key.expires_at # NeverExpires /\ poolNow > key.expires_at

ActiveAt(n, id) ==
  SelectInSeq(pools[n].keys, LAMBDA k : k.key_id = id /\ k.is_active)

\* get_key: the key counts one more use, or is taken out of use.
GetKey(n, id) ==
  LET pos == ActiveAt(n, id)
  IN  /\ pos # 0
      /\ ~Expired(pools[n].keys[pos])
      /\ pools[n].keys[pos].usage_count < MaxUses
      /\ pools' = [pools EXCEPT ![n].keys[pos].usage_count = @ + 1]
      /\ UNCHANGED <<poolNow, outOfUse>>

GetKeyTooLate(n, id) ==
  LET pos == ActiveAt(n, id)
  IN  /\ pos # 0
      /\ Expired(pools[n].keys[pos])
      /\ pools' = [pools EXCEPT ![n].keys[pos].is_active = FALSE]
      /\ outOfUse' = outOfUse \cup {<<n, id>>}
      /\ UNCHANGED poolNow

GetKeyReadonly(n, id) ==
  ActiveAt(n, id) # 0 /\ ~Expired(pools[n].keys[ActiveAt(n, id)])

RemoveKey(n, id) ==
  /\ HasKey(n, id)
  /\ pools' = [pools EXCEPT ![n].keys =
       Retain(@, {i \in DOMAIN @ : @[i].key_id # id})]
  /\ outOfUse' = outOfUse \ {<<n, id>>}
  /\ UNCHANGED poolNow

\* deactivate_key: the first key with the id.
DeactivateKey(n, id) ==
  LET pos == SelectInSeq(pools[n].keys, LAMBDA k : k.key_id = id)
  IN  /\ pos # 0
      /\ pools' = [pools EXCEPT ![n].keys[pos].is_active = FALSE]
      /\ outOfUse' = outOfUse \cup {<<n, id>>}
      /\ UNCHANGED poolNow

CleanupPool(n) ==
  /\ pools' = [pools EXCEPT ![n].keys =
       Retain(@, {i \in DOMAIN @ : ~Expired(@[i])})]
  /\ outOfUse' = outOfUse \ {<<n, k.key_id>> : k \in {x \in ToSet(pools[n].keys) : Expired(x)}}
  /\ UNCHANGED poolNow

PoolTick ==
  /\ poolNow < MaxPoolTime
  /\ poolNow' = poolNow + 1
  /\ UNCHANGED <<pools, outOfUse>>

PoolsNext ==
  \/ \E n \in PoolNames :
       \/ CreatePool(n)
       \/ CleanupPool(n)
       \/ \E id \in PoolKeyIds :
            \/ \E expiry \in KeyExpiries \cup {NeverExpires} : AddKey(n, id, expiry)
            \/ GetKey(n, id)
            \/ GetKeyTooLate(n, id)
            \/ RemoveKey(n, id)
            \/ DeactivateKey(n, id)
  \/ PoolTick

PoolsSpec == PoolsInit /\ [][PoolsNext]_poolVars

ListKeys(n) ==
  Retain(pools[n].keys, {i \in DOMAIN pools[n].keys : pools[n].keys[i].is_active})

-----------------------------------------------------------------------------
PoolKey ==
  [key_id : PoolKeyIds, expires_at : KeyExpiries \cup {NeverExpires},
   usage_count : 0..MaxUses, is_active : BOOLEAN]

PoolsTypeOK ==
  /\ pools \in [PoolNames -> [exists : BOOLEAN, keys : Seq(PoolKey)]]
  /\ poolNow \in 0..MaxPoolTime
  /\ outOfUse \subseteq PoolNames \X PoolKeyIds

\* A pool never holds more keys than it may, nor two with one id; a key that
\* was taken out of use stays out until it is removed, and is neither listed
\* nor handed out; the two ways to ask for a key agree on whether it is good.
PoolsHold ==
  \A n \in PoolNames :
    /\ Len(pools[n].keys) <= DefaultMaxKeys
    /\ pools[n].keys # <<>> => pools[n].exists
    /\ \A i, j \in DOMAIN pools[n].keys :
         pools[n].keys[i].key_id = pools[n].keys[j].key_id => i = j
    /\ \A id \in PoolKeyIds : <<n, id>> \in outOfUse =>
         /\ \A k \in ToSet(ListKeys(n)) : k.key_id # id
         /\ ~GetKeyReadonly(n, id)
    /\ \A k \in ToSet(ListKeys(n)) :
         GetKeyReadonly(n, k.key_id) \/ Expired(k)

(***************************************************************************)
(* What the proof in SystemProofs needs: the keys of a pool, and those     *)
(* of them that were taken out of use, which have their places still.      *)
(***************************************************************************)
KeysGood(list, gone) ==
  /\ Len(list) <= DefaultMaxKeys
  /\ \A i, j \in 1..Len(list) : list[i].key_id = list[j].key_id => i = j
  /\ \A id \in gone : \E i \in 1..Len(list) :
       list[i].key_id = id /\ list[i].is_active = FALSE

GoneFrom(n) == {id \in PoolKeyIds : <<n, id>> \in outOfUse}

PoolsInv ==
  /\ PoolsTypeOK
  /\ \A n \in PoolNames :
       /\ KeysGood(pools[n].keys, GoneFrom(n))
       /\ pools[n].keys # <<>> => pools[n].exists
=============================================================================
