------------------------------- MODULE RedisPool -------------------------------
(***************************************************************************)
(* RedisPool of yma-redis-pool.  Every operation is one command; the       *)
(* server carries out one command at a time, and a command whose reply is  *)
(* lost reads as an error although it was carried out.  The commands are   *)
(* modelled by what the pool's arguments make them do to a key.            *)
(*                                                                         *)
(* set_nx is documented as a distributed lock: the clients of the model    *)
(* take a key with set_nx and a time to live and give it back with del.    *)
(***************************************************************************)
EXTENDS Integers, FiniteSets

CONSTANTS
  LockClients,
  LockKeys,
  LockTtls,               (* time to live of the locks, in seconds         *)
  RetryAttempts,          (* retry_attempts of the configuration           *)
  MaxRedisTime            (* bound on the server's clock                   *)

ASSUME RedisAssumption ==
  /\ "none" \notin LockClients \cup LockKeys
  /\ LockTtls \subseteq Nat
  /\ RetryAttempts \in Nat
  /\ MaxRedisTime \in Nat

VARIABLES
  redis,                  (* redis[k]: the key's value and expiry          *)
  client,                 (* client[c]: [pool, attempts, lock, until]      *)
  redisTime,
  late                    (* history: keys deleted by a client whose lock  *)
                          (* on it had run out                             *)

redisVars == <<redis, client, redisTime, late>>

NoValue == [value |-> "none", expires |-> 0]
NoExpiry == -1
NoLock == "none"

RedisInit ==
  /\ redis = [k \in LockKeys |-> NoValue]
  /\ client = [c \in LockClients |-> [pool |-> "none", attempts |-> 0,
                                      lock |-> NoLock, until |-> 0]]
  /\ redisTime = 0
  /\ late = {}

-----------------------------------------------------------------------------
(***************************************************************************)
(* connect tries retry_attempts times, none of them when that is 0.        *)
(***************************************************************************)
ConnectTry(c) ==
  /\ client[c].pool = "none"
  /\ client[c].attempts < RetryAttempts
  /\ \E pool \in {"none", "connected"} :
       client' = [client EXCEPT ![c].pool = pool, ![c].attempts = @ + 1]
  /\ UNCHANGED <<redis, redisTime, late>>

Connected(c) == client[c].pool = "connected"

-----------------------------------------------------------------------------
(***************************************************************************)
(* The commands, as functions from a key's value to the new one.           *)
(***************************************************************************)
Exists(k) == redis[k] # NoValue
               /\ (redis[k].expires = NoExpiry \/ redisTime < redis[k].expires)

\* A time to live of 0 stands for None.
ExpiryOf(ttl) == IF ttl = 0 THEN NoExpiry ELSE redisTime + ttl

SetCmd(k, v, ttl) == [redis EXCEPT ![k] = [value |-> v, expires |-> ExpiryOf(ttl)]]

SetNxCmd(k, v, ttl) == IF Exists(k) THEN redis ELSE SetCmd(k, v, ttl)

DelCmd(k) == [redis EXCEPT ![k] = NoValue]

ExpireCmd(k, ttl) ==
  IF Exists(k) THEN [redis EXCEPT ![k].expires = redisTime + ttl] ELSE redis

\* ttl: -2 without the key, -1 without an expiry.
TtlReply(k) == CASE ~Exists(k) -> -2
                 [] Exists(k) /\ redis[k].expires = NoExpiry -> -1
                 [] OTHER -> redis[k].expires - redisTime

-----------------------------------------------------------------------------
(***************************************************************************)
(* A client takes a lock: true, false, or an error for a lost reply.       *)
(***************************************************************************)
Until(ttl) == IF ttl = 0 THEN MaxRedisTime + 1 ELSE redisTime + ttl

TakeLock(c, k, ttl) ==
  /\ Connected(c)
  /\ client[c].lock = NoLock
  /\ redis' = SetNxCmd(k, c, ttl)
  /\ client' = IF Exists(k) THEN client
               ELSE [client EXCEPT ![c].lock = k, ![c].until = Until(ttl)]
  /\ UNCHANGED <<redisTime, late>>

TakeLockLost(c, k, ttl) ==
  /\ Connected(c)
  /\ client[c].lock = NoLock
  /\ redis' = SetNxCmd(k, c, ttl)
  /\ UNCHANGED <<client, redisTime, late>>

Extend(c, ttl) ==
  /\ client[c].lock # NoLock
  /\ ttl > 0 /\ redisTime < client[c].until
  /\ redis' = ExpireCmd(client[c].lock, ttl)
  /\ client' = [client EXCEPT ![c].until = redisTime + ttl]
  /\ UNCHANGED <<redisTime, late>>

\* del does not look at the value: a client that comes late deletes the lock of
\* the one that has it by now.
GiveBack(c) ==
  LET k == client[c].lock
  IN  /\ k # NoLock
      /\ redis' = DelCmd(k)
      /\ client' = [client EXCEPT ![c].lock = NoLock]
      /\ late' = IF redisTime >= client[c].until THEN late \cup {k} ELSE late
      /\ UNCHANGED redisTime

RedisTick ==
  /\ redisTime < MaxRedisTime
  /\ redisTime' = redisTime + 1
  /\ UNCHANGED <<redis, client, late>>

RedisNext ==
  \/ RedisTick
  \/ \E c \in LockClients :
       \/ ConnectTry(c)
       \/ GiveBack(c)
       \/ \E ttl \in LockTtls :
            \/ Extend(c, ttl)
            \/ \E k \in LockKeys : TakeLock(c, k, ttl) \/ TakeLockLost(c, k, ttl)

RedisSpec == RedisInit /\ [][RedisNext]_redisVars

-----------------------------------------------------------------------------
RedisTypeOK ==
  /\ redis \in [LockKeys -> [value : LockClients \cup {"none"}, expires : Int]]
  /\ client \in [LockClients -> [pool : {"none", "connected"},
                                 attempts : 0 .. RetryAttempts,
                                 lock : LockKeys \cup {NoLock}, until : Nat]]
  /\ redisTime \in 0 .. MaxRedisTime
  /\ late \subseteq LockKeys

\* The lock that set_nx gives is held by one client at a time, until its time
\* to live is over, unless a client deletes a lock it has no longer: the key may
\* then be another's.
LockIsExclusive ==
  \A c, d \in LockClients :
    LET k == client[c].lock
    IN  /\ k # NoLock /\ k \notin late /\ redisTime < client[c].until =>
             redis[k].value = c
        /\ c # d /\ k # NoLock /\ k = client[d].lock /\ k \notin late =>
             redisTime >= client[c].until \/ redisTime >= client[d].until

\* What the proof in ServiceProofs needs: as long as a client may rely on its
\* lock the key is there, is its own, and will not run out earlier.
Relies(c, k) == client[c].lock = k /\ k \notin late /\ redisTime < client[c].until

LocksAreBacked ==
  \A c \in LockClients, k \in LockKeys : Relies(c, k) =>
    /\ redis[k].value = c
    /\ redis[k].expires = NoExpiry \/ redis[k].expires >= client[c].until

RedisInv == RedisTypeOK /\ LocksAreBacked
=============================================================================
