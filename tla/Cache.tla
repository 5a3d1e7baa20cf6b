-------------------------------- MODULE Cache --------------------------------
(***************************************************************************)
(* CacheService (Redis, with a map in memory behind it) as the services    *)
(* use it: findById asks the cache, reads the row and keeps it; an update  *)
(* commits and then deletes the key.  Two users of the cache never delete: *)
(* the permissions of a user (nothing calls                                *)
(* invalidateUserPermissionsCache), and the children kept with an account, *)
(* whose own updates delete only their own key and the trees.              *)
(*                                                                         *)
(* One key.  A value is the version of the row; the copies expire after    *)
(* five minutes.                                                           *)
(***************************************************************************)
EXTENDS Naturals

CONSTANTS Readers, Writers,
          MaxVersion     \* bound on the updates

NoCopy == 0     \* versions start at 1

VARIABLES row,      \* the version in the database
          redis, memory,
          redisUp,
          deletes,  \* whether writers delete the key
          reader, writer,
          crossed   \* history: "read" a commit while a reader holds a value it has
                    \* not stored, "down" Redis was down for a delete
cacheVars == <<row, redis, memory, redisUp, deletes, reader, writer, crossed>>

CacheInit ==
    /\ row = 1
    /\ redis = NoCopy /\ memory = NoCopy
    /\ redisUp = TRUE
    /\ deletes \in BOOLEAN
    /\ reader = [r \in Readers |-> [at |-> "rest"]]
    /\ writer = [w \in Writers |-> "rest"]
    /\ crossed = {}

Reads(r, c) ==
    /\ reader' = [reader EXCEPT ![r] = c]
    /\ UNCHANGED <<row, redisUp, deletes, writer, crossed>>

\* get: what Redis has, or the map; a failing Redis is taken for a miss.  Only a
\* hit ends the call.
AskRedis(r) ==
    /\ reader[r].at = "rest"
    /\ \/ redisUp /\ redis # NoCopy /\ Reads(r, [at |-> "rest"])
       \/ (~redisUp \/ redis = NoCopy) /\ Reads(r, [at |-> "memory"])
    /\ UNCHANGED <<redis, memory>>

AskMemory(r) ==
    /\ reader[r].at = "memory"
    /\ Reads(r, IF memory # NoCopy THEN [at |-> "rest"] ELSE [at |-> "row"])
    /\ UNCHANGED <<redis, memory>>

ReadRow(r) ==
    /\ reader[r].at = "row"
    /\ Reads(r, [at |-> "set", value |-> row])
    /\ UNCHANGED <<redis, memory>>

\* set: the map, and then Redis, which may fail.
SetMemory(r) ==
    /\ reader[r].at = "set"
    /\ memory' = reader[r].value
    /\ Reads(r, [at |-> "send", value |-> reader[r].value])
    /\ UNCHANGED redis

SetRedis(r) ==
    /\ reader[r].at = "send"
    /\ redis' = IF redisUp THEN reader[r].value ELSE redis
    /\ Reads(r, [at |-> "rest"])
    /\ UNCHANGED memory

\* withAudit: the transaction of an update.
Update(w) ==
    /\ writer[w] = "rest"
    /\ row < MaxVersion
    /\ row' = row + 1
    /\ writer' = [writer EXCEPT ![w] = IF deletes THEN "map" ELSE "rest"]
    /\ crossed' = crossed \cup {"read" : r \in {r \in Readers : reader[r].at \in {"set", "send"}}}
    /\ UNCHANGED <<redis, memory, redisUp, deletes, reader>>

\* Mutant: the map in memory is forgotten.
DeleteMemoryNever(w) ==
    /\ writer[w] = "map"
    /\ writer' = [writer EXCEPT ![w] = "redis"]
    /\ UNCHANGED <<row, redis, memory, redisUp, deletes, reader, crossed>>

\* del (and delByPattern): the map, and then Redis.
DeleteMemory(w) ==
    /\ writer[w] = "map"
    /\ memory' = NoCopy
    /\ writer' = [writer EXCEPT ![w] = "redis"]
    /\ UNCHANGED <<row, redis, redisUp, deletes, reader, crossed>>

DeleteRedis(w) ==
    /\ writer[w] = "redis"
    /\ redis' = IF redisUp THEN NoCopy ELSE redis
    /\ crossed' = crossed \cup (IF redisUp THEN {} ELSE {"down"})
    /\ writer' = [writer EXCEPT ![w] = "rest"]
    /\ UNCHANGED <<row, memory, redisUp, deletes, reader>>

\* EX ttl in Redis.
ExpireRedis ==
    /\ redis # NoCopy
    /\ redis' = NoCopy
    /\ UNCHANGED <<row, memory, redisUp, deletes, reader, writer, crossed>>

\* Mutant: expiresAt is looked at only when Redis answers.
ExpireMemoryBehindRedis ==
    /\ memory # NoCopy /\ redis # NoCopy
    /\ memory' = NoCopy
    /\ UNCHANGED <<row, redis, redisUp, deletes, reader, writer, crossed>>

\* expiresAt in the map, removed by the next get.
ExpireMemory ==
    /\ memory # NoCopy
    /\ memory' = NoCopy
    /\ UNCHANGED <<row, redis, redisUp, deletes, reader, writer, crossed>>

Switch ==
    /\ redisUp' = ~redisUp
    /\ UNCHANGED <<row, redis, memory, deletes, reader, writer, crossed>>

Proceed ==
    \/ \E r \in Readers : AskMemory(r) \/ ReadRow(r) \/ SetMemory(r) \/ SetRedis(r)
    \/ \E w \in Writers : DeleteMemory(w) \/ DeleteRedis(w)

CacheNext ==
    \/ Proceed
    \/ \E r \in Readers : AskRedis(r)
    \/ \E w \in Writers : Update(w)
    \/ ExpireRedis \/ ExpireMemory \/ Switch

\* A call that has begun goes on; a copy that is not replaced reaches its time to live.
CacheFairness ==
    WF_cacheVars(Proceed) /\ WF_cacheVars(ExpireRedis) /\ WF_cacheVars(ExpireMemory)

-----------------------------------------------------------------------------
\* When no update is under way, no copy is older than the row: an update's deletes
\* win over the readers before them.  Excepted are the readers that hold a value
\* while the update commits, the deletes Redis missed, and what is never deleted.
CopiesAreCurrent ==
    deletes /\ crossed = {} /\ (\A w \in Writers : writer[w] = "rest")
      => {redis, memory} \subseteq {NoCopy, row}

\* Whatever was missed, an old copy does not stay: once updates have ended, the
\* copies are current again and again, by their time to live alone.
OldCopiesGo == []<>({redis, memory} \subseteq {NoCopy, row})
=============================================================================
