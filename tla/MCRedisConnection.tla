-------------------------- MODULE MCRedisConnection --------------------------
(* Instances of RedisConnection for TLC; the bounds are in the .cfg files.   *)
EXTENDS RedisConnection
==============================================================================
