-------------------------------- MODULE Bans --------------------------------
(***************************************************************************)
(* The ban manager that the server starts with                             *)
(* (cmd/mobius-hotline-server/main.go): the one in Redis if an address of  *)
(* it is given, else the one on file.                                      *)
(***************************************************************************)
EXTENDS BanFile

VARIABLES backend, perm, temp, users, nicks, time, lifting, before, reply, check

redis == <<perm, temp, users, nicks, time, lifting, before, reply, check>>

Redis == INSTANCE RedisBan

SystemInit ==
    /\ backend \in {"file", "redis"}
    /\ Init
    /\ Redis!Init

SystemNext ==
    /\ UNCHANGED backend
    /\ \/ backend = "file" /\ Next /\ UNCHANGED redis
       \/ backend = "redis" /\ Redis!Next /\ UNCHANGED vars

SystemSpec == SystemInit /\ [][SystemNext]_<<vars, redis, backend>>

-----------------------------------------------------------------------------
(* Properties *)

\* The bans in Redis keep the promise of a ban manager on a remote store: when
\* UnbanIP returns without an error no ban is left that it found, although it
\* is two commands and others ban the address meanwhile; when it returns an
\* error it may have lifted the permanent ban, the temporary one or both, and
\* nothing else; no other call's failure changes more than the call asked for.
RedisImplementsBanMgr == Redis!Manager!Spec

\* Whatever happens between the commands of IsBanned, an address with a ban of
\* the same kind all the time is refused, and nobody is refused without a ban
\* at some time or a failing command.
CheckIsRight ==
    /\ check.at = "no" => check.kinds = {}
    /\ check.at = "yes" => check.reason
=============================================================================
