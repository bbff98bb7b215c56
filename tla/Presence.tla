------------------------------ MODULE Presence ------------------------------
(***************************************************************************)
(* PresenceService and the connections of RealtimeGateway, for one user:   *)
(* the Redis set of the sockets of the user, its time to live, and the     *)
(* handlers of connection and disconnection, which interleave at each      *)
(* await.  Time passes in ticks of thirty seconds, the period of the       *)
(* heartbeat; the set lives for two.                                       *)
(***************************************************************************)
EXTENDS Naturals

CONSTANTS
  Sockets,        \* the sockets the user opens, each once
  MaxDeaths,      \* bound: deaths of the backend process
  MaxRedisFaults  \* bound: commands that Redis does not answer, or too late

ASSUME PresenceAssumption == MaxDeaths \in Nat /\ MaxRedisFaults \in Nat

Ttl == 2          \* 60 s

VARIABLES
  up,         \* up[s]: new, open, closed
  hello,      \* hello[s]: handleConnection: none, verify, store, timer, done
  bye,        \* bye[s]: handleDisconnect: none, remove, del, done
  timer,      \* timer[s]: the interval is running
  members,    \* the set presence:user:<id>; Redis has no empty set
  ttl,        \* ticks the key has left
  owed,       \* intervals that have still to fire in this tick
  deaths,     \* deaths of the process so far
  redisFaults,  \* commands without an answer so far
  overtook,   \* sockets that the DEL of another one removed
  timedOut,   \* sockets that the expiry of the key removed
  lapsed      \* sockets of which a heartbeat did not renew the key in its tick

redisVars    == <<members, ttl>>
handlerVars  == <<up, hello, bye, timer>>
faultVars    == <<deaths, redisFaults>>
recordVars   == <<overtook, timedOut, lapsed>>
presenceVars == <<handlerVars, redisVars, owed, faultVars, recordVars>>

PresenceInit ==
  /\ up = [s \in Sockets |-> "new"]
  /\ hello = [s \in Sockets |-> "none"] /\ bye = [s \in Sockets |-> "none"]
  /\ timer = [s \in Sockets |-> FALSE]
  /\ members = {} /\ ttl = 0 /\ owed = {} /\ deaths = 0 /\ redisFaults = 0
  /\ overtook = {} /\ timedOut = {} /\ lapsed = {}

\* A command has no answer: it was carried out, or it was not.
RedisFails ==
  /\ redisFaults < MaxRedisFaults
  /\ redisFaults' = redisFaults + 1

-----------------------------------------------------------------------------
(* handleConnection *)

OpenSocket(s) ==
  /\ up[s] = "new"
  /\ up' = [up EXCEPT ![s] = "open"]
  /\ hello' = [hello EXCEPT ![s] = "verify"]
  /\ UNCHANGED <<bye, timer, redisVars, owed, faultVars, recordVars>>

\* No token, or one that does not verify: the socket is closed.
Refuse(s) ==
  /\ hello[s] = "verify" /\ up[s] = "open"
  /\ up' = [up EXCEPT ![s] = "closed"]
  /\ hello' = [hello EXCEPT ![s] = "none"]
  /\ UNCHANGED <<bye, timer, redisVars, owed, faultVars, recordVars>>

\* The token verifies: client.data.user is set, and the socket joins the room
\* of its user.
Verify(s) ==
  /\ hello[s] = "verify"
  /\ hello' = [hello EXCEPT ![s] = "store"]
  /\ UNCHANGED <<up, bye, timer, redisVars, owed, faultVars, recordVars>>

\* Mutant: the set is added to without EXPIRE.
TtlLeft == IF members = {} THEN Ttl + 1 ELSE ttl

\* PresenceService.connect: MULTI SADD EXPIRE.
TtlOfConnect == Ttl

Store(s) ==
  /\ hello[s] = "store"
  /\ members' = members \cup {s}
  /\ ttl' = TtlOfConnect
  /\ hello' = [hello EXCEPT ![s] = "timer"]
  /\ UNCHANGED <<up, bye, timer, owed, faultVars, recordVars>>

\* The catch of handleConnection disconnects the socket, whose user is known.
StoreFails(s) ==
  /\ hello[s] = "store"
  /\ RedisFails
  /\ \/ members' = members \cup {s} /\ ttl' = TtlOfConnect
     \/ UNCHANGED redisVars
  /\ hello' = [hello EXCEPT ![s] = "none"]
  /\ up' = [up EXCEPT ![s] = "closed"]
  /\ bye' = IF up[s] = "open" THEN [bye EXCEPT ![s] = "remove"] ELSE bye
  /\ UNCHANGED <<timer, owed, deaths, recordVars>>

\* setInterval, whether or not the socket is still there.
StartTimer(s) ==
  /\ hello[s] = "timer"
  /\ hello' = [hello EXCEPT ![s] = "done"]
  /\ timer' = [timer EXCEPT ![s] = TRUE]
  /\ UNCHANGED <<up, bye, redisVars, owed, faultVars, recordVars>>

-----------------------------------------------------------------------------
(* handleDisconnect *)

\* The interval is cleared if there is one yet; the set is left alone if
\* client.data.user is not set yet.
CloseSocket(s) ==
  /\ up[s] = "open"
  /\ up' = [up EXCEPT ![s] = "closed"]
  /\ timer' = [timer EXCEPT ![s] = FALSE]
  /\ owed' = owed \ {s}
  /\ bye' = [bye EXCEPT ![s] = IF hello[s] = "verify" THEN "done" ELSE "remove"]
  /\ UNCHANGED <<hello, redisVars, faultVars, recordVars>>

\* MULTI SREM SCARD; the key goes with its last member.
RemoveSocket(s) ==
  /\ bye[s] = "remove"
  /\ members' = members \ {s}
  /\ ttl' = IF members' = {} THEN 0 ELSE ttl
  /\ bye' = [bye EXCEPT ![s] = IF members' = {} THEN "del" ELSE "done"]
  /\ UNCHANGED <<up, hello, timer, owed, faultVars, recordVars>>

\* if (remaining === 0) DEL, in another round trip.
Del(s) ==
  /\ bye[s] = "del"
  /\ bye' = [bye EXCEPT ![s] = "done"]
  /\ overtook' = overtook \cup members
  /\ members' = {} /\ ttl' = 0
  /\ UNCHANGED <<up, hello, timer, owed, faultVars, timedOut, lapsed>>

\* presence.disconnect(...).catch(() => {}): what is not removed stays until the
\* key expires.
ByeFails(s) ==
  /\ bye[s] \in {"remove", "del"}
  /\ RedisFails
  /\ bye' = [bye EXCEPT ![s] = "done"]
  /\ \/ /\ bye[s] = "remove"
        /\ members' = members \ {s}
        /\ ttl' = IF members' = {} THEN 0 ELSE ttl
     \/ UNCHANGED redisVars
  /\ UNCHANGED <<up, hello, timer, owed, deaths, recordVars>>

-----------------------------------------------------------------------------
(* Time, heartbeats and death *)

\* Mutant: heartbeat renews the key for one period only.
RenewBriefly == IF members = {} THEN 0 ELSE 1

\* EXPIRE does nothing to a key that is not there.
Renew == IF members = {} THEN 0 ELSE Ttl

\* The interval of a socket fires; presence.ping does the same.
Heartbeat(s) ==
  /\ s \in owed
  /\ owed' = owed \ {s}
  /\ ttl' = Renew
  /\ UNCHANGED <<handlerVars, members, faultVars, recordVars>>

\* heartbeat(...).catch(() => {}): Redis does not answer, or too late for this
\* tick, and nothing takes up what was missed.
MissHeartbeat(s) ==
  /\ s \in owed
  /\ RedisFails
  /\ owed' = owed \ {s}
  /\ lapsed' = lapsed \cup {s}
  /\ UNCHANGED <<handlerVars, redisVars, deaths, overtook, timedOut>>

Ping(s) ==
  /\ up[s] = "open" /\ hello[s] \in {"store", "timer", "done"}
  /\ ttl # Renew
  /\ ttl' = Renew
  /\ UNCHANGED <<handlerVars, members, owed, faultVars, recordVars>>

\* Thirty seconds pass: every interval fires once in them, and what follows
\* the answer of Redis in handleConnection does not take that long.
Tick ==
  /\ owed = {} /\ \A s \in Sockets : hello[s] # "timer"
  /\ owed' = {s \in Sockets : timer[s]}
  /\ ttl' = IF ttl \in 1..Ttl THEN ttl - 1 ELSE ttl
  /\ members' = IF ttl = 1 THEN {} ELSE members
  /\ timedOut' = IF ttl = 1 THEN timedOut \cup members ELSE timedOut
  /\ ttl # 0 \/ owed' # {}
  /\ UNCHANGED <<handlerVars, faultVars, overtook, lapsed>>

\* The process dies: nobody removes its sockets from the set.
Die ==
  /\ deaths < MaxDeaths /\ \E s \in Sockets : up[s] # "new"
  /\ deaths' = deaths + 1
  /\ up' = [s \in Sockets |-> IF up[s] = "new" THEN "new" ELSE "closed"]
  /\ hello' = [s \in Sockets |-> "none"] /\ bye' = [s \in Sockets |-> "none"]
  /\ timer' = [s \in Sockets |-> FALSE] /\ owed' = {}
  /\ UNCHANGED <<redisVars, redisFaults, recordVars>>

-----------------------------------------------------------------------------

\* What a handler does by itself once it has started.
Handle(s) ==
  Verify(s) \/ Store(s) \/ StartTimer(s) \/ RemoveSocket(s) \/ Del(s) \/ Heartbeat(s)

PresenceNext ==
  \/ \E s \in Sockets : \/ OpenSocket(s) \/ Refuse(s) \/ Handle(s) \/ CloseSocket(s)
                        \/ Ping(s) \/ StoreFails(s) \/ ByeFails(s) \/ MissHeartbeat(s)
  \/ Tick \/ Die

PresenceSpec == PresenceInit /\ [][PresenceNext]_presenceVars

\* Time passes, handlers go on, intervals fire.
PresenceFairness ==
  /\ WF_presenceVars(Tick)
  /\ \A s \in Sockets : WF_presenceVars(Handle(s))

\* isOnline and areOnline: EXISTS.
Online == members # {}

PresenceTypeOK ==
  /\ up \in [Sockets -> {"new", "open", "closed"}]
  /\ hello \in [Sockets -> {"none", "verify", "store", "timer", "done"}]
  /\ bye \in [Sockets -> {"none", "remove", "del", "done"}]
  /\ timer \in [Sockets -> BOOLEAN]
  /\ members \subseteq Sockets /\ overtook \cup timedOut \cup lapsed \subseteq Sockets
  /\ ttl \in 0..Ttl /\ (ttl = 0 <=> members = {})
  /\ owed \subseteq {s \in Sockets : timer[s]}

\* "Multi-socket, heartbeat 30s": whatever other sockets of the user come and
\* go, one that is connected keeps the user online; it is out of the set only
\* by the DEL of a disconnection that it overtook, or because the key expired
\* after a heartbeat of its own was missed, those of others making no difference.
ConnectedIsMember ==
  \A s \in Sockets :
    up[s] = "open" /\ hello[s] = "done" => s \in members \cup overtook \cup (timedOut \cap lapsed)

\* "Statut online/offline par user (Redis TTL)": when the sockets are gone,
\* closed or dead with their process, the user goes offline in the end, unless
\* another socket comes, or an interval was started behind a disconnection:
\* nothing clears that one.
EventuallyOffline ==
  (\A s \in Sockets : up[s] # "open" /\ ~timer[s])
     ~> (~Online \/ \E s \in Sockets : up[s] = "open" \/ timer[s])
=============================================================================
