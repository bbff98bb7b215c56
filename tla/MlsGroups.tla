----------------------------- MODULE MlsGroups -----------------------------
(***************************************************************************)
(* E2eeService, the MLS group of one conversation: its activation, and the *)
(* opaque messages the server numbers and hands out.  Ciphertexts, devices *)
(* and the epoch a client writes on its message are data nothing reads.    *)
(*                                                                         *)
(* Each transaction is two actions: taking its lock, and its commit with   *)
(* everything it reads and writes under it.                                *)
(***************************************************************************)
EXTENDS Naturals, FiniteSets

CONSTANTS
  Members,      \* the participants of the conversation
  MlsSenders,   \* slots for MLS messages in flight
  PageLimit,    \* LIMIT of a page of MLS messages, 100 in the code
  MaxWelcomes,  \* bound: welcomes in an activation
  MaxMls,       \* bound: MLS messages of the group
  MaxLostMls    \* bound: transactions lost with their connection

ASSUME MlsGroupsAssumption ==
  /\ PageLimit \in Nat \ {0} /\ MaxWelcomes \in Nat \ {0}
  /\ MaxMls \in Nat /\ MaxLostMls \in Nat

Everyone == 0                            \* target_user_id IS NULL
Kinds == {"welcome", "commit", "other"}  \* other: application, proposal, group_info

VARIABLES
  group,      \* the mls_groups row exists
  e2eeOn,     \* conversations.e2ee_enabled
  enabling,   \* enabling[u]: idle, checked, inserted (group row uncommitted)
  epoch,      \* mls_groups.epoch
  mls,        \* mls[n]: the mls_messages row of sequence n
  sending,    \* sending[s]: idle, locked (has the group row)
  numbered,   \* numbered[s]: the sequence it read under the lock
  cursor,     \* cursor[u]: the last sequence its client has pulled
  pulled,     \* pulled[u]: the sequences its client received
  lostMls     \* transactions lost, so far

groupVars == <<group, e2eeOn, enabling>>
mlsVars   == <<epoch, mls, sending, numbered>>
pullVars  == <<cursor, pulled>>
mlsGroupsVars == <<groupVars, mlsVars, pullVars, lostMls>>

MlsGroupsInit ==
  /\ group = FALSE /\ e2eeOn = FALSE
  /\ enabling = [u \in Members |-> "idle"]
  /\ epoch = 0 /\ mls = [n \in {} |-> n]
  /\ sending = [s \in MlsSenders |-> "idle"]
  /\ numbered = [s \in MlsSenders |-> 0]
  /\ cursor = [u \in Members |-> 0]
  /\ pulled = [u \in Members |-> {}]
  /\ lostMls = 0

-----------------------------------------------------------------------------
(* Activation *)

\* enableE2ee reads the flag before its transaction.
CheckNotE2ee(u) ==
  /\ enabling[u] = "idle" /\ ~e2eeOn
  /\ enabling' = [enabling EXCEPT ![u] = "checked"]
  /\ UNCHANGED <<group, e2eeOn, mlsVars, pullVars, lostMls>>

\* Mutant: mls_groups.conversation_id is not UNIQUE.
GroupKeyShared(u) == TRUE

\* UNIQUE (conversation_id): the INSERT waits for the end of a transaction
\* that has inserted the group, and goes through if that one is rolled back.
GroupKeyFree(u) == ~group /\ \A v \in Members \ {u} : enabling[v] # "inserted"

InsertGroup(u) ==
  /\ enabling[u] = "checked" /\ GroupKeyFree(u)
  /\ enabling' = [enabling EXCEPT ![u] = "inserted"]
  /\ UNCHANGED <<group, e2eeOn, mlsVars, pullVars, lostMls>>

\* The group is there, committed by another activation: 23505, rolled back.
GroupExists(u) ==
  /\ enabling[u] = "checked" /\ group
  /\ enabling' = [enabling EXCEPT ![u] = "idle"]
  /\ UNCHANGED <<group, e2eeOn, mlsVars, pullVars, lostMls>>

\* The group at epoch 0, its welcomes numbered from 1, and the flag.
CommitGroup(u) ==
  /\ enabling[u] = "inserted"
  /\ \E n \in 1..MaxWelcomes : \E to \in [1..n -> Members] :
       mls' = [k \in 1..n |-> [kind |-> "welcome", target |-> to[k]]]
  /\ group' = TRUE /\ e2eeOn' = TRUE /\ epoch' = 0
  /\ enabling' = [enabling EXCEPT ![u] = "idle"]
  /\ UNCHANGED <<sending, numbered, pullVars, lostMls>>

LoseGroup(u) ==
  /\ enabling[u] = "inserted" /\ lostMls < MaxLostMls
  /\ lostMls' = lostMls + 1
  /\ enabling' = [enabling EXCEPT ![u] = "idle"]
  /\ UNCHANGED <<group, e2eeOn, mlsVars, pullVars>>

-----------------------------------------------------------------------------
(* MLS messages *)

\* Mutant: the group row is read without its lock.
GroupUnlocked(s) == TRUE

\* setLock('pessimistic_write') on the group row.
GroupLockFree(s) == \A t \in MlsSenders \ {s} : sending[t] # "locked"

\* COALESCE(MAX(sequence), 0)
LastMls == CHOOSE n \in DOMAIN mls \cup {0} : \A k \in DOMAIN mls : k <= n

\* sendMlsMessage finds the group, locks its row and reads the last sequence.
LockGroup(s) ==
  /\ sending[s] = "idle" /\ group /\ LastMls < MaxMls
  /\ GroupLockFree(s)
  /\ sending' = [sending EXCEPT ![s] = "locked"]
  /\ numbered' = [numbered EXCEPT ![s] = LastMls + 1]
  /\ UNCHANGED <<groupVars, epoch, mls, pullVars, lostMls>>

\* A commit, and nothing else, starts an epoch.
NextEpoch(kind) == IF kind = "commit" THEN epoch + 1 ELSE epoch

CommitMls(s) ==
  /\ sending[s] = "locked"
  /\ \E kind \in Kinds \ {"welcome"}, to \in Members \cup {Everyone} :
       /\ epoch' = NextEpoch(kind)
       /\ mls' = [n \in DOMAIN mls \cup {numbered[s]} |->
                    IF n = numbered[s] THEN [kind |-> kind, target |-> to] ELSE mls[n]]
  /\ sending' = [sending EXCEPT ![s] = "idle"]
  /\ UNCHANGED <<groupVars, numbered, pullVars, lostMls>>

LoseMls(s) ==
  /\ sending[s] = "locked" /\ lostMls < MaxLostMls
  /\ lostMls' = lostMls + 1
  /\ sending' = [sending EXCEPT ![s] = "idle"]
  /\ UNCHANGED <<groupVars, epoch, mls, numbered, pullVars>>

\* target_user_id IS NULL OR target_user_id = :u
ForMember(u) == {n \in DOMAIN mls : mls[n].target \in {Everyone, u}}

\* Mutant: the page is taken from the newest message down.
NewestMls(u) ==
  LET S == {n \in ForMember(u) : n > cursor[u]}
  IN  {n \in S : Cardinality({k \in S : k > n}) < PageLimit}

\* sequence > afterSequence ORDER BY sequence LIMIT PageLimit
MlsPage(u) ==
  LET S == {n \in ForMember(u) : n > cursor[u]}
  IN  {n \in S : Cardinality({k \in S : k < n}) < PageLimit}

\* A client pulls the next page and goes on from its last message.
ListMls(u) ==
  /\ group /\ MlsPage(u) # {}
  /\ cursor' = [cursor EXCEPT ![u] = CHOOSE n \in MlsPage(u) : \A k \in MlsPage(u) : k <= n]
  /\ pulled' = [pulled EXCEPT ![u] = @ \cup MlsPage(u)]
  /\ UNCHANGED <<groupVars, mlsVars, lostMls>>

-----------------------------------------------------------------------------

MlsGroupsNext ==
  \/ \E u \in Members : CheckNotE2ee(u) \/ InsertGroup(u) \/ GroupExists(u)
                        \/ CommitGroup(u) \/ LoseGroup(u) \/ ListMls(u)
  \/ \E s \in MlsSenders : LockGroup(s) \/ CommitMls(s) \/ LoseMls(s)

MlsGroupsSpec == MlsGroupsInit /\ [][MlsGroupsNext]_mlsGroupsVars

MlsGroupsTypeOK ==
  /\ group \in BOOLEAN /\ e2eeOn \in BOOLEAN
  /\ enabling \in [Members -> {"idle", "checked", "inserted"}]
  /\ epoch \in Nat
  /\ mls \in [DOMAIN mls -> [kind : Kinds, target : Members \cup {Everyone}]]
  /\ sending \in [MlsSenders -> {"idle", "locked"}]
  /\ numbered \in [MlsSenders -> Nat]
  /\ cursor \in [Members -> Nat]
  /\ \A u \in Members : pulled[u] \subseteq DOMAIN mls
  /\ lostMls \in Nat

\* "Persistance + sequencing par groupe (epoch + sequence monotone)": the
\* sequences have no gap, who holds the group row is about to write the next
\* one, so that the unique index never refuses it, and the epoch counts the
\* commits that were accepted.
SequencedUnderLock ==
  /\ DOMAIN mls = 1..LastMls
  /\ \A s \in MlsSenders : sending[s] = "locked" => numbered[s] = LastMls + 1
  /\ epoch = Cardinality({n \in DOMAIN mls : mls[n].kind = "commit"})

\* "1 groupe par conversation": flag, group and welcomes are there together or
\* not at all, and activations that raced have not restarted the numbering:
\* no one still has an uncommitted group once there is one.
GroupIsWhole ==
  /\ e2eeOn = group /\ group = (1 \in DOMAIN mls)
  /\ group => mls[1].kind = "welcome" /\ \A u \in Members : enabling[u] # "inserted"

\* "Pull des MlsMessages depuis une sequence (pour pickup offline)": a client
\* that goes on from the last sequence it got has every message for it below,
\* although messages are added, to it and to others, while it pages.
PickupComplete ==
  \A u \in Members : {n \in ForMember(u) : n <= cursor[u]} \subseteq pulled[u]
=============================================================================
