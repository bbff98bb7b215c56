-------------------------- MODULE MlsGroupsProofs --------------------------
(***************************************************************************)
(* Proofs about MlsGroups, for any members, senders, pages and bounds: the *)
(* numbering under the group lock, the activation that happens once, and   *)
(* the client that pages through the messages and misses none.             *)
(***************************************************************************)
EXTENDS MlsGroups, FiniteSetTheorems, WellFoundedInduction, TLAPS

Entry == [kind : Kinds, target : Members \cup {Everyone}]

\* The messages are numbered from 1 without a gap.
Numbering == \E n \in Nat : mls \in [1..n -> Entry]

\* The types, with that numbering.
MlsTypes ==
  /\ group \in BOOLEAN /\ e2eeOn \in BOOLEAN
  /\ enabling \in [Members -> {"idle", "checked", "inserted"}]
  /\ epoch \in Nat /\ lostMls \in Nat
  /\ sending \in [MlsSenders -> {"idle", "locked"}]
  /\ numbered \in [MlsSenders -> Nat]
  /\ cursor \in [Members -> Nat] /\ pulled \in [Members -> SUBSET Nat]
  /\ Numbering

\* MAX(sequence) of messages numbered from 1 without a gap.
LEMMA LastOfNumbering ==
  ASSUME NEW n \in Nat, NEW f \in [1..n -> Entry]
  PROVE  (CHOOSE m \in DOMAIN f \cup {0} : \A k \in DOMAIN f : k <= m) = n
<1>1. DOMAIN f = 1..n
  OBVIOUS
<1>2. n \in 1..n \cup {0} /\ \A k \in 1..n : k <= n
  OBVIOUS
<1>3. \A m \in 1..n \cup {0} : (\A k \in 1..n : k <= m) => m = n
  OBVIOUS
<1>4. (CHOOSE m \in 1..n \cup {0} : \A k \in 1..n : k <= m) = n
  BY <1>2, <1>3
<1> QED
  BY <1>1, <1>4

\* LastMls is the length of the numbering.
LEMMA LastIsNat ==
  Numbering => LastMls \in Nat /\ DOMAIN mls = 1..LastMls /\ mls \in [1..LastMls -> Entry]
<1> SUFFICES ASSUME NEW n \in Nat, mls \in [1..n -> Entry]
             PROVE  LastMls = n /\ DOMAIN mls = 1..n
  BY DEF Numbering
<1> QED
  BY LastOfNumbering DEF LastMls

-----------------------------------------------------------------------------
(* A page has a last message *)

\* A non-empty set of numbers below a bound has a greatest one.
LEMMA GreatestExists ==
  ASSUME NEW n \in Nat, NEW S, S \subseteq 1..n, S # {}
  PROVE  \E m \in S : \A k \in S : k <= m
<1> DEFINE T == {n - k : k \in S}
           R == OpToRel(<, Nat)
<1>0. \A k \in S : k \in Int /\ n - k \in Nat
  OBVIOUS
<1>1. T \subseteq Nat /\ T # {}
  BY <1>0
<1>2. IsWellFoundedOn(R, Nat)
  BY NatLessThanWellFounded
<1>3. \A x, y \in T : y < x => <<y, x>> \in R
  BY <1>1 DEF OpToRel
<1> HIDE DEF R
<1>4. \E x \in T : \A y \in T : ~(<<y, x>> \in R)
  <2> HIDE DEF T
  <2> QED
    BY <1>1, <1>2, WFMin
<1>5. PICK x \in T : \A y \in T : ~(y < x)
  BY <1>3, <1>4
<1>6. PICK m \in S : x = n - m
  BY <1>5
<1>7. ASSUME NEW k \in S PROVE k <= m
  <2>1. ~(n - k < n - m)
    BY <1>5, <1>6
  <2> QED
    BY <2>1
<1> QED
  BY <1>7

\* A page that is not empty ends at its greatest sequence, and leaves nothing
\* for this member out between the cursor and there.
LEMMA PageIsWhole ==
  ASSUME MlsTypes, NEW u \in Members, MlsPage(u) # {},
         NEW m, m = (CHOOSE n \in MlsPage(u) : \A k \in MlsPage(u) : k <= n)
  PROVE  /\ m \in 1..LastMls /\ MlsPage(u) \subseteq 1..LastMls
         /\ \A n \in ForMember(u) : cursor[u] < n /\ n <= m => n \in MlsPage(u)
<1> DEFINE S == {n \in ForMember(u) : n > cursor[u]}
           P == MlsPage(u)
           Before(n) == {k \in S : k < n}
<1>1. LastMls \in Nat /\ DOMAIN mls = 1..LastMls
  BY LastIsNat DEF MlsTypes
<1>2. S \subseteq 1..LastMls /\ P \subseteq S /\ ForMember(u) \subseteq 1..LastMls
  BY <1>1 DEF MlsPage, ForMember
<1>3. P = {n \in S : Cardinality(Before(n)) < PageLimit}
  BY DEF MlsPage
<1> HIDE DEF S, P
<1>4. PICK top \in P : \A k \in P : k <= top
  BY <1>1, <1>2, GreatestExists DEF P
<1>5. m \in P
  BY <1>4 DEF P
<1>6. ASSUME NEW n \in S, n <= m PROVE n \in P
  <2>1. Before(n) \subseteq Before(m)
    <3>1. \A k \in S : k \in Int
      BY <1>2
    <3>2. m \in S
      BY <1>2, <1>5
    <3>3. n \in Int /\ m \in Int /\ n <= m
      BY <1>6, <3>1, <3>2
    <3>4. ASSUME NEW k \in S, k < n PROVE k < m
      <4>1. k \in Int
        BY <3>1
      <4> QED
        BY <3>3, <3>4, <4>1
    <3> QED
      BY <3>4
  <2>2. IsFiniteSet(1..LastMls)
    BY <1>1, FS_Interval
  <2>3. Before(m) \subseteq 1..LastMls
    BY <1>2
  <2> HIDE DEF Before
  <2>4. IsFiniteSet(Before(m))
    BY <2>2, <2>3, FS_Subset
  <2>5. IsFiniteSet(Before(n)) /\ Cardinality(Before(n)) <= Cardinality(Before(m))
    BY <2>1, <2>4, FS_Subset
  <2>6. Cardinality(Before(n)) \in Nat /\ Cardinality(Before(m)) \in Nat
    BY <2>4, <2>5, FS_CardinalityType
  <2>7. Cardinality(Before(m)) < PageLimit /\ PageLimit \in Nat
    BY <1>3, <1>5, MlsGroupsAssumption
  <2> QED
    BY <1>3, <2>5, <2>6, <2>7
<1>7. \A k \in ForMember(u) : cursor[u] < k => k \in S
  <2>1. \A k \in ForMember(u) : k \in Int
    BY <1>2
  <2>2. cursor[u] \in Nat
    BY DEF MlsTypes
  <2> QED
    BY <2>1, <2>2 DEF S
<1> QED
  BY <1>2, <1>5, <1>6, <1>7 DEF P

-----------------------------------------------------------------------------
(* Types *)

\* There is no message at the start.
LEMMA MlsTypesInit == MlsGroupsInit => MlsTypes
<1> SUFFICES ASSUME MlsGroupsInit PROVE MlsTypes
  OBVIOUS
<1>1. mls \in [1..0 -> Entry] /\ 0 \in Nat
  BY DEF MlsGroupsInit
<1>2. Numbering
  BY <1>1 DEF Numbering
<1> QED
  BY <1>2 DEF MlsGroupsInit, MlsTypes

\* Who holds the group row is the only one, there is a group, and the number
\* it has read is the next; without a group there is nothing; who has inserted
\* the group is the only one, and it is not there yet.
GroupLocks ==
  /\ \A s \in MlsSenders : sending[s] = "locked" =>
       /\ group /\ numbered[s] = LastMls + 1
       /\ \A t \in MlsSenders : sending[t] = "locked" => t = s
  /\ ~group => LastMls = 0 /\ epoch = 0
  /\ \A u \in Members : enabling[u] = "inserted" =>
       ~group /\ \A v \in Members : enabling[v] = "inserted" => v = u
  /\ e2eeOn = group /\ (group => LastMls >= 1 /\ mls[1].kind = "welcome")

\* A commit of an activation, in the types.
LEMMA CommitGroupFacts ==
  ASSUME MlsTypes, NEW u \in Members, CommitGroup(u)
  PROVE  /\ Numbering' /\ LastMls' >= 1 /\ LastMls' \in Nat /\ DOMAIN mls' = 1..LastMls'
         /\ \A k \in 1..LastMls' : mls'[k].kind = "welcome"
<1>1. PICK n \in 1..MaxWelcomes : \E to \in [1..n -> Members] :
        mls' = [k \in 1..n |-> [kind |-> "welcome", target |-> to[k]]]
  BY DEF CommitGroup
<1>2. n \in Nat /\ n >= 1
  BY <1>1, MlsGroupsAssumption
<1>3. mls' \in [1..n -> Entry] /\ \A k \in 1..n : mls'[k].kind = "welcome"
  BY <1>1 DEF Entry, Kinds
<1>4. Numbering'
  BY <1>2, <1>3 DEF Numbering
<1>5. LastMls' = n
  BY <1>2, <1>3, LastOfNumbering DEF LastMls
<1> QED
  BY <1>2, <1>3, <1>4, <1>5

\* A commit of a message adds the next one, and counts it if it is a commit.
LEMMA CommitMlsFacts ==
  ASSUME MlsTypes, GroupLocks, NEW s \in MlsSenders, CommitMls(s)
  PROVE  /\ Numbering' /\ LastMls' = LastMls + 1 /\ LastMls \in Nat
         /\ DOMAIN mls' = 1..LastMls'
         /\ \A k \in 1..LastMls : mls'[k] = mls[k]
         /\ epoch' = IF mls'[LastMls'].kind = "commit" THEN epoch + 1 ELSE epoch
<1> DEFINE l == LastMls
<1>1. l \in Nat /\ DOMAIN mls = 1..l /\ mls \in [1..l -> Entry] /\ numbered[s] = l + 1
  BY LastIsNat DEF MlsTypes, GroupLocks, CommitMls
<1>2. PICK kind \in Kinds \ {"welcome"}, to \in Members \cup {Everyone} :
        /\ epoch' = NextEpoch(kind)
        /\ mls' = [n \in DOMAIN mls \cup {numbered[s]} |->
                    IF n = numbered[s] THEN [kind |-> kind, target |-> to] ELSE mls[n]]
  BY DEF CommitMls
<1> HIDE DEF l
<1>3. DOMAIN mls \cup {numbered[s]} = 1..(l + 1)
  BY <1>1
<1>4. mls' = [n \in 1..(l + 1) |-> IF n = l + 1 THEN [kind |-> kind, target |-> to] ELSE mls[n]]
  BY <1>1, <1>2, <1>3
<1>5. \A n \in 1..l : mls[n] \in Entry
  BY <1>1
<1>6. [kind |-> kind, target |-> to] \in Entry
  BY DEF Entry
<1>7. mls' \in [1..(l + 1) -> Entry] /\ l + 1 \in Nat
  BY <1>1, <1>4, <1>5, <1>6
<1>8. LastMls' = l + 1 /\ Numbering'
  BY <1>7, LastOfNumbering DEF LastMls, Numbering
<1>9. \A k \in 1..l : mls'[k] = mls[k]
  BY <1>1, <1>4
<1>10. mls'[l + 1].kind = kind
  BY <1>1, <1>4
<1>11. DOMAIN mls' = 1..LastMls'
  BY <1>7, <1>8
<1> QED
  BY <1>1, <1>2, <1>8, <1>9, <1>10, <1>11 DEF l, NextEpoch

\* A step that leaves the messages alone leaves their numbering alone.
LEMMA SameNumbering ==
  ASSUME mls' = mls
  PROVE  LastMls' = LastMls /\ (Numbering => Numbering')
BY DEF LastMls, Numbering

\* Every step keeps the types.
LEMMA MlsTypesStep ==
  MlsTypes /\ GroupLocks /\ [MlsGroupsNext]_mlsGroupsVars => MlsTypes'
<1> SUFFICES ASSUME MlsTypes, GroupLocks, [MlsGroupsNext]_mlsGroupsVars PROVE MlsTypes'
  OBVIOUS
<1> USE DEF MlsTypes, groupVars, mlsVars, pullVars
<1>l. LastMls \in Nat
  BY LastIsNat
<1>1. ASSUME NEW u \in Members,
             CheckNotE2ee(u) \/ InsertGroup(u) \/ GroupExists(u) \/ LoseGroup(u)
      PROVE  MlsTypes'
  BY <1>1, SameNumbering DEF CheckNotE2ee, InsertGroup, GroupExists, LoseGroup
<1>2. ASSUME NEW u \in Members, CommitGroup(u) PROVE MlsTypes'
  <2>1. Numbering'
    BY <1>2, CommitGroupFacts
  <2> QED
    BY <1>2, <2>1 DEF CommitGroup
<1>3. ASSUME NEW u \in Members, ListMls(u) PROVE MlsTypes'
  <2> DEFINE m == CHOOSE n \in MlsPage(u) : \A k \in MlsPage(u) : k <= n
  <2>1. m \in 1..LastMls /\ MlsPage(u) \subseteq 1..LastMls
    BY <1>3, PageIsWhole DEF ListMls
  <2>2. m \in Nat /\ MlsPage(u) \subseteq Nat
    BY <1>l, <2>1
  <2>3. cursor' = [cursor EXCEPT ![u] = m] /\ pulled' = [pulled EXCEPT ![u] = @ \cup MlsPage(u)]
    BY <1>3 DEF ListMls
  <2> HIDE DEF m
  <2>4. cursor' \in [Members -> Nat]
    BY <2>2, <2>3
  <2>5. pulled' \in [Members -> SUBSET Nat]
    BY <2>2, <2>3
  <2> QED
    BY <1>3, <2>4, <2>5, SameNumbering DEF ListMls
<1>4. ASSUME NEW s \in MlsSenders, LockGroup(s) \/ LoseMls(s) PROVE MlsTypes'
  <2>1. CASE LockGroup(s)
    BY <1>l, <2>1, SameNumbering DEF LockGroup
  <2>2. CASE LoseMls(s)
    BY <2>2, SameNumbering DEF LoseMls
  <2> QED
    BY <1>4, <2>1, <2>2
<1>5. ASSUME NEW s \in MlsSenders, CommitMls(s) PROVE MlsTypes'
  <2>1. Numbering' /\ epoch' \in Nat
    BY <1>5, CommitMlsFacts
  <2> QED
    BY <1>5, <2>1 DEF CommitMls
<1>6. CASE UNCHANGED mlsGroupsVars
  BY <1>6, SameNumbering DEF mlsGroupsVars
<1> QED
  BY <1>1, <1>2, <1>3, <1>4, <1>5, <1>6 DEF MlsGroupsNext

-----------------------------------------------------------------------------
(* The numbering and the activation *)

\* Every step keeps the locks.
LEMMA LocksStep ==
  MlsTypes /\ GroupLocks /\ [MlsGroupsNext]_mlsGroupsVars => GroupLocks'
<1> SUFFICES ASSUME MlsTypes, GroupLocks, [MlsGroupsNext]_mlsGroupsVars PROVE GroupLocks'
  OBVIOUS
<1> USE DEF GroupLocks, groupVars, mlsVars, pullVars
<1>t. /\ enabling \in [Members -> {"idle", "checked", "inserted"}]
      /\ sending \in [MlsSenders -> {"idle", "locked"}]
      /\ numbered \in [MlsSenders -> Nat] /\ LastMls \in Nat
  BY LastIsNat DEF MlsTypes
<1>1. ASSUME NEW u \in Members,
             CheckNotE2ee(u) \/ InsertGroup(u) \/ GroupExists(u) \/ LoseGroup(u)
      PROVE  GroupLocks'
  BY <1>t, <1>1, SameNumbering
  DEF CheckNotE2ee, InsertGroup, GroupExists, LoseGroup, GroupKeyFree
<1>2. ASSUME NEW u \in Members, CommitGroup(u) PROVE GroupLocks'
  <2>1. /\ ~group /\ enabling[u] = "inserted" /\ group' = TRUE /\ e2eeOn' = TRUE
        /\ enabling' = [enabling EXCEPT ![u] = "idle"] /\ UNCHANGED <<sending, numbered>>
    BY <1>2 DEF CommitGroup
  <2>2. LastMls' \in Nat /\ LastMls' >= 1 /\ \A k \in 1..LastMls' : mls'[k].kind = "welcome"
    BY <1>2, CommitGroupFacts
  <2>3. \A s \in MlsSenders : sending'[s] # "locked"
    BY <2>1
  <2>4. \A v \in Members : enabling'[v] # "inserted"
    BY <1>t, <2>1
  <2>5. mls'[1].kind = "welcome"
    BY <2>2
  <2> QED
    BY <2>1, <2>2, <2>3, <2>4, <2>5
<1>3. ASSUME NEW u \in Members, ListMls(u) PROVE GroupLocks'
  BY <1>3, SameNumbering DEF ListMls
<1>4. ASSUME NEW s \in MlsSenders, LockGroup(s) PROVE GroupLocks'
  BY <1>t, <1>4, SameNumbering DEF LockGroup, GroupLockFree
<1>5. ASSUME NEW s \in MlsSenders, LoseMls(s) PROVE GroupLocks'
  BY <1>t, <1>5, SameNumbering DEF LoseMls
<1>6. ASSUME NEW s \in MlsSenders, CommitMls(s) PROVE GroupLocks'
  <2>1. /\ group /\ sending' = [sending EXCEPT ![s] = "idle"] /\ sending[s] = "locked"
        /\ UNCHANGED <<group, e2eeOn, enabling, numbered>>
    BY <1>6 DEF CommitMls
  <2>2. LastMls' = LastMls + 1 /\ \A k \in 1..LastMls : mls'[k] = mls[k]
    BY <1>6, CommitMlsFacts
  <2>3. \A t \in MlsSenders : sending'[t] # "locked"
    BY <1>t, <2>1
  <2>4. LastMls' >= 1 /\ mls'[1].kind = "welcome"
    BY <1>t, <2>1, <2>2
  <2> QED
    BY <2>1, <2>3, <2>4
<1>7. CASE UNCHANGED mlsGroupsVars
  BY <1>7, SameNumbering DEF mlsGroupsVars
<1> QED
  BY <1>1, <1>2, <1>3, <1>4, <1>5, <1>6, <1>7 DEF MlsGroupsNext

\* The epoch counts the commits.
EpochCounts == epoch = Cardinality({n \in DOMAIN mls : mls[n].kind = "commit"})

\* Every step keeps that.
LEMMA EpochStep ==
  MlsTypes /\ GroupLocks /\ EpochCounts /\ [MlsGroupsNext]_mlsGroupsVars => EpochCounts'
<1> SUFFICES ASSUME MlsTypes, GroupLocks, EpochCounts, [MlsGroupsNext]_mlsGroupsVars
             PROVE  EpochCounts'
  OBVIOUS
<1> USE DEF EpochCounts, groupVars, mlsVars, pullVars
<1> DEFINE Commits(f) == {n \in DOMAIN f : f[n].kind = "commit"}
<1>1. ASSUME UNCHANGED <<epoch, mls>> PROVE EpochCounts'
  BY <1>1
<1>2. ASSUME NEW u \in Members, CommitGroup(u) PROVE EpochCounts'
  <2>1. \A k \in 1..LastMls' : mls'[k].kind = "welcome"
    BY <1>2, CommitGroupFacts
  <2>2. DOMAIN mls' = 1..LastMls'
    BY <1>2, CommitGroupFacts
  <2>3. Commits(mls') = {}
    BY <2>1, <2>2
  <2>4. epoch' = 0
    BY <1>2 DEF CommitGroup
  <2> QED
    BY <2>3, <2>4, FS_EmptySet
<1>3. ASSUME NEW s \in MlsSenders, CommitMls(s) PROVE EpochCounts'
  <2> DEFINE l == LastMls
             C == Commits(mls)
             x == mls'[l + 1].kind
  <2>1. /\ l \in Nat /\ DOMAIN mls = 1..l /\ \A k \in 1..l : mls'[k] = mls[k]
        /\ LastMls' = l + 1
        /\ epoch' = IF x = "commit" THEN epoch + 1 ELSE epoch
    BY <1>3, LastIsNat, CommitMlsFacts DEF MlsTypes
  <2>2. DOMAIN mls' = 1..(l + 1)
    <3>1. DOMAIN mls' = 1..LastMls'
      BY <1>3, CommitMlsFacts
    <3> QED
      BY <2>1, <3>1
  <2>3. IsFiniteSet(1..l) /\ C \subseteq 1..l /\ l + 1 \notin C
    BY <2>1, FS_Interval
  <2>4. Commits(mls') = IF x = "commit" THEN C \cup {l + 1} ELSE C
    <3>1. CASE x = "commit"
      BY <2>1, <2>2, <3>1
    <3>2. CASE x # "commit"
      BY <2>1, <2>2, <3>2
    <3> QED
      BY <3>1, <3>2
  <2> HIDE DEF C
  <2>5. IsFiniteSet(C)
    BY <2>3, FS_Subset
  <2>6. Cardinality(C \cup {l + 1}) = Cardinality(C) + 1
    BY <2>3, <2>5, FS_AddElement
  <2>7. epoch = Cardinality(C)
    BY DEF C
  <2>8. epoch' = Cardinality(Commits(mls'))
    <3>1. CASE x = "commit"
      BY <2>1, <2>4, <2>6, <2>7, <3>1
    <3>2. CASE x # "commit"
      BY <2>1, <2>4, <2>7, <3>2
    <3> QED
      BY <3>1, <3>2
  <2> QED
    BY <2>8
<1>4. ASSUME NEW u \in Members,
             \/ CheckNotE2ee(u) \/ InsertGroup(u) \/ GroupExists(u) \/ LoseGroup(u)
             \/ ListMls(u)
      PROVE  EpochCounts'
  BY <1>1, <1>4 DEF CheckNotE2ee, InsertGroup, GroupExists, LoseGroup, ListMls
<1>5. ASSUME NEW s \in MlsSenders, LockGroup(s) \/ LoseMls(s) PROVE EpochCounts'
  BY <1>1, <1>5 DEF LockGroup, LoseMls
<1>6. CASE UNCHANGED mlsGroupsVars
  BY <1>1, <1>6 DEF mlsGroupsVars
<1> QED
  BY <1>2, <1>3, <1>4, <1>5, <1>6 DEF MlsGroupsNext

-----------------------------------------------------------------------------
(* The client that pages *)

\* No client is ahead of the messages, and none has missed one behind it.
CursorBehind == \A u \in Members : cursor[u] <= LastMls

\* A message that is added comes after every cursor.
LEMMA PickupGrows ==
  ASSUME MlsTypes, CursorBehind, PickupComplete, LastMls' \in Nat, LastMls' >= LastMls,
         DOMAIN mls' = 1..LastMls', \A k \in 1..LastMls : mls'[k] = mls[k],
         UNCHANGED <<cursor, pulled>>
  PROVE  (CursorBehind /\ PickupComplete)'
<1>1. LastMls \in Nat /\ DOMAIN mls = 1..LastMls /\ \A u \in Members : cursor[u] \in Nat
  BY LastIsNat DEF MlsTypes
<1>2. CursorBehind'
  BY <1>1 DEF CursorBehind
<1>3. ASSUME NEW u \in Members, NEW n \in ForMember(u)', n <= cursor'[u] PROVE n \in pulled'[u]
  <2>1. n \in 1..LastMls' /\ mls'[n].target \in {Everyone, u} /\ n <= cursor[u]
    BY <1>3 DEF ForMember
  <2>2. n \in 1..LastMls
    BY <1>1, <2>1 DEF CursorBehind
  <2>3. n \in ForMember(u)
    BY <1>1, <2>1, <2>2 DEF ForMember
  <2> QED
    BY <2>1, <2>3 DEF PickupComplete
<1> QED
  BY <1>2, <1>3 DEF PickupComplete

\* Every step keeps the clients whole.
LEMMA PickupStep ==
  MlsTypes /\ GroupLocks /\ CursorBehind /\ PickupComplete /\ [MlsGroupsNext]_mlsGroupsVars
    => (CursorBehind /\ PickupComplete)'
<1> SUFFICES ASSUME MlsTypes, GroupLocks, CursorBehind, PickupComplete,
                    [MlsGroupsNext]_mlsGroupsVars
             PROVE  (CursorBehind /\ PickupComplete)'
  OBVIOUS
<1>l. LastMls \in Nat /\ DOMAIN mls = 1..LastMls
  BY LastIsNat DEF MlsTypes
<1>1. ASSUME UNCHANGED <<mls, cursor, pulled>> PROVE (CursorBehind /\ PickupComplete)'
  BY <1>1, SameNumbering DEF CursorBehind, PickupComplete, ForMember
<1>2. ASSUME NEW u \in Members, CommitGroup(u) PROVE (CursorBehind /\ PickupComplete)'
  <2>1. LastMls = 0 /\ UNCHANGED <<cursor, pulled>>
    BY <1>2 DEF CommitGroup, GroupLocks, pullVars
  <2>2. LastMls' \in Nat /\ LastMls' >= 1 /\ DOMAIN mls' = 1..LastMls'
    BY <1>2, CommitGroupFacts
  <2> QED
    BY <2>1, <2>2, PickupGrows
<1>3. ASSUME NEW s \in MlsSenders, CommitMls(s) PROVE (CursorBehind /\ PickupComplete)'
  <2>1. LastMls' = LastMls + 1 /\ DOMAIN mls' = 1..LastMls'
    BY <1>3, CommitMlsFacts
  <2>2. \A k \in 1..LastMls : mls'[k] = mls[k]
    BY <1>3, CommitMlsFacts
  <2>3. UNCHANGED <<cursor, pulled>>
    BY <1>3 DEF CommitMls, pullVars
  <2>4. LastMls' \in Nat /\ LastMls' >= LastMls
    BY <1>l, <2>1
  <2> QED
    BY <2>1, <2>2, <2>3, <2>4, PickupGrows
<1>4. ASSUME NEW u \in Members, ListMls(u) PROVE (CursorBehind /\ PickupComplete)'
  <2> DEFINE m == CHOOSE n \in MlsPage(u) : \A k \in MlsPage(u) : k <= n
  <2>1. /\ m \in 1..LastMls
        /\ \A n \in ForMember(u) : cursor[u] < n /\ n <= m => n \in MlsPage(u)
    BY <1>4, PageIsWhole DEF ListMls
  <2>2. /\ cursor' = [cursor EXCEPT ![u] = m] /\ UNCHANGED mls
        /\ pulled' = [pulled EXCEPT ![u] = @ \cup MlsPage(u)]
    BY <1>4 DEF ListMls, mlsVars
  <2> HIDE DEF m
  <2>t. cursor \in [Members -> Nat] /\ pulled \in [Members -> SUBSET Nat]
    BY DEF MlsTypes
  <2>3. LastMls' = LastMls /\ \A v \in Members : ForMember(v)' = ForMember(v)
    BY <2>2, SameNumbering DEF ForMember
  <2>4. CursorBehind'
    BY <1>l, <2>1, <2>2, <2>3, <2>t DEF CursorBehind
  <2>5. ASSUME NEW v \in Members, NEW n \in ForMember(v), n <= cursor'[v]
        PROVE  n \in pulled'[v]
    <3>1. n \in Nat
      BY <1>l DEF ForMember
    <3>2. CASE v # u
      BY <2>2, <2>5, <2>t, <3>2 DEF PickupComplete
    <3>3. CASE v = u /\ n <= cursor[u]
      BY <2>2, <2>t, <3>3 DEF PickupComplete
    <3>4. CASE v = u /\ ~(n <= cursor[u])
      <4>1. cursor'[u] = m /\ pulled'[u] = pulled[u] \cup MlsPage(u)
        BY <2>2, <2>t
      <4>2. cursor[u] < n /\ n <= m
        BY <2>5, <2>t, <3>1, <3>4, <4>1
      <4> QED
        BY <2>1, <3>4, <4>1, <4>2
    <3> QED
      BY <3>2, <3>3, <3>4
  <2> QED
    BY <2>3, <2>4, <2>5 DEF PickupComplete
<1>5. ASSUME NEW u \in Members,
             CheckNotE2ee(u) \/ InsertGroup(u) \/ GroupExists(u) \/ LoseGroup(u)
      PROVE  (CursorBehind /\ PickupComplete)'
  BY <1>1, <1>5 DEF CheckNotE2ee, InsertGroup, GroupExists, LoseGroup, mlsVars, pullVars
<1>6. ASSUME NEW s \in MlsSenders, LockGroup(s) \/ LoseMls(s)
      PROVE  (CursorBehind /\ PickupComplete)'
  BY <1>1, <1>6 DEF LockGroup, LoseMls, pullVars
<1>7. CASE UNCHANGED mlsGroupsVars
  BY <1>1, <1>7 DEF mlsGroupsVars, mlsVars, pullVars
<1> QED
  BY <1>2, <1>3, <1>4, <1>5, <1>6, <1>7 DEF MlsGroupsNext

-----------------------------------------------------------------------------

\* At the start there is no group, no message, and every cursor is at 0.
LEMMA GroupsInit ==
  MlsGroupsInit => GroupLocks /\ EpochCounts /\ CursorBehind /\ PickupComplete
<1> SUFFICES ASSUME MlsGroupsInit
             PROVE  GroupLocks /\ EpochCounts /\ CursorBehind /\ PickupComplete
  OBVIOUS
<1>1. LastMls = 0 /\ DOMAIN mls = {}
  <2>1. DOMAIN mls = {}
    BY DEF MlsGroupsInit
  <2>2. (CHOOSE m \in {0} : \A k \in {} : k <= m) = 0
    OBVIOUS
  <2>3. {} \cup {0} = {0}
    OBVIOUS
  <2> QED
    BY <2>1, <2>2, <2>3 DEF LastMls
<1>2. GroupLocks
  BY <1>1 DEF MlsGroupsInit, GroupLocks
<1>3. {n \in DOMAIN mls : mls[n].kind = "commit"} = {}
  BY <1>1
<1>4. EpochCounts
  BY <1>3, FS_EmptySet DEF MlsGroupsInit, EpochCounts
<1>5. CursorBehind /\ PickupComplete
  BY <1>1 DEF MlsGroupsInit, CursorBehind, PickupComplete, ForMember
<1> QED
  BY <1>2, <1>4, <1>5

\* The sequences of a group have no gap, who holds its row is about to write
\* the next one, and the epoch counts the commits.
THEOREM MessagesAreSequenced == MlsGroupsSpec => []SequencedUnderLock
<1>1. MlsTypes /\ GroupLocks /\ EpochCounts => SequencedUnderLock
  BY LastIsNat DEF MlsTypes, GroupLocks, EpochCounts, SequencedUnderLock
<1> QED
  BY <1>1, MlsTypesInit, GroupsInit, MlsTypesStep, LocksStep, EpochStep, PTL DEF MlsGroupsSpec

\* Flag, group and welcomes are there together, whatever activations raced.
THEOREM GroupsAreWhole == MlsGroupsSpec => []GroupIsWhole
<1>1. MlsTypes /\ GroupLocks => GroupIsWhole
  BY LastIsNat DEF MlsTypes, GroupLocks, GroupIsWhole
<1> QED
  BY <1>1, MlsTypesInit, GroupsInit, MlsTypesStep, LocksStep, PTL DEF MlsGroupsSpec

\* A client that goes on from its last sequence has missed nothing before it.
THEOREM PickupsAreComplete == MlsGroupsSpec => []PickupComplete
<1> QED
  BY MlsTypesInit, GroupsInit, MlsTypesStep, LocksStep, PickupStep, PTL DEF MlsGroupsSpec

\* What a client has pulled is there: nothing is ever taken off the numbering.
PulledIsStored == \A u \in Members : pulled[u] \subseteq 1..LastMls

\* The numbering only grows under what has been pulled.
LEMMA PulledStep ==
  MlsTypes /\ GroupLocks /\ PulledIsStored /\ [MlsGroupsNext]_mlsGroupsVars => PulledIsStored'
<1> SUFFICES ASSUME MlsTypes, GroupLocks, PulledIsStored, [MlsGroupsNext]_mlsGroupsVars
             PROVE  PulledIsStored'
  OBVIOUS
<1>l. LastMls \in Nat
  BY LastIsNat DEF MlsTypes
<1>1. ASSUME UNCHANGED pulled, LastMls' \in Nat, LastMls' >= LastMls PROVE PulledIsStored'
  BY <1>l, <1>1 DEF PulledIsStored
<1>2. ASSUME NEW u \in Members, CommitGroup(u) PROVE PulledIsStored'
  <2>1. LastMls = 0 /\ UNCHANGED pulled
    BY <1>2 DEF CommitGroup, GroupLocks, pullVars
  <2>2. LastMls' \in Nat /\ LastMls' >= 1
    BY <1>2, CommitGroupFacts
  <2> QED
    BY <1>1, <2>1, <2>2
<1>3. ASSUME NEW s \in MlsSenders, CommitMls(s) PROVE PulledIsStored'
  <2>1. LastMls' = LastMls + 1 /\ UNCHANGED pulled
    BY <1>3, CommitMlsFacts DEF CommitMls, pullVars
  <2> QED
    BY <1>l, <1>1, <2>1
<1>4. ASSUME NEW u \in Members, ListMls(u) PROVE PulledIsStored'
  <2>1. MlsPage(u) \subseteq 1..LastMls
    BY <1>4, PageIsWhole DEF ListMls
  <2>2. LastMls' = LastMls /\ pulled' = [pulled EXCEPT ![u] = @ \cup MlsPage(u)]
    BY <1>4, SameNumbering DEF ListMls, mlsVars
  <2>3. pulled \in [Members -> SUBSET Nat]
    BY DEF MlsTypes
  <2> QED
    BY <2>1, <2>2, <2>3 DEF PulledIsStored
<1>5. ASSUME UNCHANGED <<mls, pulled>> PROVE PulledIsStored'
  BY <1>5, SameNumbering DEF PulledIsStored
<1>6. ASSUME NEW u \in Members,
             CheckNotE2ee(u) \/ InsertGroup(u) \/ GroupExists(u) \/ LoseGroup(u)
      PROVE  PulledIsStored'
  BY <1>5, <1>6 DEF CheckNotE2ee, InsertGroup, GroupExists, LoseGroup, mlsVars, pullVars
<1>7. ASSUME NEW s \in MlsSenders, LockGroup(s) \/ LoseMls(s) PROVE PulledIsStored'
  BY <1>5, <1>7 DEF LockGroup, LoseMls, pullVars
<1>8. CASE UNCHANGED mlsGroupsVars
  BY <1>5, <1>8 DEF mlsGroupsVars, mlsVars, pullVars
<1> QED
  BY <1>2, <1>3, <1>4, <1>6, <1>7, <1>8 DEF MlsGroupsNext

\* The rows of mls_messages are numbered rows of a kind and a target, and what
\* a client has pulled is among them, for any members, senders and bounds.
THEOREM MlsTypesAreCorrect == MlsGroupsSpec => []MlsGroupsTypeOK
<1>1. MlsTypes /\ PulledIsStored => MlsGroupsTypeOK
  <2> SUFFICES ASSUME MlsTypes, PulledIsStored PROVE MlsGroupsTypeOK
    OBVIOUS
  <2>1. DOMAIN mls = 1..LastMls /\ mls \in [1..LastMls -> Entry]
    BY LastIsNat DEF MlsTypes
  <2>2. mls \in [DOMAIN mls -> [kind : Kinds, target : Members \cup {Everyone}]]
    BY <2>1 DEF Entry
  <2>3. \A u \in Members : pulled[u] \subseteq DOMAIN mls
    BY <2>1 DEF PulledIsStored
  <2> QED
    BY <2>2, <2>3 DEF MlsTypes, MlsGroupsTypeOK
<1>2. MlsGroupsInit => PulledIsStored
  BY DEF MlsGroupsInit, PulledIsStored
<1> QED
  BY <1>1, <1>2, MlsTypesInit, GroupsInit, MlsTypesStep, LocksStep, PulledStep, PTL
  DEF MlsGroupsSpec
=============================================================================
