------------------------- MODULE KeyPackagesProofs -------------------------
(***************************************************************************)
(* Proofs about KeyPackages, for any number of claims and packages: the    *)
(* types, and that a key package is handed to one claim at most.           *)
(***************************************************************************)
EXTENDS KeyPackages, TLAPS

\* What the row lock gives: a claim that has its row has exactly one, nobody
\* has consumed it, and no other claim has it.
LocksExclude ==
  /\ \A c \in Claimers :
       claim[c] = "locked" => \E k \in Packages : cand[c] = {k} /\ k \notin consumed
  /\ \A c, d \in Claimers :
       c # d /\ claim[c] = "locked" /\ claim[d] = "locked" => cand[c] \cap cand[d] = {}

-----------------------------------------------------------------------------
(* Types *)

\* What claimKeyPackage and publishKeyPackages store keeps its type.
LEMMA PackageTypesKept ==
  ASSUME KeyPackagesTypeOK, [KeyPackagesNext]_keyPackagesVars
  PROVE  KeyPackagesTypeOK'
<1> USE KeyPackagesAssumption DEF KeyPackagesTypeOK, Packages
<1>1. ASSUME NEW n \in Packages, PublishKeyPackages(n)
      PROVE  KeyPackagesTypeOK'
  <2>1. /\ published' = published + n /\ published' \in 0..MaxPackages
        /\ UNCHANGED <<expired, consumed, handed, claim, cand, lostClaims>>
    BY <1>1 DEF PublishKeyPackages, claimVars
  <2>2. createdAt' \in [Packages -> 0..MaxPackages]
    BY <1>1 DEF PublishKeyPackages
  <2>3. 1..published \subseteq 1..published'
    BY <2>1
  <2>4. cand' \in [Claimers -> SUBSET (1..published')]
    BY <2>1, <2>3
  <2> QED BY <2>1, <2>2, <2>3, <2>4
<1>2. ASSUME NEW k \in Packages, ExpireKeyPackage(k)
      PROVE  KeyPackagesTypeOK'
  BY <1>2 DEF ExpireKeyPackage, poolVars, claimVars
<1>3. ASSUME NEW c \in Claimers, SelectKeyPackage(c)
      PROVE  KeyPackagesTypeOK'
  BY <1>3 DEF SelectKeyPackage, Available, poolVars
<1>4. ASSUME NEW c \in Claimers, LockKeyPackage(c)
      PROVE  KeyPackagesTypeOK'
  <2>1. PICK k \in Packages :
          \/ /\ k \in cand[c] /\ claim' = [claim EXCEPT ![c] = "locked"]
             /\ cand' = [cand EXCEPT ![c] = {k}]
          \/ cand' = [cand EXCEPT ![c] = @ \ {k}] /\ UNCHANGED claim
    BY <1>4 DEF LockKeyPackage, IsOldest
  <2>2. UNCHANGED <<published, createdAt, expired, consumed, handed, lostClaims>>
    BY <1>4 DEF LockKeyPackage, poolVars
  <2>3. claim' \in [Claimers -> {"idle", "scan", "locked"}]
    BY <2>1
  <2>4. cand' \in [Claimers -> SUBSET (1..published)]
    <3>1. cand[c] \in SUBSET (1..published)
      OBVIOUS
    <3>2. k \in cand[c] => {k} \in SUBSET (1..published)
      BY <3>1
    <3>3. cand[c] \ {k} \in SUBSET (1..published)
      BY <3>1
    <3> QED BY <2>1, <3>2, <3>3
  <2> QED BY <2>2, <2>3, <2>4
<1>5. ASSUME NEW c \in Claimers, NoKeyPackage(c)
      PROVE  KeyPackagesTypeOK'
  BY <1>5 DEF NoKeyPackage, poolVars
<1>6. ASSUME NEW c \in Claimers, CommitClaim(c)
      PROVE  KeyPackagesTypeOK'
  <2>1. UNCHANGED <<published, createdAt, expired, lostClaims>>
    BY <1>6 DEF CommitClaim, poolVars
  <2>2. /\ claim' \in [Claimers -> {"idle", "scan", "locked"}]
        /\ cand' \in [Claimers -> SUBSET (1..published)]
    BY <1>6 DEF CommitClaim
  <2>3. consumed' \subseteq 1..published
    <3>1. cand[c] \subseteq 1..published
      OBVIOUS
    <3> QED BY <1>6, <3>1 DEF CommitClaim, Consume
  <2>4. handed' \in [Packages -> Nat]
    <3>1. \A k \in Packages : handed[k] \in Nat /\ handed[k] + 1 \in Nat
      OBVIOUS
    <3> QED BY <1>6, <3>1 DEF CommitClaim
  <2> QED BY <2>1, <2>2, <2>3, <2>4
<1>7. ASSUME NEW c \in Claimers, LoseClaim(c)
      PROVE  KeyPackagesTypeOK'
  BY <1>7 DEF LoseClaim, poolVars
<1>8. CASE UNCHANGED keyPackagesVars
  BY <1>8 DEF keyPackagesVars, poolVars, claimVars
<1> QED
  BY <1>1, <1>2, <1>3, <1>4, <1>5, <1>6, <1>7, <1>8 DEF KeyPackagesNext

\* Type correctness of the pool and of the claims, for every number of them.
THEOREM KeyPackageTypesAreCorrect == KeyPackagesSpec => []KeyPackagesTypeOK
<1>1. KeyPackagesInit => KeyPackagesTypeOK
  BY KeyPackagesAssumption DEF KeyPackagesInit, KeyPackagesTypeOK, Packages
<1> QED BY <1>1, PackageTypesKept, PTL DEF KeyPackagesSpec

-----------------------------------------------------------------------------
(* One claim per package *)

\* A step that consumes nothing and gives no claim a row keeps the locks.
LEMMA NothingTaken ==
  ASSUME LocksExclude, UNCHANGED consumed,
         \A c \in Claimers : claim'[c] = "locked" =>
                               claim[c] = "locked" /\ cand'[c] = cand[c]
  PROVE  LocksExclude'
BY DEF LocksExclude

\* The row lock keeps two claims from one package, and a package that is
\* consumed from every later claim: SELECT FOR UPDATE looks at it again.
LEMMA LocksAreKept ==
  ASSUME KeyPackagesTypeOK, LocksExclude, [KeyPackagesNext]_keyPackagesVars
  PROVE  LocksExclude'
<1> USE DEF KeyPackagesTypeOK
<1>1. ASSUME NEW n \in Packages, PublishKeyPackages(n) \/ ExpireKeyPackage(n)
      PROVE  LocksExclude'
  <2>1. UNCHANGED <<consumed, claim, cand>>
    BY <1>1 DEF PublishKeyPackages, ExpireKeyPackage, claimVars
  <2> QED BY <2>1, NothingTaken
<1>2. ASSUME NEW c \in Claimers, SelectKeyPackage(c) \/ NoKeyPackage(c) \/ LoseClaim(c)
      PROVE  LocksExclude'
  <2>1. /\ UNCHANGED consumed
        /\ \A d \in Claimers : claim'[d] = "locked" =>
                                 claim[d] = "locked" /\ cand'[d] = cand[d]
    BY <1>2 DEF SelectKeyPackage, NoKeyPackage, LoseClaim
  <2> QED BY <2>1, NothingTaken
<1>3. ASSUME NEW c \in Claimers, LockKeyPackage(c)
      PROVE  LocksExclude'
  <2>1. PICK k \in Packages :
          /\ IsOldest(k, cand[c]) /\ KeyPackageLockFree(c, k)
          /\ \/ /\ k \notin consumed
                /\ claim' = [claim EXCEPT ![c] = "locked"]
                /\ cand' = [cand EXCEPT ![c] = {k}]
             \/ /\ k \in consumed
                /\ cand' = [cand EXCEPT ![c] = @ \ {k}]
                /\ UNCHANGED claim
    BY <1>3 DEF LockKeyPackage
  <2>2. UNCHANGED consumed /\ claim[c] = "scan"
    BY <1>3 DEF LockKeyPackage
  <2>3. CASE k \in consumed
    BY <2>1, <2>2, <2>3, NothingTaken
  <2>4. CASE k \notin consumed
    <3>1. /\ claim'[c] = "locked" /\ cand'[c] = {k}
          /\ \A d \in Claimers \ {c} : claim'[d] = claim[d] /\ cand'[d] = cand[d]
      BY <2>1, <2>4
    <3>2. \A d \in Claimers \ {c} : claim[d] = "locked" => k \notin cand[d]
      BY <2>1 DEF KeyPackageLockFree
    <3> QED BY <2>2, <2>4, <3>1, <3>2 DEF LocksExclude
  <2> QED BY <2>3, <2>4
<1>4. ASSUME NEW c \in Claimers, CommitClaim(c)
      PROVE  LocksExclude'
  <2>1. /\ claim[c] = "locked" /\ consumed' = consumed \cup cand[c]
        /\ claim'[c] = "idle"
        /\ \A d \in Claimers \ {c} : claim'[d] = claim[d] /\ cand'[d] = cand[d]
    BY <1>4 DEF CommitClaim, Consume
  <2> QED BY <2>1 DEF LocksExclude
<1>5. CASE UNCHANGED keyPackagesVars
  BY <1>5, NothingTaken DEF keyPackagesVars, claimVars
<1> QED
  BY <1>1, <1>2, <1>3, <1>4, <1>5 DEF KeyPackagesNext

\* At every moment, the claims that hold a row hold different ones, and none
\* that has been consumed.
THEOREM LocksHold == KeyPackagesSpec => []LocksExclude
<1>1. KeyPackagesInit => LocksExclude
  BY DEF KeyPackagesInit, LocksExclude
<1> QED BY <1>1, LocksAreKept, KeyPackageTypesAreCorrect, PTL DEF KeyPackagesSpec

\* Only the commit of a claim hands a package out, and it consumes the same.
LEMMA HandingIsConsuming ==
  ASSUME KeyPackagesTypeOK, LocksExclude, HandedOnce, [KeyPackagesNext]_keyPackagesVars
  PROVE  HandedOnce'
<1> USE DEF KeyPackagesTypeOK
<1>1. ASSUME NEW c \in Claimers, CommitClaim(c)
      PROVE  HandedOnce'
  <2>1. PICK k \in Packages : cand[c] = {k} /\ k \notin consumed
    BY <1>1 DEF CommitClaim, LocksExclude
  <2>2. consumed' = consumed \cup {k}
    BY <1>1, <2>1 DEF CommitClaim, Consume
  <2>3. \A j \in Packages : handed'[j] = IF j = k THEN handed[j] + 1 ELSE handed[j]
    BY <1>1, <2>1 DEF CommitClaim
  <2> QED BY <2>1, <2>2, <2>3 DEF HandedOnce
<1>2. CASE UNCHANGED <<consumed, handed>>
  BY <1>2 DEF HandedOnce
<1>3. CASE KeyPackagesNext
  BY <1>1, <1>2, <1>3 DEF KeyPackagesNext, PublishKeyPackages, ExpireKeyPackage,
     SelectKeyPackage, LockKeyPackage, NoKeyPackage, LoseClaim
<1>4. CASE UNCHANGED keyPackagesVars
  BY <1>2, <1>4 DEF keyPackagesVars
<1> QED BY <1>3, <1>4

\* claimKeyPackage hands a key package to one claim at most, and one that is
\* consumed was handed to somebody, whatever claims overlap or are lost.
THEOREM PackagesAreHandedOnce == KeyPackagesSpec => []HandedOnce
<1>1. KeyPackagesInit => HandedOnce
  BY DEF KeyPackagesInit, HandedOnce
<1> QED
  BY <1>1, HandingIsConsuming, LocksHold, KeyPackageTypesAreCorrect, PTL DEF KeyPackagesSpec
=============================================================================
