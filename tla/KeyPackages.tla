---------------------------- MODULE KeyPackages ----------------------------
(***************************************************************************)
(* E2eeService, the pool of MLS key packages of one user and one cipher    *)
(* suite: published by the devices of the user, each consumed by the claim *)
(* of another user who adds them to a group.  What a package holds is      *)
(* opaque to the server.                                                   *)
(***************************************************************************)
EXTENDS Naturals, FiniteSets

CONSTANTS
  Claimers,      \* slots for claims in flight
  MaxPackages,   \* bound: key packages published
  MaxLostClaims  \* bound: claims that lose their connection

ASSUME KeyPackagesAssumption == MaxPackages \in Nat /\ MaxLostClaims \in Nat

Packages == 1..MaxPackages

VARIABLES
  published,   \* key packages saved so far
  createdAt,   \* createdAt[k]: created_at of the row, the same for a pool
  expired,     \* those with expires_at <= now()
  consumed,    \* those with consumed_at set
  handed,      \* handed[k]: claims answered with key package k
  claim,       \* claim[c]: idle, scan (in the SELECT), locked (has its row)
  cand,        \* cand[c]: the rows the SELECT still has to look at
  lostClaims   \* claims lost, so far

poolVars  == <<published, createdAt>>
claimVars == <<claim, cand>>
keyPackagesVars == <<poolVars, expired, consumed, handed, claimVars, lostClaims>>

KeyPackagesInit ==
  /\ published = 0 /\ createdAt = [k \in Packages |-> 0]
  /\ expired = {} /\ consumed = {}
  /\ handed = [k \in Packages |-> 0]
  /\ claim = [c \in Claimers |-> "idle"]
  /\ cand = [c \in Claimers |-> {}]
  /\ lostClaims = 0

\* publishKeyPackages: a device posts a pool, saved in one transaction, so
\* that its rows have the same created_at.  An empty pool is refused.
PublishKeyPackages(n) ==
  /\ n >= 1 /\ published + n <= MaxPackages
  /\ published' = published + n
  /\ createdAt' = [k \in Packages |->
                     IF k \in (published + 1)..(published + n) THEN published + 1
                                                              ELSE createdAt[k]]
  /\ UNCHANGED <<expired, consumed, handed, claimVars, lostClaims>>

\* Time passes: expires_at of a key package goes by.
ExpireKeyPackage(k) ==
  /\ k \in (1..published) \ expired
  /\ expired' = expired \cup {k}
  /\ UNCHANGED <<poolVars, consumed, handed, claimVars, lostClaims>>

\* The WHERE of claimKeyPackage, and what countAvailable counts.
Available == (1..published) \ (consumed \cup expired)

\* The claim sends its SELECT: the rows it may return are in its snapshot.
SelectKeyPackage(c) ==
  /\ claim[c] = "idle"
  /\ claim' = [claim EXCEPT ![c] = "scan"]
  /\ cand' = [cand EXCEPT ![c] = Available]
  /\ UNCHANGED <<poolVars, expired, consumed, handed, lostClaims>>

\* Mutant: the SELECT has lost setLock('pessimistic_write').
KeyPackageUnlocked(c, k) == TRUE

\* pessimistic_write: no other claim holds the row.
KeyPackageLockFree(c, k) ==
  \A d \in Claimers \ {c} : ~(claim[d] = "locked" /\ k \in cand[d])

\* ORDER BY created_at: any of the oldest.
IsOldest(k, S) == k \in S /\ \A j \in S : createdAt[k] <= createdAt[j]

\* SELECT FOR UPDATE waits for the lock of the row and looks at it again: it
\* is returned if it is still unconsumed, otherwise the next one is tried.
LockKeyPackage(c) ==
  /\ claim[c] = "scan"
  /\ \E k \in Packages :
       /\ IsOldest(k, cand[c]) /\ KeyPackageLockFree(c, k)
       /\ \/ /\ k \notin consumed
             /\ claim' = [claim EXCEPT ![c] = "locked"]
             /\ cand' = [cand EXCEPT ![c] = {k}]
          \/ /\ k \in consumed
             /\ cand' = [cand EXCEPT ![c] = @ \ {k}]
             /\ UNCHANGED claim
  /\ UNCHANGED <<poolVars, expired, consumed, handed, lostClaims>>

\* No row is left: 404.
NoKeyPackage(c) ==
  /\ claim[c] = "scan" /\ cand[c] = {}
  /\ claim' = [claim EXCEPT ![c] = "idle"]
  /\ UNCHANGED <<poolVars, expired, consumed, handed, cand, lostClaims>>

\* consumed_at and consumed_by of the row are saved.
Consume(c) == consumed \cup cand[c]

\* The transaction commits and the claim is answered with the package.
CommitClaim(c) ==
  /\ claim[c] = "locked"
  /\ consumed' = Consume(c)
  /\ handed' = [k \in Packages |-> IF k \in cand[c] THEN handed[k] + 1 ELSE handed[k]]
  /\ claim' = [claim EXCEPT ![c] = "idle"]
  /\ cand' = [cand EXCEPT ![c] = {}]
  /\ UNCHANGED <<poolVars, expired, lostClaims>>

\* The backend or its connection is lost: the transaction is rolled back, and
\* its lock goes with it.
LoseClaim(c) ==
  /\ claim[c] = "locked" /\ lostClaims < MaxLostClaims
  /\ lostClaims' = lostClaims + 1
  /\ claim' = [claim EXCEPT ![c] = "idle"]
  /\ cand' = [cand EXCEPT ![c] = {}]
  /\ UNCHANGED <<poolVars, expired, consumed, handed>>

KeyPackagesNext ==
  \/ \E n \in Packages : PublishKeyPackages(n) \/ ExpireKeyPackage(n)
  \/ \E c \in Claimers : SelectKeyPackage(c) \/ LockKeyPackage(c) \/ NoKeyPackage(c)
                         \/ CommitClaim(c) \/ LoseClaim(c)

KeyPackagesSpec == KeyPackagesInit /\ [][KeyPackagesNext]_keyPackagesVars

-----------------------------------------------------------------------------

KeyPackagesTypeOK ==
  /\ published \in 0..MaxPackages
  /\ createdAt \in [Packages -> 0..MaxPackages]
  /\ expired \subseteq 1..published /\ consumed \subseteq 1..published
  /\ handed \in [Packages -> Nat]
  /\ claim \in [Claimers -> {"idle", "scan", "locked"}]
  /\ cand \in [Claimers -> SUBSET (1..published)]
  /\ lostClaims \in Nat

\* claimKeyPackage, "consume": whatever claims overlap, wait for each other's
\* row or are lost, a key package is handed to one claim at most, and one that
\* is consumed was handed to somebody: none is used up by a lost claim.
HandedOnce ==
  \A k \in Packages : handed[k] = IF k \in consumed THEN 1 ELSE 0
=============================================================================
