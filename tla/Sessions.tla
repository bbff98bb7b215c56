------------------------------ MODULE Sessions ------------------------------
(***************************************************************************)
(* AuthService, RefreshTokensService and UsersService for one account: its *)
(* registration, logins, the rotation of refresh tokens, logouts and the   *)
(* erasure of the account.  Every await of a request is a place where      *)
(* other requests run: none of this is in a transaction.                   *)
(***************************************************************************)
EXTENDS Naturals

CONSTANTS
  Sign,        \* slots for requests in flight
  MaxTokens,   \* bound: refresh tokens issued
  MaxCrashes   \* bound: requests that die with the backend

ASSUME SessionsAssumption == MaxTokens \in Nat /\ MaxCrashes \in Nat

Tokens == 1..MaxTokens

VARIABLES
  account,   \* the users row: none, active, erased (anonymized_at)
  erasing,   \* anonymizeUser: no, begun (user updated), revoked (uncommitted)
  issued,    \* refresh tokens issued so far
  parent,    \* parent[t]: parent_id, 0 if none
  revoked,   \* revoked[t]: revoked_reason, "no" while revoked_at is null
  granted,   \* tokens a client has been answered with
  at,        \* at[q]: where request q is, see SessionsTypeOK
  token,     \* token[q]: the token it presented, 0 if none
  child,     \* child[q]: the token it has issued and not yet answered, or 0
  crashes,   \* requests lost
  since,     \* requests that began after the erasure
  before,    \* tokens of sessions that began before the last revocation
  overtaken  \* those of rotations that the revocation overtook

accountVars  == <<account, erasing>>
tokenVars    == <<issued, parent, revoked>>
requestVars  == <<at, token, child>>
sessionGhost == <<before, overtaken>>
sessionsVars == <<accountVars, tokenVars, granted, requestVars, crashes, since,
                  sessionGhost>>

SessionsInit ==
  /\ account = "none" /\ erasing = "no"
  /\ issued = 0 /\ parent = [t \in Tokens |-> 0]
  /\ revoked = [t \in Tokens |-> "no"]
  /\ granted = {}
  /\ at = [q \in Sign |-> "idle"]
  /\ token = [q \in Sign |-> 0] /\ child = [q \in Sign |-> 0]
  /\ crashes = 0 /\ since = {} /\ before = {} /\ overtaken = {}

Live == {t \in 1..issued : revoked[t] = "no"}

\* A request starts, with the token its client holds, or goes on.
Begin(q, s, t) ==
  /\ at[q] = "idle"
  /\ at' = [at EXCEPT ![q] = s]
  /\ token' = [token EXCEPT ![q] = t]
  /\ since' = IF account = "erased" THEN since \cup {q} ELSE since \ {q}
  /\ UNCHANGED child

Continue(q, s) ==
  /\ at' = [at EXCEPT ![q] = s]
  /\ UNCHANGED <<token, child, since>>

\* The request ends.
Answer(q) ==
  /\ at' = [at EXCEPT ![q] = "idle"]
  /\ token' = [token EXCEPT ![q] = 0]
  /\ child' = [child EXCEPT ![q] = 0]
  /\ UNCHANGED since

\* RefreshTokensService.issue: a new row, live, below the parent it is given.
\* Its user_id refers to a row whose email the erasure has updated: until that
\* transaction ends, PostgreSQL makes the INSERT wait.
Issue(p) ==
  /\ issued < MaxTokens /\ erasing = "no"
  /\ issued' = issued + 1
  /\ parent' = [parent EXCEPT ![issued + 1] = p]
  /\ before' = IF p \in before THEN before \cup {issued + 1} ELSE before
  /\ overtaken' = IF p \in overtaken THEN overtaken \cup {issued + 1} ELSE overtaken

\* setAuthCookies: the client holds the token of the answer from now on.
Grant(t) == granted' = granted \cup {t}

-----------------------------------------------------------------------------
(* Registration and login *)

\* register answers { ok: true } when the email is known.
RegisterFinds(q) ==
  /\ Begin(q, "register", 0) /\ account = "none"
  /\ UNCHANGED <<accountVars, tokenVars, granted, crashes, sessionGhost>>

\* createUser, after the hash: email is UNIQUE, a second creation fails.
RegisterCreates(q) ==
  /\ at[q] = "register"
  /\ account' = IF account = "none" THEN "active" ELSE account
  /\ Answer(q)
  /\ UNCHANGED <<erasing, tokenVars, granted, crashes, sessionGhost>>

\* login finds the user by email: neither suspended nor anonymised,
LoginFinds(q) ==
  /\ account = "active"
  /\ Begin(q, "login", 0)
  /\ UNCHANGED <<accountVars, tokenVars, granted, crashes, sessionGhost>>

\* and the session is issued once argon2 has verified the password it read.
LoginIssues(q) ==
  /\ at[q] = "login"
  /\ Issue(0)
  /\ Grant(issued + 1)
  /\ Answer(q)
  /\ UNCHANGED <<accountVars, revoked, crashes>>

-----------------------------------------------------------------------------
(* Rotation *)

\* Mutant: a token that is already revoked is not noticed.
IsReplayUnnoticed(t) == FALSE

\* found.revokedAt
IsReplay(t) == revoked[t] # "no"

\* rotate reads the row of the token, and only then looks at what it has read:
\* a live one that has expired is answered 403 and leaves no trace.
RotateFinds(q, t) ==
  /\ t \in granted
  /\ Begin(q, IF IsReplay(t) THEN "replay" ELSE "found", t)
  /\ UNCHANGED <<accountVars, tokenVars, granted, crashes, sessionGhost>>

\* UPDATE ... WHERE user_id = :u AND revoked_at IS NULL.
RevokeAll(reason) ==
  /\ revoked' = [t \in Tokens |-> IF t \in Live THEN reason ELSE revoked[t]]
  /\ before' = 1..issued
  /\ overtaken' = {token[q] : q \in {r \in Sign : at[r] \in {"found", "rotated"}}}

\* A token that was already revoked: every session of the user ends, 403.
RevokeFamily(q) ==
  /\ at[q] = "replay"
  /\ RevokeAll("family_compromise")
  /\ Answer(q)
  /\ UNCHANGED <<accountVars, issued, parent, granted, crashes>>

\* Mutant: revokedAt is set on an object that is not saved.
RotationForgotten(t) == revoked

\* repo.save(found): by id, whatever revoked_at has become since.
Rotated(t) == [revoked EXCEPT ![t] = "rotated"]

RotateSaves(q) ==
  /\ at[q] = "found"
  /\ revoked' = Rotated(token[q])
  /\ Continue(q, "rotated")
  /\ UNCHANGED <<accountVars, issued, parent, granted, crashes, sessionGhost>>

RotateIssues(q) ==
  /\ at[q] = "rotated"
  /\ Issue(token[q])
  /\ child' = [child EXCEPT ![q] = issued + 1]
  /\ at' = [at EXCEPT ![q] = "issued"]
  /\ UNCHANGED <<accountVars, revoked, granted, token, since, crashes>>

\* Mutant: refresh does not look at the account any more.
AccountUnchecked == TRUE

\* !user || user.isSuspended || user.anonymizedAt
AccountValid == account = "active"

\* Back in refresh, the user is read: 401, the child being stored already, or
\* the cookies of the new session.
RefreshAnswers(q) ==
  /\ at[q] = "issued"
  /\ IF AccountValid THEN Grant(child[q]) ELSE UNCHANGED granted
  /\ Answer(q)
  /\ UNCHANGED <<accountVars, tokenVars, crashes, sessionGhost>>

\* The backend dies, or the answer is lost: the client keeps its old token.
CrashSignIn(q) ==
  /\ at[q] # "idle" /\ crashes < MaxCrashes
  /\ crashes' = crashes + 1
  /\ Answer(q)
  /\ UNCHANGED <<accountVars, tokenVars, granted, sessionGhost>>

-----------------------------------------------------------------------------
(* The end of sessions *)

\* logout with the cookie of one session, one UPDATE,
Logout(t) ==
  /\ t \in granted /\ t \in Live
  /\ revoked' = [revoked EXCEPT ![t] = "logout"]
  /\ UNCHANGED <<accountVars, issued, parent, granted, requestVars, crashes, since,
                 sessionGhost>>

\* or, when the cookie is gone, of all of them.
LogoutAll ==
  /\ Live # {}
  /\ RevokeAll("logout")
  /\ UNCHANGED <<accountVars, issued, parent, granted, requestVars, crashes, since>>

\* anonymizeUser: the transaction updates the user and wipes the messages;
EraseBegins ==
  /\ account = "active" /\ erasing = "no"
  /\ erasing' = "begun"
  /\ UNCHANGED <<account, tokenVars, granted, requestVars, crashes, since,
                 sessionGhost>>

\* the sessions are revoked on another connection, which commits by itself;
EraseRevokes ==
  /\ erasing = "begun"
  /\ erasing' = "revoked"
  /\ RevokeAll("gdpr_anonymized")
  /\ UNCHANGED <<account, issued, parent, granted, requestVars, crashes, since>>

\* then the transaction commits, or is lost.
EraseCommits ==
  /\ erasing = "revoked"
  /\ account' = "erased" /\ erasing' = "no"
  /\ UNCHANGED <<tokenVars, granted, requestVars, crashes, since, sessionGhost>>

EraseRollsBack ==
  /\ erasing # "no" /\ crashes < MaxCrashes
  /\ crashes' = crashes + 1
  /\ erasing' = "no"
  /\ UNCHANGED <<account, tokenVars, granted, requestVars, since, sessionGhost>>

-----------------------------------------------------------------------------

SessionsNext ==
  \/ \E q \in Sign : \/ RegisterFinds(q) \/ RegisterCreates(q)
                     \/ LoginFinds(q) \/ LoginIssues(q)
                     \/ RevokeFamily(q) \/ RotateSaves(q) \/ RotateIssues(q)
                     \/ RefreshAnswers(q) \/ CrashSignIn(q)
                     \/ \E t \in Tokens : RotateFinds(q, t)
  \/ \E t \in Tokens : Logout(t)
  \/ LogoutAll \/ EraseBegins \/ EraseRevokes \/ EraseCommits \/ EraseRollsBack

SessionsSpec == SessionsInit /\ [][SessionsNext]_sessionsVars

Reasons == {"no", "rotated", "family_compromise", "logout", "gdpr_anonymized"}

\* Types, and what a request holds at each step.
SessionsTypeOK ==
  /\ account \in {"none", "active", "erased"}
  /\ erasing \in {"no", "begun", "revoked"}
  /\ issued \in 0..MaxTokens
  /\ parent \in [Tokens -> 0..MaxTokens] /\ revoked \in [Tokens -> Reasons]
  /\ granted \cup before \cup overtaken \subseteq 1..issued
  /\ at \in [Sign -> {"idle", "register", "login", "found", "replay", "rotated", "issued"}]
  /\ \A q \in Sign :
       /\ token[q] \in 0..issued /\ child[q] \in 0..issued
       /\ at[q] \in {"found", "replay", "rotated", "issued"} <=> token[q] # 0
       /\ at[q] = "issued" <=> child[q] # 0
       /\ child[q] # 0 => parent[child[q]] = token[q]

\* "client refresh : ancien révoqué, nouveau émis avec parent_id": a token
\* that has a child is dead, also when two rotations of it overlap, the family
\* is revoked meanwhile, or the request dies between the two writes.
ParentIsRevoked ==
  \A t \in 1..issued : parent[t] # 0 => parent[t] < t /\ revoked[parent[t]] # "no"

\* "client utilise un refresh déjà révoqué : toute la famille révoquée", and
\* logouts and erasures likewise: a session that began before the revocation
\* lives on only through a rotation that had found its token live by then.
SurvivorsExplained == before \cap Live \subseteq overtaken

\* "!user || user.isSuspended || user.anonymizedAt": a request that began after
\* the erasure of the account was committed does not end with a new session.
NoSessionAfterErasure ==
  [][\A q \in since : at[q] # "idle" /\ at'[q] = "idle" => granted' = granted]_sessionsVars
=============================================================================
