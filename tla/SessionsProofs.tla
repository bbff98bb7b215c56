--------------------------- MODULE SessionsProofs ---------------------------
(***************************************************************************)
(* Proofs about Sessions, for any number of requests and tokens: the types *)
(* and the three properties of the runs.                                   *)
(***************************************************************************)
EXTENDS Sessions, TLAPS

USE DEF Grant

\* The variables of requests, one by one: the type of each.
RequestTypes ==
  /\ at \in [Sign -> {"idle", "register", "login", "found", "replay", "rotated", "issued"}]
  /\ token \in [Sign -> 0..issued] /\ child \in [Sign -> 0..issued]

TableTypes ==
  /\ account \in {"none", "active", "erased"}
  /\ erasing \in {"no", "begun", "revoked"}
  /\ issued \in 0..MaxTokens
  /\ parent \in [Tokens -> 0..MaxTokens] /\ revoked \in [Tokens -> Reasons]
  /\ granted \cup before \cup overtaken \subseteq 1..issued

\* What a request holds at each step of it.
Holds ==
  \A q \in Sign :
    /\ at[q] \in {"found", "replay", "rotated", "issued"} <=> token[q] # 0
    /\ at[q] = "issued" <=> child[q] # 0
    /\ child[q] # 0 => parent[child[q]] = token[q]

Types == TableTypes /\ RequestTypes

-----------------------------------------------------------------------------
(* Types *)

\* The types hold at the start.
LEMMA SessionTypesInit == SessionsInit => Types /\ Holds
BY SessionsAssumption
DEF SessionsInit, Types, TableTypes, RequestTypes, Holds, Tokens, Reasons

\* A step that leaves the tables alone keeps their types.
LEMMA TablesUntouched ==
  ASSUME TableTypes,
         UNCHANGED <<issued, parent, revoked, before, overtaken>>,
         account' \in {"none", "active", "erased"},
         erasing' \in {"no", "begun", "revoked"},
         granted' \subseteq 1..issued
  PROVE  TableTypes'
BY DEF TableTypes

\* A new token keeps the types, those of the requests too.
LEMMA IssueTypes ==
  ASSUME TableTypes, NEW p \in 0..issued, Issue(p)
  PROVE  /\ issued' = issued + 1 /\ issued' \in 1..MaxTokens
         /\ 0..issued \subseteq 0..issued' /\ 1..issued \subseteq 1..issued'
         /\ parent' \in [Tokens -> 0..MaxTokens]
         /\ before' \cup overtaken' \subseteq 1..issued'
         /\ \A t \in 1..issued : parent'[t] = parent[t]
         /\ parent'[issued'] = p
<1> USE SessionsAssumption DEF TableTypes
<1>1. /\ issued < MaxTokens /\ issued' = issued + 1
      /\ parent' = [parent EXCEPT ![issued + 1] = p]
  BY DEF Issue
<1>2. /\ issued' \in 1..MaxTokens
      /\ 0..issued \subseteq 0..issued' /\ 1..issued \subseteq 1..issued'
      /\ issued' \in 1..issued' /\ issued' \in Tokens /\ issued' \notin 1..issued
      /\ 1..issued \subseteq Tokens /\ p \in 0..MaxTokens
  BY <1>1 DEF Tokens
<1>3. before' \subseteq before \cup {issued'} /\ overtaken' \subseteq overtaken \cup {issued'}
  BY <1>1 DEF Issue
<1>4. before' \cup overtaken' \subseteq 1..issued'
  BY <1>2, <1>3
<1>5. /\ parent' \in [Tokens -> 0..MaxTokens]
      /\ \A t \in 1..issued : parent'[t] = parent[t]
      /\ parent'[issued'] = p
  BY <1>1, <1>2
<1> QED BY <1>1, <1>2, <1>4, <1>5

\* A revocation of everything that is live keeps the types.
LEMMA RevokeAllKeepsTables ==
  ASSUME Types, Holds, NEW reason \in Reasons, RevokeAll(reason),
         UNCHANGED <<account, issued, parent, granted>>,
         erasing' \in {"no", "begun", "revoked"}
  PROVE  TableTypes'
<1>1. revoked' \in [Tokens -> Reasons] /\ before' = 1..issued
  BY DEF Types, TableTypes, RevokeAll
<1>2. \A q \in Sign : at[q] \in {"found", "rotated"} => token[q] \in 1..issued
  BY SessionsAssumption DEF Types, TableTypes, RequestTypes, Holds
<1>3. overtaken' \subseteq 1..issued
  BY <1>2 DEF RevokeAll
<1> QED BY <1>1, <1>3 DEF Types, TableTypes

\* A request that starts holds the token it presents, and nothing else.
LEMMA BeginHolds ==
  ASSUME RequestTypes, Holds, NEW q \in Sign, NEW s, NEW t \in 0..issued, Begin(q, s, t),
         UNCHANGED <<issued, parent>>,
         \/ s \in {"register", "login"} /\ t = 0
         \/ s \in {"found", "replay"} /\ t # 0
  PROVE  RequestTypes' /\ Holds'
<1>1. /\ at' = [at EXCEPT ![q] = s] /\ token' = [token EXCEPT ![q] = t]
      /\ at[q] = "idle" /\ child' = child
  BY DEF Begin
<1>2. RequestTypes'
  BY <1>1 DEF RequestTypes
<1>3. token[q] = 0 /\ child[q] = 0
  BY <1>1 DEF Holds
<1>4. ASSUME NEW r \in Sign PROVE Holds!(r)'
  <2>1. CASE r = q
    BY <1>1, <1>3, <2>1 DEF RequestTypes
  <2>2. CASE r # q
    BY <1>1, <2>2 DEF RequestTypes, Holds
  <2> QED BY <2>1, <2>2
<1>5. Holds'
  BY <1>4 DEF Holds
<1> QED BY <1>2, <1>5

\* A request that ends holds nothing; the others are not touched, also when
\* it has issued a token.
LEMMA AnswerHolds ==
  ASSUME RequestTypes, Holds, NEW q \in Sign, Answer(q),
         0..issued \subseteq 0..issued',
         \A t \in 1..issued : parent'[t] = parent[t], issued \in Nat
  PROVE  RequestTypes' /\ Holds'
<1>1. /\ at' = [at EXCEPT ![q] = "idle"] /\ token' = [token EXCEPT ![q] = 0]
      /\ child' = [child EXCEPT ![q] = 0]
  BY DEF Answer
<1>2. RequestTypes'
  BY <1>1 DEF RequestTypes
<1>4. ASSUME NEW r \in Sign PROVE Holds!(r)'
  <2>1. CASE r = q
    BY <1>1, <2>1 DEF RequestTypes
  <2>2. CASE r # q
    <3>1. at'[r] = at[r] /\ token'[r] = token[r] /\ child'[r] = child[r]
      BY <1>1, <2>2 DEF RequestTypes
    <3>2. child[r] # 0 => parent'[child[r]] = parent[child[r]]
      BY DEF RequestTypes
    <3> QED BY <3>1, <3>2 DEF Holds
  <2> QED BY <2>1, <2>2
<1>5. Holds'
  BY <1>4 DEF Holds
<1> QED BY <1>2, <1>5

\* Every step of every request, and of the erasure, keeps types and holdings.
LEMMA SessionTypesKept ==
  ASSUME Types, Holds, [SessionsNext]_sessionsVars
  PROVE  Types' /\ Holds'
<1> USE SessionsAssumption DEF Types
<1>0. issued \in Nat /\ 0 \in 0..issued /\ Tokens \in SUBSET Nat
  BY DEF TableTypes, Tokens
<1>1. ASSUME NEW q \in Sign, RegisterFinds(q) \/ LoginFinds(q)
      PROVE  Types' /\ Holds'
  <2>1. UNCHANGED <<account, erasing, issued, parent, revoked, granted, before, overtaken>>
    BY <1>1 DEF RegisterFinds, LoginFinds, accountVars, tokenVars, sessionGhost
  <2>2. TableTypes'
    BY <2>1 DEF TableTypes
  <2>3. Begin(q, "register", 0) \/ Begin(q, "login", 0)
    BY <1>1 DEF RegisterFinds, LoginFinds
  <2> QED BY <1>0, <2>1, <2>2, <2>3, BeginHolds
<1>2. ASSUME NEW q \in Sign, RegisterCreates(q)
      PROVE  Types' /\ Holds'
  <2>1. /\ UNCHANGED <<erasing, issued, parent, revoked, granted, before, overtaken>>
        /\ account' \in {"none", "active", "erased"} /\ Answer(q)
    BY <1>2 DEF RegisterCreates, tokenVars, sessionGhost, TableTypes
  <2>2. TableTypes'
    BY <2>1 DEF TableTypes
  <2> QED BY <1>0, <2>1, <2>2, AnswerHolds
<1>3. ASSUME NEW q \in Sign, LoginIssues(q)
      PROVE  Types' /\ Holds'
  <2>1. /\ Issue(0) /\ granted' = granted \cup {issued + 1} /\ Answer(q)
        /\ UNCHANGED <<account, erasing, revoked>>
    BY <1>3 DEF LoginIssues, accountVars
  <2>2. /\ issued' = issued + 1 /\ issued' \in 1..MaxTokens
        /\ 0..issued \subseteq 0..issued' /\ 1..issued \subseteq 1..issued'
        /\ parent' \in [Tokens -> 0..MaxTokens]
        /\ before' \cup overtaken' \subseteq 1..issued'
        /\ \A t \in 1..issued : parent'[t] = parent[t]
    BY <1>0, <2>1, IssueTypes
  <2>3. TableTypes'
    BY <2>1, <2>2 DEF TableTypes
  <2> QED BY <1>0, <2>1, <2>2, <2>3, AnswerHolds
<1>4. ASSUME NEW q \in Sign, NEW t \in Tokens, RotateFinds(q, t)
      PROVE  Types' /\ Holds'
  <2>1. UNCHANGED <<account, erasing, issued, parent, revoked, granted, before, overtaken>>
    BY <1>4 DEF RotateFinds, accountVars, tokenVars, sessionGhost
  <2>2. TableTypes'
    BY <2>1 DEF TableTypes
  <2>3. t \in 0..issued /\ t # 0
    BY <1>0, <1>4 DEF RotateFinds, TableTypes
  <2>4. Begin(q, "replay", t) \/ Begin(q, "found", t)
    BY <1>4 DEF RotateFinds
  <2> QED BY <2>1, <2>2, <2>3, <2>4, BeginHolds
<1>5. ASSUME NEW q \in Sign, RevokeFamily(q)
      PROVE  Types' /\ Holds'
  <2>1. /\ RevokeAll("family_compromise") /\ Answer(q)
        /\ UNCHANGED <<account, issued, parent, granted>>
        /\ erasing' \in {"no", "begun", "revoked"}
    BY <1>5 DEF RevokeFamily, accountVars, TableTypes
  <2>2. TableTypes'
    BY <2>1, RevokeAllKeepsTables DEF Reasons
  <2> QED BY <1>0, <2>1, <2>2, AnswerHolds
<1>6. ASSUME NEW q \in Sign, RotateSaves(q)
      PROVE  Types' /\ Holds'
  <2>1. /\ at[q] = "found" /\ revoked' = [revoked EXCEPT ![token[q]] = "rotated"]
        /\ at' = [at EXCEPT ![q] = "rotated"]
        /\ UNCHANGED <<token, child, account, erasing, issued, parent, granted, before, overtaken>>
    BY <1>6 DEF RotateSaves, Rotated, Continue, accountVars, sessionGhost
  <2>2. TableTypes'
    BY <2>1 DEF TableTypes, Reasons
  <2>3. RequestTypes'
    BY <2>1 DEF RequestTypes
  <2>4. ASSUME NEW r \in Sign PROVE Holds!(r)'
    <3>1. /\ token'[r] = token[r] /\ child'[r] = child[r] /\ parent' = parent
          /\ at'[r] = IF r = q THEN "rotated" ELSE at[r]
      BY <2>1 DEF RequestTypes
    <3> QED BY <2>1, <3>1 DEF Holds
  <2>5. Holds'
    BY <2>4 DEF Holds
  <2> QED BY <2>2, <2>3, <2>5
<1>7. ASSUME NEW q \in Sign, RotateIssues(q)
      PROVE  Types' /\ Holds'
  <2>1. /\ at[q] = "rotated" /\ Issue(token[q])
        /\ child' = [child EXCEPT ![q] = issued + 1]
        /\ at' = [at EXCEPT ![q] = "issued"]
        /\ UNCHANGED <<account, erasing, revoked, granted, token>>
    BY <1>7 DEF RotateIssues, accountVars
  <2>2. token[q] \in 0..issued
    BY DEF RequestTypes
  <2>3. /\ issued' = issued + 1 /\ issued' \in 1..MaxTokens
        /\ 0..issued \subseteq 0..issued' /\ 1..issued \subseteq 1..issued'
        /\ parent' \in [Tokens -> 0..MaxTokens]
        /\ before' \cup overtaken' \subseteq 1..issued'
        /\ \A t \in 1..issued : parent'[t] = parent[t]
        /\ parent'[issued'] = token[q]
    BY <2>1, <2>2, IssueTypes
  <2>4. TableTypes'
    BY <2>1, <2>3 DEF TableTypes
  <2>5. RequestTypes'
    <3>1. issued' \in 0..issued'
      BY <2>3
    <3>2. child' \in [Sign -> 0..issued'] /\ token' \in [Sign -> 0..issued']
      BY <2>1, <2>3, <3>1 DEF RequestTypes
    <3>3. at' \in [Sign -> {"idle", "register", "login", "found", "replay", "rotated", "issued"}]
      BY <2>1 DEF RequestTypes
    <3> QED BY <3>2, <3>3 DEF RequestTypes
  <2>6. ASSUME NEW r \in Sign PROVE Holds!(r)'
    <3>1. CASE r = q
      BY <2>1, <2>3, <3>1 DEF RequestTypes, Holds
    <3>2. CASE r # q
      <4>1. at'[r] = at[r] /\ token'[r] = token[r] /\ child'[r] = child[r]
        BY <2>1, <3>2 DEF RequestTypes
      <4>2. child[r] # 0 => parent'[child[r]] = parent[child[r]]
        BY <1>0, <2>3 DEF RequestTypes
      <4> QED BY <4>1, <4>2 DEF Holds
    <3> QED BY <3>1, <3>2
  <2>7. Holds'
    BY <2>6 DEF Holds
  <2> QED BY <2>4, <2>5, <2>7
<1>8. ASSUME NEW q \in Sign, RefreshAnswers(q) \/ CrashSignIn(q)
      PROVE  Types' /\ Holds'
  <2>1. /\ UNCHANGED <<account, erasing, issued, parent, revoked, before, overtaken>>
        /\ Answer(q)
        /\ granted' = granted \/ (at[q] = "issued" /\ granted' = granted \cup {child[q]})
    BY <1>8 DEF RefreshAnswers, CrashSignIn, accountVars, tokenVars, sessionGhost
  <2>2. at[q] = "issued" => child[q] \in 1..issued
    BY <1>0 DEF RequestTypes, Holds
  <2>3. TableTypes'
    BY <2>1, <2>2 DEF TableTypes
  <2> QED BY <1>0, <2>1, <2>3, AnswerHolds
<1>9. ASSUME NEW t \in Tokens, Logout(t)
      PROVE  Types' /\ Holds'
  <2>1. /\ revoked' = [revoked EXCEPT ![t] = "logout"]
        /\ UNCHANGED <<account, erasing, issued, parent, granted, at, token, child,
                       before, overtaken>>
    BY <1>9 DEF Logout, accountVars, requestVars, sessionGhost
  <2>2. TableTypes'
    BY <2>1 DEF TableTypes, Reasons
  <2> QED BY <2>1, <2>2 DEF RequestTypes, Holds
<1>10. ASSUME LogoutAll \/ EraseRevokes
       PROVE  Types' /\ Holds'
  <2>1. /\ \E reason \in Reasons : RevokeAll(reason)
        /\ erasing' \in {"no", "begun", "revoked"}
        /\ UNCHANGED <<account, issued, parent, granted, at, token, child>>
    BY <1>10 DEF LogoutAll, EraseRevokes, accountVars, requestVars, Reasons, TableTypes
  <2>2. TableTypes'
    BY <2>1, RevokeAllKeepsTables
  <2> QED BY <2>1, <2>2 DEF RequestTypes, Holds
<1>11. ASSUME EraseBegins \/ EraseCommits \/ EraseRollsBack
       PROVE  Types' /\ Holds'
  <2>1. /\ account' \in {"none", "active", "erased"} /\ erasing' \in {"no", "begun", "revoked"}
        /\ UNCHANGED <<issued, parent, revoked, granted, at, token, child, before, overtaken>>
    BY <1>11 DEF EraseBegins, EraseCommits, EraseRollsBack, tokenVars, requestVars,
       sessionGhost, TableTypes
  <2>2. TableTypes'
    BY <2>1 DEF TableTypes
  <2> QED BY <2>1, <2>2 DEF RequestTypes, Holds
<1>12. CASE UNCHANGED sessionsVars
  <2>1. UNCHANGED <<account, erasing, issued, parent, revoked, granted, at, token, child,
                    before, overtaken>>
    BY <1>12 DEF sessionsVars, accountVars, tokenVars, requestVars, sessionGhost
  <2> QED BY <2>1 DEF TableTypes, RequestTypes, Holds
<1> QED
  BY <1>1, <1>2, <1>3, <1>4, <1>5, <1>6, <1>7, <1>8, <1>9, <1>10, <1>11, <1>12
  DEF SessionsNext

\* The types, and what a request holds at each step, for every number of
\* requests, tokens and crashes.
THEOREM SessionTypesAreCorrect == SessionsSpec => [](Types /\ Holds) /\ []SessionsTypeOK
<1>1. Types /\ Holds => SessionsTypeOK
  BY DEF Types, TableTypes, RequestTypes, Holds, SessionsTypeOK
<1> QED BY <1>1, SessionTypesInit, SessionTypesKept, PTL DEF SessionsSpec

-----------------------------------------------------------------------------
(* A token that has a child is dead *)

\* The request that is about to issue a child has revoked its parent, and no
\* revocation is ever taken back.
RotatedIsRevoked ==
  \A q \in Sign : at[q] \in {"rotated", "issued"} => revoked[token[q]] # "no"

\* No token comes alive again.
RevokedStays == \A t \in Tokens : revoked[t] # "no" => revoked'[t] # "no"

\* revoked_at is never set back: saves and updates only set it.
LEMMA RevocationsLast ==
  ASSUME Types, Holds, [SessionsNext]_sessionsVars
  PROVE  RevokedStays
<1> USE DEF Types, TableTypes, RevokedStays
<1>1. ASSUME NEW q \in Sign, RotateSaves(q) PROVE RevokedStays
  BY <1>1 DEF RotateSaves, Rotated
<1>2. ASSUME NEW t \in Tokens, Logout(t) PROVE RevokedStays
  BY <1>2 DEF Logout
<1>3. ASSUME NEW reason, RevokeAll(reason) PROVE RevokedStays
  <2>1. \A t \in Tokens : revoked[t] # "no" => t \notin Live
    BY DEF Live
  <2> QED BY <1>3, <2>1 DEF RevokeAll
<1>4. CASE UNCHANGED revoked
  BY <1>4
<1>5. CASE UNCHANGED sessionsVars
  BY <1>4, <1>5 DEF sessionsVars, tokenVars
<1>6. CASE SessionsNext
  BY <1>1, <1>2, <1>3, <1>4, <1>6
  DEF SessionsNext, RegisterFinds, RegisterCreates, LoginFinds, LoginIssues, RevokeFamily,
      RotateIssues, RefreshAnswers, CrashSignIn, RotateFinds, LogoutAll, EraseBegins,
      EraseRevokes, EraseCommits, EraseRollsBack, tokenVars
<1> QED BY <1>5, <1>6

\* A request comes to "rotated" by the revocation of its token alone.
LEMMA RotatedStaysRevoked ==
  ASSUME Types, Holds, RotatedIsRevoked, [SessionsNext]_sessionsVars
  PROVE  RotatedIsRevoked'
<1>1. RevokedStays
  BY RevocationsLast
<1>2. \A q \in Sign : at[q] \in {"found", "rotated", "issued"} => token[q] \in Tokens
  BY SessionsAssumption DEF Types, TableTypes, RequestTypes, Holds, Tokens
<1>3. ASSUME NEW q \in Sign, at'[q] \in {"rotated", "issued"}
      PROVE  revoked'[token'[q]] # "no"
  <2>1. CASE at[q] \in {"rotated", "issued"} /\ token'[q] = token[q]
    BY <1>1, <1>2, <2>1 DEF RotatedIsRevoked, RevokedStays
  <2>2. CASE RotateSaves(q)
    <3>1. token' = token /\ token[q] \in Tokens
          /\ revoked' = [revoked EXCEPT ![token[q]] = "rotated"]
      BY <1>2, <2>2 DEF RotateSaves, Rotated, Continue
    <3> QED BY <3>1 DEF Types, TableTypes
  <2>3. ASSUME NEW r \in Sign, Answer(r)
        PROVE  at[q] \in {"rotated", "issued"} /\ token'[q] = token[q]
    BY <1>3, <2>3 DEF Answer, Types, RequestTypes
  <2>4. ASSUME NEW r \in Sign, NEW t, NEW s \in {"register", "login", "found", "replay"},
               Begin(r, s, t)
        PROVE  at[q] \in {"rotated", "issued"} /\ token'[q] = token[q]
    BY <1>3, <2>4 DEF Begin, Types, RequestTypes
  <2>5. ASSUME NEW r \in Sign \ {q}, RotateSaves(r)
        PROVE  at[q] \in {"rotated", "issued"} /\ token'[q] = token[q]
    BY <1>3, <2>5 DEF RotateSaves, Continue, Types, RequestTypes
  <2>6. ASSUME NEW r \in Sign, RotateIssues(r)
        PROVE  at[q] \in {"rotated", "issued"} /\ token'[q] = token[q]
    BY <1>3, <2>6 DEF RotateIssues, Types, RequestTypes
  <2>7. CASE UNCHANGED <<at, token>>
    BY <1>3, <2>1, <2>7
  <2>8. ASSUME NEW r \in Sign, NEW t \in Tokens, RotateFinds(r, t)
        PROVE  at[q] \in {"rotated", "issued"} /\ token'[q] = token[q]
    BY <2>4, <2>8 DEF RotateFinds
  <2>9. ASSUME NEW r \in Sign, RegisterFinds(r) \/ LoginFinds(r)
        PROVE  at[q] \in {"rotated", "issued"} /\ token'[q] = token[q]
    BY <2>4, <2>9 DEF RegisterFinds, LoginFinds
  <2>10. CASE UNCHANGED sessionsVars
    BY <2>7, <2>10 DEF sessionsVars, requestVars
  <2>11. CASE SessionsNext
    BY <2>1, <2>2, <2>3, <2>5, <2>6, <2>7, <2>8, <2>9, <2>11
    DEF SessionsNext, RegisterCreates, LoginIssues, RevokeFamily, RefreshAnswers,
        CrashSignIn, Logout, LogoutAll, EraseBegins, EraseRevokes, EraseCommits,
        EraseRollsBack, requestVars
  <2> QED BY <2>10, <2>11
<1> QED BY <1>3 DEF RotatedIsRevoked

\* A child is issued below a token that is revoked by then.
LEMMA ParentsStayRevoked ==
  ASSUME Types, Holds, RotatedIsRevoked, ParentIsRevoked, [SessionsNext]_sessionsVars
  PROVE  ParentIsRevoked'
<1>1. RevokedStays
  BY RevocationsLast
<1>2. ASSUME NEW p \in 0..issued, Issue(p), p # 0 => revoked[p] # "no"
      PROVE  ParentIsRevoked'
  <2>1. /\ issued' = issued + 1 /\ issued' \in 1..MaxTokens
        /\ \A t \in 1..issued : parent'[t] = parent[t]
        /\ parent'[issued'] = p
    BY <1>2, IssueTypes DEF Types
  <2>2. issued \in Nat /\ 1..issued \subseteq Tokens
    BY SessionsAssumption DEF Types, TableTypes, Tokens
  <2>3. p # 0 => p \in Tokens /\ p < issued'
    BY <2>1, <2>2
  <2>4. ASSUME NEW t \in 1..issued, parent[t] # 0
        PROVE  parent[t] < t /\ parent[t] \in Tokens /\ revoked[parent[t]] # "no"
    BY <2>2, <2>4 DEF ParentIsRevoked, Types, TableTypes, Tokens
  <2>5. \A t \in 1..issued' : t \in 1..issued \/ t = issued'
    BY <2>1, <2>2
  <2> QED BY <1>1, <1>2, <2>1, <2>3, <2>4, <2>5 DEF ParentIsRevoked, RevokedStays
<1>3. CASE UNCHANGED <<issued, parent>>
  <2>1. ASSUME NEW t \in 1..issued, parent[t] # 0
        PROVE  parent[t] < t /\ parent[t] \in Tokens /\ revoked[parent[t]] # "no"
    BY <2>1, SessionsAssumption DEF ParentIsRevoked, Types, TableTypes, Tokens
  <2> QED BY <1>1, <1>3, <2>1 DEF ParentIsRevoked, RevokedStays
<1>4. ASSUME NEW q \in Sign, LoginIssues(q)
      PROVE  ParentIsRevoked'
  <2>1. Issue(0) /\ 0 \in 0..issued
    BY <1>4 DEF LoginIssues, Types, TableTypes
  <2> QED BY <1>2, <2>1
<1>5. ASSUME NEW q \in Sign, RotateIssues(q)
      PROVE  ParentIsRevoked'
  <2>1. Issue(token[q]) /\ token[q] \in 0..issued /\ revoked[token[q]] # "no"
    BY <1>5 DEF RotateIssues, RotatedIsRevoked, Types, RequestTypes
  <2> QED BY <1>2, <2>1
<1>6. CASE UNCHANGED sessionsVars
  BY <1>3, <1>6 DEF sessionsVars, tokenVars
<1>7. CASE SessionsNext
  BY <1>3, <1>4, <1>5, <1>7
  DEF SessionsNext, RegisterFinds, RegisterCreates, LoginFinds, RevokeFamily, RotateFinds,
      RotateSaves, RefreshAnswers, CrashSignIn, Logout, LogoutAll, EraseBegins,
      EraseRevokes, EraseCommits, EraseRollsBack, tokenVars
<1> QED BY <1>6, <1>7

\* A refresh token that has a child is revoked: no session has two live
\* tokens, one below the other, however rotations overlap or die half-way.
THEOREM ParentsAreRevoked == SessionsSpec => []ParentIsRevoked
<1>1. SessionsInit => RotatedIsRevoked /\ ParentIsRevoked
  BY DEF SessionsInit, RotatedIsRevoked, ParentIsRevoked
<1> QED
  BY <1>1, SessionTypesAreCorrect, RotatedStaysRevoked, ParentsStayRevoked, PTL
  DEF SessionsSpec

-----------------------------------------------------------------------------
(* What survives a revocation *)

\* A rotation of a token that was there at the last revocation found it live
\* before, and is on record.
OldRotationsKnown ==
  \A q \in Sign : at[q] \in {"found", "rotated"} /\ token[q] \in before
                    => token[q] \in overtaken

\* A revocation of everything leaves nothing alive of what there was, and puts
\* on record the rotations that go on.
LEMMA RevokeAllEnds ==
  ASSUME Types, Holds, NEW reason \in Reasons \ {"no"}, RevokeAll(reason),
         UNCHANGED issued,
         \A q \in Sign : at'[q] \in {"found", "rotated"} =>
                           at[q] \in {"found", "rotated"} /\ token'[q] = token[q]
  PROVE  SurvivorsExplained' /\ OldRotationsKnown'
<1>1. \A t \in 1..issued : t \in Tokens
  BY SessionsAssumption DEF Types, TableTypes, Tokens
<1>2. \A t \in 1..issued : revoked'[t] # "no"
  BY <1>1 DEF RevokeAll, Live
<1>3. \A q \in Sign : at[q] \in {"found", "rotated"} => token[q] \in overtaken'
  BY DEF RevokeAll
<1> QED BY <1>2, <1>3 DEF SurvivorsExplained, OldRotationsKnown, Live

\* A step that issues and revokes nothing in bulk, and after which requests in
\* a rotation are those of before or have found a live token.
LEMMA NobodySurvivesAnew ==
  ASSUME Types, Holds, SurvivorsExplained, OldRotationsKnown,
         UNCHANGED <<issued, before, overtaken>>, RevokedStays,
         \A q \in Sign : at'[q] \in {"found", "rotated"} =>
            \/ at[q] \in {"found", "rotated"} /\ token'[q] = token[q]
            \/ token'[q] \in Live
  PROVE  SurvivorsExplained' /\ OldRotationsKnown'
<1>1. \A t \in 1..issued : t \in Tokens
  BY SessionsAssumption DEF Types, TableTypes, Tokens
<1>2. SurvivorsExplained'
  BY <1>1 DEF SurvivorsExplained, Live, RevokedStays
<1>3. OldRotationsKnown'
  BY DEF SurvivorsExplained, OldRotationsKnown
<1> QED BY <1>2, <1>3

\* A child inherits from its parent, when it is issued by a rotation.
LEMMA IssueInherits ==
  ASSUME Types, Holds, SurvivorsExplained, OldRotationsKnown,
         NEW p \in 0..issued, Issue(p), UNCHANGED revoked,
         p \in before => p \in overtaken,
         \A q \in Sign : at'[q] \in {"found", "rotated"} =>
                           at[q] \in {"found", "rotated"} /\ token'[q] = token[q]
  PROVE  SurvivorsExplained' /\ OldRotationsKnown'
<1>1. /\ issued \in Nat /\ issued' = issued + 1
      /\ before' = IF p \in before THEN before \cup {issued + 1} ELSE before
      /\ overtaken' = IF p \in overtaken THEN overtaken \cup {issued + 1} ELSE overtaken
      /\ before \subseteq 1..issued
  BY SessionsAssumption DEF Issue, Types, TableTypes
<1>2. \A t \in before : t \in Live => t \in overtaken
  BY DEF SurvivorsExplained
<1>3. \A t \in before' : t \in Live' => t \in overtaken'
  BY <1>1, <1>2 DEF Live
<1>4. ASSUME NEW q \in Sign, at'[q] \in {"found", "rotated"}, token'[q] \in before'
      PROVE  token'[q] \in overtaken'
  <2>1. token[q] \in 0..issued /\ token'[q] = token[q]
    BY <1>4 DEF Types, RequestTypes
  <2>2. token[q] \in before
    BY <1>1, <1>4, <2>1
  <2> QED BY <1>1, <1>4, <2>1, <2>2 DEF OldRotationsKnown
<1> QED BY <1>3, <1>4 DEF SurvivorsExplained, OldRotationsKnown

\* Every step keeps the record of the rotations that a revocation overtook.
LEMMA SurvivorsStayExplained ==
  ASSUME Types, Holds, SurvivorsExplained, OldRotationsKnown, [SessionsNext]_sessionsVars
  PROVE  SurvivorsExplained' /\ OldRotationsKnown'
<1> DEFINE Same == \A q \in Sign : at'[q] \in {"found", "rotated"} =>
                     at[q] \in {"found", "rotated"} /\ token'[q] = token[q]
<1>0. RevokedStays
  BY RevocationsLast
<1>1. ASSUME NEW q \in Sign, Answer(q) PROVE Same
  BY <1>1 DEF Answer, Types, RequestTypes
<1>2. ASSUME UNCHANGED <<at, token>> PROVE Same
  BY <1>2
<1>3. ASSUME NEW q \in Sign, RegisterFinds(q) \/ LoginFinds(q)
      PROVE  SurvivorsExplained' /\ OldRotationsKnown'
  <2>1. /\ UNCHANGED <<issued, before, overtaken>>
        /\ Begin(q, "register", 0) \/ Begin(q, "login", 0)
    BY <1>3 DEF RegisterFinds, LoginFinds, tokenVars, sessionGhost
  <2>2. Same
    BY <2>1 DEF Begin, Types, RequestTypes
  <2> QED BY <1>0, <2>1, <2>2, NobodySurvivesAnew
<1>4. ASSUME NEW q \in Sign, RegisterCreates(q) \/ RefreshAnswers(q) \/ CrashSignIn(q)
      PROVE  SurvivorsExplained' /\ OldRotationsKnown'
  <2>1. UNCHANGED <<issued, before, overtaken>> /\ Answer(q)
    BY <1>4 DEF RegisterCreates, RefreshAnswers, CrashSignIn, tokenVars, sessionGhost
  <2> QED BY <1>0, <1>1, <2>1, NobodySurvivesAnew
<1>5. ASSUME NEW q \in Sign, NEW t \in Tokens, RotateFinds(q, t)
      PROVE  SurvivorsExplained' /\ OldRotationsKnown'
  <2>1. /\ UNCHANGED <<issued, before, overtaken>> /\ t \in 1..issued
        /\ Begin(q, IF IsReplay(t) THEN "replay" ELSE "found", t)
    BY <1>5 DEF RotateFinds, tokenVars, sessionGhost, Types, TableTypes
  <2>2. \A r \in Sign : at'[r] \in {"found", "rotated"} =>
            \/ at[r] \in {"found", "rotated"} /\ token'[r] = token[r]
            \/ token'[r] \in Live
    BY <2>1 DEF Begin, IsReplay, Live, Types, RequestTypes
  <2> QED BY <1>0, <2>1, <2>2, NobodySurvivesAnew
<1>6. ASSUME NEW q \in Sign, RotateSaves(q)
      PROVE  SurvivorsExplained' /\ OldRotationsKnown'
  <2>1. /\ UNCHANGED <<issued, before, overtaken>>
        /\ at[q] = "found" /\ at' = [at EXCEPT ![q] = "rotated"] /\ token' = token
    BY <1>6 DEF RotateSaves, Continue, sessionGhost
  <2>2. Same
    BY <2>1 DEF Types, RequestTypes
  <2> QED BY <1>0, <2>1, <2>2, NobodySurvivesAnew
<1>7. ASSUME NEW t \in Tokens, Logout(t)
      PROVE  SurvivorsExplained' /\ OldRotationsKnown'
  <2>1. UNCHANGED <<issued, before, overtaken, at, token>>
    BY <1>7 DEF Logout, requestVars, sessionGhost
  <2> QED BY <1>0, <1>2, <2>1, NobodySurvivesAnew
<1>8. ASSUME NEW q \in Sign, RevokeFamily(q)
      PROVE  SurvivorsExplained' /\ OldRotationsKnown'
  <2>1. UNCHANGED issued /\ Answer(q) /\ RevokeAll("family_compromise")
    BY <1>8 DEF RevokeFamily
  <2> QED BY <1>1, <2>1, RevokeAllEnds DEF Reasons
<1>9. ASSUME LogoutAll \/ EraseRevokes
      PROVE  SurvivorsExplained' /\ OldRotationsKnown'
  <2>1. UNCHANGED <<issued, at, token>>
    BY <1>9 DEF LogoutAll, EraseRevokes, requestVars
  <2>2. RevokeAll("logout") \/ RevokeAll("gdpr_anonymized")
    BY <1>9 DEF LogoutAll, EraseRevokes
  <2> QED BY <1>2, <2>1, <2>2, RevokeAllEnds DEF Reasons
<1>10. ASSUME NEW q \in Sign, LoginIssues(q)
       PROVE  SurvivorsExplained' /\ OldRotationsKnown'
  <2>1. Issue(0) /\ UNCHANGED revoked /\ Answer(q)
    BY <1>10 DEF LoginIssues
  <2>2. 0 \in 0..issued /\ 0 \notin before
    BY SessionsAssumption DEF Types, TableTypes
  <2> QED BY <1>1, <2>1, <2>2, IssueInherits
<1>11. ASSUME NEW q \in Sign, RotateIssues(q)
       PROVE  SurvivorsExplained' /\ OldRotationsKnown'
  <2>1. /\ at[q] = "rotated" /\ Issue(token[q]) /\ UNCHANGED revoked
        /\ at' = [at EXCEPT ![q] = "issued"] /\ token' = token
    BY <1>11 DEF RotateIssues
  <2>2. Same
    BY <2>1 DEF Types, RequestTypes
  <2>3. token[q] \in 0..issued /\ (token[q] \in before => token[q] \in overtaken)
    BY <2>1 DEF Types, RequestTypes, OldRotationsKnown
  <2> QED BY <2>1, <2>2, <2>3, IssueInherits
<1>12. ASSUME UNCHANGED <<issued, before, overtaken, at, token>>
       PROVE  SurvivorsExplained' /\ OldRotationsKnown'
  BY <1>0, <1>2, <1>12, NobodySurvivesAnew
<1>13. CASE EraseBegins \/ EraseCommits \/ EraseRollsBack \/ UNCHANGED sessionsVars
  BY <1>12, <1>13 DEF EraseBegins, EraseCommits, EraseRollsBack, sessionsVars,
     tokenVars, requestVars, sessionGhost
<1> QED
  BY <1>3, <1>4, <1>5, <1>6, <1>7, <1>8, <1>9, <1>10, <1>11, <1>13 DEF SessionsNext

\* After a replay, a logout from everywhere or an erasure, a session that was
\* there lives on only through a rotation the revocation overtook.
THEOREM SurvivorsAreExplained == SessionsSpec => []SurvivorsExplained
<1>1. SessionsInit => SurvivorsExplained /\ OldRotationsKnown
  BY DEF SessionsInit, SurvivorsExplained, OldRotationsKnown
<1> QED
  BY <1>1, SessionTypesAreCorrect, SurvivorsStayExplained, PTL DEF SessionsSpec

-----------------------------------------------------------------------------
(* No session after the erasure *)

\* An erased account stays so, and no login is among what began after it.
ErasedForGood ==
  /\ since # {} => account = "erased"
  /\ \A q \in since : at[q] # "login"

\* No step takes an erasure back, and login reads the account first.
LEMMA ErasureLasts ==
  ASSUME Types, Holds, ErasedForGood, [SessionsNext]_sessionsVars
  PROVE  ErasedForGood'
<1>1. account = "erased" => account' = "erased"
  BY DEF SessionsNext, sessionsVars, RegisterFinds, RegisterCreates, LoginFinds, LoginIssues,
     RevokeFamily, RotateFinds, RotateSaves, RotateIssues, RefreshAnswers, CrashSignIn,
     Logout, LogoutAll, EraseBegins, EraseRevokes, EraseCommits, EraseRollsBack, accountVars
<1>2. ASSUME NEW q \in Sign, NEW s, NEW t, Begin(q, s, t), s # "login" \/ account = "active"
      PROVE  ErasedForGood'
  <2>1. /\ at' = [at EXCEPT ![q] = s]
        /\ since' = IF account = "erased" THEN since \cup {q} ELSE since \ {q}
    BY <1>2 DEF Begin
  <2>2. since' # {} => account' = "erased"
    BY <1>1, <2>1 DEF ErasedForGood
  <2>3. \A r \in since' : at'[r] # "login"
    BY <1>2, <2>1 DEF ErasedForGood, Types, RequestTypes
  <2> QED BY <2>2, <2>3 DEF ErasedForGood
<1>3. ASSUME UNCHANGED since, \A q \in since : at'[q] = "login" => at[q] = "login"
      PROVE  ErasedForGood'
  BY <1>1, <1>3 DEF ErasedForGood
<1>4. ASSUME NEW q \in Sign, RegisterFinds(q) \/ LoginFinds(q)
      PROVE  ErasedForGood'
  BY <1>2, <1>4 DEF RegisterFinds, LoginFinds
<1>5. ASSUME NEW q \in Sign, NEW t \in Tokens, RotateFinds(q, t)
      PROVE  ErasedForGood'
  BY <1>2, <1>5 DEF RotateFinds
<1>6. ASSUME NEW q \in Sign, Answer(q)
      PROVE  ErasedForGood'
  BY <1>3, <1>6 DEF Answer, Types, RequestTypes
<1>7. ASSUME NEW q \in Sign, RotateSaves(q) \/ RotateIssues(q)
      PROVE  ErasedForGood'
  <2>1. UNCHANGED since /\ \E s \in {"rotated", "issued"} : at' = [at EXCEPT ![q] = s]
    BY <1>7 DEF RotateSaves, RotateIssues, Continue
  <2>2. \A r \in Sign : at'[r] = "login" => at[r] = "login"
    BY <2>1 DEF Types, RequestTypes
  <2>3. \A r \in since : at'[r] = "login" => at[r] = "login"
    BY <2>1 DEF Types, RequestTypes
  <2> QED BY <1>3, <2>1, <2>3
<1>8. ASSUME UNCHANGED <<at, since>>
      PROVE  ErasedForGood'
  BY <1>3, <1>8
<1>9. CASE UNCHANGED sessionsVars
  BY <1>8, <1>9 DEF sessionsVars, requestVars
<1>10. CASE SessionsNext
  BY <1>4, <1>5, <1>6, <1>7, <1>8, <1>10
  DEF SessionsNext, RegisterCreates, LoginIssues, RevokeFamily, RefreshAnswers, CrashSignIn,
      Logout, LogoutAll, EraseBegins, EraseRevokes, EraseCommits, EraseRollsBack, requestVars
<1> QED BY <1>9, <1>10

\* Only the end of a login, or a refresh of an account that is valid, gives a
\* session to a client.
LEMMA EndsWithoutSession ==
  ASSUME Types, Holds, ErasedForGood, [SessionsNext]_sessionsVars
  PROVE  \A q \in since : at[q] # "idle" /\ at'[q] = "idle" => granted' = granted
<1> SUFFICES ASSUME NEW q \in since, at[q] # "idle", at'[q] = "idle"
             PROVE  granted' = granted
  OBVIOUS
<1>1. account = "erased" /\ at[q] # "login"
  BY DEF ErasedForGood
<1>2. ASSUME NEW r \in Sign, LoginIssues(r) PROVE FALSE
  BY <1>1, <1>2 DEF LoginIssues, Answer, Types, RequestTypes
<1>3. ASSUME NEW r \in Sign, RefreshAnswers(r) PROVE granted' = granted
  BY <1>1, <1>3 DEF RefreshAnswers, AccountValid
<1>4. CASE UNCHANGED sessionsVars
  BY <1>4 DEF sessionsVars
<1>5. CASE SessionsNext
  BY <1>2, <1>3, <1>5
  DEF SessionsNext, RegisterFinds, RegisterCreates, LoginFinds, RevokeFamily, RotateFinds,
      RotateSaves, RotateIssues, CrashSignIn, Logout, LogoutAll, EraseBegins, EraseRevokes,
      EraseCommits, EraseRollsBack
<1> QED BY <1>4, <1>5

\* A request that began after the erasure of the account was committed ends
\* without a session, whatever logins and rotations were under way then.
THEOREM NothingAfterErasure == SessionsSpec => NoSessionAfterErasure
<1>1. SessionsInit => ErasedForGood
  BY DEF SessionsInit, ErasedForGood
<1>2. ErasedForGood /\ Types /\ Holds /\ [SessionsNext]_sessionsVars
        => [\A q \in since : at[q] # "idle" /\ at'[q] = "idle" => granted' = granted]_sessionsVars
  BY EndsWithoutSession
<1> QED
  BY <1>1, <1>2, SessionTypesAreCorrect, ErasureLasts, PTL
  DEF SessionsSpec, NoSessionAfterErasure
=============================================================================
