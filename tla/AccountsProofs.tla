--------------------------- MODULE AccountsProofs ---------------------------
(***************************************************************************)
(* SessionInv and DirectoryInv are inductive invariants of Accounts, for   *)
(* any number of sessions, requests, humans, names and credentials.        *)
(*                                                                         *)
(* TLC's instance has one human; here two humans and an admin who creates  *)
(* agents race for one name, and any number of first requests for one      *)
(* identity.                                                               *)
(***************************************************************************)
EXTENDS Accounts, TLAPS

\* Nobody is known and nobody is logged in.
LEMMA AccountsInvInit == Init => SessionInv /\ DirectoryInv
<1> SUFFICES ASSUME Init PROVE SessionInv /\ DirectoryInv
  OBVIOUS
<1> USE SessionAssumption, DirectoryAssumption DEF Init, SessionInit, DirectoryInit
<1>1. SessionTypeOK
  BY DEF SessionTypeOK, NoRow, Rows, Roles
<1>2. RequestsSound /\ TokensSound /\ StoredTokenIsUsable /\ LogoutEndsTheRow
  BY DEF RequestsSound, TokensSound, StoredTokenIsUsable, LogoutEndsTheRow, NoRow, Refreshing
<1>3. DirectoryInv
  BY DEF DirectoryInv, DirectoryTypeOK, ProvisionSound, OneActorPerHuman, FailsOnlyOnName,
     RevokedOnce, Steps
<1> QED
  BY <1>1, <1>2, <1>3 DEF SessionInv
-----------------------------------------------------------------------------
(***************************************************************************)
(* Sessions.                                                               *)
(***************************************************************************)

\* A login flow that begins, is refused or sends the browser back.
LEMMA LoginInv ==
  ASSUME SessionInv, NEW s \in Sessions, Login(s) \/ CallbackRefused(s) \/ Callback(s)
  PROVE  SessionInv'
<1> USE SessionAssumption DEF SessionInv, Login, CallbackRefused, Callback, provider, browser, history
<1>1. SessionTypeOK'
  BY DEF SessionTypeOK, Rows, Roles, Role
<1>2. RequestsSound'
  BY DEF SessionTypeOK, RequestsSound, NoRow
<1>3. TokensSound'
  BY DEF SessionTypeOK, RequestsSound, TokensSound, Rows
<1>4. StoredTokenIsUsable' /\ LogoutEndsTheRow'
  BY DEF SessionTypeOK, RequestsSound, StoredTokenIsUsable, LogoutEndsTheRow, NoRow
<1> QED
  BY <1>1, <1>2, <1>3, <1>4

\* A token is a number, and so is what stands for none.
LEMMA TokensAreNumbers ==
  ASSUME SessionTypeOK
  PROVE  \A s \in Sessions : row[s].token \in Nat /\ current[s] \in Nat
<1> SUFFICES ASSUME NEW s \in Sessions PROVE row[s].token \in Nat /\ current[s] \in Nat
  OBVIOUS
<1> USE SessionAssumption
<1>1. CASE row[s] = NoRow
  BY <1>1 DEF SessionTypeOK, NoRow
<1>2. CASE row[s] \in Rows
  BY <1>2 DEF SessionTypeOK, Rows
<1> QED
  BY <1>1, <1>2 DEF SessionTypeOK

\* Without its row a session's stored token is older than the accepted one.
LEMMA NoTokenIsOlder ==
  ASSUME SessionTypeOK, TokensSound
  PROVE  /\ \A s \in Sessions : NoRow.token <= current[s]
         /\ \A q \in Requests : at[q] = "refreshed" /\ of[q] \in Sessions /\ rotates =>
              NoRow.token < current[of[q]]
BY TokensAreNumbers DEF TokensSound, NoRow

\* The row goes, and with the cookie no new request can be of the session.
LEMMA LogoutInv == ASSUME SessionInv, NEW s \in Sessions, Logout(s) PROVE SessionInv'
<1> USE SessionAssumption DEF SessionInv, Logout, provider, browser, history
<1>1. SessionTypeOK'
  BY DEF SessionTypeOK
<1>2. RequestsSound'
  BY DEF SessionTypeOK, RequestsSound
<1>3. TokensSound'
  BY NoTokenIsOlder DEF SessionTypeOK, RequestsSound, TokensSound
<1>4. StoredTokenIsUsable' /\ LogoutEndsTheRow'
  BY DEF SessionTypeOK, StoredTokenIsUsable, LogoutEndsTheRow
<1> QED
  BY <1>1, <1>2, <1>3, <1>4

\* A request reads the row of its cookie.
LEMMA ReadRowInv ==
  ASSUME SessionInv, NEW q \in Requests, NEW s \in Sessions, ReadRow(q, s)
  PROVE  SessionInv'
<1> USE SessionAssumption DEF SessionInv, ReadRow, provider, browser, history
<1>1. SessionTypeOK'
  BY DEF SessionTypeOK, Refreshing
<1>2. RequestsSound'
  BY DEF SessionTypeOK, RequestsSound, Refreshing
<1>3. TokensSound'
  BY DEF SessionTypeOK, RequestsSound, TokensSound, Rows
<1>4. StoredTokenIsUsable' /\ LogoutEndsTheRow'
  BY DEF SessionTypeOK, StoredTokenIsUsable, LogoutEndsTheRow, RequestsSound
<1> QED
  BY <1>1, <1>2, <1>3, <1>4

\* The request that is given a new token is the only one that has it: whoever
\* else is refreshing the session presents an older one.
LEMMA RefreshedInv == ASSUME SessionInv, NEW q \in Requests, Refreshed(q) PROVE SessionInv'
<1> USE SessionAssumption DEF SessionInv, Refreshed, Accepted, Go, provider, browser, history
<1>1. of[q] \in Sessions /\ current[of[q]] \in Nat
  BY DEF SessionTypeOK, RequestsSound
<1>2. SessionTypeOK'
  BY <1>1 DEF SessionTypeOK, Refreshing, Rows, Roles, Role
<1>3. RequestsSound'
  BY DEF SessionTypeOK, RequestsSound, Refreshing
<1>4. TokensSound'
  <2>1. CASE rotates
    BY <1>1, <2>1 DEF SessionTypeOK, TokensSound, Rows, Roles, Role, NoRow
  <2>2. CASE ~rotates
    BY <1>1, <2>2 DEF SessionTypeOK, TokensSound, Rows, Roles, Role
  <2> QED
    BY <2>1, <2>2
<1>5. StoredTokenIsUsable'
  BY <1>1 DEF SessionTypeOK, StoredTokenIsUsable
<1>6. LogoutEndsTheRow'
  BY DEF LogoutEndsTheRow
<1> QED
  BY <1>2, <1>3, <1>4, <1>5, <1>6

\* A token whose successor was lost is nobody's.
LEMMA RefreshFailsInv == ASSUME SessionInv, NEW q \in Requests, RefreshFails(q) PROVE SessionInv'
<1> USE SessionAssumption DEF SessionInv, RefreshFails, Accepted, Go, provider, browser, history
<1>1. of[q] \in Sessions /\ current[of[q]] \in Nat
  BY DEF SessionTypeOK, RequestsSound
<1>2. SessionTypeOK'
  BY <1>1 DEF SessionTypeOK, Refreshing
<1>3. RequestsSound'
  BY DEF SessionTypeOK, RequestsSound, Refreshing
<1>4. TokensSound'
  <2>1. CASE UNCHANGED current
    BY <1>1, <2>1 DEF SessionTypeOK, TokensSound, Rows
  <2>2. CASE Accepted(q) /\ rotates /\ current' = [current EXCEPT ![of[q]] = @ + 1]
    BY <1>1, <2>2 DEF SessionTypeOK, TokensSound, Rows, NoRow
  <2> QED
    BY <2>1, <2>2
<1>5. StoredTokenIsUsable'
  BY <1>1 DEF SessionTypeOK, StoredTokenIsUsable
<1>6. LogoutEndsTheRow'
  BY DEF LogoutEndsTheRow
<1> QED
  BY <1>2, <1>3, <1>4, <1>5, <1>6

\* A refused request ends, with the row or with the row still there.
LEMMA DeleteRowInv == ASSUME SessionInv, NEW q \in Requests, DeleteRow(q) PROVE SessionInv'
<1> USE SessionAssumption DEF SessionInv, DeleteRow, Finish, provider, browser, history
<1>1. of[q] \in Sessions
  BY DEF SessionTypeOK, RequestsSound
<1>2. SessionTypeOK'
  BY <1>1 DEF SessionTypeOK
<1>3. RequestsSound'
  BY <1>1 DEF SessionTypeOK, RequestsSound, Refreshing
<1>4. TokensSound'
  BY <1>1, NoTokenIsOlder DEF SessionTypeOK, RequestsSound, TokensSound
<1>5. StoredTokenIsUsable' /\ LogoutEndsTheRow'
  BY <1>1 DEF SessionTypeOK, StoredTokenIsUsable, LogoutEndsTheRow
<1> QED
  BY <1>2, <1>3, <1>4, <1>5

\* What is saved is the token the provider accepts.
LEMMA SaveInv == ASSUME SessionInv, NEW q \in Requests, Save(q) PROVE SessionInv'
<1> USE SessionAssumption DEF SessionInv, Save, Go, provider, browser, history
<1>1. of[q] \in Sessions /\ seen[q] \in Rows /\ seen[q].token = current[of[q]]
  BY DEF SessionTypeOK, RequestsSound, TokensSound
<1>2. SessionTypeOK'
  BY <1>1 DEF SessionTypeOK, Rows
<1>3. RequestsSound'
  BY <1>1 DEF SessionTypeOK, RequestsSound, Refreshing
<1>4. TokensSound'
  <2>1. CASE rotates
    BY <1>1, <2>1 DEF SessionTypeOK, TokensSound, Rows
  <2>2. CASE ~rotates
    BY <1>1, <2>2 DEF SessionTypeOK, TokensSound, Rows
  <2> QED
    BY <2>1, <2>2
<1>5. StoredTokenIsUsable'
  BY <1>1 DEF SessionTypeOK, StoredTokenIsUsable
<1>6. LogoutEndsTheRow'
  BY <1>1 DEF SessionTypeOK, RequestsSound, LogoutEndsTheRow, Refreshing
<1> QED
  BY <1>2, <1>3, <1>4, <1>5, <1>6

\* A request ends, served or not able to save what it was given.
LEMMA FinishInv == ASSUME SessionInv, NEW q \in Requests, SaveFails(q) \/ Served(q) PROVE SessionInv'
<1> USE SessionAssumption DEF SessionInv, SaveFails, Served, Finish, provider, browser, history
<1>1. of[q] \in Sessions
  BY DEF SessionTypeOK, RequestsSound
<1>2. SessionTypeOK'
  BY <1>1 DEF SessionTypeOK
<1>3. RequestsSound'
  BY <1>1 DEF SessionTypeOK, RequestsSound, Refreshing
<1>4. TokensSound'
  BY <1>1 DEF SessionTypeOK, TokensSound, NoRow, Rows
<1>5. StoredTokenIsUsable' /\ LogoutEndsTheRow'
  BY <1>1 DEF SessionTypeOK, StoredTokenIsUsable, LogoutEndsTheRow
<1> QED
  BY <1>2, <1>3, <1>4, <1>5

\* Time passes, and the group changes.
LEMMA TimeInv ==
  ASSUME SessionInv, GroupChanges \/ (\E s \in Sessions : Lapse(s)) \/ UNCHANGED sessionVars
  PROVE  SessionInv'
<1> USE DEF SessionInv, GroupChanges, Lapse, sessionVars, provider, browser, history
<1>1. SessionTypeOK'
  BY DEF SessionTypeOK
<1>2. RequestsSound' /\ TokensSound'
  BY DEF RequestsSound, TokensSound
<1>3. StoredTokenIsUsable' /\ LogoutEndsTheRow'
  BY DEF StoredTokenIsUsable, LogoutEndsTheRow
<1> QED
  BY <1>1, <1>2, <1>3
-----------------------------------------------------------------------------
(***************************************************************************)
(* The directory.                                                          *)
(***************************************************************************)

\* A request looks its identity up.
LEMMA LookUpInv ==
  ASSUME DirectoryInv, NEW q \in Requests, NEW p \in Subjects, NEW n \in Names, LookUp(q, p, n)
  PROVE  DirectoryInv'
<1> USE DirectoryAssumption DEF DirectoryInv, LookUp, To, agents
<1>1. DirectoryTypeOK'
  BY DEF DirectoryTypeOK, Steps
<1>2. ProvisionSound'
  BY DEF DirectoryTypeOK, ProvisionSound
<1>3. OneActorPerHuman' /\ FailsOnlyOnName' /\ RevokedOnce'
  BY DEF DirectoryTypeOK, OneActorPerHuman, FailsOnlyOnName, RevokedOnce
<1> QED
  BY <1>1, <1>2, <1>3

\* One insert of an identity waits for the other: one of them holds it.
LEMMA InsertIdentityInv ==
  ASSUME DirectoryInv, NEW q \in Requests, InsertIdentity(q)
  PROVE  DirectoryInv'
<1> USE DirectoryAssumption DEF DirectoryInv, InsertIdentity, To, agents
<1>1. DirectoryTypeOK'
  BY DEF DirectoryTypeOK, Steps
<1>2. ProvisionSound'
  BY DEF DirectoryTypeOK, ProvisionSound, Held
<1>3. OneActorPerHuman' /\ FailsOnlyOnName' /\ RevokedOnce'
  BY DEF DirectoryTypeOK, OneActorPerHuman, FailsOnlyOnName, RevokedOnce
<1> QED
  BY <1>1, <1>2, <1>3

\* Both rows are committed at once.
LEMMA InsertActorInv ==
  ASSUME DirectoryInv, NEW q \in Requests, InsertActor(q)
  PROVE  DirectoryInv'
<1> USE DirectoryAssumption DEF DirectoryInv, InsertActor, To, agents
<1>1. who[q] \in Subjects /\ wanted[q] \in Names /\ identity[who[q]] = NoName
  BY DEF ProvisionSound
<1>2. DirectoryTypeOK'
  BY <1>1 DEF DirectoryTypeOK, Steps
<1>3. ProvisionSound'
  BY <1>1 DEF DirectoryTypeOK, ProvisionSound
<1>4. OneActorPerHuman'
  BY <1>1 DEF DirectoryTypeOK, OneActorPerHuman
<1>5. FailsOnlyOnName' /\ RevokedOnce'
  BY <1>1 DEF DirectoryTypeOK, FailsOnlyOnName, RevokedOnce, ProvisionSound
<1> QED
  BY <1>2, <1>3, <1>4, <1>5

\* The name in the way is not the human's own: its identity would be there.
LEMMA RollBackInv ==
  ASSUME DirectoryInv, NEW q \in Requests, RollBack(q) \/ ReadActor(q)
  PROVE  DirectoryInv'
<1> USE DirectoryAssumption DEF DirectoryInv, RollBack, ReadActor, To, agents
<1>1. who[q] \in Subjects
  BY DEF ProvisionSound
<1>2. RollBack(q) => wanted[q] \in Names /\ actor[wanted[q]] \notin {NoOne, who[q]}
  BY <1>1 DEF ProvisionSound, OneActorPerHuman
<1>3. ReadActor(q) => actor[identity[who[q]]] = who[q]
  BY <1>1 DEF DirectoryTypeOK, ProvisionSound, OneActorPerHuman
<1>4. DirectoryTypeOK'
  BY DEF DirectoryTypeOK, Steps
<1>5. ProvisionSound'
  BY <1>1 DEF DirectoryTypeOK, ProvisionSound
<1>6. OneActorPerHuman' /\ RevokedOnce'
  BY DEF OneActorPerHuman, RevokedOnce
<1>7. FailsOnlyOnName'
  BY <1>2, <1>3 DEF DirectoryTypeOK, FailsOnlyOnName
<1> QED
  BY <1>4, <1>5, <1>6, <1>7

\* A request is answered.
LEMMA AnswerInv == ASSUME DirectoryInv, NEW q \in Requests, Answer(q) PROVE DirectoryInv'
<1> USE DirectoryAssumption DEF DirectoryInv, Answer, agents
<1>1. DirectoryTypeOK'
  BY DEF DirectoryTypeOK, Steps
<1>2. ProvisionSound'
  BY DEF DirectoryTypeOK, ProvisionSound
<1>3. OneActorPerHuman' /\ FailsOnlyOnName' /\ RevokedOnce'
  BY DEF DirectoryTypeOK, OneActorPerHuman, FailsOnlyOnName, RevokedOnce
<1> QED
  BY <1>1, <1>2, <1>3

\* An agent gets a name that is free, whatever the probe saw.
LEMMA CreateAgentInv ==
  ASSUME DirectoryInv, NEW q \in Requests, InsertAgent(q) \/ \E n \in Names : ProbeName(q, n)
  PROVE  DirectoryInv'
<1> USE DirectoryAssumption DEF DirectoryInv, InsertAgent, ProbeName, To, agents
<1>1. DirectoryTypeOK'
  BY DEF DirectoryTypeOK, Steps
<1>2. ProvisionSound'
  BY DEF DirectoryTypeOK, ProvisionSound
<1>3. OneActorPerHuman'
  BY DEF DirectoryTypeOK, ProvisionSound, OneActorPerHuman
<1>4. FailsOnlyOnName' /\ RevokedOnce'
  BY DEF DirectoryTypeOK, ProvisionSound, FailsOnlyOnName, RevokedOnce
<1> QED
  BY <1>1, <1>2, <1>3, <1>4

\* Credentials are issued and revoked.
LEMMA CredentialsInv ==
  ASSUME DirectoryInv, NEW q \in Requests,
         \/ \E n \in Names : RevokeAllAgentCredentials(q, n)
         \/ \E c \in Credentials :
              RevokeAgentToken(q, c) \/ \E n \in Names : IssueAgentToken(q, c, n)
  PROVE  DirectoryInv'
<1> USE DirectoryAssumption DEF DirectoryInv, RevokeAllAgentCredentials, RevokeAgentToken,
         IssueAgentToken, humans
<1>1. DirectoryTypeOK'
  BY DEF DirectoryTypeOK, RevokedOnce
<1>2. ProvisionSound' /\ OneActorPerHuman' /\ FailsOnlyOnName'
  BY DEF ProvisionSound, OneActorPerHuman, FailsOnlyOnName
<1>3. RevokedOnce'
  BY DEF DirectoryTypeOK, RevokedOnce
<1> QED
  BY <1>1, <1>2, <1>3

\* Credentials are used.
LEMMA BearingInv ==
  ASSUME DirectoryInv, (\E r \in Bearers : Bearing(r)) \/ UNCHANGED directoryVars
  PROVE  DirectoryInv'
<1> USE DEF DirectoryInv, Bearing, ReadCredential, TouchCredential, directoryVars, humans, agents
<1>1. DirectoryTypeOK'
  BY DEF DirectoryTypeOK
<1>2. ProvisionSound' /\ OneActorPerHuman' /\ FailsOnlyOnName' /\ RevokedOnce'
  BY DEF ProvisionSound, OneActorPerHuman, FailsOnlyOnName, RevokedOnce
<1> QED
  BY <1>1, <1>2
-----------------------------------------------------------------------------
\* Every step keeps the session's half of the invariant.
LEMMA SessionInvNext == SessionInv /\ [Next]_vars => SessionInv'
<1> SUFFICES ASSUME SessionInv, [Next]_vars PROVE SessionInv'
  OBVIOUS
<1>1. CASE Browser
  BY <1>1, LoginInv, LogoutInv, ReadRowInv, TimeInv DEF Browser
<1>2. ASSUME NEW s \in Sessions, Lapses(s) PROVE SessionInv'
  BY <1>2, TimeInv DEF Lapses
<1>3. ASSUME NEW q \in Requests, Handle(q) PROVE SessionInv'
  <2>1. CASE Authenticate(q)
    BY <2>1, RefreshedInv, RefreshFailsInv, DeleteRowInv, SaveInv, FinishInv DEF Authenticate
  <2>2. CASE Served(q)
    BY <2>2, FinishInv
  <2> QED
    BY <1>3, <2>1, <2>2, TimeInv DEF Handle
<1>4. CASE Agents \/ (\E q \in Requests : Manage(q)) \/ UNCHANGED vars
  BY <1>4, TimeInv DEF Agents, Manage, vars
<1> QED
  BY <1>1, <1>2, <1>3, <1>4 DEF Next

\* Every step keeps the directory's half; whose a session is is known once a
\* request of it is admitted.
LEMMA DirectoryInvNext == SessionInv /\ DirectoryInv /\ [Next]_vars => DirectoryInv'
<1> SUFFICES ASSUME SessionInv, DirectoryInv, [Next]_vars PROVE DirectoryInv'
  OBVIOUS
<1>1. CASE Browser \/ Agents \/ (\E s \in Sessions : Lapses(s)) \/ UNCHANGED vars
  BY <1>1, BearingInv DEF Browser, Agents, Lapses, vars
<1>2. ASSUME NEW q \in Requests, Handle(q) PROVE DirectoryInv'
  <2>1. CASE Authenticate(q) /\ UNCHANGED directoryVars
    BY <2>1, BearingInv
  <2>2. ASSUME at[q] = "admitted", NEW n \in Names, LookUp(q, SubjectOf[of[q]], n)
        PROVE  DirectoryInv'
    <3>1. SubjectOf[of[q]] \in Subjects
      BY <2>2, AccountsAssumption DEF SessionInv, SessionTypeOK, RequestsSound
    <3> QED
      BY <2>2, <3>1, LookUpInv
  <2>3. CASE Provision(q)
    BY <2>3, InsertIdentityInv, InsertActorInv, RollBackInv DEF Provision
  <2> QED
    BY <1>2, <2>1, <2>2, <2>3, CreateAgentInv, AnswerInv DEF Handle
<1>3. ASSUME NEW q \in Requests, Manage(q) PROVE DirectoryInv'
  BY <1>3, CreateAgentInv, CredentialsInv DEF Manage, Administer
<1> QED
  BY <1>1, <1>2, <1>3 DEF Next

\* The invariant of the humans' side of the server.
THEOREM AccountsInvariant == Spec => [](SessionInv /\ DirectoryInv)
<1>1. SessionInv /\ DirectoryInv /\ [Next]_vars => SessionInv' /\ DirectoryInv'
  BY SessionInvNext, DirectoryInvNext
<1> QED
  BY <1>1, AccountsInvInit, PTL DEF Spec

\* Types (humanauth, storage).
THEOREM AccountsTypeCorrect == Spec => []TypeOK
<1>1. SessionInv /\ DirectoryInv => TypeOK
  BY DEF SessionInv, DirectoryInv, TypeOK
<1> QED
  BY <1>1, AccountsInvariant, PTL

\* Requests that refresh one session together never strand it on a token that
\* was used (oidc_provider.go:86-110).
THEOREM SessionsStayUsable == Spec => []StoredTokenIsUsable
<1>1. SessionInv /\ DirectoryInv => StoredTokenIsUsable
  BY DEF SessionInv
<1> QED
  BY <1>1, AccountsInvariant, PTL

\* Only a refresh that was under way can bring a logged out session back
\* (oidc_handlers.go:204-207).
THEOREM LogoutIsFinal == Spec => []LogoutEndsTheRow
<1>1. SessionInv /\ DirectoryInv => LogoutEndsTheRow
  BY DEF SessionInv
<1> QED
  BY <1>1, AccountsInvariant, PTL

\* Any number of humans and first requests: one actor each
\* (human_repo.go:18-28).
THEOREM HumansHaveOneActor == Spec => []OneActorPerHuman
<1>1. SessionInv /\ DirectoryInv => OneActorPerHuman
  BY DEF DirectoryInv
<1> QED
  BY <1>1, AccountsInvariant, PTL

\* Nobody is turned away by a race of its own requests (human_repo.go:47-93).
THEOREM FailureMeansConflict == Spec => []FailsOnlyOnName
<1>1. SessionInv /\ DirectoryInv => FailsOnlyOnName
  BY DEF DirectoryInv
<1> QED
  BY <1>1, AccountsInvariant, PTL

\* One revocation of a credential is answered as done (actor_repo.go:121-134).
THEOREM RevocationIsOnce == Spec => []RevokedOnce
<1>1. SessionInv /\ DirectoryInv => RevokedOnce
  BY DEF DirectoryInv
<1> QED
  BY <1>1, AccountsInvariant, PTL

\* Nothing brings a revoked credential back (actor_repo.go:121-144).
THEOREM RevocationIsFinal == Spec => RevokedForGood
<1> DEFINE Step == \A c \in Credentials : credential[c] = "revoked" => credential'[c] = "revoked"
<1>1. SessionInv /\ DirectoryInv /\ [Next]_vars => [Step]_directoryVars
  <2> SUFFICES ASSUME DirectoryInv, Next, NEW c \in Credentials, credential[c] = "revoked"
               PROVE  credential'[c] = "revoked" \/ UNCHANGED directoryVars
    BY DEF vars
  <2> USE DEF DirectoryInv, DirectoryTypeOK, humans, agents, directoryVars
  <2>1. ASSUME NEW q \in Requests, Manage(q) PROVE credential'[c] = "revoked"
    BY <2>1 DEF Manage, Administer, ProbeName, RevokeAllAgentCredentials, RevokeAgentToken,
       IssueAgentToken
  <2>2. ASSUME NEW q \in Requests, Handle(q)
        PROVE  credential'[c] = "revoked" \/ UNCHANGED directoryVars
    BY <2>2 DEF Handle, LookUp, Provision, InsertIdentity, InsertActor, RollBack, ReadActor,
       InsertAgent, Answer
  <2>3. ASSUME Agents PROVE credential'[c] = "revoked"
    BY <2>3 DEF Agents, Bearing, ReadCredential, TouchCredential
  <2> QED
    BY <2>1, <2>2, <2>3 DEF Next, Browser, Lapses
<1> QED
  BY <1>1, AccountsInvariant, PTL DEF Spec, RevokedForGood
-----------------------------------------------------------------------------
\* For whom a request acts, once it has found the actor of its human.
ActsInv ==
  /\ ActsForItsHuman
  /\ \A q \in Requests : step[q] \in {"known", "probed"} => identity[who[q]] # NoName

\* Rows of the directory, over one step.
RowsStay ==
  /\ \A n \in Names : actor[n] # NoOne => actor'[n] = actor[n]
  /\ \A p \in Subjects : identity[p] # NoName => identity'[p] = identity[p]
  /\ \A c \in Credentials : credential[c] # "none" =>
       holder'[c] = holder[c] /\ credential'[c] \in {credential[c], "revoked"}

LEMMA RowsNext == ASSUME DirectoryInv, [Next]_vars PROVE RowsStay
<1> USE DEF DirectoryInv, DirectoryTypeOK, humans, agents, directoryVars
<1>1. CASE UNCHANGED directoryVars
  BY <1>1 DEF RowsStay
<1>2. ASSUME NEW q \in Requests, Manage(q) PROVE RowsStay
  BY <1>2 DEF RowsStay, Manage, Administer, ProbeName, RevokeAllAgentCredentials, RevokeAgentToken,
     IssueAgentToken
<1>3. ASSUME NEW q \in Requests, InsertActor(q) PROVE RowsStay
  <2>1. /\ actor[wanted[q]] = NoOne /\ identity[who[q]] = NoName
        /\ actor' = [actor EXCEPT ![wanted[q]] = who[q]]
        /\ identity' = [identity EXCEPT ![who[q]] = wanted[q]]
        /\ UNCHANGED <<credential, holder>>
    BY <1>3 DEF InsertActor, To, ProvisionSound
  <2> QED
    BY <2>1 DEF RowsStay
<1>4. ASSUME NEW q \in Requests, Handle(q), ~ InsertActor(q) PROVE RowsStay
  BY <1>1, <1>4 DEF RowsStay, Handle, LookUp, Provision, InsertIdentity, RollBack, ReadActor,
     InsertAgent, Answer
<1>5. ASSUME Agents PROVE RowsStay
  BY <1>5 DEF RowsStay, Agents, Bearing, ReadCredential, TouchCredential
<1> QED
  BY <1>1, <1>2, <1>3, <1>4, <1>5 DEF Next, Browser, Lapses, vars

\* Rows of the directory are never taken over (actor_repo.go, human_repo.go).
THEOREM RowsStayForGood == Spec => RowsAreForGood
<1>1. SessionInv /\ DirectoryInv /\ [Next]_vars => [RowsStay]_vars
  BY RowsNext
<1> QED
  BY <1>1, AccountsInvariant, PTL DEF Spec, RowsAreForGood, RowsStay

\* Once admitted, a request keeps its session and the role it was admitted with.
LEMMA AdmittedStays ==
  ASSUME SessionInv, NEW q \in Requests, at[q] = "admitted",
         \/ Browser \/ (\E s \in Sessions : Lapses(s))
         \/ \E r \in Requests : Authenticate(r) \/ (r # q /\ Served(r))
         \/ UNCHANGED sessionVars
  PROVE  at'[q] = "admitted" /\ of'[q] = of[q] /\ seen'[q] = seen[q]
<1> USE DEF SessionInv, SessionTypeOK
<1>1. CASE Browser
  BY <1>1 DEF Browser, GroupChanges, Login, Callback, CallbackRefused, Logout, ReadRow
<1>2. CASE \E s \in Sessions : Lapses(s)
  BY <1>2 DEF Lapses, Lapse
<1>3. ASSUME NEW r \in Requests, Authenticate(r)
      PROVE  at'[q] = "admitted" /\ of'[q] = of[q] /\ seen'[q] = seen[q]
  BY <1>3 DEF Authenticate, Refreshed, RefreshFails, DeleteRow, Save, SaveFails, Finish, Go
<1>4. ASSUME NEW r \in Requests, r # q, Served(r)
      PROVE  at'[q] = "admitted" /\ of'[q] = of[q] /\ seen'[q] = seen[q]
  BY <1>4 DEF Served, Finish
<1>5. CASE UNCHANGED sessionVars
  BY <1>5 DEF sessionVars
<1> QED
  BY <1>1, <1>2, <1>3, <1>4, <1>5

\* A request that has not moved acts for whom it did.
LEMMA ActsOn ==
  ASSUME ActsInv, RowsStay, DirectoryTypeOK, NEW q \in Requests, step[q] # "idle",
         step'[q] = step[q], who'[q] = who[q],
         at'[q] = "admitted", of'[q] = of[q], seen'[q] = seen[q]
  PROVE  /\ at'[q] = "admitted" /\ who'[q] = SubjectOf[of'[q]]
         /\ step'[q] = "probed" => seen'[q].role = "admin"
         /\ who[q] \in Subjects /\ step'[q] \in {"known", "probed"} => identity'[who'[q]] # NoName
BY DEF ActsInv, ActsForItsHuman, RequireAdmin, RowsStay

LEMMA ActsNext ==
  ASSUME SessionInv, DirectoryInv, ActsInv, [Next]_vars
  PROVE  ActsInv'
<1>0. RowsStay /\ DirectoryTypeOK /\ \A q \in Requests : step[q] # "idle" => who[q] \in Subjects
  BY RowsNext DEF DirectoryInv, ProvisionSound
<1> SUFFICES ASSUME NEW q \in Requests, step'[q] # "idle"
             PROVE  /\ at'[q] = "admitted" /\ who'[q] = SubjectOf[of'[q]]
                    /\ step'[q] = "probed" => seen'[q].role = "admin"
                    /\ step'[q] \in {"known", "probed"} => identity'[who'[q]] # NoName
  BY DEF ActsInv, ActsForItsHuman, RequireAdmin
<1> USE DEF DirectoryTypeOK, humans, agents, directoryVars
<1>1. ASSUME step' = step, who' = who,
             \/ Browser \/ (\E s \in Sessions : Lapses(s))
             \/ \E r \in Requests : Authenticate(r)
             \/ UNCHANGED sessionVars
      PROVE  /\ at'[q] = "admitted" /\ who'[q] = SubjectOf[of'[q]]
             /\ step'[q] = "probed" => seen'[q].role = "admin"
             /\ step'[q] \in {"known", "probed"} => identity'[who'[q]] # NoName
  <2>1. step[q] # "idle" /\ at[q] = "admitted"
    BY <1>1 DEF ActsInv, ActsForItsHuman
  <2>2. at'[q] = "admitted" /\ of'[q] = of[q] /\ seen'[q] = seen[q]
    BY <1>1, <2>1, AdmittedStays
  <2> QED
    BY <1>0, <1>1, <2>1, <2>2, ActsOn
<1>2. ASSUME NEW r \in Requests, r # q, step'[q] = step[q], who'[q] = who[q],
             UNCHANGED sessionVars \/ Served(r)
      PROVE  /\ at'[q] = "admitted" /\ who'[q] = SubjectOf[of'[q]]
             /\ step'[q] = "probed" => seen'[q].role = "admin"
             /\ step'[q] \in {"known", "probed"} => identity'[who'[q]] # NoName
  <2>1. step[q] # "idle" /\ at[q] = "admitted"
    BY <1>2 DEF ActsInv, ActsForItsHuman
  <2>2. at'[q] = "admitted" /\ of'[q] = of[q] /\ seen'[q] = seen[q]
    BY <1>2, <2>1, AdmittedStays
  <2> QED
    BY <1>0, <1>2, <2>1, <2>2, ActsOn
<1>3. ASSUME UNCHANGED <<at, of, seen>>, step[q] # "idle", who'[q] = who[q],
             step'[q] = "probed" => RequireAdmin(q),
             step'[q] \in {"known", "probed"} => identity'[who[q]] # NoName
      PROVE  /\ at'[q] = "admitted" /\ who'[q] = SubjectOf[of'[q]]
             /\ step'[q] = "probed" => seen'[q].role = "admin"
             /\ step'[q] \in {"known", "probed"} => identity'[who'[q]] # NoName
  BY <1>3 DEF ActsInv, ActsForItsHuman, RequireAdmin
<1>4. ASSUME NEW r \in Requests, Handle(r)
      PROVE  /\ at'[q] = "admitted" /\ who'[q] = SubjectOf[of'[q]]
             /\ step'[q] = "probed" => seen'[q].role = "admin"
             /\ step'[q] \in {"known", "probed"} => identity'[who'[q]] # NoName
  <2>1. CASE Authenticate(r) /\ UNCHANGED directoryVars
    BY <2>1, <1>1
  <2>2. ASSUME at[r] = "admitted", NEW n \in Names, LookUp(r, SubjectOf[of[r]], n),
               UNCHANGED sessionVars
        PROVE  /\ at'[q] = "admitted" /\ who'[q] = SubjectOf[of'[q]]
               /\ step'[q] = "probed" => seen'[q].role = "admin"
               /\ step'[q] \in {"known", "probed"} => identity'[who'[q]] # NoName
    <3>1. CASE r # q
      BY <2>2, <3>1, <1>0, <1>2 DEF LookUp, To
    <3>2. CASE r = q
      BY <2>2, <3>2, <1>0 DEF LookUp, To, sessionVars
    <3> QED
      BY <3>1, <3>2
  <2>3. CASE (Provision(r) \/ InsertAgent(r)) /\ UNCHANGED sessionVars
    <3>1. CASE r # q
      BY <2>3, <3>1, <1>0, <1>2 DEF Provision, InsertIdentity, InsertActor, RollBack, ReadActor,
         InsertAgent, To
    <3>2. CASE r = q
      <4>1. UNCHANGED <<at, of, seen>> /\ step[q] # "idle" /\ who'[q] = who[q] /\ step'[q] # "probed"
        BY <2>3, <3>2, <1>0 DEF Provision, InsertIdentity, InsertActor, RollBack, ReadActor,
           InsertAgent, To, sessionVars
      <4>2. CASE InsertActor(q)
        <5>1. wanted[q] \in Names /\ who[q] \in Subjects
          BY <4>2 DEF InsertActor, To, DirectoryInv, ProvisionSound
        <5>2. identity'[who[q]] = wanted[q]
          BY <4>2, <5>1, <1>0 DEF InsertActor
        <5> QED
          BY <4>1, <5>1, <5>2, <1>3, DirectoryAssumption
      <4>3. CASE ReadActor(q)
        <5>1. identity[who[q]] # NoName /\ UNCHANGED identity
          BY <4>3 DEF ReadActor, To, DirectoryInv, ProvisionSound
        <5> QED
          BY <4>1, <5>1, <1>3
      <4>4. CASE InsertIdentity(q) \/ RollBack(q)
        <5>1. step'[q] \notin {"known", "probed"}
          BY <4>4, <1>0 DEF InsertIdentity, RollBack, To
        <5> QED
          BY <4>1, <5>1, <1>3
      <4>5. CASE InsertAgent(q)
        <5>1. identity[who[q]] # NoName /\ UNCHANGED identity
          BY <4>5 DEF InsertAgent, To, ActsInv
        <5> QED
          BY <4>1, <5>1, <1>3
      <4> QED
        BY <2>3, <3>2, <4>2, <4>3, <4>4, <4>5 DEF Provision
    <3> QED
      BY <3>1, <3>2
  <2>4. CASE Answer(r) /\ Served(r)
    <3>1. r # q
      BY <2>4, <1>0 DEF Answer
    <3> QED
      BY <2>4, <3>1, <1>0, <1>2 DEF Answer
  <2> QED
    BY <1>4, <2>1, <2>2, <2>3, <2>4 DEF Handle
<1>5. ASSUME NEW r \in Requests, Manage(r)
      PROVE  /\ at'[q] = "admitted" /\ who'[q] = SubjectOf[of'[q]]
             /\ step'[q] = "probed" => seen'[q].role = "admin"
             /\ step'[q] \in {"known", "probed"} => identity'[who'[q]] # NoName
  <2>1. CASE UNCHANGED <<step, who>>
    BY <2>1, <1>5, <1>1 DEF Manage
  <2>2. ASSUME NEW n \in Names, ProbeName(r, n)
        PROVE  /\ at'[q] = "admitted" /\ who'[q] = SubjectOf[of'[q]]
               /\ step'[q] = "probed" => seen'[q].role = "admin"
               /\ step'[q] \in {"known", "probed"} => identity'[who'[q]] # NoName
    <3>1. CASE r # q
      BY <2>2, <3>1, <1>0, <1>2, <1>5 DEF ProbeName, To, Manage
    <3>2. CASE r = q
      <4>1. identity[who[q]] # NoName /\ UNCHANGED <<identity, who, at, of, seen>> /\ step[q] = "known"
        BY <2>2, <3>2, <1>5 DEF ProbeName, To, Manage, ActsInv, sessionVars
      <4> QED
        BY <3>2, <4>1, <1>3, <1>5 DEF Manage
    <3> QED
      BY <3>1, <3>2
  <2> QED
    BY <2>1, <2>2, <1>5 DEF Manage, Administer, RevokeAllAgentCredentials, RevokeAgentToken,
       IssueAgentToken
<1>6. CASE Browser \/ (\E s \in Sessions : Lapses(s)) \/ Agents \/ UNCHANGED vars
  <2>1. UNCHANGED <<step, who>>
    BY <1>6 DEF Browser, Lapses, Agents, Bearing, ReadCredential, TouchCredential, vars
  <2> QED
    BY <2>1, <1>6, <1>1 DEF Agents, vars
<1> QED
  BY <1>4, <1>5, <1>6 DEF Next

LEMMA ActsInvariant == Spec => [](SessionInv /\ DirectoryInv /\ ActsInv)
<1>1. Init => ActsInv
  BY DEF Init, DirectoryInit, ActsInv, ActsForItsHuman
<1> QED
  BY <1>1, AccountsInvariant, ActsNext, PTL DEF Spec

\* A request never acts for another session's human, nor past its role
\* (middleware.go:59-101).
THEOREM RequestsActForTheirHuman == Spec => []ActsForItsHuman
<1>1. ActsInv => ActsForItsHuman
  BY DEF ActsInv
<1> QED
  BY <1>1, ActsInvariant, PTL

\* The one request that acts when an agent or a credential changes.
LEMMA ManagedByAdmin ==
  ASSUME DirectoryInv, ActsInv, NEW q \in Requests, RequireAdmin(q), step[q] \in {"known", "probed"}
  PROVE  AnAdminActs
<1>1. at[q] = "admitted" /\ who[q] = SubjectOf[of[q]] /\ identity[who[q]] # NoName
  BY DEF ActsInv, ActsForItsHuman
<1>2. who[q] \in Subjects /\ identity[who[q]] \in Names
  BY <1>1 DEF DirectoryInv, DirectoryTypeOK, ProvisionSound
<1>3. actor[identity[who[q]]] = who[q]
  BY <1>2 DEF DirectoryInv, OneActorPerHuman
<1> QED
  BY <1>1, <1>3 DEF AnAdminActs

\* Nobody but an admin, known to the directory, makes an agent or touches a
\* credential (middleware.go:86-101).
THEOREM ManagingTakesAnAdmin == Spec => OnlyAdminsManage
<1>1. SessionInv /\ DirectoryInv /\ ActsInv /\ [Next]_vars => [AgentsChange => AnAdminActs]_vars
  <2> SUFFICES ASSUME DirectoryInv, ActsInv, Next, AgentsChange PROVE AnAdminActs
    OBVIOUS
  <2> USE DEF humans, agents, directoryVars
  <2>1. ASSUME NEW q \in Requests, Manage(q) PROVE AnAdminActs
    <3>1. RequireAdmin(q)
      BY <2>1 DEF Manage
    <3>2. step[q] \in {"known", "probed"}
      BY <2>1 DEF Manage, Administer, ProbeName, RevokeAllAgentCredentials, RevokeAgentToken,
         IssueAgentToken, To
    <3> QED
      BY <3>1, <3>2, ManagedByAdmin
  <2>2. ASSUME NEW q \in Requests, Handle(q) PROVE AnAdminActs
    <3>1. CASE InsertAgent(q)
      <4>1. step[q] = "probed" /\ RequireAdmin(q)
        BY <3>1 DEF InsertAgent, To, ActsInv, ActsForItsHuman
      <4> QED
        BY <4>1, ManagedByAdmin
    <3>2. CASE ~ InsertAgent(q)
      <4>1. UNCHANGED <<credential, holder>>
        BY <2>2, <3>2 DEF Handle, LookUp, Provision, InsertIdentity, InsertActor, RollBack,
           ReadActor, Answer
      <4>2. ASSUME NEW n \in Names, actor[n] # Agent PROVE actor'[n] # Agent
        <5>1. CASE UNCHANGED actor
          BY <4>2, <5>1
        <5>2. CASE InsertActor(q)
          <6>1. who[q] \in Subjects /\ actor' = [actor EXCEPT ![wanted[q]] = who[q]]
            BY <5>2 DEF InsertActor, To, DirectoryInv, ProvisionSound
          <6> QED
            BY <4>2, <6>1, DirectoryAssumption DEF DirectoryInv, DirectoryTypeOK
        <5> QED
          BY <2>2, <3>2, <5>1, <5>2 DEF Handle, LookUp, Provision, InsertIdentity, RollBack,
             ReadActor, Answer
      <4> QED
        BY <4>1, <4>2 DEF AgentsChange
    <3> QED
      BY <3>1, <3>2
  <2>3. ASSUME UNCHANGED <<credential, holder, actor>> PROVE FALSE
    BY <2>3 DEF AgentsChange
  <2>4. CASE Agents \/ Browser \/ (\E s \in Sessions : Lapses(s))
    BY <2>3, <2>4 DEF Agents, Bearing, ReadCredential, TouchCredential, Browser, Lapses
  <2> QED
    BY <2>1, <2>2, <2>4 DEF Next
<1> QED
  BY <1>1, ActsInvariant, PTL DEF Spec, OnlyAdminsManage

\* Of the requests that present one token, the provider serves one
\* (oidc_provider.go:91-110).
THEOREM TokenHasOneWinner == Spec => []OneWinnerPerToken
<1>1. SessionInv => OneWinnerPerToken
  <2> SUFFICES ASSUME SessionInv, rotates, NEW q \in Requests, NEW r \in Requests,
                      at[q] = "refreshed", at[r] = "refreshed", of[q] = of[r], q # r
               PROVE  FALSE
    BY DEF OneWinnerPerToken
  <2>1. seen[r].token = current[of[r]] /\ seen[r].token < current[of[q]]
    BY DEF SessionInv, TokensSound
  <2>2. of[r] \in Sessions
    BY DEF SessionInv, SessionTypeOK, RequestsSound
  <2>3. current[of[r]] \in Nat
    BY <2>2, SessionAssumption DEF SessionInv, SessionTypeOK
  <2> QED
    BY <2>1, <2>3
<1> QED
  BY <1>1, AccountsInvariant, PTL
=============================================================================
