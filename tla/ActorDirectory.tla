--------------------------- MODULE ActorDirectory ---------------------------
(***************************************************************************)
(* Who the server knows, internal/storage: the actors, each under a name   *)
(* of its own, the humans among them by their subject at the identity      *)
(* provider, and the credentials of agents, with the requests that create, *)
(* use and revoke them at the same time.  Actor rows are never deleted and *)
(* never renamed, so a row is known by its name.                           *)
(***************************************************************************)
EXTENDS Naturals, HumanRequests

CONSTANTS
  Subjects,    \* humans, as the identity provider knows them
  Names,       \* display names
  Credentials, \* agent credentials; each is issued once
  Bearers,     \* requests of agents
  Agent, NoOne,
  NoName, NoCredential

ASSUME DirectoryAssumption ==
  /\ Agent \notin Subjects /\ NoOne \notin Subjects \cup {Agent}
  /\ NoName \notin Names /\ NoCredential \notin Credentials

VARIABLES
  actor,      \* the actors table: whose row a name is
  identity,   \* the user_identities table: the actor of a subject
  step,       \* where a request is in GetOrCreateHumanActor or CreateAgent
  who,        \* its subject
  wanted,     \* the name it would insert
  credential, \* the agent_credentials table
  holder,     \* the agent a credential belongs to
  revocations,\* history: how often a revocation of it was answered as done
  bearer,     \* where a request of an agent is
  shown       \* the credential it presented

humans == <<actor, identity, step, who, wanted>>
agents == <<credential, holder, revocations, bearer, shown>>
directoryVars == <<humans, agents>>

Steps == {"idle", "missing", "holding", "found", "known", "probed", "failed"}

DirectoryTypeOK ==
  /\ actor \in [Names -> Subjects \cup {Agent, NoOne}]
  /\ identity \in [Subjects -> Names \cup {NoName}]
  /\ step \in [Requests -> Steps]
  /\ who \in [Requests -> Subjects \cup {NoOne}]
  /\ wanted \in [Requests -> Names \cup {NoName}]
  /\ credential \in [Credentials -> {"none", "active", "revoked"}]
  /\ holder \in [Credentials -> Names \cup {NoName}]
  /\ revocations \in [Credentials -> Nat]
  /\ bearer \in [Bearers -> {"idle", "checked"}]
  /\ shown \in [Bearers -> Credentials \cup {NoCredential}]

DirectoryInit ==
  /\ actor = [n \in Names |-> NoOne]
  /\ identity = [p \in Subjects |-> NoName]
  /\ step = [q \in Requests |-> "idle"]
  /\ who = [q \in Requests |-> NoOne]
  /\ wanted = [q \in Requests |-> NoName]
  /\ credential = [c \in Credentials |-> "none"]
  /\ holder = [c \in Credentials |-> NoName]
  /\ revocations = [c \in Credentials |-> 0]
  /\ bearer = [r \in Bearers |-> "idle"]
  /\ shown = [r \in Bearers |-> NoCredential]

To(q, from, to) ==
  /\ step[q] = from
  /\ step' = [step EXCEPT ![q] = to]
-----------------------------------------------------------------------------
(***************************************************************************)
(* GetOrCreateHumanActor.                                                  *)
(***************************************************************************)

\* The identity is looked up under the name the provider gives today.
LookUp(q, p, n) ==
  /\ To(q, "idle", IF identity[p] = NoName THEN "missing" ELSE "found")
  /\ who' = [who EXCEPT ![q] = p]
  /\ wanted' = [wanted EXCEPT ![q] = IF identity[p] = NoName THEN n ELSE NoName]
  /\ UNCHANGED <<actor, identity, agents>>

\* Uncommitted, the inserted identity holds back others of its subject.
Held(p) == \E q \in Requests : step[q] = "holding" /\ who[q] = p

InsertBlindly(q) ==  \* mutant: who came second is not told
  /\ To(q, "missing", "holding")
  /\ UNCHANGED <<actor, identity, who, wanted, agents>>

InsertCommitted(q) ==  \* mutant: no transaction around the two inserts
  /\ ~ Held(who[q])
  /\ To(q, "missing", IF identity[who[q]] = NoName THEN "holding" ELSE "found")
  /\ identity' = [identity EXCEPT ![who[q]] = IF @ = NoName THEN wanted[q] ELSE @]
  /\ UNCHANGED <<actor, who, wanted, agents>>

\* INSERT ... ON CONFLICT DO NOTHING: who inserted nothing has lost the race.
InsertIdentity(q) ==
  /\ ~ Held(who[q])
  /\ To(q, "missing", IF identity[who[q]] = NoName THEN "holding" ELSE "found")
  /\ wanted' = [wanted EXCEPT ![q] = IF identity[who[q]] = NoName THEN @ ELSE NoName]
  /\ UNCHANGED <<actor, identity, who, agents>>

\* The actor under its unique name, and the commit of both rows.
InsertActor(q) ==
  /\ To(q, "holding", "known")
  /\ actor[wanted[q]] = NoOne
  /\ actor' = [actor EXCEPT ![wanted[q]] = who[q]]
  /\ identity' = [identity EXCEPT ![who[q]] = wanted[q]]
  /\ wanted' = [wanted EXCEPT ![q] = NoName]
  /\ UNCHANGED <<who, agents>>

\* The name is somebody else's: neither row stays.
RollBack(q) ==
  /\ To(q, "holding", "failed")
  /\ actor[wanted[q]] # NoOne
  /\ UNCHANGED <<actor, identity, who, wanted, agents>>

\* The role is brought up to date and the actor is read.
ReadActor(q) ==
  /\ To(q, "found", IF actor[identity[who[q]]] = who[q] THEN "known" ELSE "failed")
  /\ UNCHANGED <<actor, identity, who, wanted, agents>>

\* The request is answered.
Answer(q) ==
  /\ step[q] \in {"known", "failed"}
  /\ step' = [step EXCEPT ![q] = "idle"]
  /\ who' = [who EXCEPT ![q] = NoOne]
  /\ wanted' = [wanted EXCEPT ![q] = NoName]
  /\ UNCHANGED <<actor, identity, agents>>

Provision(q) == InsertIdentity(q) \/ InsertActor(q) \/ RollBack(q) \/ ReadActor(q)
-----------------------------------------------------------------------------
(***************************************************************************)
(* What an admin asks for.                                                 *)
(***************************************************************************)

\* CreateAgent looks the name up before it inserts.
ProbeName(q, n) ==
  /\ To(q, "known", "probed")
  /\ actor[n] = NoOne
  /\ wanted' = [wanted EXCEPT ![q] = n]
  /\ UNCHANGED <<actor, identity, who, agents>>

\* The unique index has the last word.
InsertAgent(q) ==
  /\ To(q, "probed", "known")
  /\ actor' = [actor EXCEPT ![wanted[q]] = IF @ = NoOne THEN Agent ELSE @]
  /\ wanted' = [wanted EXCEPT ![q] = NoName]
  /\ UNCHANGED <<identity, who, agents>>

\* For any actor, also for an agent that was decommissioned: its row is there.
IssueAgentToken(q, c, n) ==
  /\ step[q] = "known"
  /\ actor[n] # NoOne /\ credential[c] = "none"
  /\ credential' = [credential EXCEPT ![c] = "active"]
  /\ holder' = [holder EXCEPT ![c] = n]
  /\ UNCHANGED <<humans, revocations, bearer, shown>>

\* Revoked before, it is answered as not found.
RevokeAgentToken(q, c) ==
  /\ step[q] = "known" /\ credential[c] = "active"
  /\ credential' = [credential EXCEPT ![c] = "revoked"]
  /\ revocations' = [revocations EXCEPT ![c] = @ + 1]
  /\ UNCHANGED <<humans, holder, bearer, shown>>

\* An agent is decommissioned.
RevokeAllAgentCredentials(q, n) ==
  /\ step[q] = "known"
  /\ credential' = [c \in Credentials |->
       IF holder[c] = n /\ credential[c] = "active" THEN "revoked" ELSE credential[c]]
  /\ UNCHANGED <<humans, holder, revocations, bearer, shown>>

Administer(q) ==
  \/ \E n \in Names : ProbeName(q, n) \/ RevokeAllAgentCredentials(q, n)
  \/ \E c \in Credentials :
       RevokeAgentToken(q, c) \/ \E n \in Names : IssueAgentToken(q, c, n)
-----------------------------------------------------------------------------
(***************************************************************************)
(* RequireBearer, before a tool call.                                      *)
(***************************************************************************)

ReadCredential(r, c) ==
  /\ bearer[r] = "idle" /\ credential[c] = "active"
  /\ bearer' = [bearer EXCEPT ![r] = "checked"]
  /\ shown' = [shown EXCEPT ![r] = c]
  /\ UNCHANGED <<humans, credential, holder, revocations>>

SaveCredential(r) ==  \* mutant: the row is saved as it was read
  /\ bearer[r] = "checked"
  /\ bearer' = [bearer EXCEPT ![r] = "idle"]
  /\ shown' = [shown EXCEPT ![r] = NoCredential]
  /\ credential' = [credential EXCEPT ![shown[r]] = "active"]
  /\ UNCHANGED <<humans, holder, revocations>>

\* last_used_at alone is updated; the actor is there, and the tool is called.
TouchCredential(r) ==
  /\ bearer[r] = "checked"
  /\ bearer' = [bearer EXCEPT ![r] = "idle"]
  /\ shown' = [shown EXCEPT ![r] = NoCredential]
  /\ UNCHANGED <<humans, credential, holder, revocations>>

Bearing(r) ==
  \/ \E c \in Credentials : ReadCredential(r, c)
  \/ TouchCredential(r)
-----------------------------------------------------------------------------
\* A human has one actor, however many of its first requests come at once, and
\* every human's row is the one its identity names (human_repo.go:18-28).
OneActorPerHuman ==
  \A n \in Names : \A p \in Subjects : actor[n] = p <=> identity[p] = n

\* A human is turned away only because the name it comes with belongs to
\* somebody else, never by a race of its own requests (human_repo.go:47-93).
FailsOnlyOnName ==
  \A q \in Requests :
    step[q] = "failed" =>
      wanted[q] \in Names /\ actor[wanted[q]] \notin {NoOne, who[q]}

\* A credential that was revoked stays revoked, although requests that read it
\* before write to its row afterwards (auth.go:60-74, actor_repo.go:166-185).
RevokedForGood ==
  [][\A c \in Credentials : credential[c] = "revoked" => credential'[c] = "revoked"]_directoryVars

\* Of the revocations of one credential one is answered as done, also against
\* the decommissioning of its agent (actor_repo.go:121-144).
RevokedOnce ==
  \A c \in Credentials :
    /\ revocations[c] <= 1
    /\ revocations[c] = 1 => credential[c] = "revoked"
-----------------------------------------------------------------------------
\* What a request knows at its step; an identity that is inserted and not yet
\* committed is the only one of its subject.
ProvisionSound ==
  /\ \A q \in Requests :
       /\ step[q] # "idle" => who[q] \in Subjects
       /\ step[q] \in {"missing", "holding", "probed"} => wanted[q] \in Names
       /\ step[q] = "found" => identity[who[q]] # NoName
       /\ step[q] = "holding" => identity[who[q]] = NoName
  /\ \A q, r \in Requests :
       step[q] = "holding" /\ step[r] = "holding" /\ who[q] = who[r] => q = r

\* The inductive invariant.
DirectoryInv ==
  DirectoryTypeOK /\ ProvisionSound /\ OneActorPerHuman /\ FailsOnlyOnName /\ RevokedOnce
=============================================================================
