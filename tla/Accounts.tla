------------------------------ MODULE Accounts ------------------------------
(***************************************************************************)
(* The humans' side of the server: a request is authenticated by its       *)
(* session, its human is looked up or created, and with the role of its    *)
(* claims it may create agents and issue and revoke their credentials,     *)
(* which agents present meanwhile.                                         *)
(***************************************************************************)
EXTENDS HumanSessions, ActorDirectory

CONSTANT SubjectOf  \* the human a session is of

ASSUME AccountsAssumption == SubjectOf \in [Sessions -> Subjects]

vars == <<sessionVars, directoryVars>>

TypeOK == SessionTypeOK /\ DirectoryTypeOK
Init == SessionInit /\ DirectoryInit

Browser ==
  /\ \/ GroupChanges
     \/ \E s \in Sessions :
          \/ Login(s) \/ Callback(s) \/ CallbackRefused(s) \/ Logout(s)
          \/ \E q \in Requests : ReadRow(q, s)
  /\ UNCHANGED directoryVars

Lapses(s) == Lapse(s) /\ UNCHANGED directoryVars

\* RequireHumanAuth: Authenticate, then the actor, then the handler.
Handle(q) ==
  \/ Authenticate(q) /\ UNCHANGED directoryVars
  \/ /\ at[q] = "admitted"
     /\ \E n \in Names : LookUp(q, SubjectOf[of[q]], n)
     /\ UNCHANGED sessionVars
  \/ Provision(q) /\ UNCHANGED sessionVars
  \/ InsertAgent(q) /\ UNCHANGED sessionVars
  \/ Answer(q) /\ Served(q)

RequireAdmin(q) == seen[q].role = "admin"

\* What is behind RequireAdmin.
Manage(q) ==
  /\ RequireAdmin(q)
  /\ Administer(q)
  /\ UNCHANGED sessionVars

Agents == (\E r \in Bearers : Bearing(r)) /\ UNCHANGED sessionVars

Next ==
  \/ Browser \/ Agents
  \/ \E s \in Sessions : Lapses(s)
  \/ \E q \in Requests : Handle(q) \/ Manage(q)

\* Time passes and requests are handled to their end; nothing is assumed of
\* the browser, the provider or the agents.
Spec ==
  /\ Init /\ [][Next]_vars
  /\ \A s \in Sessions : WF_vars(Lapses(s))
  /\ \A q \in Requests : WF_vars(Handle(q))
-----------------------------------------------------------------------------
\* Someone who has left the admin group for good passes RequireAdmin no more
\* from some time on, though requests refresh, save and lapse in any order
\* (oidc_provider.go:20-25, middleware.go:86-101).
DemotionTakesEffect ==
  <>[](~member) =>
    <>[](\A q \in Requests : at[q] = "admitted" => ~ RequireAdmin(q))

\* A request acts for the human its session is of, from its look-up to its
\* answer, and what is probed for it passed RequireAdmin (middleware.go:59-101).
ActsForItsHuman ==
  \A q \in Requests : step[q] # "idle" =>
    /\ at[q] = "admitted" /\ who[q] = SubjectOf[of[q]]
    /\ step[q] = "probed" => RequireAdmin(q)

AgentsChange ==
  \/ credential' # credential \/ holder' # holder
  \/ \E n \in Names : actor[n] # Agent /\ actor'[n] = Agent

AnAdminActs == \E q \in Requests :
  /\ at[q] = "admitted" /\ RequireAdmin(q)
  /\ step[q] \in {"known", "probed"}
  /\ actor[identity[SubjectOf[of[q]]]] = SubjectOf[of[q]]

\* Agents and their credentials change hands at the word of an admin only: in
\* every such step some request that was admitted as an admin has found the actor
\* of its own human (middleware.go:86-101).
OnlyAdminsManage == [][AgentsChange => AnAdminActs]_vars

\* Rows are for good: a name never passes to somebody else, a human keeps the
\* actor it was given, a credential its holder, and none is issued twice.
RowsAreForGood ==
  [][/\ \A n \in Names : actor[n] # NoOne => actor'[n] = actor[n]
     /\ \A p \in Subjects : identity[p] # NoName => identity'[p] = identity[p]
     /\ \A c \in Credentials : credential[c] # "none" =>
          holder'[c] = holder[c] /\ credential'[c] \in {credential[c], "revoked"}]_vars

\* Where a refresh token can be used once, one request at a time holds what the
\* provider gave for a session, although all of its requests lapse together
\* (oidc_provider.go:91-110).
OneWinnerPerToken ==
  rotates => \A q, r \in Requests :
    at[q] = "refreshed" /\ at[r] = "refreshed" /\ of[q] = of[r] => q = r
=============================================================================
