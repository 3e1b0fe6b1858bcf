---------------------------- MODULE HumanSessions ----------------------------
(***************************************************************************)
(* A human's sessions, internal/humanauth: the login flows of browsers,    *)
(* the session rows with their cached claims and refresh token, requests   *)
(* that revalidate them once they have lapsed, and logout.  The identity   *)
(* provider is external: it may hand out a new refresh token with each     *)
(* refresh and accept only the latest, and the human may leave and join    *)
(* the admin group at any time.                                            *)
(***************************************************************************)
EXTENDS Naturals, HumanRequests

CONSTANTS
  Sessions,   \* login flows, each of which may end in a session
  MaxToken,   \* bound: how often the provider replaces a session's token
  NoSession

ASSUME SessionAssumption == NoSession \notin Sessions /\ MaxToken \in Nat

VARIABLES
  rotates,    \* the realm's setting: a refresh token can be used once
  member,     \* the human is in the admin group
  current,    \* the refresh token the provider accepts for a session
  state,      \* the login flows whose state cookie a browser has
  flow,       \* the login flows: not begun, at the provider, finished
  cookies,    \* sessions whose cookie a request can carry
  row,        \* the session rows
  fresh,      \* rows whose ExpiresAt is still ahead
  at,         \* where a request is in Authenticate
  of,         \* the session a request belongs to
  seen,       \* the row it read, then what the provider answered it
  left,       \* history: sessions whose row a logout deleted
  racing,     \* history: those logged out while a request was refreshing
  dropped     \* history: sessions whose row could not be written or deleted

sessionVars == <<rotates, member, current, state, flow, cookies, row, fresh, at, of, seen,
                 left, racing, dropped>>
provider == <<rotates, member, current>>
browser == <<state, flow, cookies>>
history == <<left, racing, dropped>>

Roles == {"viewer", "admin"}
Rows == [role : Roles, token : 0 .. MaxToken]
NoRow == [role |-> "none", token |-> 0]
\* roleForGroups.
Role == IF member THEN "admin" ELSE "viewer"
Refreshing == {"lapsed", "refreshed", "refused"}

SessionTypeOK ==
  /\ rotates \in BOOLEAN /\ member \in BOOLEAN
  /\ current \in [Sessions -> 0 .. MaxToken]
  /\ state \in SUBSET Sessions
  /\ flow \in [Sessions -> {"new", "begun", "done"}]
  /\ cookies \in SUBSET Sessions
  /\ row \in [Sessions -> Rows \cup {NoRow}]
  /\ fresh \in SUBSET Sessions
  /\ at \in [Requests -> {"idle", "admitted"} \cup Refreshing]
  /\ of \in [Requests -> Sessions \cup {NoSession}]
  /\ seen \in [Requests -> Rows \cup {NoRow}]
  /\ left \in SUBSET Sessions /\ racing \in SUBSET left
  /\ dropped \in SUBSET Sessions

SessionInit ==
  /\ rotates \in BOOLEAN /\ member \in BOOLEAN
  /\ current = [s \in Sessions |-> 0]
  /\ state = {}
  /\ flow = [s \in Sessions |-> "new"]
  /\ cookies = {} /\ fresh = {}
  /\ row = [s \in Sessions |-> NoRow]
  /\ at = [q \in Requests |-> "idle"]
  /\ of = [q \in Requests |-> NoSession]
  /\ seen = [q \in Requests |-> NoRow]
  /\ left = {} /\ racing = {} /\ dropped = {}

Go(q, from, to) ==
  /\ at[q] = from
  /\ at' = [at EXCEPT ![q] = to]

Finish(q) ==
  /\ at' = [at EXCEPT ![q] = "idle"]
  /\ of' = [of EXCEPT ![q] = NoSession]
  /\ seen' = [seen EXCEPT ![q] = NoRow]
-----------------------------------------------------------------------------
(***************************************************************************)
(* Login and logout.                                                       *)
(***************************************************************************)

\* A browser has one state cookie, that of the login flow it began last; other
\* browsers of the human keep theirs.
Login(s) ==
  /\ flow[s] = "new"
  /\ flow' = [flow EXCEPT ![s] = "begun"]
  /\ \E kept \in SUBSET state : state' = kept \cup {s}
  /\ UNCHANGED <<provider, cookies, row, fresh, at, of, seen, history>>

\* The provider sends the browser back.  Its state has to be the cookie's.  The
\* browser's session cookie is replaced, and other browsers keep theirs.
Callback(s) ==
  /\ flow[s] = "begun" /\ s \in state
  /\ flow' = [flow EXCEPT ![s] = "done"]
  /\ row' = [row EXCEPT ![s] = [role |-> Role, token |-> current[s]]]
  /\ fresh' = fresh \cup {s}
  /\ \E kept \in SUBSET cookies : cookies' = kept \cup {s}
  /\ UNCHANGED <<provider, state, at, of, seen, history>>

CallbackRefused(s) ==
  /\ flow[s] = "begun"
  /\ flow' = [flow EXCEPT ![s] = "done"]
  /\ UNCHANGED <<provider, state, cookies, row, fresh, at, of, seen, history>>

ForgetCookie(s) ==  \* mutant: the row stays
  /\ s \in cookies
  /\ cookies' = cookies \ {s}
  /\ left' = left \cup {s}
  /\ racing' = IF \E q \in Requests : of[q] = s /\ at[q] \in Refreshing
               THEN racing \cup {s} ELSE racing
  /\ UNCHANGED <<provider, state, flow, row, fresh, at, of, seen, dropped>>

\* The cookie goes in any case: whether the row could be deleted is not asked.
Logout(s) ==
  /\ s \in cookies
  /\ cookies' = cookies \ {s}
  /\ \/ UNCHANGED <<row, fresh, left, racing>>
     \/ /\ row' = [row EXCEPT ![s] = NoRow]
        /\ fresh' = fresh \ {s}
        /\ left' = left \cup {s}
        /\ racing' = IF \E q \in Requests : of[q] = s /\ at[q] \in Refreshing
                     THEN racing \cup {s} ELSE racing
  /\ UNCHANGED <<provider, state, flow, at, of, seen, dropped>>
-----------------------------------------------------------------------------
(***************************************************************************)
(* Authenticate.                                                           *)
(***************************************************************************)

\* The row is read once; its claims are the answer until it has lapsed.
TrustForever(q, s) ==  \* mutant: it never lapses for the reader
  /\ at[q] = "idle" /\ s \in cookies /\ row[s] # NoRow
  /\ at' = [at EXCEPT ![q] = "admitted"]
  /\ of' = [of EXCEPT ![q] = s]
  /\ seen' = [seen EXCEPT ![q] = row[s]]
  /\ UNCHANGED <<provider, browser, row, fresh, history>>

ReadRow(q, s) ==
  /\ at[q] = "idle" /\ s \in cookies /\ row[s] # NoRow
  /\ at' = [at EXCEPT ![q] = IF s \in fresh THEN "admitted" ELSE "lapsed"]
  /\ of' = [of EXCEPT ![q] = s]
  /\ seen' = [seen EXCEPT ![q] = row[s]]
  /\ UNCHANGED <<provider, browser, row, fresh, history>>

Accepted(q) ==
  /\ seen[q].token = current[of[q]]
  /\ rotates => current[of[q]] < MaxToken

\* The provider accepts the token and answers with the claims of now, and
\* with a token for the next time.
Refreshed(q) ==
  LET s == of[q] IN
  /\ Go(q, "lapsed", "refreshed") /\ Accepted(q)
  /\ current' = [current EXCEPT ![s] = IF rotates THEN @ + 1 ELSE @]
  /\ seen' = [seen EXCEPT ![q] = [role |-> Role, token |-> current'[s]]]
  /\ UNCHANGED <<rotates, member, browser, row, fresh, of, history>>

\* Access was revoked, the provider is away, the token was used before; or
\* the provider replaced the token and its answer was lost.
RefreshFails(q) ==
  LET s == of[q] IN
  /\ Go(q, "lapsed", "refused")
  /\ \/ UNCHANGED current
     \/ /\ Accepted(q) /\ rotates
        /\ current' = [current EXCEPT ![s] = @ + 1]
  /\ seen' = [seen EXCEPT ![q] = NoRow]
  /\ UNCHANGED <<rotates, member, browser, row, fresh, of, history>>

\* The row goes, whatever it holds by now, if it can be deleted.
DeleteRow(q) ==
  /\ at[q] = "refused"
  /\ \/ /\ row' = [row EXCEPT ![of[q]] = NoRow]
        /\ fresh' = fresh \ {of[q]}
        /\ UNCHANGED dropped
     \/ /\ dropped' = dropped \cup {of[q]}
        /\ UNCHANGED <<row, fresh>>
  /\ Finish(q)
  /\ UNCHANGED <<provider, browser, left, racing>>

SaveClaimsOnly(q) ==  \* mutant: the token in the row is the one it had
  /\ Go(q, "refreshed", "admitted")
  /\ row' = [row EXCEPT ![of[q]].role = seen[q].role]
  /\ fresh' = fresh \cup {of[q]}
  /\ UNCHANGED <<provider, browser, of, seen, history>>

\* gorm's Save: an update, or an insert when there is no row to update.
Save(q) ==
  /\ Go(q, "refreshed", "admitted")
  /\ row' = [row EXCEPT ![of[q]] = seen[q]]
  /\ fresh' = fresh \cup {of[q]}
  /\ UNCHANGED <<provider, browser, of, seen, history>>

\* The row cannot be written, or the process ends first.
SaveFails(q) ==
  /\ at[q] = "refreshed"
  /\ dropped' = dropped \cup {of[q]}
  /\ Finish(q)
  /\ UNCHANGED <<provider, browser, row, fresh, left, racing>>

\* The request is served with its role.
Served(q) ==
  /\ at[q] = "admitted"
  /\ Finish(q)
  /\ UNCHANGED <<provider, browser, row, fresh, history>>
-----------------------------------------------------------------------------
\* sessionRefreshInterval passes.
Lapse(s) ==
  /\ s \in fresh
  /\ fresh' = fresh \ {s}
  /\ UNCHANGED <<provider, browser, row, at, of, seen, history>>

GroupChanges ==
  /\ member' = ~member
  /\ UNCHANGED <<rotates, current, browser, row, fresh, at, of, seen, history>>
-----------------------------------------------------------------------------
Authenticate(q) ==
  \/ Refreshed(q) \/ RefreshFails(q) \/ DeleteRow(q) \/ Save(q) \/ SaveFails(q)

-----------------------------------------------------------------------------
\* Where tokens can be used once, requests that lapse together all present the
\* same one.  Whatever their order, the row keeps the token the provider
\* accepts, or that one is with a request that has yet to save it or to delete
\* the row, or was lost with one that could not save it
\* (oidc_provider.go:91-110).
StoredTokenIsUsable ==
  \A s \in Sessions :
    row[s] # NoRow /\ row[s].token # current[s] =>
      s \in dropped \/ \E q \in Requests : of[q] = s /\ at[q] \in {"refreshed", "refused"}

\* A session whose row a logout deleted has no row from then on, unless a
\* request was refreshing it just then: its Save would insert the row again
\* (oidc_provider.go:108, oidc_handlers.go:204-207).
LogoutEndsTheRow ==
  \A s \in left \ racing : row[s] = NoRow
-----------------------------------------------------------------------------
\* A request is of a session that was begun with a cookie.
RequestsSound ==
  /\ \A q \in Requests : at[q] = "idle" <=> of[q] = NoSession
  /\ \A q \in Requests : of[q] # NoSession => flow[of[q]] = "done"
  /\ \A s \in Sessions : flow[s] # "done" => row[s] = NoRow /\ s \notin left \cup cookies
  /\ left \cap cookies = {}
  /\ \A s \in left \ racing : \A q \in Requests : of[q] = s => at[q] \notin Refreshing

\* Who holds the token the provider accepts: where it can be used once, the
\* request that was given it, and nobody else, until it saves it.
TokensSound ==
  /\ ~rotates => \A s \in Sessions : current[s] = 0
  /\ \A s \in Sessions : row[s].token <= current[s]
  /\ \A q \in Requests : at[q] \in {"lapsed", "refreshed"} =>
       seen[q] \in Rows /\ seen[q].token <= current[of[q]]
  /\ \A q \in Requests : at[q] = "refreshed" =>
       /\ seen[q].token = current[of[q]]
       /\ rotates =>
            /\ row[of[q]].token < current[of[q]]
            /\ \A r \in Requests \ {q} :
                 of[r] = of[q] /\ at[r] \in {"lapsed", "refreshed"} =>
                   seen[r].token < current[of[q]]

\* The inductive invariant.
SessionInv ==
  SessionTypeOK /\ RequestsSound /\ TokensSound /\ StoredTokenIsUsable /\ LogoutEndsTheRow
=============================================================================
