---------------------------- MODULE AuthSession ----------------------------
(***************************************************************************)
(* internal/auth: the login flow, the two cookies a browser keeps, and the *)
(* middleware that turns credentials into a role.                          *)
(*                                                                         *)
(* The api keeps no state: what a login in progress is, and who is logged  *)
(* in, is what the browser sends.  A flow is one run of StartHandler; it   *)
(* names the random state, and the code and ID token the IdP gives for it. *)
(* A callback request and its response are two steps, for a browser has    *)
(* several tabs: its cookies may change between them.                      *)
(***************************************************************************)
EXTENDS Naturals

CONSTANTS
  Browsers,     \* cookie jars, each with the person who logs in there
  Flows,        \* logins that may be started
  Calls,        \* callback requests that may be in flight at once
  Accounts,     \* what the IdP may say of a person
  None,         \* no flow, no browser, no cookie
  MaxChanges    \* bound: changes the IdP's administrator makes

Groups == {"operators", "viewers", "others"}
Claims == [groups : SUBSET Groups, listed : BOOLEAN]

ASSUME AuthSessionAssumption ==
  /\ None \notin Browsers \cup Flows
  /\ Accounts \subseteq Claims
  /\ MaxChanges \in Nat

VARIABLES
  cfg,          \* which settings are present: issuer, client, key
  account,      \* groups of a person, and "email is in OPERATOR_EMAILS"
  changes,      \* changes made so far
  stateCookie,  \* app_oidc_state of a browser: a flow
  session,      \* app_session of a browser: the flow whose token is sealed
  owner,        \* browser that started a flow
  code,         \* what the IdP holds for a flow: "none", "code", "denied", "spent"
  claims,       \* claims of the flow's ID token
  expired,      \* flows whose ID token has expired
  call,         \* callbacks in flight: browser, flow, result
  latest,       \* history: the flow a browser started last
  admitted,     \* history: flows whose callback has passed the state check
  denied,       \* history: flows refused although started last, and for the first time
  raced,        \* history: flows started while a callback of the browser was in flight
  timedOut,     \* history: flows whose state cookie expired
  loggedOut     \* history: flows whose session was logged out

idp     == <<account, changes, code, claims, expired>>
cookies == <<stateCookie, session>>
history == <<latest, admitted, denied, raced, timedOut, loggedOut>>
vars    == <<cfg, idp, cookies, owner, call, history>>

Free == [browser |-> None, flow |-> None, result |-> "none"]

Init ==
  /\ cfg \in [issuer : BOOLEAN, client : BOOLEAN, key : BOOLEAN]
  /\ account \in [Browsers -> Accounts]
  /\ changes = 0
  /\ stateCookie = [b \in Browsers |-> None]
  /\ session = [b \in Browsers |-> None]
  /\ owner = [f \in Flows |-> None]
  /\ code = [f \in Flows |-> "none"]
  /\ claims = [f \in Flows |-> [groups |-> {}, listed |-> FALSE]]
  /\ expired = {}
  /\ call = [c \in Calls |-> Free]
  /\ latest = [b \in Browsers |-> None]
  /\ admitted = {} /\ denied = {} /\ raced = {} /\ timedOut = {} /\ loggedOut = {}

-----------------------------------------------------------------------------
(* Config, verifyAndMap, principalFromRequest, Middleware. *)

Enabled == cfg.issuer /\ cfg.client

RoleOf(c) ==
  CASE "operators" \in c.groups -> "operator"
    [] c.groups \cap {"operators", "viewers"} = {"viewers"} -> "viewer"
    [] c.groups = {} -> IF c.listed THEN "operator" ELSE "viewer"
    [] c.groups = {"others"} -> "anonymous"

(* Mutant: the claims are read without the verifier. *)
MapOnly(f) == RoleOf(claims[f])

VerifyAndMap(f) == IF f \in expired THEN "anonymous" ELSE RoleOf(claims[f])

(* unsealCookie refuses everything when the key is empty. *)
Unsealed(b) == IF cfg.key THEN session[b] ELSE None

(* The role of a request: a bearer token counts alone, even when it is bad. *)
Principal(bearer, b) ==
  CASE ~Enabled -> "operator"
    [] Enabled /\ bearer # None -> VerifyAndMap(bearer)
    [] Enabled /\ bearer = None /\ Unsealed(b) # None -> VerifyAndMap(Unsealed(b))
    [] OTHER -> "anonymous"

-----------------------------------------------------------------------------
(* StartHandler, and its response; 503 when OIDC is off. *)
Start(b, f) ==
  /\ Enabled
  /\ owner[f] = None
  /\ owner' = [owner EXCEPT ![f] = b]
  /\ stateCookie' = [stateCookie EXCEPT ![b] = f]
  /\ latest' = [latest EXCEPT ![b] = f]
  /\ raced' = IF \E c \in Calls : call[c].browser = b THEN raced \cup {f} ELSE raced
  /\ UNCHANGED <<cfg, idp, session, call, admitted, denied, timedOut, loggedOut>>

(* The person logs in at the IdP, or gives up there; either way the IdP    *)
(* sends the browser to the callback URL with the state.                   *)
Authorize(f) ==
  /\ owner[f] # None
  /\ code[f] = "none"
  /\ \E answer \in {"code", "denied"} : code' = [code EXCEPT ![f] = answer]
  /\ claims' = [claims EXCEPT ![f] = account[owner[f]]]
  /\ UNCHANGED <<cfg, account, changes, expired, cookies, owner, call, history>>

(* Mutant: the state parameter is not compared with the cookie. *)
CallbackUnchecked(c, b, f) ==
  /\ call[c] = Free
  /\ code[f] # "none"
  /\ stateCookie[b] # None
  /\ call' = [call EXCEPT ![c] = [browser |-> b, flow |-> f, result |-> "none"]]
  /\ admitted' = admitted \cup {f}
  /\ UNCHANGED <<cfg, idp, cookies, owner, latest, denied, raced, timedOut, loggedOut>>

(* CallbackHandler up to the state check: a browser opens the URL, for the *)
(* first time or again, or after somebody has copied it to another.        *)
Callback(c, b, f) ==
  /\ call[c] = Free
  /\ code[f] # "none"
  /\ stateCookie[b] = f
  /\ call' = [call EXCEPT ![c] = [browser |-> b, flow |-> f, result |-> "none"]]
  /\ admitted' = admitted \cup {f}
  /\ UNCHANGED <<cfg, idp, cookies, owner, latest, denied, raced, timedOut, loggedOut>>

(* Mutant: the state cookie is deleted before it is compared. *)
BadStateConsumes(b, f) ==
  /\ code[f] # "none"
  /\ stateCookie[b] # f
  /\ stateCookie' = [stateCookie EXCEPT ![b] = None]
  /\ denied' = IF latest[b] = f /\ f \notin admitted THEN denied \cup {f} ELSE denied
  /\ UNCHANGED <<cfg, idp, session, owner, call, latest, admitted, raced, timedOut,
                 loggedOut>>

(* "bad state": the response leaves the cookies alone. *)
BadState(b, f) ==
  /\ code[f] # "none"
  /\ stateCookie[b] # f
  /\ denied' = IF latest[b] = f /\ f \notin admitted THEN denied \cup {f} ELSE denied
  /\ UNCHANGED <<cfg, idp, cookies, owner, call, latest, admitted, raced, timedOut,
                 loggedOut>>

(* Exchange and Verify: the IdP takes a code once.  Either may fail, after *)
(* the code is spent or before.                                            *)
Exchange(c) ==
  LET f == call[c].flow IN
  /\ call[c] # Free
  /\ call[c].result = "none"
  /\ \/ /\ code[f] = "code"
        /\ code' = [code EXCEPT ![f] = "spent"]
        /\ \E r \in {"token", "error"} : call' = [call EXCEPT ![c].result = r]
     \/ /\ call' = [call EXCEPT ![c].result = "error"]
        /\ UNCHANGED code
  /\ UNCHANGED <<cfg, account, changes, claims, expired, cookies, owner, history>>

(* The response: the state cookie is deleted, whatever the result. *)
Answer(c) ==
  LET b == call[c].browser IN
  /\ call[c].result # "none"
  /\ stateCookie' = [stateCookie EXCEPT ![b] = None]
  /\ session' = [session EXCEPT ![b] =
                   IF call[c].result = "token" THEN call[c].flow ELSE @]
  /\ call' = [call EXCEPT ![c] = Free]
  /\ UNCHANGED <<cfg, idp, owner, history>>

(* The browser leaves, or the replica dies, before the response. *)
AnswerLost(c) ==
  /\ call[c] # Free
  /\ call' = [call EXCEPT ![c] = Free]
  /\ UNCHANGED <<cfg, idp, cookies, owner, history>>

(* Mutant: the cookie is deleted at another path than it was set at. *)
LogoutElsewhere(b) ==
  /\ session[b] # None
  /\ loggedOut' = loggedOut \cup {session[b]}
  /\ UNCHANGED <<cfg, idp, cookies, owner, call, latest, admitted, denied, raced,
                 timedOut>>

Logout(b) ==
  /\ session[b] # None
  /\ loggedOut' = loggedOut \cup {session[b]}
  /\ session' = [session EXCEPT ![b] = None]
  /\ UNCHANGED <<cfg, idp, stateCookie, owner, call, latest, admitted, denied, raced,
                 timedOut>>

-----------------------------------------------------------------------------
(* Time: MaxAge of the cookies, exp of the token.  The administrator. *)

StateExpires(b) ==
  /\ stateCookie[b] # None
  /\ timedOut' = timedOut \cup {stateCookie[b]}
  /\ stateCookie' = [stateCookie EXCEPT ![b] = None]
  /\ UNCHANGED <<cfg, idp, session, owner, call, latest, admitted, denied, raced,
                 loggedOut>>

SessionExpires(b) ==
  /\ session[b] # None
  /\ session' = [session EXCEPT ![b] = None]
  /\ UNCHANGED <<cfg, idp, stateCookie, owner, call, history>>

TokenExpires(f) ==
  /\ code[f] = "spent"
  /\ f \notin expired
  /\ expired' = expired \cup {f}
  /\ UNCHANGED <<cfg, account, changes, code, claims, cookies, owner, call, history>>

ChangeAccount(b) ==
  /\ changes < MaxChanges
  /\ changes' = changes + 1
  /\ \E a \in Accounts : account' = [account EXCEPT ![b] = a]
  /\ UNCHANGED <<cfg, code, claims, expired, cookies, owner, call, history>>

Next ==
  \/ \E b \in Browsers :
       \/ Logout(b) \/ StateExpires(b) \/ SessionExpires(b) \/ ChangeAccount(b)
       \/ \E f \in Flows : Start(b, f) \/ BadState(b, f)
       \/ \E f \in Flows, c \in Calls : Callback(c, b, f)
  \/ \E f \in Flows : Authorize(f) \/ TokenExpires(f)
  \/ \E c \in Calls : Exchange(c) \/ Answer(c) \/ AnswerLost(c)

Spec == Init /\ [][Next]_vars

(* The clock reaches every exp.  Cookies get no fairness: a browser that   *)
(* restores its sessions may keep them.                                    *)
FairSpec == Spec /\ \A f \in Flows : WF_vars(TokenExpires(f))

-----------------------------------------------------------------------------
(* A browser is logged in by a login it started itself, and by no callback *)
(* URL that came from elsewhere (login.go:71-75).                          *)
SessionFromOwnLogin ==
  \A b \in Browsers : session[b] # None => owner[session[b]] = b

(* Two tabs, reloads and stray callbacks never cost a browser the login it *)
(* started last: that one is refused only if its state cookie timed out,   *)
(* or if it was started while the callback of an earlier one was in        *)
(* flight, whose response deletes the cookie of whichever is there         *)
(* (login.go:77).                                                          *)
LatestLoginKept == denied \subseteq raced \cup timedOut

(* A session that was logged out never comes back to any browser, neither  *)
(* by a callback still in flight nor by opening its URL again.             *)
LoggedOutStaysOut == \A b \in Browsers : session[b] \notin loggedOut

(* Who loses the operator groups stops being an operator at the latest     *)
(* when the ID token expires, with a session as with a bearer token.       *)
RevocationLands ==
  LET Stale(f, role) ==
        /\ f # None
        /\ code[f] = "spent"
        /\ role = "operator"
        /\ RoleOf(account[owner[f]]) # "operator"
  IN  Enabled =>
        /\ \A f \in Flows : Stale(f, Principal(f, None)) ~> ~Stale(f, Principal(f, None))
        /\ \A b \in Browsers :
             Stale(session[b], Principal(None, b)) ~> ~Stale(session[b], Principal(None, b))

-----------------------------------------------------------------------------
(* The inductive invariant. *)

(* Every variable has its type. *)
TypeOK ==
  /\ cfg \in [issuer : BOOLEAN, client : BOOLEAN, key : BOOLEAN]
  /\ account \in [Browsers -> Accounts]
  /\ changes \in Nat
  /\ stateCookie \in [Browsers -> Flows \cup {None}]
  /\ session \in [Browsers -> Flows \cup {None}]
  /\ owner \in [Flows -> Browsers \cup {None}]
  /\ code \in [Flows -> {"none", "code", "denied", "spent"}]
  /\ claims \in [Flows -> Claims]
  /\ expired \subseteq Flows
  /\ call \in [Calls -> [browser : Browsers \cup {None}, flow : Flows \cup {None},
                         result : {"none", "token", "error"}]]
  /\ latest \in [Browsers -> Flows \cup {None}]
  /\ admitted \subseteq Flows /\ denied \subseteq Flows /\ raced \subseteq Flows
  /\ timedOut \subseteq Flows /\ loggedOut \subseteq Flows

(* A cookie, and a callback in flight, is of a flow its browser started. *)
Own ==
  /\ \A b \in Browsers : stateCookie[b] # None => owner[stateCookie[b]] = b
  /\ \A c \in Calls : call[c] # Free =>
       /\ call[c].browser \in Browsers
       /\ call[c].flow \in Flows
       /\ owner[call[c].flow] = call[c].browser

(* A code gives one token, to one callback, and then to one browser. *)
OneToken ==
  /\ \A c \in Calls : call[c].result = "token" =>
       /\ code[call[c].flow] = "spent"
       /\ call[c].flow \notin loggedOut
       /\ \A b \in Browsers : session[b] # call[c].flow
       /\ \A d \in Calls :
            call[d].result = "token" /\ call[d].flow = call[c].flow => d = c
  /\ \A b \in Browsers : session[b] # None => code[session[b]] = "spent"
  /\ \A f \in loggedOut : code[f] = "spent"

(* The only state cookie a browser has is of the login it started last,    *)
(* which keeps it until its callback passes.                               *)
Kept ==
  \A b \in Browsers :
    /\ stateCookie[b] \in {None, latest[b]}
    /\ latest[b] # None =>
         /\ owner[latest[b]] = b
         /\ stateCookie[b] = latest[b] \/ latest[b] \in admitted \cup raced \cup timedOut
         /\ \A c \in Calls :
              call[c].browser = b => latest[b] \in admitted \cup raced

IInv ==
  /\ TypeOK /\ Own /\ OneToken /\ Kept
  /\ SessionFromOwnLogin /\ LatestLoginKept /\ LoggedOutStaysOut

=============================================================================
