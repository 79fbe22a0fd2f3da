------------------------- MODULE AuthSessionProofs -------------------------
(* Proofs about AuthSession, for any browsers, flows, requests and claims. *)
EXTENDS AuthSession, TLAPS

USE AuthSessionAssumption DEF AuthSessionAssumption

(* Every step keeps the types. *)
LEMMA TypeStep ==
  ASSUME TypeOK, Own, [Next]_vars
  PROVE  TypeOK'
<1> USE DEF TypeOK, Own, idp, cookies, history
<1>1. CASE UNCHANGED vars
  BY <1>1 DEF vars
<1>2. ASSUME NEW b \in Browsers, NEW f \in Flows, Start(b, f)
      PROVE  TypeOK'
  BY <1>2 DEF Start
<1>3. ASSUME NEW f \in Flows, Authorize(f)
      PROVE  TypeOK'
  <2>1. account[owner[f]] \in Claims
    BY <1>3 DEF Authorize
  <2> QED  BY <1>3, <2>1 DEF Authorize
<1>4. ASSUME NEW b \in Browsers, NEW f \in Flows, NEW c \in Calls, Callback(c, b, f)
      PROVE  TypeOK'
  BY <1>4 DEF Callback
<1>5. ASSUME NEW b \in Browsers, NEW f \in Flows, BadState(b, f)
      PROVE  TypeOK'
  BY <1>5 DEF BadState
<1>6. ASSUME NEW c \in Calls, Exchange(c)
      PROVE  TypeOK'
  BY <1>6 DEF Exchange
<1>7. ASSUME NEW c \in Calls, Answer(c)
      PROVE  TypeOK'
  <2>1. call[c].browser \in Browsers /\ call[c].flow \in Flows
    BY <1>7 DEF Answer, Free
  <2> QED  BY <1>7, <2>1 DEF Answer, Free
<1>8. ASSUME NEW c \in Calls, AnswerLost(c)
      PROVE  TypeOK'
  BY <1>8 DEF AnswerLost, Free
<1>9. ASSUME NEW b \in Browsers, Logout(b) \/ SessionExpires(b)
      PROVE  TypeOK'
  BY <1>9 DEF Logout, SessionExpires
<1>10. ASSUME NEW b \in Browsers, StateExpires(b)
       PROVE  TypeOK'
  BY <1>10 DEF StateExpires
<1>11. ASSUME NEW f \in Flows, TokenExpires(f)
       PROVE  TypeOK'
  BY <1>11 DEF TokenExpires
<1>12. ASSUME NEW b \in Browsers, ChangeAccount(b)
       PROVE  TypeOK'
  BY <1>12 DEF ChangeAccount
<1> QED
  BY <1>1, <1>2, <1>3, <1>4, <1>5, <1>6, <1>7, <1>8, <1>9, <1>10, <1>11, <1>12
     DEF Next

(* A flow belongs to the browser that started it, for ever. *)
LEMMA OwnerKept ==
  ASSUME TypeOK, [Next]_vars, NEW f \in Flows, owner[f] # None
  PROVE  owner'[f] = owner[f]
BY DEF TypeOK, Next, vars, Start, Authorize, Callback, BadState, Exchange, Answer,
       AnswerLost, Logout, StateExpires, SessionExpires, TokenExpires, ChangeAccount

LEMMA OwnStep ==
  ASSUME TypeOK, Own, [Next]_vars
  PROVE  Own'
<1> USE DEF TypeOK, Own
<1>1. \A b \in Browsers : stateCookie'[b] # None => owner'[stateCookie'[b]] = b
  <2> SUFFICES ASSUME NEW b \in Browsers, stateCookie'[b] # None
               PROVE  owner'[stateCookie'[b]] = b
    OBVIOUS
  <2>1. CASE stateCookie'[b] = stateCookie[b]
    BY <2>1, OwnerKept
  <2>2. CASE stateCookie'[b] # stateCookie[b]
    <3>1. PICK f \in Flows : Start(b, f)
      BY <2>2 DEF Next, vars, cookies, Start, Authorize, Callback, BadState, Exchange,
         Answer, AnswerLost, Logout, StateExpires, SessionExpires, TokenExpires,
         ChangeAccount
    <3> QED  BY <3>1 DEF Start
  <2> QED  BY <2>1, <2>2
<1>2. ASSUME NEW c \in Calls, call'[c] # Free
      PROVE  /\ call'[c].browser \in Browsers /\ call'[c].flow \in Flows
             /\ owner'[call'[c].flow] = call'[c].browser
  <2>1. CASE /\ call[c] # Free
             /\ call'[c].browser = call[c].browser /\ call'[c].flow = call[c].flow
    BY <2>1, OwnerKept
  <2>2. CASE \E b \in Browsers, f \in Flows : Callback(c, b, f)
    <3>1. PICK b \in Browsers, f \in Flows : Callback(c, b, f)
      BY <2>2
    <3>2. call'[c].browser = b /\ call'[c].flow = f /\ owner[f] = b
      BY <3>1 DEF Callback
    <3> QED  BY <3>1, <3>2, OwnerKept
  <2>3. \/ /\ call[c] # Free
           /\ call'[c].browser = call[c].browser /\ call'[c].flow = call[c].flow
        \/ \E b \in Browsers, f \in Flows : Callback(c, b, f)
    <3>1. CASE UNCHANGED call
      BY <1>2, <3>1
    <3>2. ASSUME NEW d \in Calls, Exchange(d)
          PROVE  <2>3!1
      BY <1>2, <3>2 DEF Exchange, Free
    <3>3. ASSUME NEW d \in Calls, Answer(d) \/ AnswerLost(d)
          PROVE  <2>3!1
      BY <1>2, <3>3 DEF Answer, AnswerLost, Free
    <3>4. ASSUME NEW d \in Calls, NEW b \in Browsers, NEW f \in Flows, Callback(d, b, f)
          PROVE  <2>3!1 \/ <2>3!2
      BY <1>2, <3>4 DEF Callback, Free
    <3>5. \/ UNCHANGED call
          \/ \E d \in Calls : Exchange(d) \/ Answer(d) \/ AnswerLost(d)
          \/ \E d \in Calls, b \in Browsers, f \in Flows : Callback(d, b, f)
      BY DEF Next, vars, Start, Authorize, BadState, Logout, StateExpires,
         SessionExpires, TokenExpires, ChangeAccount
    <3> QED  BY <3>1, <3>2, <3>3, <3>4, <3>5
  <2> QED  BY <2>1, <2>2, <2>3
<1> QED  BY <1>1, <1>2

LEMMA SessionStep ==
  ASSUME TypeOK, Own, SessionFromOwnLogin, [Next]_vars
  PROVE  SessionFromOwnLogin'
<1> SUFFICES ASSUME NEW b \in Browsers, session'[b] # None
             PROVE  owner'[session'[b]] = b
  BY DEF SessionFromOwnLogin
<1> USE DEF TypeOK
<1>1. CASE session'[b] = session[b]
  BY <1>1, OwnerKept DEF SessionFromOwnLogin
<1>2. CASE session'[b] # session[b]
  <2>1. PICK c \in Calls : Answer(c) /\ call[c].browser = b /\ session'[b] = call[c].flow
    BY <1>2 DEF Next, vars, cookies, Start, Authorize, Callback, BadState, Exchange,
       Answer, AnswerLost, Logout, StateExpires, SessionExpires, TokenExpires,
       ChangeAccount
  <2>2. call[c] # Free
    BY <2>1 DEF Answer, Free
  <2> QED  BY <2>1, <2>2, OwnerKept DEF Own
<1> QED  BY <1>1, <1>2

(* What a step may do to a code: once spent it stays so. *)
LEMMA SpentStays ==
  ASSUME TypeOK, [Next]_vars, NEW f \in Flows, code[f] = "spent"
  PROVE  code'[f] = "spent"
BY DEF TypeOK, Next, vars, idp, Start, Authorize, Callback, BadState, Exchange, Answer,
       AnswerLost, Logout, StateExpires, SessionExpires, TokenExpires, ChangeAccount

(* Where a call with a token comes from: it had one, or it has just got it *)
(* for a code that was not spent.                                          *)
LEMMA TokenOrigin ==
  ASSUME TypeOK, Own, [Next]_vars, NEW c \in Calls, call'[c].result = "token"
  PROVE  /\ call'[c].flow = call[c].flow
         /\ \/ call[c].result = "token"
            \/ Exchange(c) /\ code[call[c].flow] = "code"
                 /\ code' = [code EXCEPT ![call[c].flow] = "spent"]
<1> USE DEF TypeOK
<1>1. CASE UNCHANGED call
  BY <1>1
<1>2. CASE ~UNCHANGED call
  <2>1. PICK d \in Calls : \/ Exchange(d) \/ Answer(d) \/ AnswerLost(d)
                           \/ \E b \in Browsers, f \in Flows : Callback(d, b, f)
    BY <1>2 DEF Next, vars, Start, Authorize, BadState, Logout, StateExpires,
       SessionExpires, TokenExpires, ChangeAccount
  <2>2. CASE d # c
    BY <2>1, <2>2 DEF Exchange, Answer, AnswerLost, Callback
  <2>3. CASE d = c
    <3>1. Exchange(c)
      BY <2>1, <2>3 DEF Answer, AnswerLost, Callback, Free
    <3> QED  BY <3>1 DEF Exchange
  <2> QED  BY <2>2, <2>3
<1> QED  BY <1>1, <1>2

(* Where a session comes from. *)
LEMMA SessionOrigin ==
  ASSUME TypeOK, Own, [Next]_vars, NEW b \in Browsers, session'[b] # None
  PROVE  \/ session'[b] = session[b]
         \/ \E c \in Calls : /\ Answer(c) /\ call[c].browser = b
                             /\ call[c].result = "token"
                             /\ session'[b] = call[c].flow
BY DEF TypeOK, Next, vars, cookies, Start, Authorize, Callback, BadState, Exchange,
       Answer, AnswerLost, Logout, StateExpires, SessionExpires, TokenExpires,
       ChangeAccount

LEMMA LoggedOutOrigin ==
  ASSUME [Next]_vars
  PROVE  \/ loggedOut' = loggedOut
         \/ \E b \in Browsers : Logout(b)
BY DEF Next, vars, history, Start, Authorize, Callback, BadState, Exchange, Answer,
       AnswerLost, StateExpires, SessionExpires, TokenExpires, ChangeAccount

LEMMA TokenStep ==
  ASSUME TypeOK, Own, OneToken, SessionFromOwnLogin, LoggedOutStaysOut, [Next]_vars
  PROVE  OneToken' /\ LoggedOutStaysOut'
<1> USE DEF TypeOK
<1>1. ASSUME NEW c \in Calls, call'[c].result = "token"
      PROVE  /\ call'[c].flow \in Flows
             /\ code'[call'[c].flow] = "spent"
             /\ call'[c].flow \notin loggedOut'
             /\ \A b \in Browsers : session'[b] # call'[c].flow
             /\ \A d \in Calls :
                  call'[d].result = "token" /\ call'[d].flow = call'[c].flow => d = c
  <2> DEFINE f == call[c].flow
  <2>1. f \in Flows /\ call'[c].flow = f
    <3>1. call'[c].flow = f /\ call[c] # Free
      BY <1>1, TokenOrigin DEF Exchange, Free
    <3> QED  BY <3>1 DEF Own
  <2>2. CASE call[c].result = "token"
    <3>1. code'[f] = "spent"
      BY <2>1, <2>2, SpentStays DEF OneToken
    <3>2. f \notin loggedOut'
      BY <2>2, LoggedOutOrigin DEF OneToken, Logout
    <3>3. ASSUME NEW b \in Browsers, session'[b] = f
          PROVE  FALSE
      <4>1. PICK d \in Calls : Answer(d) /\ call[d].result = "token" /\ f = call[d].flow
        BY <2>1, <2>2, <3>3, SessionOrigin DEF OneToken
      <4>2. d = c
        BY <2>2, <4>1 DEF OneToken
      <4> QED  BY <1>1, <4>1, <4>2 DEF Answer, Free
    <3>4. ASSUME NEW d \in Calls, call'[d].result = "token", call'[d].flow = f
          PROVE  d = c
      BY <2>2, <3>4, TokenOrigin DEF OneToken
    <3> QED  BY <2>1, <3>1, <3>2, <3>3, <3>4
  <2>3. CASE /\ Exchange(c) /\ code[f] = "code"
             /\ code' = [code EXCEPT ![f] = "spent"]
    <3>1. code'[f] = "spent"
      BY <2>1, <2>3
    <3>2. f \notin loggedOut'
      BY <2>3 DEF Exchange, history, OneToken
    <3>3. \A b \in Browsers : session'[b] # f
      BY <2>3, <2>1 DEF Exchange, cookies, OneToken
    <3>4. ASSUME NEW d \in Calls, call'[d].result = "token", call'[d].flow = f
          PROVE  d = c
      BY <2>3, <3>4, TokenOrigin DEF OneToken, Exchange
    <3> QED  BY <2>1, <3>1, <3>2, <3>3, <3>4
  <2> QED  BY <1>1, <2>2, <2>3, TokenOrigin
<1>2. ASSUME NEW b \in Browsers, session'[b] # None
      PROVE  code'[session'[b]] = "spent" /\ session'[b] \notin loggedOut'
  <2>1. CASE session'[b] = session[b]
    <3>1. code'[session'[b]] = "spent"
      BY <1>2, <2>1, SpentStays DEF OneToken
    <3>2. ASSUME NEW a \in Browsers, Logout(a), session[b] \in loggedOut'
          PROVE  FALSE
      <4>1. session[b] = session[a]
        BY <3>2 DEF Logout, LoggedOutStaysOut
      <4>2. a = b
        BY <1>2, <2>1, <4>1 DEF SessionFromOwnLogin
      <4> QED  BY <1>2, <2>1, <3>2, <4>2 DEF Logout
    <3> QED  BY <2>1, <3>1, <3>2, LoggedOutOrigin DEF LoggedOutStaysOut
  <2>2. ASSUME NEW c \in Calls, Answer(c), call[c].result = "token",
               session'[b] = call[c].flow
        PROVE  code'[session'[b]] = "spent" /\ session'[b] \notin loggedOut'
    BY <2>2 DEF Answer, idp, history, OneToken
  <2> QED  BY <1>2, <2>1, <2>2, SessionOrigin
<1>3. ASSUME NEW f \in loggedOut'
      PROVE  code'[f] = "spent"
  <2>1. f \in Flows /\ code[f] = "spent"
    BY <1>3, LoggedOutOrigin DEF Logout, OneToken
  <2> QED  BY <2>1, SpentStays
<1>4. None \notin loggedOut'
  BY LoggedOutOrigin DEF Logout
<1>5. LoggedOutStaysOut'
  BY <1>2, <1>4 DEF LoggedOutStaysOut
<1>6. OneToken'
  BY <1>1, <1>2, <1>3 DEF OneToken
<1> QED  BY <1>5, <1>6

LEMMA KeptStep ==
  ASSUME TypeOK, Own, Kept, LatestLoginKept, [Next]_vars
  PROVE  Kept' /\ LatestLoginKept'
<1> USE DEF TypeOK, Own, Kept, LatestLoginKept
<1>1. CASE UNCHANGED vars
  BY <1>1 DEF vars, cookies, history
<1>2. ASSUME NEW b \in Browsers, NEW f \in Flows, Start(b, f)
      PROVE  Kept' /\ LatestLoginKept'
  BY <1>2 DEF Start
<1>3. ASSUME NEW f \in Flows, Authorize(f)
      PROVE  Kept' /\ LatestLoginKept'
  BY <1>3 DEF Authorize, cookies, history
<1>4. ASSUME NEW b \in Browsers, NEW f \in Flows, NEW c \in Calls, Callback(c, b, f)
      PROVE  Kept' /\ LatestLoginKept'
  <2>1. latest[b] = f /\ admitted' = admitted \cup {f}
    BY <1>4 DEF Callback
  <2>2. \A d \in Calls : call'[d] = call[d] \/ (d = c /\ call'[d].browser = b)
    BY <1>4 DEF Callback
  <2> QED  BY <1>4, <2>1, <2>2 DEF Callback, cookies
<1>5. ASSUME NEW b \in Browsers, NEW f \in Flows, BadState(b, f)
      PROVE  Kept' /\ LatestLoginKept'
  BY <1>5 DEF BadState, cookies
<1>6. ASSUME NEW c \in Calls, Exchange(c)
      PROVE  Kept' /\ LatestLoginKept'
  <2>1. \A d \in Calls : call'[d].browser = call[d].browser
    BY <1>6 DEF Exchange
  <2> QED  BY <1>6, <2>1 DEF Exchange, cookies, history
<1>7. ASSUME NEW c \in Calls, Answer(c)
      PROVE  Kept' /\ LatestLoginKept'
  <2>1. \A d \in Calls : call'[d].browser \in {call[d].browser, None}
    BY <1>7 DEF Answer, Free
  <2>2. \A d \in Browsers : stateCookie'[d] = IF d = call[c].browser THEN None
                                                ELSE stateCookie[d]
    BY <1>7 DEF Answer
  <2> QED  BY <1>7, <2>1, <2>2 DEF Answer, history
<1>8. ASSUME NEW c \in Calls, AnswerLost(c)
      PROVE  Kept' /\ LatestLoginKept'
  <2>1. \A d \in Calls : call'[d].browser \in {call[d].browser, None}
    BY <1>8 DEF AnswerLost, Free
  <2> QED  BY <1>8, <2>1 DEF AnswerLost, cookies, history
<1>9. ASSUME NEW b \in Browsers, Logout(b) \/ SessionExpires(b)
      PROVE  Kept' /\ LatestLoginKept'
  BY <1>9 DEF Logout, SessionExpires, history
<1>10. ASSUME NEW b \in Browsers, StateExpires(b)
       PROVE  Kept' /\ LatestLoginKept'
  BY <1>10 DEF StateExpires
<1>11. ASSUME NEW f \in Flows, TokenExpires(f)
       PROVE  Kept' /\ LatestLoginKept'
  BY <1>11 DEF TokenExpires, cookies, history
<1>12. ASSUME NEW b \in Browsers, ChangeAccount(b)
       PROVE  Kept' /\ LatestLoginKept'
  BY <1>12 DEF ChangeAccount, cookies, history
<1> QED
  BY <1>1, <1>2, <1>3, <1>4, <1>5, <1>6, <1>7, <1>8, <1>9, <1>10, <1>11, <1>12
     DEF Next

(* IInv is inductive, whatever the browsers, flows, requests and claims. *)
THEOREM Invariant == Spec => []IInv
<1>1. Init => IInv
  BY DEF Init, IInv, TypeOK, Own, OneToken, Kept, SessionFromOwnLogin,
         LatestLoginKept, LoggedOutStaysOut, Free, Claims, Groups
<1>2. IInv /\ [Next]_vars => IInv'
  BY TypeStep, OwnStep, SessionStep, TokenStep, KeptStep DEF IInv
<1> QED  BY <1>1, <1>2, PTL DEF Spec

(* A browser is logged in by a login it started itself (login.go:71-75). *)
THEOREM OwnLogin == Spec => []SessionFromOwnLogin
<1>1. IInv => SessionFromOwnLogin
  BY DEF IInv
<1> QED  BY <1>1, Invariant, PTL

(* The login started last is refused for one of two reasons only. *)
THEOREM LatestKept == Spec => []LatestLoginKept
<1>1. IInv => LatestLoginKept
  BY DEF IInv
<1> QED  BY <1>1, Invariant, PTL

(* A session that was logged out stays logged out. *)
THEOREM LogoutFinal == Spec => []LoggedOutStaysOut
<1>1. IInv => LoggedOutStaysOut
  BY DEF IInv
<1> QED  BY <1>1, Invariant, PTL

=============================================================================
