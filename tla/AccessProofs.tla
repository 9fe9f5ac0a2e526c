---------------------------- MODULE AccessProofs ----------------------------
(***************************************************************************)
(* Theorems about the doors: what the stale-session guard of the page      *)
(* says and does is true of the session, and the key cache keeps its       *)
(* promises about old keys, new keys and the provider.                     *)
(***************************************************************************)
EXTENDS AccessDoors, Integers, FiniteSetTheorems, TLAPS

------------------------------------------------------------------------------
(* Type correctness.                                                        *)

\* What the session does to a request under way leaves the page in shape.
LEMMA NotedTyped ==
  ASSUME WebTypeOK, NEW c, NEW acc
  PROVE  /\ Noted(c, acc) \in [at : {"app", "login", "fault"}, banner : BOOLEAN,
                               req : PageRequests \cup {None}]
         /\ Noted(c, acc).at = page.at /\ Noted(c, acc).banner = page.banner
         /\ (Noted(c, acc).req = None) = (page.req = None)
BY WebSessionAssumption DEF WebTypeOK, Noted, PageRequests

\* A step of a request moves it on or answers it.
LEMMA CallEdits ==
  ASSUME NEW q \in Calls, NEW b \in BOOLEAN,
         NEW pc \in {"wait", "fetch", "look", "forced", "last look"}
  PROVE  [q EXCEPT !.pc = pc] \in Calls /\ [q EXCEPT !.known = b] \in Calls
BY DEF Calls

LEMMA TypeInit == Init => TypeOK
BY WebSessionAssumption, JwksAssumption
   DEF Init, WebInit, JwksInit, TypeOK, WebTypeOK, JwksTypeOK, NewPage

\* Every request, login, page and cached key has the shape the code gives it.
THEOREM DoorsTyped == Spec => []TypeOK
\* A request keeps its shape when its place or its doubt changes.
<1>RequestEdits. ASSUME NEW r \in PageRequests, NEW b \in BOOLEAN,
                        NEW pc \in {"probe", "sent", "live", "lapsed", "unknown", "post"}
                 PROVE  /\ [r EXCEPT !.unsure = b] \in PageRequests
                        /\ [r EXCEPT !.pc = pc] \in PageRequests
                        /\ [r EXCEPT !.pc = pc, !.unsure = b] \in PageRequests
  BY <1>RequestEdits DEF PageRequests
<1>WebTypeStep. TypeOK /\ [Next]_vars => WebTypeOK'
  <2> SUFFICES ASSUME TypeOK, [Next]_vars PROVE WebTypeOK'
    OBVIOUS
  <2> USE DEF TypeOK
  <2> DEFINE Pages == [at : {"app", "login", "fault"}, banner : BOOLEAN,
                       req : PageRequests \cup {None}]
  <2>1. CASE webvars' = webvars
    BY <2>1 DEF WebTypeOK, webvars, people, logins
  <2>2. ASSUME NEW t \in Threads, NEW u \in Users, NEW right \in BOOLEAN, login_submit(t, u, right)
        PROVE  WebTypeOK'
    BY <2>2 DEF WebTypeOK, login_submit, people, Attempts
  <2>3. ASSUME NEW t \in Threads, authenticate(t) PROVE WebTypeOK'
    BY <2>3 DEF WebTypeOK, authenticate, people, Attempts
  <2>4. ASSUME NEW t \in Threads, login_fails(t) PROVE WebTypeOK'
    <3>1. attempts[t].user \in Users
      BY <2>4 DEF WebTypeOK, login_fails, Attempts
    <3>2. \A f \in [count : Nat, age : 0 .. LOCKOUT] :
              record_failure(f) \in [count : Nat, age : 0 .. LOCKOUT]
      BY WebSessionAssumption DEF record_failure
    <3> QED BY <2>4, <3>1, <3>2 DEF WebTypeOK, login_fails, people
  <2>5. ASSUME NEW t \in Threads, login_succeeds(t) PROVE WebTypeOK'
    <3>1. attempts[t].user \in Users
      BY <2>5 DEF WebTypeOK, login_succeeds, Attempts
    <3>2. record_success \in [count : Nat, age : 0 .. LOCKOUT]
      BY WebSessionAssumption DEF record_success
    <3>3. [attempts[t] EXCEPT !.pc = "session"] \in Attempts
      BY <2>5 DEF WebTypeOK, login_succeeds, Attempts
    <3> QED BY <2>5, <3>1, <3>2, <3>3 DEF WebTypeOK, login_succeeds, people
  <2>6. ASSUME NEW t \in Threads, start_session(t) PROVE WebTypeOK'
    <3>1. attempts[t].user \in Users
      BY <2>6 DEF WebTypeOK, start_session, Attempts
    <3>2. page' \in Pages
      BY <2>6, NotedTyped DEF WebTypeOK, start_session
    <3> QED BY <2>6, <3>1, <3>2 DEF WebTypeOK, start_session, people
  <2>7. CASE tick
    BY <2>7, WebSessionAssumption DEF WebTypeOK, tick, people
  <2>8. ASSUME NEW u \in Users, sso_login(u) PROVE WebTypeOK'
    BY <2>8, NotedTyped DEF WebTypeOK, sso_login, people, logins
  <2>9. CASE session_ends
    BY <2>9, NotedTyped DEF WebTypeOK, session_ends, people, logins
  <2>10. ASSUME NEW u \in Users, NEW state \in {"active", "disabled", "gone"}, set_account(u, state)
         PROVE  WebTypeOK'
    BY <2>10, NotedTyped DEF WebTypeOK, set_account, logins
  <2>11. CASE page_only /\ page' \in Pages
    BY <2>11 DEF WebTypeOK, page_only, people, logins
  <2>12. ASSUME NEW r \in PageRequests \cup {None}, goes(r) PROVE page' \in Pages
    BY <2>12 DEF goes, WebTypeOK
  <2>13. CASE submit
    <3>1. Req("form", "probe") \in PageRequests
      BY DEF Req, PageRequests
    <3> QED BY <2>11, <2>12, <2>13, <3>1 DEF submit
  <2>14. ASSUME NEW kind \in {"hx-post", "hx-delete"}, htmx_request(kind) PROVE WebTypeOK'
    <3>1. Req(kind, "sent") \in PageRequests
      BY DEF Req, PageRequests
    <3> QED BY <2>11, <2>12, <2>14, <3>1 DEF htmx_request
  <2>15. CASE reload
    BY <2>11, <2>15 DEF reload, NewPage
  <2>16. CASE page_step
    <3>1. page.req \in PageRequests
      BY <2>16 DEF page_step, htmx_served, htmx_refused, htmx_fault, healthz, probe_fault, done,
                   post_arrives, Waits, WebTypeOK
    <3>2. CASE htmx_served \/ htmx_refused \/ htmx_fault
      BY <3>1, <3>2, <2>11, <2>12, <1>RequestEdits DEF htmx_served, htmx_refused, htmx_fault
    <3>3. CASE healthz \/ probe_fault
      BY <3>1, <3>3, <2>11, <2>12, <1>RequestEdits DEF healthz, probe_fault
    <3>4. CASE done
      <4>1. (page.req.unsure \/ page.req.pc = "unknown") \in BOOLEAN
        BY <3>1 DEF PageRequests
      <4>2. page' \in Pages
        BY <3>1, <3>4, <4>1 DEF done, WebTypeOK, PageRequests
      <4> QED BY <3>4, <4>2, <2>11 DEF done
    <3>5. CASE post_arrives
      <4>1. \A x \in {"app", "login", "fault"} : NewPage(x) \in Pages
        BY DEF NewPage
      <4>2. page' \in Pages
        BY <3>5, <4>1 DEF post_arrives
      <4> QED BY <3>5, <4>2, <2>11 DEF post_arrives
    <3> QED BY <2>16, <3>2, <3>3, <3>4, <3>5 DEF page_step
  <2> QED BY <2>1, <2>2, <2>3, <2>4, <2>5, <2>6, <2>7, <2>8, <2>9, <2>10, <2>13, <2>14, <2>15, <2>16
          DEF Next, WebNext, thread_step, vars
<1>JwksTypeStep. TypeOK /\ [Next]_vars => JwksTypeOK'
  <2> SUFFICES ASSUME TypeOK, [Next]_vars PROVE JwksTypeOK'
    OBVIOUS
  <2> USE JwksAssumption DEF TypeOK
  <2>1. CASE jwksvars' = jwksvars
    BY <2>1 DEF JwksTypeOK, jwksvars, provider, cache
  <2>2. ASSUME NEW r \in Requests, NEW pc \in {"wait", "fetch", "look", "forced", "last look"},
               request[r] # Nothing, to(r, pc)
        PROVE  request' \in [Requests -> Calls \cup {Nothing}]
    <3>1. [request[r] EXCEPT !.pc = pc] \in Calls
      BY <2>2, CallEdits DEF JwksTypeOK
    <3> QED BY <2>2, <3>1 DEF to, JwksTypeOK
  <2>3. ASSUME NEW r \in Requests, NEW kid \in Kids \cup {Unknown}, signing_key(r, kid)
        PROVE  JwksTypeOK'
    <3>1. [kid |-> kid, pc |-> "wait", known |-> kid \in published] \in Calls
      <4>1. (kid \in published) \in BOOLEAN
        OBVIOUS
      <4> QED BY <4>1 DEF Calls
    <3> QED BY <2>3, <3>1 DEF signing_key, JwksTypeOK, provider, cache
  <2>4. ASSUME NEW r \in Requests, locked(r) PROVE JwksTypeOK'
    <3>1. request' \in [Requests -> Calls \cup {Nothing}]
      BY <2>4, <2>2 DEF locked, At
    <3> QED BY <2>4, <3>1 DEF locked, JwksTypeOK, provider, cache
  <2>5. ASSUME NEW r \in Requests, fetched(r) PROVE JwksTypeOK'
    <3>1. request' \in [Requests -> Calls \cup {Nothing}]
      BY <2>5, <2>2 DEF fetched, Fetching, At
    <3>2. TTL \in 0 .. TTL
      BY JwksAssumption
    <3> QED BY <2>5, <3>1, <3>2 DEF fetched, JwksTypeOK, provider
  <2>6. ASSUME NEW r \in Requests, answered(r), queue # <<>> PROVE JwksTypeOK'
    BY <2>6 DEF answered, JwksTypeOK, provider, cache
  <2>7. ASSUME NEW r \in Requests, force(r) PROVE JwksTypeOK'
    <3>1. request' \in [Requests -> Calls \cup {Nothing}]
      BY <2>7, <2>2 DEF force, Looking, At
    <3> QED BY <2>7, <3>1 DEF force, JwksTypeOK, provider
  <2>8. ASSUME NEW k \in Kids, publish(k) PROVE JwksTypeOK'
    BY <2>8 DEF publish, JwksTypeOK, cache
  <2>9. ASSUME NEW k \in Kids, withdraw(k) PROVE JwksTypeOK'
    <3>1. request' \in [Requests -> Calls \cup {Nothing}]
      BY <2>9, CallEdits DEF withdraw, JwksTypeOK
    <3> QED BY <2>9, <3>1 DEF withdraw, JwksTypeOK, cache
  <2>10. CASE jwks_tick
    BY <2>10 DEF jwks_tick, JwksTypeOK, Later
  <2> QED BY <2>1, <2>3, <2>4, <2>5, <2>6, <2>7, <2>8, <2>9, <2>10
          DEF Next, JwksNext, jwks_step, fetch_fails, found, not_found, Fetching, Looking, Holds, vars
<1>1. TypeOK /\ [Next]_vars => TypeOK'
  <2>1. TypeOK /\ [Next]_vars => door' = door
    BY DEF TypeOK, Next, WebNext, webvars, people, vars, login_submit, thread_step, authenticate,
           login_fails, login_succeeds, start_session, tick, sso_login, session_ends, set_account,
           page_only, submit, htmx_request, reload, page_step, htmx_served, htmx_refused,
           htmx_fault, healthz, probe_fault, done, post_arrives
  <2> QED BY <2>1, <1>WebTypeStep, <1>JwksTypeStep DEF TypeOK
<1> QED BY <1>1, TypeInit, PTL DEF Spec

------------------------------------------------------------------------------
(* The stale-session guard.                                                 *)

\* What the page knows of the session, unless the session came or went since.
GuardInv ==
    page.req # None =>
        /\ page.at = "app"
        /\ page.req.pc \in {"live", "post"} /\ ~page.req.unsure => SignedIn
        /\ page.req.pc = "lapsed" /\ ~page.req.unsure => ~SignedIn
        /\ page.req.pc = "post" => page.req.kind = "form"

LEMMA GuardAlways == Spec => [](TypeOK /\ GuardInv)
\* The session may come or go, or stay: the request is marked if it matters.
<1>NotedKeeps. ASSUME WebTypeOK, GuardInv, door' = door, page' = Noted(cookie', account')
               PROVE  GuardInv'
  <2> USE <1>NotedKeeps
  <2>1. CASE page.req = None
    BY <2>1 DEF Noted, GuardInv
  <2>2. CASE page.req # None /\ SignedIn' = SignedIn
    <3>1. page' = page
      BY <2>2 DEF Noted, SignedIn, LetsIn
    <3> QED BY <2>2, <3>1 DEF GuardInv
  <2>3. CASE page.req # None /\ SignedIn' # SignedIn
    <3>1. page' = [page EXCEPT !.req.unsure = TRUE]
      BY <2>3 DEF Noted, SignedIn, LetsIn
    <3>2. /\ page'.at = page.at /\ page'.req.unsure = TRUE
          /\ page'.req.pc = page.req.pc /\ page'.req.kind = page.req.kind
      BY <2>3, <3>1 DEF WebTypeOK, PageRequests
    <3> QED BY <2>3, <3>2 DEF GuardInv
  <2> QED BY <2>1, <2>2, <2>3 DEF SignedIn, LetsIn
<1>GuardStep. TypeOK /\ GuardInv /\ [Next]_vars => GuardInv'
  <2> SUFFICES ASSUME TypeOK, GuardInv, [Next]_vars PROVE GuardInv'
    OBVIOUS
  <2> USE DEF TypeOK
  <2>1. CASE UNCHANGED <<people, cookie, page>>
    BY <2>1 DEF GuardInv, SignedIn, LetsIn, people
  <2>2. ASSUME page_only PROVE SignedIn' = SignedIn
    BY <2>2 DEF page_only, people, SignedIn, LetsIn
  <2>3. CASE page_only /\ page'.req = None
    BY <2>3 DEF GuardInv
  <2>4. ASSUME NEW t \in Threads, start_session(t) PROVE GuardInv'
    <3>1. CASE UNCHANGED <<cookie, page>>
      BY <2>4, <3>1, <2>1 DEF start_session
    <3>2. CASE page' = Noted(cookie', account) /\ account' = account /\ door' = door
      BY <3>2, <1>NotedKeeps
    <3> QED BY <2>4, <3>1, <3>2 DEF start_session, people
  <2>5. ASSUME NEW u \in Users, sso_login(u) PROVE GuardInv'
    BY <2>5, <1>NotedKeeps DEF sso_login, people
  <2>6. CASE session_ends
    BY <2>6, <1>NotedKeeps DEF session_ends, people
  <2>7. ASSUME NEW u \in Users, NEW state, set_account(u, state) PROVE GuardInv'
    BY <2>7, <1>NotedKeeps DEF set_account
  <2>8. ASSUME NEW kind, NEW pc \in {"probe", "sent"}, page.at = "app", goes(Req(kind, pc)), page_only
        PROVE  GuardInv'
    BY <2>8 DEF goes, Req, GuardInv, WebTypeOK
  <2>9. ASSUME NEW pc \in {"probe", "sent"}, page.req # None, goes([page.req EXCEPT !.pc = pc]), page_only
        PROVE  GuardInv'
    BY <2>9 DEF goes, GuardInv, WebTypeOK, PageRequests
  <2>10. CASE goes(None) /\ page_only
    BY <2>10, <2>3 DEF goes, WebTypeOK
  <2>11. CASE reload
    BY <2>11, <2>3 DEF reload, NewPage
  <2>12. CASE healthz
    BY <2>12, <2>2 DEF healthz, Waits, goes, GuardInv, WebTypeOK, PageRequests
  <2>13. CASE probe_fault
    BY <2>13 DEF probe_fault, Waits, goes, GuardInv, WebTypeOK, PageRequests
  <2>14. CASE done
    <3>1. CASE page'.req = None
      BY <2>14, <3>1, <2>3 DEF done
    <3>2. CASE page' = [page EXCEPT !.req.pc = "post",
                                    !.req.unsure = @ \/ page.req.pc = "unknown"]
               /\ goes_ahead(page.req.pc) /\ page.req.kind = "form"
      <4> DEFINE doubt == page.req.unsure \/ page.req.pc = "unknown"
      <4>0. page' = [page EXCEPT !.req = [page.req EXCEPT !.pc = "post", !.unsure = doubt]]
        BY <2>14, <3>2 DEF done, WebTypeOK, PageRequests
      <4> HIDE DEF doubt
      <4>1. /\ page'.at = page.at /\ page'.req.pc = "post" /\ page'.req.unsure = doubt
            /\ page'.req.kind = page.req.kind
        BY <2>14, <4>0 DEF done, WebTypeOK, PageRequests
      <4> USE DEF doubt
      <4> QED BY <2>14, <3>2, <4>1, <2>2 DEF done, goes_ahead, GuardInv
    <3> QED BY <2>14, <3>1, <3>2 DEF done, WebTypeOK
  <2>15. CASE post_arrives
    BY <2>15, <2>3 DEF post_arrives, NewPage
  <2>16. CASE htmx_served \/ htmx_refused \/ htmx_fault
    BY <2>16, <2>9, <2>10 DEF htmx_served, htmx_refused, htmx_fault, Waits
  <2>17. CASE submit \/ \E kind \in {"hx-post", "hx-delete"} : htmx_request(kind)
    BY <2>17, <2>8 DEF submit, htmx_request
  <2>18. ASSUME NEW t \in Threads,
                \/ \E u \in Users, right \in BOOLEAN : login_submit(t, u, right)
                \/ authenticate(t) \/ login_fails(t) \/ login_succeeds(t)
         PROVE  GuardInv'
    BY <2>18, <2>1 DEF login_submit, authenticate, login_fails, login_succeeds
  <2>19. CASE tick
    BY <2>19, <2>1 DEF tick
  <2>20. CASE webvars' = webvars
    BY <2>20, <2>1 DEF webvars
  <2> QED BY <2>4, <2>5, <2>6, <2>7, <2>11, <2>12, <2>13, <2>14, <2>15, <2>16, <2>17, <2>18, <2>19, <2>20
          DEF Next, WebNext, thread_step, page_step, vars
<1>1. Init => GuardInv
  BY DEF Init, WebInit, NewPage, GuardInv
<1> QED BY <1>1, <1>GuardStep, DoorsTyped, PTL DEF Spec

\* The steps of the page's request, seen from the request.
LEMMA RequestStep ==
  ASSUME TypeOK, GuardInv, [Next]_vars, page' # page
  PROVE  \/ page'.at = page.at /\ page'.banner = page.banner
         \/ done /\ page'.at = page.at
         \/ post_arrives /\ ~page'.banner
         \/ reload /\ ~page'.banner
<1> USE DEF TypeOK
<1>1. ASSUME NEW c, NEW acc, page' = Noted(c, acc)
      PROVE  page'.at = page.at /\ page'.banner = page.banner
  BY <1>1, NotedTyped
<1>2. ASSUME NEW r, goes(r) PROVE page'.at = page.at /\ page'.banner = page.banner
  BY <1>2 DEF goes, WebTypeOK
<1>3. CASE done
  BY <1>3 DEF done, WebTypeOK
<1>4. CASE post_arrives \/ reload
  BY <1>4 DEF post_arrives, reload, NewPage
<1>5. CASE submit \/ (\E kind \in {"hx-post", "hx-delete"} : htmx_request(kind))
            \/ htmx_served \/ htmx_refused \/ htmx_fault \/ healthz \/ probe_fault
  BY <1>5, <1>2 DEF submit, htmx_request, htmx_served, htmx_refused, htmx_fault, healthz, probe_fault
<1>6. CASE session_ends \/ (\E t \in Threads : start_session(t)) \/ (\E u \in Users : sso_login(u))
            \/ (\E u \in Users, state \in {"active", "disabled", "gone"} : set_account(u, state))
  BY <1>6, <1>1 DEF session_ends, start_session, sso_login, set_account
<1>7. CASE page' = page
  BY <1>7
<1>8. CASE \/ tick
           \/ \E t \in Threads :
                 \/ \E u \in Users, right \in BOOLEAN : login_submit(t, u, right)
                 \/ authenticate(t) \/ login_fails(t) \/ login_succeeds(t)
  BY <1>8, <1>7 DEF tick, login_submit, authenticate, login_fails, login_succeeds
<1> QED BY <1>3, <1>4, <1>5, <1>6, <1>7, <1>8 DEF Next, WebNext, thread_step, page_step, vars, webvars

\* A form is lost to the login page only if the session went after the probe had
\* looked at it, or the probe failed (session.js, submit handler).
THEOREM FormsAreKept == Spec => PostLostOnlyByLapse
<1>1. TypeOK /\ GuardInv /\ [Next]_vars =>
          [page.req # None /\ page'.at = "login" => page.req.unsure]_webvars
  <2> SUFFICES ASSUME TypeOK, GuardInv, [Next]_vars, page.req # None, page'.at = "login"
               PROVE  page.req.unsure
    OBVIOUS
  <2>1. page.at = "app"
    BY DEF GuardInv
  <2>2. CASE post_arrives
    <3>1. ~SignedIn
      BY <2>2 DEF post_arrives, NewPage
    <3> QED BY <2>2, <3>1 DEF post_arrives, Waits, GuardInv
  <2> QED BY <2>1, <2>2, RequestStep DEF reload
<1> QED BY <1>1, GuardAlways, PTL DEF Spec, PostLostOnlyByLapse

\* The banner goes up only for a session that was gone when the probe looked,
\* never for a fault of the network (session.js, probeLapsed and showBanner).
THEOREM BannerIsTrue == Spec => BannerTruthful
<1>1. TypeOK /\ GuardInv /\ [Next]_vars =>
          [~page.banner /\ page'.banner => ~SignedIn \/ page.req.unsure]_webvars
  <2> SUFFICES ASSUME TypeOK, GuardInv, [Next]_vars, ~page.banner, page'.banner
               PROVE  ~SignedIn \/ page.req.unsure
    OBVIOUS
  <2>1. CASE done
    <3>1. page.req.pc = "lapsed"
      BY <2>1 DEF done, goes_ahead, TypeOK, WebTypeOK
    <3> QED BY <2>1, <3>1 DEF done, GuardInv
  <2> QED BY <2>1, RequestStep
<1> QED BY <1>1, GuardAlways, PTL DEF Spec, BannerTruthful

\* An htmx request that was turned away ends with the banner, unless the probe failed
\* or found the session back, or the gate answered a POST with its login page
\* (session.js, the listeners for failed requests).
THEOREM LapsesAreShown == Spec => LapseIsShown
<1> DEFINE Excused ==
      \/ page.req.pc \in {"live", "unknown"}
      \/ page.req.pc = "sent" /\ SignedIn
      \/ page.req.pc = "sent" /\ door = "gate" /\ page.req.kind = "hx-post"
<1>1. TypeOK /\ GuardInv /\ [Next]_vars =>
          [page.req # None /\ page.req.kind # "form" /\ page'.req = None /\ ~page'.banner
              => Excused]_webvars
  <2> SUFFICES ASSUME TypeOK, GuardInv, [Next]_vars, page.req # None, page.req.kind # "form",
                      page'.req = None, ~page'.banner
               PROVE  Excused
    OBVIOUS
  <2>1. page.req \in PageRequests /\ door \in {"gate", "outpost", "mcp"}
    BY DEF TypeOK, WebTypeOK
  <2>2. ASSUME NEW pc, NEW b, \/ goes([page.req EXCEPT !.pc = pc])
                              \/ goes([page.req EXCEPT !.pc = pc, !.unsure = b]),
               pc \in {"probe", "live", "lapsed", "unknown"}, b \in BOOLEAN
        PROVE  FALSE
    <3>1. /\ [page.req EXCEPT !.pc = pc] \in PageRequests
          /\ [page.req EXCEPT !.pc = pc, !.unsure = b] \in PageRequests
      BY <2>1, <2>2 DEF PageRequests
    <3>2. page'.req \in PageRequests
      BY <2>2, <3>1 DEF goes, TypeOK, WebTypeOK
    <3> QED BY <3>2, WebSessionAssumption
  <2>3. CASE htmx_served
    BY <2>3 DEF htmx_served, Waits
  <2>4. CASE htmx_refused /\ door # "mcp"
    BY <2>1, <2>2, <2>4 DEF htmx_refused, fails_when_redirected, Waits, PageRequests
  <2>5. CASE htmx_fault \/ healthz \/ probe_fault
    BY <2>2, <2>5 DEF htmx_fault, healthz, probe_fault
  <2>6. CASE done
    BY <2>6 DEF done, goes_ahead, TypeOK, WebTypeOK
  <2>7. CASE post_arrives
    BY <2>7 DEF post_arrives, Waits, GuardInv
  <2>8. ASSUME NEW c, NEW acc, page' = Noted(c, acc) PROVE FALSE
    BY <2>8, NotedTyped DEF TypeOK
  <2>9. CASE session_ends \/ (\E t \in Threads : start_session(t)) \/ (\E u \in Users : sso_login(u))
            \/ (\E u \in Users, state \in {"active", "disabled", "gone"} : set_account(u, state))
    BY <2>8, <2>9 DEF session_ends, start_session, sso_login, set_account
  <2>10. CASE submit \/ (\E kind \in {"hx-post", "hx-delete"} : htmx_request(kind)) \/ reload
    BY <2>10 DEF submit, htmx_request, reload
  <2>11. CASE page' = page
    BY <2>11
  <2>12. CASE \/ tick
              \/ \E t \in Threads :
                    \/ \E u \in Users, right \in BOOLEAN : login_submit(t, u, right)
                    \/ authenticate(t) \/ login_fails(t) \/ login_succeeds(t)
    BY <2>11, <2>12 DEF tick, login_submit, authenticate, login_fails, login_succeeds
  <2> QED BY <2>3, <2>4, <2>5, <2>6, <2>7, <2>9, <2>10, <2>11, <2>12
          DEF Next, WebNext, thread_step, page_step, vars, webvars
<1> QED BY <1>1, GuardAlways, PTL DEF Spec, LapseIsShown

------------------------------------------------------------------------------
(* The throttle.                                                            *)

\* Login requests that passed the check and may still count a failure.
Pending(u) ==
    {t \in Threads : /\ attempts[t] # None /\ attempts[t].user = u
                     /\ attempts[t].pc \in {"hash", "fails"}}

Limit == MAX_FAILURES + Cardinality(Threads) - 1

\* What is counted and what may still be counted stay below the limit together,
\* but for a lock-out that has expired: the next failure starts a fresh count.
ThrottleInv ==
    \A u \in Users :
        /\ failures[u].count =< Limit
        /\ \/ failures[u].count + Cardinality(Pending(u)) =< Limit
           \/ failures[u].count >= MAX_FAILURES /\ failures[u].age = LOCKOUT

\* Attempts that pass the check together overshoot the limit by at most one each,
\* however often the lock-out expires and is reached again (throttle.py).
THEOREM LockoutIsBounded == Spec => []LockoutBounded
<1> USE WebSessionAssumption
<1>n. Cardinality(Threads) \in Nat /\ Limit \in Nat
  BY FS_CardinalityType DEF Limit
<1>p. ASSUME NEW S \in SUBSET Threads
      PROVE  IsFiniteSet(S) /\ Cardinality(S) \in Nat /\ Cardinality(S) =< Cardinality(Threads)
  BY FS_Subset, FS_CardinalityType
<1>1. Init => ThrottleInv
  <2> SUFFICES ASSUME Init, NEW u \in Users
               PROVE  /\ failures[u].count =< Limit
                      /\ failures[u].count + Cardinality(Pending(u)) =< Limit
    BY DEF ThrottleInv
  <2>1. failures[u].count = 0 /\ Pending(u) = {}
    BY DEF Init, WebInit, Pending
  <2> QED BY <2>1, <1>n, FS_EmptySet
<1>2. TypeOK /\ ThrottleInv /\ TypeOK' /\ [Next]_vars => ThrottleInv'
  <2> SUFFICES ASSUME TypeOK, ThrottleInv, TypeOK', [Next]_vars, NEW u \in Users
               PROVE  /\ failures'[u].count =< Limit
                      /\ \/ failures'[u].count + Cardinality(Pending(u)') =< Limit
                         \/ failures'[u].count >= MAX_FAILURES /\ failures'[u].age = LOCKOUT
    BY DEF ThrottleInv, Limit
  <2> DEFINE m == Cardinality(Pending(u))
             n == Cardinality(Pending(u)')
             N == Cardinality(Threads)
             Kept == /\ failures'[u].count =< Limit
                     /\ \/ failures'[u].count + n =< Limit
                        \/ failures'[u].count >= MAX_FAILURES /\ failures'[u].age = LOCKOUT
  <2>1. /\ m \in Nat /\ n \in Nat /\ m =< N /\ n =< N /\ N \in Nat
        /\ IsFiniteSet(Pending(u)) /\ Limit = MAX_FAILURES + N - 1
    BY <1>n, <1>p DEF Pending, Limit
  <2>2. /\ failures[u].count \in Nat /\ failures[u].age \in 0 .. LOCKOUT
        /\ failures'[u].count \in Nat /\ failures'[u].age \in 0 .. LOCKOUT
    BY DEF TypeOK, WebTypeOK
  <2>3. /\ failures[u].count =< Limit
        /\ \/ failures[u].count + m =< Limit
           \/ failures[u].count >= MAX_FAILURES /\ failures[u].age = LOCKOUT
    BY DEF ThrottleInv
  <2> SUFFICES Kept
    OBVIOUS
  <2> HIDE DEF m, n, N, Limit
  <2>4. CASE failures'[u] = failures[u] /\ Pending(u)' \subseteq Pending(u)
    <3>1. n =< m
      BY <2>1, <2>4, FS_Subset DEF n, m
    <3> QED BY <2>1, <2>2, <2>3, <2>4, <3>1
  <2>5. ASSUME NEW t \in Threads, NEW x \in Users, NEW right \in BOOLEAN, login_submit(t, x, right)
        PROVE  Kept
    <3>1. CASE x = u
      <4>1. failures' = failures /\ ~locked_for(u)
        BY <2>5, <3>1 DEF login_submit
      <4> QED BY <2>1, <2>2, <2>3, <4>1 DEF locked_for
    <3>2. CASE x # u
      BY <2>4, <2>5, <3>2 DEF login_submit, Pending, TypeOK, WebTypeOK
    <3> QED BY <3>1, <3>2
  <2>6. ASSUME NEW t \in Threads, authenticate(t) \/ start_session(t) PROVE Kept
    <3>1. Pending(u)' \subseteq Pending(u)
      BY <2>6 DEF authenticate, start_session, Pending, TypeOK, WebTypeOK, Attempts
    <3> QED BY <2>4, <2>6, <3>1 DEF authenticate, start_session
  <2>7. ASSUME NEW t \in Threads, login_fails(t) PROVE Kept
    <3>1. Pending(u)' \subseteq Pending(u)
      BY <2>7 DEF login_fails, Pending, TypeOK, WebTypeOK
    <3>2. CASE attempts[t].user # u
      BY <2>4, <2>7, <3>1, <3>2 DEF login_fails, TypeOK, WebTypeOK, Attempts
    <3>3. CASE attempts[t].user = u
      <4>1. t \in Pending(u) /\ Pending(u)' = Pending(u) \ {t}
        BY <2>7, <3>3 DEF login_fails, Pending, TypeOK, WebTypeOK
      <4>2. n = m - 1
        <5>1. IsFiniteSet(Pending(u))
          BY <2>1
        <5>2. Cardinality(Pending(u) \ {t}) = Cardinality(Pending(u)) - 1
          BY <4>1, <5>1, FS_RemoveElement
        <5> QED BY <4>1, <5>2 DEF n, m
      <4>3. failures'[u] = record_failure(failures[u])
        BY <2>7, <3>3 DEF login_fails, TypeOK, WebTypeOK
      <4> QED BY <2>1, <2>2, <2>3, <4>2, <4>3 DEF record_failure
    <3> QED BY <3>2, <3>3
  <2>8. ASSUME NEW t \in Threads, login_succeeds(t) PROVE Kept
    <3>1. Pending(u)' \subseteq Pending(u)
      BY <2>8 DEF login_succeeds, Pending, TypeOK, WebTypeOK, Attempts
    <3>2. CASE attempts[t].user # u
      BY <2>4, <2>8, <3>1, <3>2 DEF login_succeeds, TypeOK, WebTypeOK, Attempts
    <3>3. CASE attempts[t].user = u
      <4>1. failures'[u].count = 0
        BY <2>8, <3>3 DEF login_succeeds, record_success, TypeOK, WebTypeOK
      <4> QED BY <2>1, <2>2, <4>1
    <3> QED BY <3>2, <3>3
  <2>9. CASE tick
    <3>1. Pending(u)' = Pending(u)
      BY <2>9 DEF tick, Pending
    <3>2. /\ failures'[u].count = failures[u].count
          /\ failures[u].age = LOCKOUT => failures'[u].age = LOCKOUT
      BY <2>2, <2>9 DEF tick, TypeOK, WebTypeOK
    <3>3. n = m
      BY <3>1 DEF n, m
    <3> QED BY <2>1, <2>2, <2>3, <3>2, <3>3
  <2>10. CASE UNCHANGED logins
    BY <2>4, <2>10 DEF logins, Pending
  <2>11. CASE page_step \/ submit \/ (\E kind \in {"hx-post", "hx-delete"} : htmx_request(kind)) \/ reload
    BY <2>10, <2>11 DEF page_step, htmx_served, htmx_refused, htmx_fault, healthz, probe_fault, done,
                        post_arrives, submit, htmx_request, reload, page_only
  <2>12. CASE session_ends \/ (\E x \in Users : sso_login(x))
            \/ (\E x \in Users, state \in {"active", "disabled", "gone"} : set_account(x, state))
    BY <2>10, <2>12 DEF session_ends, sso_login, set_account
  <2>13. CASE webvars' = webvars
    BY <2>10, <2>13 DEF webvars
  <2> QED BY <2>5, <2>6, <2>7, <2>8, <2>9, <2>11, <2>12, <2>13 DEF Next, WebNext, thread_step, vars
<1>3. ThrottleInv => LockoutBounded
  BY DEF ThrottleInv, LockoutBounded, Limit
<1> QED BY <1>1, <1>2, <1>3, DoorsTyped, PTL DEF Spec

------------------------------------------------------------------------------
(* The key cache.                                                           *)

\* Published keys count no time.  A cached key has been withdrawn for at most the
\* time the cache has lived, and nobody looks into a cache that has expired.
AgesInv ==
    /\ \A k \in published : withdrawn[k] = 0
    /\ keys # Nothing => \A k \in keys : withdrawn[k] + expires =< TTL
    /\ \A r \in Requests : Looking(r) => keys # Nothing /\ expires > 0

\* Requests wait for the lock.  A key published all along is in the set that was
\* fetched for its request, and calm is what the limit on refetches goes by.
LookInv ==
    /\ calm = forced
    /\ \A r \in Requests : request[r] # Nothing =>
          /\ ~Holds(r) => request[r].pc = "wait"
          /\ request[r].known => request[r].kid \in published
          /\ request[r].known /\ request[r].pc = "last look" => request[r].kid \in keys

CacheInv == TypeOK /\ AgesInv /\ LookInv

LEMMA CacheAlways == Spec => []CacheInv
\* A step of the holder of the lock: the other requests are what they were.
<1>OthersStay. ASSUME TypeOK, NEW r \in Requests, NEW x \in Requests, x # r,
                      NEW pc, to(r, pc) \/ request' = [request EXCEPT ![r] = Nothing]
               PROVE  request'[x] = request[x]
  BY <1>OthersStay DEF TypeOK, JwksTypeOK, to
\* When the holder is answered the next one in line still waits.
<1>AnsweredKeeps. ASSUME CacheInv, NEW r \in Requests, Holds(r), answered(r)
                  PROVE  AgesInv' /\ LookInv'
  <2> USE <1>AnsweredKeeps
  <2> USE DEF CacheInv
  <2>1. /\ request'[r] = Nothing
        /\ \A x \in Requests \ {r} : request'[x] = request[x] /\ ~Holds(x)
    BY DEF TypeOK, JwksTypeOK, answered, Holds
  <2>2. \A x \in Requests : request'[x] # Nothing => request'[x] = request[x] /\ request[x].pc = "wait"
    BY <2>1 DEF LookInv
  <2>3. UNCHANGED <<provider, cache>>
    BY DEF answered
  <2>4. \A x \in Requests : ~Looking(x)'
    BY <2>2 DEF Looking, At
  <2>5. AgesInv'
    BY <2>3, <2>4 DEF AgesInv, provider, cache
  <2>6. LookInv'
    BY <2>2, <2>3 DEF LookInv, provider, cache
  <2> QED BY <2>5, <2>6
<1>CacheStep. CacheInv /\ TypeOK' /\ [Next]_vars => CacheInv'
  <2> SUFFICES ASSUME CacheInv, TypeOK', [Next]_vars PROVE AgesInv' /\ LookInv'
    BY DEF CacheInv
  <2> USE JwksAssumption DEF CacheInv
  <2>1. CASE jwksvars' = jwksvars
    BY <2>1 DEF jwksvars, provider, cache, AgesInv, LookInv, Looking, Holds, At
  <2>2. ASSUME NEW r \in Requests, NEW kid \in Kids \cup {Unknown}, signing_key(r, kid)
        PROVE  AgesInv' /\ LookInv'
    <3>1. /\ request'[r] = [kid |-> kid, pc |-> "wait", known |-> kid \in published]
          /\ \A x \in Requests \ {r} : request'[x] = request[x]
      BY <2>2 DEF signing_key, TypeOK, JwksTypeOK
    <3>2. \A x \in Requests : Holds(x) => Holds(x)'
      BY <2>2 DEF signing_key, Holds, TypeOK, JwksTypeOK
    <3>3. \A x \in Requests : request'[x] # Nothing /\ request'[x].pc # "wait" =>
              x # r /\ Holds(x)
      <4>1. request'[r].pc = "wait"
        BY <3>1
      <4>2. ASSUME NEW x \in Requests, request'[x] # Nothing, request'[x].pc # "wait", x # r
            PROVE  Holds(x)
        <5>1. request'[x] = request[x]
          BY <3>1, <4>2
        <5> QED BY <4>2, <5>1 DEF LookInv
      <4> QED BY <4>1, <4>2
    <3>4. \A x \in Requests : Looking(x)' => Looking(x)
      BY <3>1, <3>3 DEF Looking, At
    <3>5. AgesInv'
      BY <2>2, <3>4 DEF signing_key, AgesInv, provider, cache
    <3>6. LookInv'
      <4>1. /\ calm' = forced' /\ published' = published /\ keys' = keys
        BY <2>2 DEF signing_key, provider, cache, LookInv
      <4>2. request'[r].pc = "wait" /\ request'[r].kid = kid
        BY <3>1
      <4>3. request'[r].known => kid \in published
        <5> SUFFICES ASSUME kid \notin published PROVE ~request'[r].known
          OBVIOUS
        <5>1. (kid \in published) = FALSE
          OBVIOUS
        <5>2. request'[r] = [kid |-> kid, pc |-> "wait", known |-> FALSE]
          BY <3>1, <5>1
        <5> QED BY <5>2
      <4>4. ASSUME NEW x \in Requests, x # r, request'[x] # Nothing
            PROVE  /\ ~Holds(x)' => request'[x].pc = "wait"
                   /\ request'[x].known => request'[x].kid \in published
                   /\ request'[x].known /\ request'[x].pc = "last look" => request'[x].kid \in keys
        <5>1. request'[x] = request[x]
          BY <3>1, <4>4
        <5> QED BY <3>2, <4>4, <5>1 DEF LookInv
      <4> QED BY <4>1, <4>2, <4>3, <4>4 DEF LookInv
    <3> QED BY <3>5, <3>6
  <2>3. ASSUME NEW r \in Requests, locked(r) PROVE AgesInv' /\ LookInv'
    <3>1. \A x \in Requests \ {r} : request'[x] = request[x]
      BY <2>3, <1>OthersStay DEF locked
    <3>2. /\ request[r] # Nothing /\ request'[r] # Nothing
          /\ request'[r].kid = request[r].kid /\ request'[r].known = request[r].known
          /\ request'[r].pc = IF expired THEN "fetch" ELSE "look"
      BY <2>3 DEF locked, to, At, TypeOK, JwksTypeOK, Calls
    <3>3. \A x \in Requests : Holds(x)' = Holds(x)
      BY <2>3 DEF locked, Holds
    <3>4. \A x \in Requests : Looking(x)' => Looking(x) \/ (x = r /\ ~expired)
      BY <3>1, <3>2, <3>3 DEF Looking, At
    <3>5. AgesInv'
      BY <2>3, <3>4 DEF locked, AgesInv, provider, cache, expired, TypeOK, JwksTypeOK
    <3>6. LookInv'
      BY <2>3, <3>1, <3>2, <3>3 DEF locked, LookInv, provider, cache
    <3> QED BY <3>5, <3>6
  <2>4. ASSUME NEW r \in Requests, fetched(r) PROVE AgesInv' /\ LookInv'
    <3>1. \A x \in Requests \ {r} : request'[x] = request[x] /\ ~Holds(x)
      BY <2>4, <1>OthersStay DEF fetched, Fetching, Holds
    <3>2. /\ request[r] # Nothing /\ request'[r] # Nothing
          /\ request'[r].kid = request[r].kid /\ request'[r].known = request[r].known
          /\ keys' # Nothing
      BY <2>4 DEF fetched, Fetching, to, At, TypeOK, JwksTypeOK, Calls
    <3>3. \A x \in Requests : Holds(x)' = Holds(x)
      BY <2>4 DEF fetched, Holds
    <3>4. AgesInv'
      <4>1. TTL > 0 /\ \A k \in published : 0 + TTL =< TTL
        OBVIOUS
      <4> QED BY <2>4, <3>2, <4>1 DEF fetched, AgesInv, provider
    <3>5. LookInv'
      BY <2>4, <3>1, <3>2, <3>3 DEF fetched, Fetching, LookInv, provider
    <3> QED BY <3>4, <3>5
  <2>5. ASSUME NEW r \in Requests, force(r) PROVE AgesInv' /\ LookInv'
    <3>1. \A x \in Requests \ {r} : request'[x] = request[x]
      BY <2>5, <1>OthersStay DEF force
    <3>2. /\ request[r] # Nothing /\ request'[r] # Nothing
          /\ request'[r].kid = request[r].kid /\ request'[r].known = request[r].known
          /\ request'[r].pc = "forced"
      BY <2>5 DEF force, Looking, to, At, TypeOK, JwksTypeOK, Calls
    <3>3. \A x \in Requests : Holds(x)' = Holds(x)
      BY <2>5 DEF force, Holds
    <3>4. \A x \in Requests : Looking(x)' => Looking(x)
      BY <3>1, <3>2, <3>3 DEF Looking, At
    <3>5. AgesInv'
      BY <2>5, <3>4 DEF force, AgesInv, provider
    <3>6. LookInv'
      BY <2>5, <3>1, <3>2, <3>3 DEF force, Looking, LookInv, provider
    <3> QED BY <3>5, <3>6
  <2>6. ASSUME NEW r \in Requests, Holds(r), answered(r) PROVE AgesInv' /\ LookInv'
    BY <2>6, <1>AnsweredKeeps
  <2>7. ASSUME NEW k \in Kids, publish(k) PROVE AgesInv' /\ LookInv'
    <3>1. /\ withdrawn'[k] = 0 /\ \A j \in Kids \ {k} : withdrawn'[j] = withdrawn[j]
          /\ published \subseteq Kids /\ (keys # Nothing => keys \subseteq Kids)
          /\ \A j \in Kids : withdrawn[j] \in 0 .. TTL
          /\ expires \in 0 .. TTL
      BY <2>7 DEF publish, TypeOK, JwksTypeOK
    <3>2. AgesInv'
      <4>1. /\ published' = published \cup {k} /\ keys' = keys /\ expires' = expires
            /\ \A x \in Requests : Looking(x)' = Looking(x)
        BY <2>7 DEF publish, cache, Looking, Holds, At
      <4>2. 0 + expires =< TTL
        BY <3>1
      <4>3. \A j \in published' : withdrawn'[j] = 0
        BY <3>1, <4>1 DEF AgesInv
      <4>4. ASSUME keys # Nothing, NEW j \in keys PROVE withdrawn'[j] + expires =< TTL
        <5>1. CASE j = k
          BY <3>1, <4>2, <5>1
        <5>2. CASE j # k
          BY <3>1, <4>4, <5>2 DEF AgesInv
        <5> QED BY <5>1, <5>2
      <4> QED BY <4>1, <4>3, <4>4 DEF AgesInv
    <3>3. LookInv'
      BY <2>7 DEF publish, LookInv, cache, Holds
    <3> QED BY <3>2, <3>3
  <2>8. ASSUME NEW k \in Kids, withdraw(k) PROVE AgesInv' /\ LookInv'
    <3>1. \A x \in Requests : request'[x] # Nothing =>
              /\ request[x] # Nothing
              /\ request'[x].pc = request[x].pc /\ request'[x].kid = request[x].kid
              /\ request'[x].known => request[x].known /\ request[x].kid # k
      BY <2>8 DEF withdraw, TypeOK, JwksTypeOK, Calls
    <3>2. \A x \in Requests : Looking(x)' => Looking(x)
      BY <2>8, <3>1 DEF withdraw, Looking, Holds, At
    <3>3. AgesInv'
      BY <2>8, <3>2 DEF withdraw, AgesInv, cache
    <3>4. LookInv'
      BY <2>8, <3>1 DEF withdraw, LookInv, cache, Holds
    <3> QED BY <3>3, <3>4
  <2>9. CASE jwks_tick
    <3>1. \A x \in Requests : ~Looking(x)'
      BY <2>9 DEF jwks_tick, Looking, Holds, At
    <3>2. \A k \in Kids : /\ k \in published => withdrawn'[k] = 0
                          /\ withdrawn'[k] =< withdrawn[k] + 1 /\ withdrawn'[k] =< TTL
      BY <2>9 DEF jwks_tick, Later, AgesInv, TypeOK, JwksTypeOK
    <3>3. AgesInv'
      <4>1. expires' = IF expires > 0 THEN expires - 1 ELSE 0
        BY <2>9 DEF jwks_tick
      <4>2. ASSUME NEW k \in keys, keys # Nothing PROVE withdrawn'[k] + expires' =< TTL
        <5>1. k \in Kids /\ withdrawn[k] + expires =< TTL
          BY <4>2 DEF AgesInv, TypeOK, JwksTypeOK
        <5>2. /\ withdrawn[k] \in Int /\ withdrawn'[k] \in Int /\ expires \in Nat
          BY <5>1 DEF TypeOK, JwksTypeOK
        <5>3. withdrawn'[k] =< withdrawn[k] + 1 /\ withdrawn'[k] =< TTL
          BY <3>2, <5>1
        <5> QED BY <4>1, <5>1, <5>2, <5>3
      <4>3. keys' = keys /\ published' = published /\ published \subseteq Kids
        BY <2>9 DEF jwks_tick, TypeOK, JwksTypeOK
      <4> QED BY <3>1, <3>2, <4>2, <4>3 DEF AgesInv
    <3>4. LookInv'
      BY <2>9 DEF jwks_tick, LookInv, Holds, Later
    <3> QED BY <3>3, <3>4
  <2> QED BY <2>1, <2>2, <2>3, <2>4, <2>5, <2>6, <2>7, <2>8, <2>9
          DEF Next, JwksNext, jwks_step, fetch_fails, found, not_found, Fetching, Looking, vars
<1>1. Init => CacheInv
  <2> SUFFICES ASSUME Init PROVE AgesInv /\ LookInv
    BY TypeInit DEF CacheInv
  <2>1. \A r \in Requests : ~Looking(r)
    BY DEF Init, JwksInit, Looking, Holds
  <2> QED BY <2>1 DEF Init, JwksInit, AgesInv, LookInv
<1> QED BY <1>1, <1>CacheStep, DoorsTyped, PTL DEF Spec

\* A key the provider has withdrawn is accepted for less than the time to live,
\* also when the provider cannot be reached (mcp/auth.py, signing_key).
THEOREM WithdrawnKeysDie == Spec => WithdrawnKeyDies
<1>1. CacheInv /\ [Next]_vars =>
          [\A r \in Requests : Accepts(r) => withdrawn[request[r].kid] < TTL]_jwksvars
  <2> SUFFICES ASSUME CacheInv, NEW r \in Requests, Accepts(r)
               PROVE  withdrawn[request[r].kid] < TTL
    OBVIOUS
  <2>1. keys # Nothing /\ expires > 0 /\ request[r].kid \in keys
    BY DEF CacheInv, AgesInv, Accepts
  <2>2. withdrawn[request[r].kid] + expires =< TTL
    BY <2>1 DEF CacheInv, AgesInv
  <2>3. withdrawn[request[r].kid] \in Int /\ expires \in Int
    BY <2>1 DEF CacheInv, TypeOK, JwksTypeOK
  <2> QED BY <2>1, <2>2, <2>3, JwksAssumption
<1> QED BY <1>1, CacheAlways, PTL DEF Spec, WithdrawnKeyDies

\* Unknown keys make the server ask the provider at most once per interval (mcp/auth.py,
\* _FORCED_REFETCH_INTERVAL).
THEOREM RefetchesAreSpaced == Spec => RefetchesSpaced
<1>1. CacheInv /\ [Next]_vars =>
          [\A r \in Requests : ~At(r, "forced") /\ At(r, "forced")' => calm >= INTERVAL]_jwksvars
  <2> SUFFICES ASSUME CacheInv, [Next]_vars, NEW r \in Requests, ~At(r, "forced"), At(r, "forced")'
               PROVE  calm >= INTERVAL
    OBVIOUS
  <2>1. ASSUME NEW x \in Requests, NEW pc, request[x] # Nothing,
               to(x, pc), pc # "forced" \/ x # r
        PROVE  FALSE
    <3>1. CASE x = r
      <4>1. request[r] \in Calls
        BY <2>1, <3>1 DEF CacheInv, TypeOK, JwksTypeOK
      <4>2. request'[r] = [request[r] EXCEPT !.pc = pc]
        BY <2>1, <3>1 DEF to, CacheInv, TypeOK, JwksTypeOK
      <4>3. request'[r].pc = pc
        BY <4>1, <4>2 DEF Calls
      <4> QED BY <2>1, <3>1, <4>3 DEF At
    <3>2. CASE x # r
      BY <2>1, <3>2 DEF to, At, CacheInv, TypeOK, JwksTypeOK
    <3> QED BY <3>1, <3>2
  <2>2. CASE force(r)
    <3>1. ~(forced < INTERVAL) /\ calm = forced
      BY <2>2 DEF force, limited, CacheInv, LookInv
    <3>2. forced \in 0 .. INTERVAL /\ INTERVAL \in Nat
      BY JwksAssumption DEF CacheInv, TypeOK, JwksTypeOK
    <3> QED BY <3>1, <3>2
  <2>3. ASSUME NEW x \in Requests, force(x), x # r PROVE FALSE
    BY <2>1, <2>3 DEF force, At
  <2>4. ASSUME NEW x \in Requests, locked(x) \/ fetched(x) PROVE FALSE
    BY <2>1, <2>4 DEF locked, fetched, Fetching, At
  <2>5. ASSUME NEW x \in Requests, answered(x) PROVE FALSE
    BY <2>5 DEF answered, At, CacheInv, TypeOK, JwksTypeOK
  <2>6. ASSUME NEW x \in Requests, NEW k, signing_key(x, k) PROVE FALSE
    BY <2>6 DEF signing_key, At, CacheInv, TypeOK, JwksTypeOK
  <2>7. ASSUME NEW k \in Kids, withdraw(k) PROVE FALSE
    BY <2>7 DEF withdraw, At, CacheInv, TypeOK, JwksTypeOK, Calls
  <2>8. CASE request' = request
    BY <2>8 DEF At
  <2> QED BY <2>2, <2>3, <2>4, <2>5, <2>6, <2>7, <2>8
          DEF Next, JwksNext, jwks_step, fetch_fails, found, not_found, publish, jwks_tick, vars, jwksvars
<1> QED BY <1>1, CacheAlways, PTL DEF Spec, RefetchesSpaced

\* A key published all through a request is refused only within the interval after
\* a forced refetch or the boot (mcp/auth.py, signing_key).
THEOREM NewKeysRefusedBriefly == Spec => NewKeyRefusedBriefly
<1>1. CacheInv /\ [Next]_vars =>
          [\A r \in Requests : Refuses(r) /\ request[r].known => calm < INTERVAL]_jwksvars
  <2> SUFFICES ASSUME CacheInv, [Next]_vars, NEW r \in Requests, Refuses(r), request[r].known
               PROVE  calm < INTERVAL
    OBVIOUS
  <2> USE DEF Refuses
  <2>1. request[r] # Nothing /\ request'[r] = Nothing
    BY DEF Looking, At
  <2>2. ASSUME NEW x \in Requests, NEW pc, to(x, pc),
               pc \in {"wait", "fetch", "look", "forced", "last look"}
        PROVE  FALSE
    <3>1. request[r] \in Calls
      BY <2>1 DEF CacheInv, TypeOK, JwksTypeOK
    <3>2. request'[r] \in Calls
      BY <2>2, <3>1, CallEdits DEF to, CacheInv, TypeOK, JwksTypeOK
    <3> QED BY <2>1, <3>2, JwksAssumption
  <2>3. CASE not_found(r)
    BY <2>3 DEF not_found, limited, Looking, At, CacheInv, LookInv
  <2>4. ASSUME NEW x \in Requests, answered(x), x # r PROVE FALSE
    BY <2>1, <2>4 DEF answered, CacheInv, TypeOK, JwksTypeOK
  <2>5. ASSUME found(r) \/ fetch_fails(r) PROVE FALSE
    BY <2>5 DEF found, fetch_fails, Fetching, Looking, At
  <2>6. ASSUME NEW x \in Requests, locked(x) \/ fetched(x) \/ force(x) PROVE FALSE
    BY <2>2, <2>6 DEF locked, fetched, force
  <2>7. ASSUME NEW x \in Requests, NEW k \in Kids \cup {Unknown}, signing_key(x, k) PROVE FALSE
    BY <2>1, <2>7 DEF signing_key, CacheInv, TypeOK, JwksTypeOK
  <2>8. ASSUME NEW k \in Kids, withdraw(k) PROVE FALSE
    <3>1. request[r] \in Calls
      BY <2>1 DEF CacheInv, TypeOK, JwksTypeOK
    <3>2. request'[r] \in Calls
      BY <2>8, <3>1, CallEdits DEF withdraw
    <3> QED BY <2>1, <3>2, JwksAssumption
  <2>9. CASE request' = request
    BY <2>1, <2>9
  <2> QED BY <2>3, <2>4, <2>5, <2>6, <2>7, <2>8, <2>9
          DEF Next, JwksNext, jwks_step, fetch_fails, found, not_found, publish, jwks_tick, vars, jwksvars
<1> QED BY <1>1, CacheAlways, PTL DEF Spec, NewKeyRefusedBriefly
=============================================================================
