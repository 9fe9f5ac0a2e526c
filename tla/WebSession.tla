----------------------------- MODULE WebSession -----------------------------
(***************************************************************************)
(* Signing in and staying signed in: the login form and its throttle       *)
(* (routes/auth.py, throttle.py), the gate that looks at the cookie of     *)
(* every request (middleware.py, session.py), and one open page with the   *)
(* stale-session guard (session.js).                                       *)
(*                                                                         *)
(* The door is the app's own gate or a forward-auth outpost in front of    *)
(* it.  Login requests run in threads: the lock-out check, the slow hash   *)
(* and the count are separate steps.  The page has one request under way.  *)
(***************************************************************************)
EXTENDS Naturals, FiniteSets

CONSTANTS Users,
          Threads,        \* login requests under way
          Here,           \* those sent by the browser that has the page
          MAX_FAILURES,
          LOCKOUT,        \* LOCKOUT_SECONDS in ticks of the clock
          None

\* A request of the page, and the login a thread serves.
PageRequests ==
    [kind : {"form", "hx-post", "hx-delete"}, unsure : BOOLEAN,
     pc : {"probe", "sent", "live", "lapsed", "unknown", "post"}]
Attempts == [user : Users, right : BOOLEAN, pc : {"hash", "fails", "succeeds", "session"}]

ASSUME WebSessionAssumption ==
    /\ Here \subseteq Threads /\ IsFiniteSet(Threads)
    /\ MAX_FAILURES \in Nat \ {0} /\ LOCKOUT \in Nat \ {0}
    /\ None \notin Users \cup PageRequests \cup Attempts

VARIABLES
    door,      \* who turns an unauthenticated request away: "gate" or "outpost"
    account,   \* user -> "active", "disabled" or "gone"
    failures,  \* throttle.py: user -> [count, age of the last failure]
    attempts,  \* thread -> the login it serves, or None
    cookie,    \* the user this browser's cookie names, or None
    page       \* [at, banner, req]

people == <<door, account>>
logins == <<failures, attempts>>
webvars == <<people, logins, cookie, page>>

\* The door lets a request with this cookie through.
LetsIn(c, acc) == c # None /\ (door = "gate" => acc[c] = "active")
SignedIn == LetsIn(cookie, account)

\* A request of the page that was looked at before the session came or went.
Noted(c, acc) ==
    IF page.req # None /\ LetsIn(c, acc) # SignedIn
    THEN [page EXCEPT !.req.unsure = TRUE] ELSE page

------------------------------------------------------------------------------
(* The throttle.                                                            *)

locked_for(u) == failures[u].count >= MAX_FAILURES /\ failures[u].age < LOCKOUT

\* mutant: an expired lockout does not start a fresh count
never_fresh(f) == [count |-> f.count + 1, age |-> 0]

record_failure(f) ==
    LET expired == f.count >= MAX_FAILURES /\ f.age >= LOCKOUT
    IN  [count |-> (IF expired THEN 0 ELSE f.count) + 1, age |-> 0]

record_success == [count |-> 0, age |-> 0]

\* mutant: an attempt that is turned away starts the lock-out anew
login_submit_renewing(t, u, right) ==
    /\ door = "gate" /\ attempts[t] = None
    /\ IF locked_for(u)
       THEN /\ failures' = [failures EXCEPT ![u].age = 0]
            /\ UNCHANGED attempts
       ELSE /\ attempts' = [attempts EXCEPT ![t] = [user |-> u, right |-> right, pc |-> "hash"]]
            /\ UNCHANGED failures
    /\ UNCHANGED <<people, cookie, page>>

\* POST /login, to the check; a locked account is answered 429 at once.
login_submit(t, u, right) ==
    /\ door = "gate" /\ attempts[t] = None
    /\ ~locked_for(u)
    /\ attempts' = [attempts EXCEPT ![t] = [user |-> u, right |-> right, pc |-> "hash"]]
    /\ UNCHANGED <<people, failures, cookie, page>>

\* authenticate reads the row, then verifies the hash.
authenticate(t) ==
    /\ attempts[t] # None /\ attempts[t].pc = "hash"
    /\ LET a == attempts[t]
           ok == a.right /\ account[a.user] = "active"
       IN  attempts' = [attempts EXCEPT ![t].pc = IF ok THEN "succeeds" ELSE "fails"]
    /\ UNCHANGED <<people, failures, cookie, page>>

login_fails(t) ==
    /\ attempts[t] # None /\ attempts[t].pc = "fails"
    /\ failures' = [failures EXCEPT ![attempts[t].user] = record_failure(@)]
    /\ attempts' = [attempts EXCEPT ![t] = None]
    /\ UNCHANGED <<people, cookie, page>>

login_succeeds(t) ==
    /\ attempts[t] # None /\ attempts[t].pc = "succeeds"
    /\ failures' = [failures EXCEPT ![attempts[t].user] = record_success]
    /\ attempts' = [attempts EXCEPT ![t].pc = "session"]
    /\ UNCHANGED <<people, cookie, page>>

\* record_login updates the row, which fails if it is gone (or if the database
\* stays locked); then the cookie is set.
start_session(t) ==
    /\ attempts[t] # None /\ attempts[t].pc = "session"
    /\ attempts' = [attempts EXCEPT ![t] = None]
    /\ \/ UNCHANGED <<cookie, page>>
       \/ /\ account[attempts[t].user] # "gone" /\ t \in Here
          /\ cookie' = attempts[t].user /\ page' = Noted(cookie', account)
    /\ UNCHANGED <<people, failures>>

tick ==
    /\ failures' = [u \in Users |->
           IF failures[u].age < LOCKOUT /\ failures[u].count > 0
           THEN [failures[u] EXCEPT !.age = @ + 1] ELSE failures[u]]
    /\ failures' # failures
    /\ UNCHANGED <<people, attempts, cookie, page>>

------------------------------------------------------------------------------
(* The session.                                                             *)

\* The login of the identity provider behind the outpost.
sso_login(u) ==
    /\ door = "outpost" /\ cookie' = u /\ page' = Noted(u, account)
    /\ UNCHANGED <<people, logins>>

\* A session ends by logging out in another tab, or after max_age without a
\* request at the app's gate, whatever happens at the outpost.
session_ends ==
    /\ cookie # None /\ cookie' = None
    /\ page' = Noted(None, account)
    /\ UNCHANGED <<people, logins>>

\* cmdb users disable, enable and rm.
set_account(u, state) ==
    /\ account[u] \notin {"gone", state}
    /\ account' = [account EXCEPT ![u] = state]
    /\ page' = Noted(cookie, account')
    /\ UNCHANGED <<door, logins, cookie>>

------------------------------------------------------------------------------
(* The page: session.js.                                                    *)

Req(kind, pc) == [kind |-> kind, pc |-> pc, unsure |-> FALSE]
goes(req) == page' = [page EXCEPT !.req = req]
Waits(pc) == page.req # None /\ page.req.pc = pc
page_only == UNCHANGED <<people, logins, cookie>>

\* A plain POST form is held back for a probe.
submit ==
    /\ page.at = "app" /\ page.req = None
    /\ goes(Req("form", "probe")) /\ page_only

\* htmx sends at once.
htmx_request(kind) ==
    /\ page.at = "app" /\ page.req = None
    /\ goes(Req(kind, "sent")) /\ page_only

\* Answered by a page of the app, which may be an error.
htmx_served ==
    /\ Waits("sent") /\ SignedIn
    /\ \/ goes(None)
       \/ goes([page.req EXCEPT !.pc = "probe"])
    /\ page_only

\* mutant: no listener for send errors, the outpost's redirect is such a one
only_response_errors(kind) == door = "gate" /\ kind = "hx-delete"

\* Which redirected htmx requests end in a failure event.  The outpost leads
\* to another origin, which is a send error.  The gate leads to /login: a POST
\* becomes a GET and is answered 200, a DELETE stays one and is answered 405.
fails_when_redirected(kind) == door = "outpost" \/ kind = "hx-delete"

\* A redirect that does not fail is swapped in: its URL is not the outpost's.
htmx_refused ==
    /\ Waits("sent") /\ ~SignedIn
    /\ goes(IF fails_when_redirected(page.req.kind)
            THEN [page.req EXCEPT !.pc = "probe"] ELSE None)
    /\ page_only

htmx_fault ==
    /\ Waits("sent")
    /\ goes([page.req EXCEPT !.pc = "probe"])
    /\ page_only

\* /healthz answers; anything the session did before is what it says.
healthz ==
    /\ Waits("probe")
    /\ goes([page.req EXCEPT !.pc = IF SignedIn THEN "live" ELSE "lapsed", !.unsure = FALSE])
    /\ page_only

\* mutant: a failed probe never calls back
probe_hangs ==
    /\ Waits("probe") /\ goes([page.req EXCEPT !.pc = "hangs"])
    /\ page_only

\* mutant: a failed probe counts as a lapse
probe_fault_is_lapse ==
    /\ Waits("probe") /\ goes([page.req EXCEPT !.pc = "lapsed", !.unsure = FALSE])
    /\ page_only

probe_fault ==
    /\ Waits("probe")
    /\ goes([page.req EXCEPT !.pc = "unknown", !.unsure = FALSE])
    /\ page_only

\* mutant: the form is sent without asking
lapsed_or_not(pc) == pc \in {"live", "lapsed", "unknown"}

\* The answers on which the form is sent.
goes_ahead(pc) == pc \in {"live", "unknown"}

done ==
    /\ page.req # None /\ page.req.pc \in {"live", "lapsed", "unknown"}
    /\ page' = IF ~goes_ahead(page.req.pc) THEN [page EXCEPT !.req = None, !.banner = TRUE]
               ELSE IF page.req.kind # "form" THEN [page EXCEPT !.req = None]
               ELSE [page EXCEPT !.req.pc = "post", !.req.unsure = @ \/ page.req.pc = "unknown"]
    /\ page_only

NewPage(at) == [at |-> at, banner |-> FALSE, req |-> None]

\* The form's POST arrives; its answer is a new page, or it is lost on the way.
post_arrives ==
    /\ Waits("post")
    /\ page' \in {NewPage(IF SignedIn THEN "app" ELSE "login"), NewPage("fault")}
    /\ page_only

\* The banner's button, or the user goes back to the app.
reload ==
    /\ page.req = None
    /\ page.banner \/ page.at # "app"
    /\ page' = NewPage(IF SignedIn THEN "app" ELSE "login")
    /\ page' # page
    /\ page_only

------------------------------------------------------------------------------
page_step ==
    \/ htmx_served \/ htmx_refused \/ htmx_fault \/ healthz \/ probe_fault
    \/ done \/ post_arrives

thread_step(t) == authenticate(t) \/ login_fails(t) \/ login_succeeds(t) \/ start_session(t)

WebInit ==
    /\ account = [u \in Users |-> "active"]
    /\ failures = [u \in Users |-> [count |-> 0, age |-> 0]]
    /\ attempts = [t \in Threads |-> None]
    /\ cookie \in Users
    /\ page = NewPage("app")

WebNext ==
    \/ \E t \in Threads :
          \/ \E u \in Users, right \in BOOLEAN : login_submit(t, u, right)
          \/ thread_step(t)
    \/ tick
    \/ \E u \in Users : sso_login(u)
    \/ session_ends
    \/ \E u \in Users, state \in {"active", "disabled", "gone"} : set_account(u, state)
    \/ submit \/ \E kind \in {"hx-post", "hx-delete"} : htmx_request(kind)
    \/ reload
    \/ page_step

\* The clock ticks, threads run, and a fetch is answered or fails.
WebFairness ==
    /\ WF_webvars(tick) /\ WF_webvars(page_step)
    /\ \A t \in Threads : WF_webvars(thread_step(t))

------------------------------------------------------------------------------
(* Properties.                                                              *)

WebTypeOK ==
    /\ account \in [Users -> {"active", "disabled", "gone"}]
    /\ failures \in [Users -> [count : Nat, age : 0 .. LOCKOUT]]
    /\ attempts \in [Threads -> Attempts \cup {None}]
    /\ cookie \in Users \cup {None}
    /\ page \in [at : {"app", "login", "fault"}, banner : BOOLEAN, req : PageRequests \cup {None}]

\* throttle.py: attempts that pass the check together overshoot the limit by at
\* most one each, however often the lock-out expires and is reached again.
LockoutBounded ==
    \A u \in Users : failures[u].count <= MAX_FAILURES + Cardinality(Threads) - 1

\* throttle.py: a locked account may try again in the end, whoever keeps trying.
LockoutEnds == \A u \in Users : locked_for(u) ~> ~locked_for(u)

\* session.js: a form is lost to the login page only if the session went after
\* the probe had looked at it, or the probe failed.
PostLostOnlyByLapse ==
    [][page.req # None /\ page'.at = "login" => page.req.unsure]_webvars

\* session.js: the banner goes up only for a session that was gone when the
\* probe looked: never for a fault of the network.
BannerTruthful ==
    [][~page.banner /\ page'.banner => ~SignedIn \/ page.req.unsure]_webvars

\* session.js: an htmx request that was turned away ends with the banner, unless
\* the probe failed or found the session back, or the gate answered a POST with
\* its login page, which is swapped into the card.
LapseIsShown ==
    [][page.req # None /\ page.req.kind # "form" /\ page'.req = None /\ ~page'.banner =>
          \/ page.req.pc \in {"live", "unknown"}
          \/ page.req.pc = "sent" /\ SignedIn
          \/ page.req.pc = "sent" /\ door = "gate" /\ page.req.kind = "hx-post"]_webvars

\* session.js: a form or a request never hangs on its probe.
SubmitResolves == page.req # None ~> page.req = None
=============================================================================
