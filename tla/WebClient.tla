------------------------------ MODULE WebClient ------------------------------
(***************************************************************************)
(* The tabs of one browser against the service's session endpoints:        *)
(* web/assets/app.js, and api.py 95-180.                                   *)
(*                                                                         *)
(* All tabs send the one cookie the browser holds, while each keeps in its *)
(* own memory whom it shows and the CSRF token it was given.  A call is    *)
(* sent with the cookie and the token of that moment, served some time     *)
(* later, and its answer received later still; calls overtake each other,  *)
(* and a reload forgets a tab's calls but not their effects.               *)
(*                                                                         *)
(* The service handles a call in one step here; what happens between the   *)
(* statements of two requests is in WebSessions.  A password that is       *)
(* refused changes nothing and is left out, and so are accounts that must  *)
(* still change their first password.                                      *)
(***************************************************************************)
EXTENDS Naturals, FiniteSets

CONSTANTS
    Users,
    Tabs,
    SessionIds,    \* ids for rows of web_sessions (bounds the logins)
    MaxLoads,      \* bound: the page is loaded so many times in all
    MaxCalls,      \* bound: the browser has so many calls under way
    MaxFaults,     \* bound: sessions that end by themselves, calls the network loses
    NoUser, NoSession, NoTab

ASSUME NullsType == NoUser \notin Users /\ NoSession \notin SessionIds /\ NoTab \notin Tabs
ASSUME BoundsType == {MaxLoads, MaxCalls, MaxFaults} \subseteq Nat

(* A token belongs to a session; the n-th one replaces the one before.     *)
Token == [session : SessionIds \cup {NoSession}, n : 0 .. MaxLoads + 1]
NoToken == [session |-> NoSession, n |-> 0]

Session == [user : Users \cup {NoUser}, live : BOOLEAN, csrf : Token]
Unused == [user |-> NoUser, live |-> FALSE, csrf |-> NoToken]

(* user is state.user, null while the login page is shown; csrf is         *)
(* state.csrf.                                                             *)
Tab == [user : Users \cup {NoUser}, csrf : Token]
LoginPage == [user |-> NoUser, csrf |-> NoToken]

Changes == {"write", "password", "logout"}    \* what needs a token
Kinds == {"me", "login", "read"} \cup Changes
Answers == {"none", "ok", "unauthenticated", "forbidden", "lost"}

(* as is the user who logs in, or whom the tab shows when it sends a       *)
(* change; user and token are what an answer carries; load tells two       *)
(* questions apart that are alike otherwise.                               *)
Call == [kind : Kinds, tab : Tabs \cup {NoTab}, load : 0 .. MaxLoads, as : Users \cup {NoUser},
         cookie : SessionIds \cup {NoSession}, csrf : Token,
         answer : Answers, user : Users \cup {NoUser}, token : Token]

VARIABLES
    session,      \* the table web_sessions: [SessionIds -> Session]
    cookie,       \* what the browser holds
    tab,          \* each tab's memory: [Tabs -> Tab]
    calls,        \* the calls under way, a set of Call
    loads, faults,     \* bounded counts
    contested     \* history: sessions whose token was replaced while a page relied on it

vars == <<session, cookie, tab, calls, loads, faults, contested>>

Init ==
    /\ session = [s \in SessionIds |-> Unused]
    /\ cookie = NoSession
    /\ tab = [t \in Tabs |-> LoginPage]
    /\ calls = {}
    /\ loads = 0 /\ faults = 0
    /\ contested = {}

-----------------------------------------------------------------------------
(* What a tab sends                                                        *)

CallOf(kind, t, u) ==
    [kind |-> kind, tab |-> t, load |-> IF kind = "me" THEN loads ELSE 0, as |-> u,
     cookie |-> cookie,
     csrf |-> IF kind \in Changes THEN tab[t].csrf ELSE NoToken,
     answer |-> "none", user |-> NoUser, token |-> NoToken]

Pending(t, kind) == \E c \in calls : c.tab = t /\ c.kind = kind

Send(kind, t, u) ==
    /\ Cardinality(calls) < MaxCalls
    /\ calls' = calls \cup {CallOf(kind, t, u)}
    /\ UNCHANGED <<session, cookie, tab, loads, faults, contested>>

(* A page that is loaded starts at the login form and asks who is logged   *)
(* in.  Nobody waits for what the page before had asked.  What was not     *)
(* served yet may still be: a change sent with the old token either comes  *)
(* before, as if the tab had waited, or is refused; only the question who  *)
(* is logged in replaces the token later.                                  *)
restoreSession(t) ==
    LET asked == {c \in calls : c.tab = t}
        unserved == {[c EXCEPT !.tab = NoTab] :
                        c \in {c \in asked : c.answer = "none" /\ c.kind = "me"}}
        others == (calls \ asked) \cup unserved
    IN /\ loads < MaxLoads /\ Cardinality(others) < MaxCalls
       /\ loads' = loads + 1
       /\ tab' = [tab EXCEPT ![t] = LoginPage]
       /\ calls' = others \cup {CallOf("me", t, NoUser)}
       /\ UNCHANGED <<session, cookie, faults, contested>>

(* The bound: an id is left for every login that was sent. *)
IdLeft == Cardinality({c \in calls : c.kind = "login" /\ c.answer = "none"})
              < Cardinality({s \in SessionIds : session[s] = Unused})

(* The form can be sent while restoreSession still waits; its button is    *)
(* disabled while it is busy.                                              *)
handleLogin(t, u) ==
    /\ tab[t].user = NoUser /\ ~ Pending(t, "login") /\ IdLeft
    /\ Send("login", t, u)

(* Views, refreshes and pages may be asked for while others are under way; *)
(* calls that agree in all their fields are one.                           *)
loadView(t) == tab[t].user # NoUser /\ Send("read", t, NoUser)

(* Creating a user, setting a status, saving the AI configuration, asking  *)
(* the AI and synchronizing are sent alike, each with a button of its own; *)
(* the other two are the handlers of the password form and of the logout   *)
(* button.                                                                 *)
SendChange(t, kind) ==
    /\ tab[t].user # NoUser
    /\ kind = "write" \/ ~ Pending(t, kind)
    /\ Send(kind, t, tab[t].user)

-----------------------------------------------------------------------------
(* What the service does                                                   *)

LoggedIn(c) == c.cookie # NoSession /\ session[c.cookie].live

verify_csrf_unchecked(c) == TRUE
verify_csrf(c) == c.csrf # NoToken /\ c.csrf = session[c.cookie].csrf

Verdict(c) ==
    CASE ~ LoggedIn(c) -> "unauthenticated"
      [] LoggedIn(c) /\ c.kind \in Changes /\ ~ verify_csrf(c) -> "forbidden"
      [] OTHER -> "ok"

(* The call is answered; nobody waits for the answer of one whose page is  *)
(* gone.                                                                   *)
Answered(c, answer, u, token) ==
    (calls \ {c}) \cup
        IF c.tab = NoTab THEN {}
        ELSE {[c EXCEPT !.answer = answer, !.user = u, !.token = token]}

(* A page holds a session's current token, has sent it or is about to get  *)
(* it.                                                                     *)
ReliesOn(t, s) ==
    \/ tab[t].csrf = session[s].csrf
    \/ \E c \in calls : c.tab = t /\ session[s].csrf \in {c.csrf, c.token}

rotate_csrf_twice(s) == [session[s].csrf EXCEPT !.n = @ + 2]
rotate_csrf(s) == [session[s].csrf EXCEPT !.n = @ + 1]

me(c) ==
    /\ c.kind = "me" /\ Verdict(c) = "ok"
    /\ LET s == c.cookie
           next == rotate_csrf(s)
       IN /\ session' = [session EXCEPT ![s].csrf = next]
          /\ calls' = Answered(c, "ok", session[s].user, next)
          /\ contested' = IF \E t \in Tabs \ {c.tab} : ReliesOn(t, s)
                          THEN contested \cup {s} ELSE contested

login(c) ==
    /\ c.kind = "login"
    /\ \E s \in SessionIds :
        /\ session[s] = Unused
        /\ LET first == [session |-> s, n |-> 1] IN
            /\ session' = [session EXCEPT ![s] = [user |-> c.as, live |-> TRUE, csrf |-> first]]
            /\ calls' = Answered(c, "ok", c.as, first)
    /\ UNCHANGED contested

EndSessions(S) == [s \in SessionIds |->
    IF s \in S THEN [session[s] EXCEPT !.live = FALSE] ELSE session[s]]

SessionsOf(u) == {s \in SessionIds : session[s].user = u}

change_password_rotating(s) ==
    [EndSessions(SessionsOf(session[s].user) \ {s}) EXCEPT ![s].csrf.n = @ + 1]

change_password(s) == EndSessions(SessionsOf(session[s].user) \ {s})
revoke_session(s) == EndSessions({s})

Perform(c) ==
    /\ c.kind \in {"read"} \cup Changes /\ Verdict(c) = "ok"
    /\ session' = CASE c.kind = "password" -> change_password(c.cookie)
                    [] c.kind = "logout" -> revoke_session(c.cookie)
                    [] OTHER -> session
    /\ calls' = Answered(c, "ok", NoUser, NoToken)
    /\ UNCHANGED contested

Refuse(c) ==
    /\ c.kind # "login" /\ Verdict(c) # "ok"
    /\ calls' = Answered(c, Verdict(c), NoUser, NoToken)
    /\ UNCHANGED <<session, contested>>

Serve(c) ==
    /\ c.answer = "none"
    /\ me(c) \/ login(c) \/ Perform(c) \/ Refuse(c)
    /\ UNCHANGED <<cookie, tab, loads, faults>>

(* A session runs out, or is ended from another browser. *)
SessionEnds(s) ==
    /\ session[s].live /\ faults < MaxFaults
    /\ faults' = faults + 1
    /\ session' = EndSessions({s})
    /\ UNCHANGED <<cookie, tab, calls, loads, contested>>

-----------------------------------------------------------------------------
(* What a tab does with an answer                                          *)

showLogin(t) == tab' = [tab EXCEPT ![t] = LoginPage]

(* After it shows the application a tab loads its first view, with the     *)
(* cookie just received.  The browser takes a cookie shortly before its    *)
(* tab takes the answer; here the two are one step.                        *)
FirstView(c) ==
    (calls \ {c}) \cup {[CallOf("read", c.tab, NoUser) EXCEPT !.cookie = cookie']}

(* The browser takes the cookie that an answer sets or deletes. *)
CookieAfter(c) ==
    CASE c.answer = "ok" /\ c.kind = "login" -> c.token.session
      [] c.answer = "ok" /\ c.kind = "logout" -> NoSession
      [] OTHER -> cookie

Restored(c) ==
    /\ c.kind \in {"me", "login"} /\ c.answer = "ok"
    /\ cookie' = CookieAfter(c)
    /\ tab' = [tab EXCEPT ![c.tab] = [user |-> c.user, csrf |-> c.token]]
    /\ calls' = FirstView(c)

NotRestored(c) ==
    /\ c.kind = "me" /\ c.answer # "ok"
    /\ showLogin(c.tab)
    /\ calls' = calls \ {c}
    /\ UNCHANGED cookie

HidesAppOnAnyError(c) == c.answer # "ok"
HidesApp(c) == c.answer = "unauthenticated"

(* A view that is refused shows the login page; a refresh, a page of draws *)
(* or the list of users after a change only reports an error.              *)
Loaded(c) ==
    /\ c.kind = "read"
    /\ (HidesApp(c) /\ showLogin(c.tab)) \/ UNCHANGED tab
    /\ calls' = calls \ {c}
    /\ UNCHANGED cookie

(* The other buttons show a message, whatever the answer is; once a        *)
(* password is changed, the first view is loaded.                          *)
Reported(c) ==
    /\ c.kind \in {"write", "password", "login"}
    /\ c.kind = "login" => c.answer # "ok"
    /\ calls' = IF c.kind = "password" /\ c.answer = "ok" /\ tab[c.tab].user # NoUser
                THEN (calls \ {c}) \cup {CallOf("read", c.tab, NoUser)}
                ELSE calls \ {c}
    /\ UNCHANGED <<cookie, tab>>

(* The tab goes to the login page in any case: "local reset remains safe". *)
logout(c) ==
    /\ c.kind = "logout"
    /\ showLogin(c.tab)
    /\ cookie' = CookieAfter(c)
    /\ calls' = calls \ {c}

Receive(c) ==
    /\ c.tab # NoTab /\ c.answer # "none"
    /\ Restored(c) \/ NotRestored(c) \/ Loaded(c) \/ Reported(c) \/ logout(c)
    /\ UNCHANGED <<session, loads, faults, contested>>

(* The network loses a call, or its answer, or the script cannot read the  *)
(* answer, whose cookie the browser may have taken by then; the tab sees   *)
(* an error without a status.                                              *)
Lose(c) ==
    /\ c.tab # NoTab /\ c.answer # "lost" /\ faults < MaxFaults
    /\ faults' = faults + 1
    /\ calls' = (calls \ {c}) \cup {[c EXCEPT !.answer = "lost", !.user = NoUser, !.token = NoToken]}
    /\ cookie' \in {cookie, CookieAfter(c)}
    /\ UNCHANGED <<session, tab, loads, contested>>

Use(t) ==
    \/ restoreSession(t) \/ loadView(t)
    \/ \E u \in Users : handleLogin(t, u)
    \/ \E kind \in Changes : SendChange(t, kind)

Next ==
    \/ \E t \in Tabs : Use(t)
    \/ \E c \in calls : Serve(c) \/ Receive(c) \/ Lose(c)
    \/ \E s \in SessionIds : SessionEnds(s)

Spec == Init /\ [][Next]_vars

-----------------------------------------------------------------------------
(* Properties                                                              *)

TypeOK ==
    /\ session \in [SessionIds -> Session]
    /\ cookie \in SessionIds \cup {NoSession}
    /\ tab \in [Tabs -> Tab]
    /\ calls \subseteq Call
    /\ loads \in 0 .. MaxLoads /\ faults \in 0 .. MaxFaults
    /\ contested \subseteq SessionIds

(* A change is made in the name of the user whom the tab showed when the   *)
(* button was pressed.  Another tab may have replaced the cookie by then,  *)
(* and an answer of the session before may have come last: a tab takes     *)
(* user and token from one answer, and the token binds the call to the     *)
(* session (app.js 113-114 and 157-158, auth.py 127-131).                  *)
ChangesAsShown ==
    \A c \in calls : c.kind \in Changes /\ c.answer = "ok" => session[c.cookie].user = c.as

(* A change is refused for its token only when the token is one of another *)
(* session than the cookie, or when the session's token was replaced for   *)
(* one page while another relied on it (auth.py 121-124).  A page on its   *)
(* own is always heard.                                                    *)
RefusedOnlyIfContested ==
    \A c \in calls : c.answer = "forbidden" =>
        c.csrf.session # c.cookie \/ c.cookie \in contested

(* A tab leaves the application only when it is loaded again, logs out, is *)
(* told that the session it asked with is over, or loses the answer to its *)
(* first question: an error of another kind does not throw the user out    *)
(* (app.js 124, 213, 233-235).                                             *)
LeavesAppWhenOver ==
    [][\A t \in Tabs : tab[t].user # NoUser /\ tab'[t].user = NoUser =>
          \/ loads' # loads
          \/ \E c \in calls \ calls' :
                /\ c.tab = t
                /\ c.kind \in {"me", "logout"} \/ ~ LoggedIn(c)]_vars

(* web/assets/app.js 212: when the logout call fails, "local reset remains *)
(* safe".  Once the tab is back at the login page, the session it logged   *)
(* out of is over.                                                         *)
LogoutEndsSession ==
    [][\A c \in calls \ calls' :
          c.kind = "logout" /\ tab'[c.tab] = LoginPage /\ loads' = loads /\ c.cookie # NoSession
            => ~ session'[c.cookie].live]_vars
=============================================================================
