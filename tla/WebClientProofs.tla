--------------------------- MODULE WebClientProofs ---------------------------
(***************************************************************************)
(* Theorems about WebClient for every number of users, tabs, sessions,     *)
(* loads, calls and faults.                                                *)
(***************************************************************************)
EXTENDS WebClient, FiniteSetTheorems, TLAPS

-----------------------------------------------------------------------------
(* The invariant                                                           *)

Used(s) == session[s] # Unused

SessionInv(s) ==
    Used(s) => /\ session[s].user \in Users
               /\ session[s].csrf.session = s

(* A token that a session of u's was given: it is current, or was replaced *)
(* while a page relied on it.                                              *)
Issued(x, u) ==
    /\ x.session \in SessionIds /\ Used(x.session)
    /\ session[x.session].user = u
    /\ x = session[x.session].csrf \/ x.session \in contested

(* A tab shows the login page, or a user with a token of that user's.      *)
TabInv(t) ==
    \/ tab[t] = LoginPage
    \/ tab[t].user \in Users /\ Issued(tab[t].csrf, tab[t].user)

Opens(c) == c.kind \in {"me", "login"} /\ c.answer = "ok"

(* What a call carries, and what its answer says, is true when it is       *)
(* served and remains so.                                                  *)
CallInv(c) ==
    /\ c.cookie # NoSession => Used(c.cookie)
    /\ c.kind \in Changes => c.as \in Users /\ Issued(c.csrf, c.as)
    /\ c.kind \notin Changes => c.csrf = NoToken
    /\ c.kind = "login" => c.as \in Users
    /\ Opens(c) => c.user \in Users /\ Issued(c.token, c.user)
    /\ ~ Opens(c) => c.token = NoToken
    /\ c.kind \in Changes /\ c.answer = "ok" =>
          c.cookie # NoSession /\ session[c.cookie].user = c.as
    /\ c.answer = "unauthenticated" => ~ LoggedIn(c)
    /\ c.answer = "forbidden" =>
          c.kind \in Changes /\ (c.csrf.session # c.cookie \/ c.cookie \in contested)
    /\ c.tab = NoTab => c.kind = "me" /\ c.answer = "none"

(* A page that asks who is logged in knows nothing yet of the session it   *)
(* asks with: the token it is about to replace is not its own.             *)
Asks(c) == c.kind = "me" /\ c.answer = "none" /\ c.tab # NoTab

AskInv(c) ==
    Asks(c) /\ c.cookie # NoSession =>
        /\ tab[c.tab].csrf.session # c.cookie
        /\ \A d \in calls : d.tab = c.tab => c.cookie \notin {d.csrf.session, d.token.session}

OneQuestion ==
    \A c, d \in calls :
        c.kind = "me" /\ d.kind = "me" /\ c.tab = d.tab /\ c.tab # NoTab => c = d

(* Every load asks once, and every question replaces one token. *)
Unserved == {c \in calls : c.kind = "me" /\ c.answer = "none"}

Counted ==
    /\ IsFiniteSet(calls)
    /\ Cardinality(Unserved) <= loads
    /\ \A s \in SessionIds : session[s].csrf.n + Cardinality(Unserved) <= loads + 1

IInv ==
    /\ TypeOK
    /\ cookie # NoSession => Used(cookie)
    /\ \A s \in SessionIds : SessionInv(s)
    /\ \A t \in Tabs : TabInv(t)
    /\ \A c \in calls : CallInv(c)
    /\ \A c \in calls : AskInv(c)
    /\ OneQuestion
    /\ Counted

-----------------------------------------------------------------------------
(* Fields of records                                                       *)

LEMMA Nulls ==
    /\ NoToken \in Token /\ NoToken.session = NoSession /\ NoToken.n = 0
    /\ Unused \in Session /\ Unused.user = NoUser /\ ~ Unused.live /\ Unused.csrf = NoToken
    /\ LoginPage \in Tab /\ LoginPage.user = NoUser /\ LoginPage.csrf = NoToken
  BY BoundsType DEF NoToken, Token, Unused, Session, LoginPage, Tab

LEMMA SessionFields ==
    ASSUME TypeOK, NEW s \in SessionIds
    PROVE  /\ session[s] \in Session /\ session[s].user \in Users \cup {NoUser}
           /\ session[s].live \in BOOLEAN /\ session[s].csrf \in Token
           /\ session[s].csrf.session \in SessionIds \cup {NoSession}
           /\ session[s].csrf.n \in 0 .. MaxLoads + 1
  BY DEF TypeOK, Session, Token

LEMMA TabFields ==
    ASSUME TypeOK, NEW t \in Tabs
    PROVE  tab[t] \in Tab /\ tab[t].user \in Users \cup {NoUser} /\ tab[t].csrf \in Token
  BY DEF TypeOK, Tab

LEMMA CallFields ==
    ASSUME NEW c \in Call
    PROVE  /\ c.kind \in Kinds /\ c.tab \in Tabs \cup {NoTab} /\ c.as \in Users \cup {NoUser}
           /\ c.cookie \in SessionIds \cup {NoSession} /\ c.csrf \in Token
           /\ c.answer \in Answers /\ c.user \in Users \cup {NoUser} /\ c.token \in Token
  BY DEF Call

(* A call that is sent. *)
LEMMA CallOfFields ==
    ASSUME TypeOK, NEW kind \in Kinds, NEW t \in Tabs, NEW u \in Users \cup {NoUser}
    PROVE  LET y == CallOf(kind, t, u) IN
           /\ y \in Call /\ y.kind = kind /\ y.tab = t /\ y.as = u /\ y.cookie = cookie
           /\ y.csrf = IF kind \in Changes THEN tab[t].csrf ELSE NoToken
           /\ y.answer = "none" /\ y.token = NoToken
<1>1. loads \in 0 .. MaxLoads /\ 0 \in 0 .. MaxLoads
  BY BoundsType DEF TypeOK
<1>2. CallOf(kind, t, u) \in Call
  BY <1>1, TabFields, Nulls DEF CallOf, Call, Answers, TypeOK
<1> QED
  BY <1>2 DEF CallOf

-----------------------------------------------------------------------------
(* What a step does to the sessions                                        *)

(* A row that is used stays so, with its user, and is not revived.         *)
Evolves ==
    /\ contested \subseteq contested'
    /\ \A s \in SessionIds : Used(s) =>
          /\ session'[s] # Unused /\ session'[s].user = session[s].user
          /\ session'[s].live => session[s].live

(* Tokens that a page has, or a call carries, are still good enough.       *)
Held(x) ==
    \/ \E t \in Tabs : x = tab[t].csrf
    \/ \E d \in calls : x = d.csrf \/ x = d.token

TokensKept == \A x, u : Held(x) /\ Issued(x, u) => Issued(x, u)'

LEMMA CallKept ==
    ASSUME IInv, Evolves, TokensKept, NEW d \in calls
    PROVE  CallInv(d)'
<1>1. CallInv(d) /\ d \in Call
  BY DEF IInv, TypeOK
<1>2. d.cookie \in SessionIds \cup {NoSession}
  BY <1>1, CallFields
<1>3. d.cookie # NoSession =>
        /\ Used(d.cookie)' /\ session'[d.cookie].user = session[d.cookie].user
        /\ session'[d.cookie].live => session[d.cookie].live
  BY <1>1, <1>2 DEF CallInv, Evolves, Used
<1>4. \A u : Issued(d.csrf, u) => Issued(d.csrf, u)'
  BY DEF TokensKept, Held
<1>5. \A u : Issued(d.token, u) => Issued(d.token, u)'
  BY DEF TokensKept, Held
<1>6. LoggedIn(d)' => LoggedIn(d)
  BY <1>3 DEF LoggedIn
<1>7. contested \subseteq contested'
  BY DEF Evolves
<1> QED
  BY <1>1, <1>3, <1>4, <1>5, <1>6, <1>7 DEF CallInv, Opens

(* No token is given or replaced. *)
SameTokens ==
    /\ contested' = contested
    /\ \A s \in SessionIds :
          /\ session'[s] # Unused <=> Used(s)
          /\ session'[s].user = session[s].user /\ session'[s].csrf = session[s].csrf
          /\ session'[s].live => session[s].live

LEMMA SameTokensKept ==
    ASSUME IInv, SameTokens
    PROVE  Evolves /\ TokensKept /\ \A s \in SessionIds : SessionInv(s)'
<1>1. Evolves
  BY DEF SameTokens, Evolves
<1>2. TokensKept
  BY DEF SameTokens, TokensKept, Issued, Used
<1>3. \A s \in SessionIds : SessionInv(s)'
  BY DEF SameTokens, SessionInv, IInv, Used
<1> QED
  BY <1>1, <1>2, <1>3

LEMMA EndSessionsKeeps ==
    ASSUME IInv, NEW S, session' = EndSessions(S), contested' = contested
    PROVE  SameTokens /\ session' \in [SessionIds -> Session]
<1>1. ASSUME NEW s \in SessionIds
      PROVE  /\ session'[s] \in Session
             /\ session'[s] # Unused <=> Used(s)
             /\ session'[s].user = session[s].user /\ session'[s].csrf = session[s].csrf
             /\ session'[s].live => session[s].live
  <2>1. session[s] \in Session /\ (Used(s) => session[s].user \in Users)
    BY SessionFields DEF IInv, SessionInv
  <2>2. CASE s \notin S
    <3>1. session'[s] = session[s]
      BY <2>2 DEF EndSessions
    <3> QED
      BY <2>1, <3>1 DEF Used
  <2>3. CASE s \in S
    <3>1. session'[s] = [session[s] EXCEPT !.live = FALSE]
      BY <2>3 DEF EndSessions
    <3>2. /\ session'[s] \in Session /\ session'[s].user = session[s].user
          /\ session'[s].csrf = session[s].csrf /\ ~ session'[s].live
      BY <2>1, <3>1 DEF Session
    <3>3. Used(s) => session'[s] # Unused
      BY <2>1, <3>2, Nulls, NullsType
    <3>4. ~ Used(s) => session'[s] = Unused
      <4>1. [Unused EXCEPT !.live = FALSE] = Unused
        <5>1. Unused \in Session /\ Unused.live = FALSE
          BY Nulls
        <5> QED
          BY <5>1 DEF Session
      <4> QED
        BY <3>1, <4>1 DEF Used
    <3> QED
      BY <3>2, <3>3, <3>4
  <2> QED
    BY <2>2, <2>3
<1> QED
  BY <1>1 DEF SameTokens, EndSessions

-----------------------------------------------------------------------------
(* Steps that replace one call by at most one other                        *)

(* The calls c and, in its place, those of Y. *)
Replaces(c, Y) ==
    /\ calls' = (calls \ {c}) \cup Y
    /\ \A y, z \in Y : y = z
    /\ \A y \in Y : y.kind = "me" =>
          c \in calls /\ c.kind = "me" /\ c.tab = y.tab /\ y.answer # "none"

LEMMA UnservedShrinks ==
    ASSUME IInv, NEW c, NEW Y, Replaces(c, Y)
    PROVE  /\ IsFiniteSet(calls')
           /\ Cardinality(Unserved') \in Nat /\ Cardinality(Unserved) \in Nat
           /\ Cardinality(Unserved') <= Cardinality(Unserved)
           /\ c \in Unserved => Cardinality(Unserved') + 1 <= Cardinality(Unserved)
<1>1. IsFiniteSet(calls) /\ IsFiniteSet(Unserved)
  BY FS_Subset DEF IInv, Counted, Unserved
<1>2. IsFiniteSet(calls')
  <2>1. IsFiniteSet(calls \ {c})
    BY <1>1, FS_RemoveElement
  <2>2. CASE Y = {}
    BY <2>1, <2>2 DEF Replaces
  <2>3. CASE Y # {}
    <3>1. PICK y : Y = {y}
      BY <2>3 DEF Replaces
    <3> QED
      BY <2>1, <3>1, FS_AddElement DEF Replaces
  <2> QED
    BY <2>2, <2>3
<1>3. Unserved' \subseteq Unserved \ {c}
  BY DEF Replaces, Unserved
<1>4. /\ IsFiniteSet(Unserved \ {c}) /\ Cardinality(Unserved) \in Nat
      /\ Cardinality(Unserved \ {c}) =
            IF c \in Unserved THEN Cardinality(Unserved) - 1 ELSE Cardinality(Unserved)
  BY <1>1, FS_RemoveElement, FS_CardinalityType
<1>5. Cardinality(Unserved') <= Cardinality(Unserved \ {c}) /\ IsFiniteSet(Unserved')
  BY <1>3, <1>4, FS_Subset
<1>6. Cardinality(Unserved') \in Nat /\ Cardinality(Unserved \ {c}) \in Nat
  BY <1>4, <1>5, FS_CardinalityType
<1> QED
  BY <1>2, <1>4, <1>5, <1>6

LEMMA ReplaceStep ==
    ASSUME IInv, NEW c, NEW Y, Replaces(c, Y),
           session' \in [SessionIds -> Session],
           cookie' \in SessionIds \cup {NoSession}, cookie' # NoSession => Used(cookie)',
           tab' \in [Tabs -> Tab], loads' = loads, faults' \in 0 .. MaxFaults,
           contested' \subseteq SessionIds,
           Evolves, TokensKept,
           \A s \in SessionIds : SessionInv(s)',
           \A t \in Tabs : TabInv(t)',
           \A y \in Y : y \in Call /\ CallInv(y)',
           \A m \in calls \ {c} : Asks(m) /\ m.cookie # NoSession =>
               /\ tab'[m.tab].csrf.session # m.cookie
               /\ \A y \in Y : y.tab = m.tab =>
                     m.cookie \notin {y.csrf.session, y.token.session},
           \A s \in SessionIds :
               session'[s].csrf.n + Cardinality(Unserved') <= loads + 1
    PROVE  IInv'
<1>1. TypeOK'
  BY DEF IInv, TypeOK, Replaces
<1>2. \A d \in calls' : CallInv(d)'
  BY CallKept DEF Replaces
<1>3. ASSUME NEW m \in calls' PROVE AskInv(m)'
  <2> SUFFICES ASSUME Asks(m), m.cookie # NoSession
               PROVE  /\ tab'[m.tab].csrf.session # m.cookie
                      /\ \A d \in calls' : d.tab = m.tab =>
                            m.cookie \notin {d.csrf.session, d.token.session}
    BY DEF AskInv, Asks
  <2>1. m \in calls \ {c}
    BY DEF Replaces, Asks
  <2>2. AskInv(m)
    BY <2>1 DEF IInv
  <2> QED
    BY <2>1, <2>2 DEF AskInv, Replaces
<1>4. OneQuestion'
  <2> SUFFICES ASSUME NEW m \in calls', NEW d \in calls', m.kind = "me", d.kind = "me",
                      m.tab = d.tab, m.tab # NoTab
               PROVE  m = d
    BY DEF OneQuestion
  <2>1. CASE m \in calls \ {c} /\ d \in calls \ {c}
    BY <2>1 DEF IInv, OneQuestion
  <2>2. CASE m \in Y /\ d \in Y
    BY <2>2 DEF Replaces
  <2>3. ASSUME m \in Y, d \in calls \ {c} PROVE FALSE
    BY <2>3 DEF IInv, OneQuestion, Replaces
  <2>4. ASSUME d \in Y, m \in calls \ {c} PROVE FALSE
    BY <2>4 DEF IInv, OneQuestion, Replaces
  <2> QED
    BY <2>1, <2>2, <2>3, <2>4 DEF Replaces
<1>5. Counted'
  <2>1. loads \in Nat /\ Cardinality(Unserved) <= loads
    BY BoundsType DEF IInv, Counted, TypeOK
  <2>2. Cardinality(Unserved') <= loads /\ IsFiniteSet(calls')
    BY <2>1, UnservedShrinks
  <2> QED
    BY <2>2 DEF Counted
<1> QED
  BY <1>1, <1>2, <1>3, <1>4, <1>5 DEF IInv

(* The sessions' tokens are left alone. *)
LEMMA QuietStep ==
    ASSUME IInv, NEW c, NEW Y, Replaces(c, Y),
           session' \in [SessionIds -> Session], SameTokens,
           cookie' \in SessionIds \cup {NoSession}, cookie' # NoSession => Used(cookie)',
           tab' \in [Tabs -> Tab], loads' = loads, faults' \in 0 .. MaxFaults,
           \A t \in Tabs : TabInv(t)',
           \A y \in Y : y \in Call /\ CallInv(y)',
           \A m \in calls \ {c} : Asks(m) /\ m.cookie # NoSession =>
               /\ tab'[m.tab].csrf.session # m.cookie
               /\ \A y \in Y : y.tab = m.tab =>
                     m.cookie \notin {y.csrf.session, y.token.session}
    PROVE  IInv'
<1>1. ASSUME NEW s \in SessionIds
      PROVE  session'[s].csrf.n + Cardinality(Unserved') <= loads + 1
  <2>1. /\ session[s].csrf.n + Cardinality(Unserved) <= loads + 1
        /\ loads \in Nat /\ session[s].csrf.n \in Nat /\ session'[s].csrf = session[s].csrf
    BY SessionFields, BoundsType DEF IInv, Counted, TypeOK, SameTokens
  <2> QED
    BY <2>1, UnservedShrinks
<1>2. contested' \subseteq SessionIds
  BY DEF SameTokens, IInv, TypeOK
<1> QED
  BY <1>1, <1>2, SameTokensKept, ReplaceStep

-----------------------------------------------------------------------------
(* Calls that are sent, and refused or performed                           *)

LEMMA NothingGiven ==
    ASSUME IInv, UNCHANGED <<session, contested>>
    PROVE  SameTokens /\ session' \in [SessionIds -> Session]
  BY DEF SameTokens, IInv, TypeOK, Used

(* What an invariant says of tabs that nobody touches. *)
LEMMA TabsKept ==
    ASSUME IInv, SameTokens, tab' = tab
    PROVE  /\ \A t \in Tabs : TabInv(t)'
           /\ tab' \in [Tabs -> Tab]
           /\ \A m \in calls : Asks(m) /\ m.cookie # NoSession =>
                 tab'[m.tab].csrf.session # m.cookie
<1>1. TokensKept
  BY SameTokensKept
<1>2. \A t \in Tabs : TabInv(t)'
  BY <1>1 DEF IInv, TabInv, TokensKept, Held
<1> QED
  BY <1>2 DEF IInv, TypeOK, AskInv

LEMMA SendStep ==
    ASSUME IInv, NEW kind \in Kinds \ {"me"}, NEW t \in Tabs, NEW u \in Users \cup {NoUser},
           Send(kind, t, u),
           kind \in Changes => tab[t].user # NoUser /\ u = tab[t].user,
           kind = "login" => u \in Users
    PROVE  IInv'
<1> PICK y : y = CallOf(kind, t, u)
  OBVIOUS
<1>1. /\ y \in Call /\ y.kind = kind /\ y.tab = t /\ y.as = u /\ y.cookie = cookie
      /\ y.csrf = IF kind \in Changes THEN tab[t].csrf ELSE NoToken
      /\ y.answer = "none" /\ y.token = NoToken
  BY CallOfFields DEF IInv
<1>2. /\ calls' = calls \cup {y}
      /\ UNCHANGED <<session, cookie, tab, loads, faults, contested>>
  BY DEF Send
<1>3. Replaces(y, {y})
  BY <1>1, <1>2 DEF Replaces
<1>4. SameTokens /\ session' \in [SessionIds -> Session]
  BY <1>2, NothingGiven
<1>5. CallInv(y)
  <2>1. kind \in Changes => u \in Users /\ Issued(tab[t].csrf, u)
    BY Nulls DEF IInv, TabInv
  <2> QED
    BY <1>1, <2>1, NullsType DEF IInv, CallInv, Opens, Changes
<1>6. CallInv(y)'
  BY <1>2, <1>5 DEF CallInv, Issued, Used, LoggedIn
<1>7. \A m \in calls \ {y} : Asks(m) /\ m.cookie # NoSession =>
        \A z \in {y} : z.tab = m.tab => m.cookie \notin {z.csrf.session, z.token.session}
  BY <1>1, Nulls DEF IInv, AskInv
<1>8. cookie' \in SessionIds \cup {NoSession} /\ (cookie' # NoSession => Used(cookie)')
      /\ loads' = loads /\ faults' \in 0 .. MaxFaults
  BY <1>2 DEF IInv, TypeOK, Used
<1> QED
  BY <1>1, <1>2, <1>3, <1>4, <1>6, <1>7, <1>8, TabsKept, QuietStep

(* What replaces a call that is answered. *)
Answer(c, answer, u, token) ==
    IF c.tab = NoTab THEN {} ELSE {[c EXCEPT !.answer = answer, !.user = u, !.token = token]}

LEMMA AnswerReplaces ==
    ASSUME IInv, NEW c \in calls, NEW a \in Answers \ {"none"}, NEW u \in Users \cup {NoUser},
           NEW x \in Token, calls' = Answered(c, a, u, x)
    PROVE  /\ Replaces(c, Answer(c, a, u, x))
           /\ \A y \in Answer(c, a, u, x) :
                 /\ y \in Call /\ y.kind = c.kind /\ y.tab = c.tab /\ c.tab # NoTab
                 /\ y.as = c.as /\ y.cookie = c.cookie /\ y.csrf = c.csrf
                 /\ y.answer = a /\ y.user = u /\ y.token = x
<1> DEFINE row == [c EXCEPT !.answer = a, !.user = u, !.token = x]
<1>1. /\ row \in Call /\ row.kind = c.kind /\ row.tab = c.tab /\ row.as = c.as
      /\ row.cookie = c.cookie /\ row.csrf = c.csrf
      /\ row.answer = a /\ row.user = u /\ row.token = x
  <2>1. c \in Call /\ a \in Answers
    BY DEF IInv, TypeOK
  <2> QED
    BY <2>1 DEF Call
<1>2. \A y \in Answer(c, a, u, x) :
        /\ y \in Call /\ y.kind = c.kind /\ y.tab = c.tab /\ c.tab # NoTab
        /\ y.as = c.as /\ y.cookie = c.cookie /\ y.csrf = c.csrf
        /\ y.answer = a /\ y.user = u /\ y.token = x
  <2>1. \A y \in Answer(c, a, u, x) : y = row /\ c.tab # NoTab
    BY DEF Answer
  <2> HIDE DEF row
  <2> QED
    BY <1>1, <2>1
<1>3. calls' = (calls \ {c}) \cup Answer(c, a, u, x)
  BY DEF Answered, Answer
<1>4. \A y, z \in Answer(c, a, u, x) : y = z
  BY DEF Answer
<1> QED
  BY <1>2, <1>3, <1>4 DEF Replaces

LEMMA ServeQuietly ==
    ASSUME IInv, NEW c \in calls, c.answer = "none", Perform(c) \/ Refuse(c),
           UNCHANGED <<cookie, tab, loads, faults>>
    PROVE  IInv'
<1> PICK a, Y : a = Verdict(c) /\ Y = Answer(c, a, NoUser, NoToken)
  OBVIOUS
<1>1. c \in Call /\ CallInv(c) /\ c.kind # "login"
  BY DEF IInv, TypeOK, Perform, Refuse, Changes
<1>2. a \in Answers \ {"none"} /\ calls' = Answered(c, a, NoUser, NoToken) /\ contested' = contested
  BY DEF Perform, Refuse, Verdict, Answers
<1>3. /\ Replaces(c, Y)
      /\ \A y \in Y :
            /\ y \in Call /\ y.kind = c.kind /\ y.tab = c.tab /\ c.tab # NoTab
            /\ y.as = c.as /\ y.cookie = c.cookie /\ y.csrf = c.csrf
            /\ y.answer = a /\ y.user = NoUser /\ y.token = NoToken
  BY <1>2, Nulls, AnswerReplaces
<1>4. SameTokens /\ session' \in [SessionIds -> Session]
  <2>1. session' = session \/ \E S : session' = EndSessions(S)
    BY DEF Perform, Refuse, change_password, revoke_session
  <2> QED
    BY <1>2, <2>1, NothingGiven, EndSessionsKeeps
<1>5. c.cookie \in SessionIds \cup {NoSession} /\ c.csrf \in Token
  BY <1>1, CallFields
<1>6. a = "ok" => c.kind # "me" /\ (c.kind \in Changes => c.cookie # NoSession /\ session[c.cookie].user = c.as)
  <2> SUFFICES ASSUME a = "ok" 
               PROVE  c.kind # "me" /\ (c.kind \in Changes =>
                                          c.cookie # NoSession /\ session[c.cookie].user = c.as)
    OBVIOUS
  <2>1. Perform(c) /\ c.kind # "me"
    BY DEF Perform, Refuse, Verdict, Changes
  <2>2. ASSUME c.kind \in Changes PROVE c.cookie # NoSession /\ session[c.cookie].user = c.as
    <3>1. LoggedIn(c) /\ verify_csrf(c)
      BY <2>1, <2>2 DEF Perform, Verdict
    <3>2. c.cookie \in SessionIds /\ Used(c.cookie) /\ c.csrf = session[c.cookie].csrf
      BY <1>1, <1>5, <3>1 DEF LoggedIn, verify_csrf, CallInv
    <3>3. c.csrf.session = c.cookie
      BY <3>2 DEF IInv, SessionInv
    <3> QED
      BY <1>1, <2>2, <3>2, <3>3, NullsType DEF CallInv, Issued
  <2> QED
    BY <2>1, <2>2
<1>7. a = "unauthenticated" => ~ LoggedIn(c)
  BY DEF Verdict
<1>8. a = "forbidden" => c.kind \in Changes /\ (c.csrf.session # c.cookie \/ c.cookie \in contested)
  <2>1. a = "forbidden" => LoggedIn(c) /\ c.kind \in Changes /\ ~ verify_csrf(c)
    BY DEF Verdict
  <2>2. c.kind \in Changes => c.csrf # NoToken
    BY <1>1, Nulls, NullsType DEF CallInv, Issued
  <2> QED
    BY <1>1, <2>1, <2>2 DEF verify_csrf, CallInv, Issued
<1>9. ASSUME NEW y \in Y PROVE CallInv(y)'
  <2>1. CallInv(y)
    BY <1>1, <1>2, <1>3, <1>6, <1>7, <1>8 DEF CallInv, Opens, LoggedIn, Changes
  <2>2. /\ \A u : Issued(y.csrf, u) => Issued(y.csrf, u)'
        /\ y.cookie \in SessionIds \cup {NoSession}
    BY <1>3, <1>4, <1>5 DEF SameTokens, Issued, Used
  <2>3. ~ Opens(y) /\ ~ Opens(y)'
    BY <1>1, <1>2, <1>3, <1>6 DEF Opens
  <2>4. LoggedIn(y)' => LoggedIn(y)
    BY <1>4, <2>1, <2>2 DEF CallInv, LoggedIn, SameTokens
  <2>5. y.cookie # NoSession => Used(y.cookie)' /\ session'[y.cookie].user = session[y.cookie].user
    BY <1>4, <2>1, <2>2 DEF CallInv, SameTokens, Used
  <2>6. contested' = contested
    BY <1>4 DEF SameTokens
  <2> QED
    BY <1>3, <2>1, <2>2, <2>3, <2>4, <2>5, <2>6 DEF CallInv
<1>10. \A m \in calls \ {c} : Asks(m) /\ m.cookie # NoSession =>
         \A y \in Y : y.tab = m.tab => m.cookie \notin {y.csrf.session, y.token.session}
  BY <1>3, Nulls DEF IInv, AskInv
<1>11. cookie' \in SessionIds \cup {NoSession} /\ (cookie' # NoSession => Used(cookie)')
       /\ faults' \in 0 .. MaxFaults
  BY <1>4 DEF IInv, TypeOK, Used, SameTokens
<1> QED
  BY <1>3, <1>4, <1>9, <1>10, <1>11, TabsKept, QuietStep

-----------------------------------------------------------------------------
(* Calls that give a token                                                 *)

LEMMA MeStep ==
    ASSUME IInv, NEW c \in calls, c.answer = "none", me(c),
           UNCHANGED <<cookie, tab, loads, faults>>
    PROVE  IInv'
<1>1. /\ c \in Call /\ CallInv(c) /\ AskInv(c) /\ c.kind = "me"
      /\ LoggedIn(c) /\ c \in Unserved
  BY DEF IInv, TypeOK, me, Verdict, Changes, Unserved
<1>2. PICK s \in SessionIds : s = c.cookie
  BY <1>1, CallFields DEF LoggedIn
<1>3. PICK next, Y : next = rotate_csrf(s) /\ Y = Answer(c, "ok", session[s].user, next)
  OBVIOUS
<1>4. /\ session[s] \in Session /\ session[s].user \in Users /\ session[s].live \in BOOLEAN
      /\ session[s].csrf.session = s /\ Used(s) /\ session[s].csrf.n \in Nat
      /\ session[s].csrf \in Token
  BY <1>1, <1>2, SessionFields DEF LoggedIn, IInv, CallInv, SessionInv
<1>5. /\ loads \in Nat /\ loads <= MaxLoads /\ MaxLoads \in Nat
      /\ \A x \in SessionIds : session[x].csrf.n \in Nat
      /\ \A x \in SessionIds : session[x].csrf.n + Cardinality(Unserved) <= loads + 1
  BY BoundsType, SessionFields DEF IInv, Counted, TypeOK
<1>6. next.session = s /\ next.n = session[s].csrf.n + 1
  BY <1>3, <1>4 DEF rotate_csrf, Token
<1>7. Cardinality(Unserved) \in Nat /\ Cardinality(Unserved) >= 1
  <2>1. IsFiniteSet(Unserved)
    BY FS_Subset DEF IInv, Counted, Unserved
  <2>2. Cardinality(Unserved) # 0
    BY <1>1, <2>1, FS_EmptySet
  <2> QED
    BY <2>1, <2>2, FS_CardinalityType
<1>8. next \in Token
  <2>1. next.n \in 0 .. MaxLoads + 1
    BY <1>4, <1>5, <1>6, <1>7
  <2> QED
    BY <1>3, <1>4, <1>6, <2>1 DEF rotate_csrf, Token
<1>9. /\ session' = [session EXCEPT ![s].csrf = next]
      /\ calls' = Answered(c, "ok", session[s].user, next)
      /\ contested' = IF \E t \in Tabs \ {c.tab} : ReliesOn(t, s)
                      THEN contested \cup {s} ELSE contested
  BY <1>2, <1>3 DEF me
<1>10. /\ Replaces(c, Y)
       /\ \A y \in Y :
             /\ y \in Call /\ y.kind = c.kind /\ y.tab = c.tab /\ c.tab # NoTab
             /\ y.as = c.as /\ y.cookie = c.cookie /\ y.csrf = c.csrf
             /\ y.answer = "ok" /\ y.user = session[s].user /\ y.token = next
  <2>1. "ok" \in Answers \ {"none"}
    BY DEF Answers
  <2>2. PICK who \in Users \cup {NoUser} : who = session[s].user
    BY <1>4
  <2> QED
    BY <1>3, <1>8, <1>9, <2>1, <2>2, AnswerReplaces
<1>11. /\ session' \in [SessionIds -> Session]
       /\ session'[s].user = session[s].user /\ session'[s].live = session[s].live
       /\ session'[s].csrf = next /\ session'[s] # Unused
       /\ \A x \in SessionIds \ {s} : session'[x] = session[x]
  <2> DEFINE row == [session[s] EXCEPT !.csrf = next]
  <2>1. /\ row \in Session /\ row.user = session[s].user /\ row.live = session[s].live
        /\ row.csrf = next
    BY <1>4, <1>8 DEF Session
  <2>2. session' = [session EXCEPT ![s] = row]
    BY <1>9
  <2> HIDE DEF row
  <2>3. row # Unused
    BY <1>4, <2>1, Nulls, NullsType
  <2> QED
    BY <2>1, <2>2, <2>3 DEF IInv, TypeOK
<1>12. Evolves
  BY <1>4, <1>9, <1>11 DEF Evolves, Used
<1>13. TokensKept
  <2> SUFFICES ASSUME NEW x, NEW u, Held(x), Issued(x, u) PROVE Issued(x, u)'
    BY DEF TokensKept
  <2>1. CASE x.session # s
    BY <1>9, <1>11, <2>1 DEF Issued, Used
  <2>2. CASE x.session = s /\ x # session[s].csrf
    BY <1>9, <1>11, <2>2 DEF Issued, Used
  <2>3. CASE x = session[s].csrf
    <3>1. \E t \in Tabs \ {c.tab} : ReliesOn(t, s)
      <4>1. x # NoToken
        BY <1>4, <2>3, Nulls, NullsType
      <4>2. ASSUME NEW t \in Tabs, x = tab[t].csrf PROVE t # c.tab
        BY <1>1, <1>2, <1>4, <2>3, <4>2, NullsType DEF AskInv, Asks
      <4>3. ASSUME NEW d \in calls, x = d.csrf \/ x = d.token PROVE d.tab \in Tabs \ {c.tab}
        <5>1. d.tab # NoTab
          BY <4>1, <4>3 DEF IInv, CallInv, Opens, Changes
        <5>2. d.tab # c.tab
          BY <1>1, <1>2, <1>4, <2>3, <4>3, <5>1, NullsType DEF AskInv, Asks
        <5> QED
          BY <5>1, <5>2, CallFields DEF IInv, TypeOK
      <4> QED
        BY <2>3, <4>2, <4>3 DEF Held, ReliesOn
    <3> QED
      BY <1>4, <1>9, <1>11, <2>3, <3>1 DEF Issued, Used
  <2> QED
    BY <1>4, <2>1, <2>2, <2>3
<1>14. \A x \in SessionIds : SessionInv(x)'
  BY <1>4, <1>6, <1>11 DEF IInv, SessionInv, Used
<1>15. (\A t \in Tabs : TabInv(t)') /\ tab' \in [Tabs -> Tab]
  BY <1>13 DEF IInv, TypeOK, TabInv, TokensKept, Held
<1>16. ASSUME NEW y \in Y PROVE y \in Call /\ CallInv(y)'
  <2>1. Issued(next, session[s].user)'
    BY <1>6, <1>11 DEF Issued, Used
  <2> QED
    BY <1>1, <1>2, <1>4, <1>10, <1>11, <2>1 DEF CallInv, Opens, Changes, Used
<1>17. ASSUME NEW m \in calls \ {c}, Asks(m), m.cookie # NoSession
       PROVE  /\ tab'[m.tab].csrf.session # m.cookie
              /\ \A y \in Y : y.tab # m.tab
  BY <1>1, <1>10, <1>17 DEF IInv, AskInv, OneQuestion, Asks
<1>18. ASSUME NEW x \in SessionIds
       PROVE  session'[x].csrf.n + Cardinality(Unserved') <= loads + 1
  <2>1. Cardinality(Unserved') \in Nat /\ Cardinality(Unserved') + 1 <= Cardinality(Unserved)
    BY <1>1, <1>10, UnservedShrinks
  <2>2. session'[x].csrf.n <= session[x].csrf.n + 1 /\ session'[x].csrf.n \in Nat
    BY <1>5, <1>6, <1>11
  <2> QED
    BY <1>5, <1>7, <2>1, <2>2
<1>19. /\ contested' \subseteq SessionIds
       /\ cookie' \in SessionIds \cup {NoSession} /\ (cookie' # NoSession => Used(cookie)')
       /\ faults' \in 0 .. MaxFaults
  BY <1>9, <1>12 DEF IInv, TypeOK, Used, Evolves
<1> QED
  BY <1>10, <1>11, <1>12, <1>13, <1>14, <1>15, <1>16, <1>17, <1>18, <1>19, ReplaceStep

LEMMA LoginStep ==
    ASSUME IInv, NEW c \in calls, c.answer = "none", login(c),
           UNCHANGED <<cookie, tab, loads, faults>>
    PROVE  IInv'
<1>1. c \in Call /\ CallInv(c) /\ c.kind = "login" /\ c.as \in Users
  BY DEF IInv, TypeOK, login, CallInv
<1>2. PICK s \in SessionIds :
        /\ ~ Used(s)
        /\ session' = [session EXCEPT ![s] = [user |-> c.as, live |-> TRUE,
                                              csrf |-> [session |-> s, n |-> 1]]]
        /\ calls' = Answered(c, "ok", c.as, [session |-> s, n |-> 1])
        /\ contested' = contested
  BY DEF login, Used
<1>3. PICK first, Y : first = [session |-> s, n |-> 1] /\ Y = Answer(c, "ok", c.as, first)
  OBVIOUS
<1>4. /\ loads \in Nat /\ MaxLoads \in Nat
      /\ \A x \in SessionIds : session[x].csrf.n \in Nat
      /\ \A x \in SessionIds : session[x].csrf.n + Cardinality(Unserved) <= loads + 1
      /\ Cardinality(Unserved) <= loads
  BY BoundsType, SessionFields DEF IInv, Counted, TypeOK
<1>5. first \in Token /\ first.session = s /\ first.n = 1
  BY <1>3, <1>4 DEF Token
<1>6. /\ Replaces(c, Y)
      /\ \A y \in Y :
            /\ y \in Call /\ y.kind = c.kind /\ y.tab = c.tab /\ c.tab # NoTab
            /\ y.as = c.as /\ y.cookie = c.cookie /\ y.csrf = c.csrf
            /\ y.answer = "ok" /\ y.user = c.as /\ y.token = first
  BY <1>1, <1>2, <1>3, <1>5, AnswerReplaces DEF Answers
<1>7. /\ session' \in [SessionIds -> Session]
      /\ session'[s].user = c.as /\ session'[s].csrf = first /\ session'[s] # Unused
      /\ \A x \in SessionIds \ {s} : session'[x] = session[x]
  <2> DEFINE row == [user |-> c.as, live |-> TRUE, csrf |-> first]
  <2>1. row \in Session /\ row.user = c.as /\ row.csrf = first
    BY <1>1, <1>5 DEF Session
  <2>2. session' = [session EXCEPT ![s] = row]
    BY <1>2, <1>3
  <2> HIDE DEF row
  <2>3. row # Unused
    BY <1>1, <2>1, Nulls, NullsType
  <2> QED
    BY <2>1, <2>2, <2>3 DEF IInv, TypeOK
<1>8. Evolves
  BY <1>2, <1>7 DEF Evolves, Used
<1>9. TokensKept
  BY <1>2, <1>7 DEF TokensKept, Issued, Used
<1>10. \A x \in SessionIds : SessionInv(x)'
  BY <1>1, <1>5, <1>7 DEF IInv, SessionInv, Used
<1>11. (\A t \in Tabs : TabInv(t)') /\ tab' \in [Tabs -> Tab]
  BY <1>9 DEF IInv, TypeOK, TabInv, TokensKept, Held
<1>12. ASSUME NEW y \in Y PROVE y \in Call /\ CallInv(y)'
  <2>1. Issued(first, c.as)'
    BY <1>5, <1>7 DEF Issued, Used
  <2>2. c.cookie \in SessionIds \cup {NoSession}
    BY <1>1, CallFields
  <2>3. c.cookie # NoSession => Used(c.cookie)'
    BY <1>1, <1>8, <2>2 DEF CallInv, Evolves, Used
  <2> QED
    BY <1>1, <1>6, <2>1, <2>3 DEF CallInv, Opens, Changes
<1>13. ASSUME NEW m \in calls \ {c}, Asks(m), m.cookie # NoSession
       PROVE  /\ tab'[m.tab].csrf.session # m.cookie
              /\ \A y \in Y : y.tab = m.tab => m.cookie \notin {y.csrf.session, y.token.session}
  <2>1. AskInv(m) /\ Used(m.cookie)
    BY <1>13 DEF IInv, CallInv
  <2> QED
    BY <1>2, <1>5, <1>6, <1>13, <2>1 DEF AskInv
<1>14. ASSUME NEW x \in SessionIds
       PROVE  session'[x].csrf.n + Cardinality(Unserved') <= loads + 1
  <2>1. /\ Cardinality(Unserved') \in Nat /\ Cardinality(Unserved) \in Nat
        /\ Cardinality(Unserved') <= Cardinality(Unserved)
    BY <1>6, UnservedShrinks
  <2>2. session'[x].csrf.n = IF x = s THEN 1 ELSE session[x].csrf.n
    BY <1>5, <1>7
  <2> QED
    BY <1>4, <2>1, <2>2
<1>15. /\ contested' \subseteq SessionIds
       /\ cookie' \in SessionIds \cup {NoSession} /\ (cookie' # NoSession => Used(cookie)')
       /\ faults' \in 0 .. MaxFaults
  BY <1>2, <1>8 DEF IInv, TypeOK, Used, Evolves
<1> QED
  BY <1>6, <1>7, <1>8, <1>9, <1>10, <1>11, <1>12, <1>13, <1>14, <1>15, ReplaceStep

-----------------------------------------------------------------------------
(* Sessions that end, answers that are lost or taken                       *)

LEMMA EndStep == ASSUME IInv, NEW s \in SessionIds, SessionEnds(s) PROVE IInv'
<1>1. /\ session' = EndSessions({s}) /\ UNCHANGED <<cookie, tab, calls, loads, contested>>
      /\ faults' \in 0 .. MaxFaults
  BY BoundsType DEF SessionEnds, IInv, TypeOK
<1>2. SameTokens /\ session' \in [SessionIds -> Session]
  BY <1>1, EndSessionsKeeps
<1>3. PICK c, Y : c \notin calls /\ Y = {}
  BY NoSetContainsEverything
<1>4. Replaces(c, Y)
  BY <1>1, <1>3 DEF Replaces
<1>5. cookie' \in SessionIds \cup {NoSession} /\ (cookie' # NoSession => Used(cookie)')
  BY <1>1, <1>2 DEF IInv, TypeOK, Used, SameTokens
<1>6. /\ \A t \in Tabs : TabInv(t)'
      /\ tab' \in [Tabs -> Tab]
      /\ \A m \in calls : Asks(m) /\ m.cookie # NoSession =>
            tab'[m.tab].csrf.session # m.cookie
  BY <1>1, <1>2, TabsKept
<1>7. loads' = loads /\ faults' \in 0 .. MaxFaults
  BY <1>1
<1> QED
  BY <1>2, <1>3, <1>4, <1>5, <1>6, <1>7, QuietStep

(* The browser's cookie is one that was given, whatever answer it takes.   *)
LEMMA CookieTaken ==
    ASSUME IInv, NEW c \in calls, NEW k \in {cookie, CookieAfter(c)}
    PROVE  k \in SessionIds \cup {NoSession} /\ (k # NoSession => Used(k))
<1>1. c \in Call /\ CallInv(c)
  BY DEF IInv, TypeOK
<1>2. CASE c.answer = "ok" /\ c.kind = "login"
  <2>1. Opens(c) /\ Issued(c.token, c.user)
    BY <1>1, <1>2 DEF Opens, CallInv
  <2> QED
    BY <1>2, <2>1 DEF CookieAfter, Issued, Used, IInv, TypeOK
<1> QED
  BY <1>2 DEF CookieAfter, IInv, TypeOK

LEMMA LoseStep == ASSUME IInv, NEW c \in calls, Lose(c) PROVE IInv'
<1> PICK y : y = [c EXCEPT !.answer = "lost", !.user = NoUser, !.token = NoToken]
  OBVIOUS
<1>1. /\ c.tab # NoTab /\ calls' = (calls \ {c}) \cup {y} /\ faults' \in 0 .. MaxFaults
      /\ cookie' \in {cookie, CookieAfter(c)} /\ UNCHANGED <<session, tab, loads, contested>>
  BY BoundsType DEF Lose, IInv, TypeOK
<1>2. c \in Call /\ CallInv(c)
  BY DEF IInv, TypeOK
<1>3. /\ y \in Call /\ y.kind = c.kind /\ y.tab = c.tab /\ y.as = c.as /\ y.cookie = c.cookie
      /\ y.csrf = c.csrf /\ y.answer = "lost" /\ y.token = NoToken
  BY <1>2, Nulls DEF Call, Answers
<1> PICK Y : Y = {y}
  OBVIOUS
<1>4. Replaces(c, Y)
  BY <1>1, <1>3 DEF Replaces
<1>5. SameTokens /\ session' \in [SessionIds -> Session]
  BY <1>1, NothingGiven
<1>6. CallInv(y)
  BY <1>1, <1>2, <1>3 DEF CallInv, Opens
<1>7. CallInv(y)'
  BY <1>1, <1>6 DEF CallInv, Issued, Used, LoggedIn
<1>8. ASSUME NEW m \in calls \ {c}, Asks(m), m.cookie # NoSession
      PROVE  \A z \in Y : z.tab = m.tab => m.cookie \notin {z.csrf.session, z.token.session}
  <2>1. AskInv(m) /\ m.cookie # NoToken.session
    BY <1>8, Nulls DEF IInv
  <2>2. y.tab = m.tab => m.cookie \notin {y.csrf.session, y.token.session}
    BY <1>3, <1>8, <2>1 DEF AskInv
  <2> QED
    BY <2>2
<1>9. cookie' \in SessionIds \cup {NoSession} /\ (cookie' # NoSession => Used(cookie)')
  BY <1>1, CookieTaken DEF Used
<1>10. /\ \A t \in Tabs : TabInv(t)'
       /\ tab' \in [Tabs -> Tab]
       /\ \A m \in calls : Asks(m) /\ m.cookie # NoSession =>
             tab'[m.tab].csrf.session # m.cookie
  BY <1>1, <1>5, TabsKept
<1>11. loads' = loads /\ \A z \in Y : z \in Call /\ CallInv(z)'
  BY <1>1, <1>3, <1>7
<1> QED
  BY <1>1, <1>4, <1>5, <1>8, <1>9, <1>10, <1>11, QuietStep

(* The tab keeps what it shows, goes to the login page, or shows what the  *)
(* answer says; it may go on to load a view.                               *)
LEMMA AnswerTaken ==
    ASSUME IInv, NEW c \in calls, NEW x \in Tab, NEW Y, c.tab # NoTab,
           UNCHANGED <<session, loads, faults, contested>>,
           tab' = [tab EXCEPT ![c.tab] = x],
           \/ x = tab[c.tab]
           \/ x = LoginPage
           \/ Opens(c) /\ x.user = c.user /\ x.csrf = c.token,
           cookie' \in SessionIds \cup {NoSession}, cookie' # NoSession => session[cookie'] # Unused,
           calls' = (calls \ {c}) \cup Y, \A y, z \in Y : y = z,
           \A y \in Y : /\ y \in Call /\ y.kind = "read" /\ y.tab = c.tab /\ y.cookie = cookie'
                        /\ y.answer = "none" /\ y.csrf = NoToken /\ y.token = NoToken
    PROVE  IInv'
<1>1. c \in Call /\ CallInv(c) /\ c.tab \in Tabs
  BY CallFields DEF IInv, TypeOK
<1>2. SameTokens /\ session' \in [SessionIds -> Session]
  BY NothingGiven
<1>3. Replaces(c, Y)
  BY DEF Replaces
<1>4. tab' \in [Tabs -> Tab] /\ tab'[c.tab] = x /\ \A t \in Tabs \ {c.tab} : tab'[t] = tab[t]
  BY <1>1 DEF IInv, TypeOK
<1>5. \A t \in Tabs : TabInv(t)'
  <2>1. \A z, u : Issued(z, u) => Issued(z, u)'
    BY DEF Issued, Used
  <2>2. \A t \in Tabs \ {c.tab} : TabInv(t)'
    BY <1>4, <2>1 DEF IInv, TabInv
  <2>3. TabInv(c.tab) /\ (Opens(c) => c.user \in Users /\ Issued(c.token, c.user))
    BY <1>1 DEF IInv, CallInv
  <2>4. x = LoginPage \/ (x.user \in Users /\ Issued(x.csrf, x.user)')
    BY <2>1, <2>3 DEF TabInv
  <2>5. PICK t \in Tabs : t = c.tab
    BY <1>1
  <2>6. TabInv(t)'
    BY <1>4, <2>4, <2>5 DEF TabInv
  <2> QED
    BY <2>2, <2>5, <2>6
<1>6. \A y \in Y : y \in Call /\ CallInv(y)'
  BY <1>1 DEF CallInv, Opens, Changes, Used
<1>7. ASSUME NEW m \in calls \ {c}, Asks(m), m.cookie # NoSession
      PROVE  /\ tab'[m.tab].csrf.session # m.cookie
             /\ \A y \in Y : y.tab = m.tab => m.cookie \notin {y.csrf.session, y.token.session}
  <2>1. AskInv(m) /\ m.tab \in Tabs
    BY <1>7, CallFields DEF IInv, TypeOK, Asks
  <2>2. m.cookie # NoToken.session /\ LoginPage.csrf = NoToken
    BY <1>7, Nulls
  <2>3. tab'[m.tab].csrf.session # m.cookie
    BY <1>4, <1>7, <2>1, <2>2 DEF AskInv
  <2> QED
    BY <2>2, <2>3
<1>8. faults' \in 0 .. MaxFaults /\ (cookie' # NoSession => Used(cookie)')
  BY DEF IInv, TypeOK, Used
<1> QED
  BY <1>2, <1>3, <1>4, <1>5, <1>6, <1>7, <1>8, QuietStep

LEMMA ReceiveStep == ASSUME IInv, NEW c \in calls, Receive(c) PROVE IInv'
<1>1. /\ c \in Call /\ CallInv(c) /\ c.tab # NoTab /\ c.tab \in Tabs /\ c.answer # "none"
      /\ UNCHANGED <<session, loads, faults, contested>>
  BY CallFields DEF Receive, IInv, TypeOK
<1>0. tab[c.tab] \in Tab /\ tab = [tab EXCEPT ![c.tab] = tab[c.tab]]
  BY <1>1 DEF IInv, TypeOK
<1>2. /\ cookie \in SessionIds \cup {NoSession} /\ (cookie # NoSession => Used(cookie))
      /\ NoSession \in SessionIds \cup {NoSession}
  BY DEF IInv, TypeOK
<1>3. CASE Restored(c)
  <2>1. Opens(c) /\ c.user \in Users /\ c.token \in Token /\ Issued(c.token, c.user)
    BY <1>1, <1>3, CallFields DEF Restored, Opens, CallInv
  <2>0. PICK x, k, y, Y :
                     /\ x = [user |-> c.user, csrf |-> c.token] /\ k = cookie'
                     /\ y = [CallOf("read", c.tab, NoUser) EXCEPT !.cookie = cookie'] /\ Y = {y}
    OBVIOUS
  <2>2. x \in Tab /\ x.user = c.user /\ x.csrf = c.token
    BY <2>0, <2>1 DEF Tab
  <2>3. k \in SessionIds \cup {NoSession} /\ (k # NoSession => session[k] # Unused)
    BY <1>3, <2>0, CookieTaken DEF Restored, Used
  <2>4. /\ y \in Call /\ y.kind = "read" /\ y.tab = c.tab /\ y.cookie = k
        /\ y.answer = "none" /\ y.csrf = NoToken /\ y.token = NoToken
    <3> DEFINE z == CallOf("read", c.tab, NoUser)
    <3>1. /\ z \in Call /\ z.kind = "read" /\ z.tab = c.tab
          /\ z.answer = "none" /\ z.csrf = NoToken /\ z.token = NoToken
      BY <1>1, CallOfFields DEF IInv, Kinds, Changes
    <3> HIDE DEF z
    <3>2. y = [z EXCEPT !.cookie = k]
      BY <2>0 DEF z
    <3> QED
      BY <2>3, <3>1, <3>2 DEF Call
  <2>5. calls' = (calls \ {c}) \cup Y /\ tab' = [tab EXCEPT ![c.tab] = x]
    BY <1>3, <2>0 DEF Restored, FirstView
  <2>6. /\ \A z, w \in Y : z = w
        /\ \A z \in Y : /\ z \in Call /\ z.kind = "read" /\ z.tab = c.tab /\ z.cookie = cookie'
                         /\ z.answer = "none" /\ z.csrf = NoToken /\ z.token = NoToken
    BY <2>0, <2>4
  <2>7. cookie' \in SessionIds \cup {NoSession} /\ (cookie' # NoSession => session[cookie'] # Unused)
    BY <2>0, <2>3
  <2> QED
    BY <1>1, <2>1, <2>2, <2>5, <2>6, <2>7, AnswerTaken
<1>4. ASSUME calls' = calls \ {c}, tab' = tab \/ showLogin(c.tab),
             cookie' \in {cookie, CookieAfter(c)}
      PROVE  IInv'
  <2>0. PICK Y : Y = {}
    OBVIOUS
  <2>1. PICK x \in Tab : tab' = [tab EXCEPT ![c.tab] = x] /\ (x = tab[c.tab] \/ x = LoginPage)
    BY <1>0, <1>1, <1>4, Nulls DEF showLogin
  <2>2. /\ calls' = (calls \ {c}) \cup Y
        /\ \A z, w \in Y : z = w
        /\ \A z \in Y : /\ z \in Call /\ z.kind = "read" /\ z.tab = c.tab /\ z.cookie = cookie'
                         /\ z.answer = "none" /\ z.csrf = NoToken /\ z.token = NoToken
    BY <1>4, <2>0
  <2>3. cookie' \in SessionIds \cup {NoSession} /\ (cookie' # NoSession => session[cookie'] # Unused)
    BY <1>4, CookieTaken DEF Used
  <2> QED
    BY <1>1, <2>1, <2>2, <2>3, AnswerTaken
<1>5. CASE NotRestored(c)
  BY <1>4, <1>5 DEF NotRestored
<1>6. CASE Loaded(c)
  BY <1>4, <1>6 DEF Loaded
<1>7. CASE Reported(c)
  <2>1. CASE calls' = calls \ {c}
    BY <1>4, <1>7, <2>1 DEF Reported
  <2>2. CASE calls' = (calls \ {c}) \cup {CallOf("read", c.tab, NoUser)}
    <3>0. PICK y, Y : y = CallOf("read", c.tab, NoUser) /\ Y = {y}
      OBVIOUS
    <3>1. /\ y \in Call /\ y.kind = "read" /\ y.tab = c.tab /\ y.cookie = cookie
          /\ y.answer = "none" /\ y.csrf = NoToken /\ y.token = NoToken
      BY <1>1, <3>0, CallOfFields DEF IInv, Kinds, Changes
    <3>2. cookie' = cookie /\ tab' = [tab EXCEPT ![c.tab] = tab[c.tab]]
      BY <1>0, <1>1, <1>7 DEF Reported
    <3>3. /\ \A z, w \in Y : z = w
          /\ \A z \in Y : /\ z \in Call /\ z.kind = "read" /\ z.tab = c.tab /\ z.cookie = cookie'
                           /\ z.answer = "none" /\ z.csrf = NoToken /\ z.token = NoToken
      BY <3>0, <3>1, <3>2
    <3>4. cookie' \in SessionIds \cup {NoSession} /\ (cookie' # NoSession => session[cookie'] # Unused)
      BY <1>2, <3>2 DEF Used
    <3>5. calls' = (calls \ {c}) \cup Y
      BY <2>2, <3>0
    <3>6. PICK x \in Tab : x = tab[c.tab]
      BY <1>0
    <3> QED
      BY <1>1, <3>2, <3>3, <3>4, <3>5, <3>6, AnswerTaken
  <2> QED
    BY <1>7, <2>1, <2>2 DEF Reported
<1>8. CASE logout(c)
  BY <1>4, <1>8 DEF logout
<1> QED
  BY <1>3, <1>5, <1>6, <1>7, <1>8 DEF Receive

-----------------------------------------------------------------------------
(* A page that is loaded                                                   *)

(* What becomes of a question when tab t is loaded again. *)
Orphan(c, t) == IF c.tab = t THEN [c EXCEPT !.tab = NoTab] ELSE c

LEMMA LoadStep == ASSUME IInv, NEW t \in Tabs, restoreSession(t) PROVE IInv'
<1>1. PICK new, kept, orphans :
        /\ new = CallOf("me", t, NoUser)
        /\ kept = {c \in calls : c.tab # t}
        /\ orphans = {Orphan(c, t) : c \in {d \in Unserved : d.tab = t}}
  OBVIOUS
<1>2. /\ calls' = kept \cup orphans \cup {new}
      /\ loads < MaxLoads /\ loads' = loads + 1 /\ tab' = [tab EXCEPT ![t] = LoginPage]
      /\ UNCHANGED <<session, cookie, faults, contested>>
  <2>1. orphans = {[c EXCEPT !.tab = NoTab] :
                      c \in {c \in {d \in calls : d.tab = t} : c.answer = "none" /\ c.kind = "me"}}
    BY <1>1 DEF Orphan, Unserved
  <2>2. kept = calls \ {d \in calls : d.tab = t}
    BY <1>1
  <2> QED
    BY <1>1, <2>1, <2>2 DEF restoreSession
<1>3. /\ new \in Call /\ new.kind = "me" /\ new.tab = t /\ new.cookie = cookie
      /\ new.csrf = NoToken /\ new.token = NoToken /\ new.answer = "none"
  BY <1>1, CallOfFields DEF IInv, Kinds, Changes
<1>4. ASSUME NEW o \in orphans
      PROVE  \E c \in calls :
                /\ o \in Call /\ c.kind = "me" /\ o.kind = "me" /\ c.answer = "none" /\ o.answer = "none"
                /\ o.tab = NoTab /\ o.cookie = c.cookie /\ o.csrf = c.csrf /\ o.token = c.token
  <2>1. PICK c \in calls : c.kind = "me" /\ c.answer = "none" /\ c.tab = t /\ o = Orphan(c, t)
    BY <1>1, <1>4 DEF Unserved
  <2>2. c \in Call /\ o = [c EXCEPT !.tab = NoTab]
    BY <2>1 DEF IInv, TypeOK, Orphan
  <2> QED
    BY <2>1, <2>2 DEF Call
<1>5. TypeOK'
  <2>1. loads' \in 0 .. MaxLoads
    BY <1>2, BoundsType DEF IInv, TypeOK
  <2>2. calls' \subseteq Call
    BY <1>1, <1>2, <1>3, <1>4 DEF IInv, TypeOK
  <2> QED
    BY <1>2, <2>1, <2>2, Nulls DEF IInv, TypeOK
<1>6. /\ \A x, u : Issued(x, u)' <=> Issued(x, u)
      /\ \A s : Used(s)' <=> Used(s)
      /\ \A c : LoggedIn(c)' <=> LoggedIn(c)
  BY <1>2 DEF Issued, Used, LoggedIn
<1>7. \A s \in SessionIds : SessionInv(s)'
  BY <1>2 DEF IInv, SessionInv, Used
<1>8. tab'[t] = LoginPage /\ \A x \in Tabs \ {t} : tab'[x] = tab[x]
  BY <1>2 DEF IInv, TypeOK
<1>9. \A x \in Tabs : TabInv(x)'
  BY <1>6, <1>8 DEF IInv, TabInv
<1>10. ASSUME NEW d \in calls' PROVE CallInv(d)'
  <2>1. CASE d \in kept
    BY <1>1, <1>2, <1>6, <2>1 DEF IInv, CallInv
  <2>2. CASE d \in orphans
    BY <1>4, <1>6, <2>2 DEF IInv, CallInv, Opens, Changes
  <2>3. CASE d = new
    BY <1>3, <1>6, <2>3, NullsType DEF IInv, CallInv, Opens, Changes
  <2> QED
    BY <1>2, <2>1, <2>2, <2>3
<1>11. \A d \in calls' : d.tab = t => d = new
  BY <1>1, <1>2, <1>4, NullsType
<1>12. \A d \in calls' : d.tab # t /\ d.tab # NoTab => d \in kept
  BY <1>2, <1>3, <1>4
<1>13. ASSUME NEW m \in calls' PROVE AskInv(m)'
  <2> SUFFICES ASSUME Asks(m), m.cookie # NoSession
               PROVE  /\ tab'[m.tab].csrf.session # m.cookie
                      /\ \A d \in calls' : d.tab = m.tab =>
                            m.cookie \notin {d.csrf.session, d.token.session}
    BY DEF AskInv, Asks
  <2>1. CASE m.tab = t
    BY <1>3, <1>8, <1>11, <2>1, Nulls
  <2>2. CASE m.tab # t
    <3>1. m \in kept /\ m \in calls /\ m.tab \in Tabs /\ AskInv(m)
      BY <1>1, <1>12, <2>2, CallFields DEF Asks, IInv, TypeOK
    <3>2. \A d \in calls' : d.tab = m.tab => d \in calls
      BY <1>1, <1>12, <2>2 DEF Asks
    <3> QED
      BY <1>8, <2>2, <3>1, <3>2 DEF AskInv
  <2> QED
    BY <2>1, <2>2
<1>14. OneQuestion'
  <2> SUFFICES ASSUME NEW m \in calls', NEW d \in calls', m.kind = "me", d.kind = "me",
                      m.tab = d.tab, m.tab # NoTab
               PROVE  m = d
    BY DEF OneQuestion
  <2>1. CASE m.tab = t
    BY <1>11, <2>1
  <2>2. CASE m.tab # t
    BY <1>1, <1>12, <2>2 DEF IInv, OneQuestion
  <2> QED
    BY <2>1, <2>2
<1>15. Counted'
  <2>1. IsFiniteSet(calls) /\ IsFiniteSet(Unserved) /\ Cardinality(Unserved) \in Nat
    BY FS_Subset, FS_CardinalityType DEF IInv, Counted, Unserved
  <2> DEFINE T == {Orphan(c, t) : c \in Unserved}
             f == [c \in Unserved |-> Orphan(c, t)]
  <2>2. f \in Surjection(Unserved, T)
    BY DEF Surjection
  <2>3. IsFiniteSet(T) /\ Cardinality(T) <= Cardinality(Unserved) /\ Cardinality(T) \in Nat
    BY <2>1, <2>2, FS_Surjection, FS_CardinalityType
  <2>4. orphans \subseteq T
    BY <1>1
  <2>5. Unserved' \subseteq T \cup {new}
    <3> SUFFICES ASSUME NEW d \in kept, d \in Unserved' PROVE d \in T
      BY <1>2, <2>4 DEF Unserved
    <3>1. d \in Unserved /\ Orphan(d, t) = d
      BY <1>1 DEF Unserved, Orphan
    <3> QED
      BY <3>1
  <2> HIDE DEF T
  <2>6. /\ IsFiniteSet(T \cup {new}) /\ Cardinality(T \cup {new}) <= Cardinality(T) + 1
        /\ Cardinality(T \cup {new}) \in Nat
    <3>1. /\ IsFiniteSet(T \cup {new})
          /\ Cardinality(T \cup {new}) = IF new \in T THEN Cardinality(T) ELSE Cardinality(T) + 1
      BY <2>3, FS_AddElement
    <3>2. Cardinality(T \cup {new}) \in Nat
      BY <3>1, FS_CardinalityType
    <3> QED
      BY <2>3, <3>1, <3>2
  <2>7. /\ Cardinality(Unserved') \in Nat
        /\ Cardinality(Unserved') <= Cardinality(Unserved) + 1
    <3>1. /\ IsFiniteSet(Unserved')
          /\ Cardinality(Unserved') <= Cardinality(T \cup {new})
      BY <2>5, <2>6, FS_Subset
    <3>2. Cardinality(Unserved') \in Nat
      BY <3>1, FS_CardinalityType
    <3> QED
      BY <2>1, <2>3, <2>6, <3>1, <3>2
  <2>8. IsFiniteSet(calls')
    <3>1. IsFiniteSet(kept) /\ IsFiniteSet(orphans)
      BY <1>1, <2>1, <2>3, <2>4, FS_Subset
    <3>2. IsFiniteSet(kept \cup orphans)
      BY <3>1, FS_Union
    <3> QED
      BY <1>2, <3>2, FS_AddElement
  <2>9. loads \in Nat /\ \A s \in SessionIds : session[s].csrf.n \in Nat
    BY SessionFields, BoundsType DEF IInv, TypeOK
  <2>10. Cardinality(Unserved') <= loads'
    BY <1>2, <2>1, <2>7, <2>9 DEF IInv, Counted
  <2>11. ASSUME NEW s \in SessionIds
         PROVE  session'[s].csrf.n + Cardinality(Unserved') <= loads' + 1
    <3>1. session[s].csrf.n + Cardinality(Unserved) <= loads + 1 /\ session'[s] = session[s]
      BY <1>2 DEF IInv, Counted
    <3> QED
      BY <1>2, <2>1, <2>7, <2>9, <3>1
  <2> QED
    BY <2>8, <2>10, <2>11 DEF Counted
<1>16. cookie' # NoSession => Used(cookie)'
  BY <1>2 DEF IInv, Used
<1> QED
  BY <1>5, <1>7, <1>9, <1>10, <1>13, <1>14, <1>15, <1>16 DEF IInv

-----------------------------------------------------------------------------
(* The invariant holds initially and every step keeps it                   *)

LEMMA InvInit == Init => IInv
<1> SUFFICES ASSUME Init PROVE IInv
  OBVIOUS
<1>1. TypeOK
  BY Nulls, BoundsType DEF Init, TypeOK
<1>2. Counted
  <2>1. Unserved = {}
    BY DEF Init, Unserved
  <2> QED
    BY <2>1, Nulls, FS_EmptySet DEF Init, Counted
<1> QED
  BY <1>1, <1>2 DEF Init, IInv, SessionInv, Used, TabInv, OneQuestion

LEMMA InvNext == IInv /\ [Next]_vars => IInv'
<1> SUFFICES ASSUME IInv, [Next]_vars PROVE IInv'
  OBVIOUS
<1>1. CASE UNCHANGED vars
  <2>1. Unserved' = Unserved /\ UNCHANGED vars
    BY <1>1 DEF vars, Unserved
  <2> QED
    BY <2>1 DEF vars, IInv, TypeOK, SessionInv, Used, TabInv, Issued, CallInv, Opens, LoggedIn,
       AskInv, Asks, OneQuestion, Counted
<1>2. ASSUME NEW t \in Tabs, Use(t) PROVE IInv'
  <2>1. CASE loadView(t)
    BY <2>1, SendStep DEF loadView, Kinds, Changes
  <2>2. ASSUME NEW u \in Users, handleLogin(t, u) PROVE IInv'
    BY <2>2, SendStep DEF handleLogin, Kinds, Changes
  <2>3. ASSUME NEW kind \in Changes, SendChange(t, kind) PROVE IInv'
    <3>1. PICK u \in Users \cup {NoUser} : u = tab[t].user
      BY TabFields DEF IInv
    <3> QED
      BY <2>3, <3>1, SendStep DEF SendChange, Kinds, Changes
  <2> QED
    BY <1>2, <2>1, <2>2, <2>3, LoadStep DEF Use
<1>3. ASSUME NEW c \in calls, Serve(c) PROVE IInv'
  BY <1>3, MeStep, LoginStep, ServeQuietly DEF Serve
<1> QED
  BY <1>1, <1>2, <1>3, ReceiveStep, LoseStep, EndStep DEF Next

(* The invariant is inductive: it holds in every state of every behaviour  *)
(* of the tabs and the service.                                            *)
THEOREM Invariance == Spec => []IInv
<1>1. Init => IInv
  BY InvInit
<1>2. IInv /\ [Next]_vars => IInv'
  BY InvNext
<1> QED
  BY <1>1, <1>2, PTL DEF Spec

(* Type correctness: tabs, calls and sessions keep their types, and a      *)
(* session has no more tokens than pages were loaded.                      *)
THEOREM TypeCorrect == Spec => []TypeOK
<1>1. IInv => TypeOK
  BY DEF IInv
<1> QED
  BY <1>1, Invariance, PTL

(* A change is made in the name of the user whom the tab showed, whatever  *)
(* cookie the other tabs had put in place by then.                         *)
THEOREM ChangesAsShownHolds == Spec => []ChangesAsShown
<1>1. IInv => ChangesAsShown
  BY DEF IInv, CallInv, ChangesAsShown
<1> QED
  BY <1>1, Invariance, PTL

(* A change is refused for its token only when it is of another session    *)
(* than the cookie, or when the token was replaced for another page.       *)
THEOREM RefusedOnlyIfContestedHolds == Spec => []RefusedOnlyIfContested
<1>1. IInv => RefusedOnlyIfContested
  BY DEF IInv, CallInv, RefusedOnlyIfContested
<1> QED
  BY <1>1, Invariance, PTL

(* A tab leaves the application only when it is loaded, logs out, asks     *)
(* first of all who is logged in, or learns that its session is over.      *)
THEOREM LeavesAppWhenOverHolds == Spec => LeavesAppWhenOver
<1>1. ASSUME IInv, [Next]_vars, NEW t \in Tabs, tab[t].user # NoUser, tab'[t].user = NoUser,
             loads' = loads
      PROVE  \E c \in calls \ calls' :
                /\ c.tab = t
                /\ c.kind \in {"me", "logout"} \/ ~ LoggedIn(c)
  <2>1. tab \in [Tabs -> Tab] /\ tab' # tab
    BY <1>1 DEF IInv, TypeOK
  <2>2. PICK c \in calls : Receive(c)
    <3>1. ASSUME NEW c \in calls, Serve(c) PROVE tab' = tab
      BY <3>1 DEF Serve
    <3>2. ASSUME NEW c \in calls, Lose(c) PROVE tab' = tab
      BY <3>2 DEF Lose
    <3>3. ASSUME NEW s \in SessionIds, SessionEnds(s) PROVE tab' = tab
      BY <3>3 DEF SessionEnds
    <3>4. ASSUME NEW x \in Tabs, Use(x) PROVE tab' = tab
      <4>1. ~ restoreSession(x)
        BY <1>1, BoundsType DEF restoreSession, IInv, TypeOK
      <4> QED
        BY <3>4, <4>1 DEF Use, loadView, handleLogin, SendChange, Send
    <3> QED
      BY <1>1, <2>1, <3>1, <3>2, <3>3, <3>4 DEF Next, vars
  <2>3. c \in Call /\ CallInv(c) /\ c.answer # "none"
    BY <1>1, <2>2 DEF IInv, TypeOK, Receive
  <2>4. CASE Restored(c)
    <3>1. Opens(c) /\ c.user \in Users
      BY <2>3, <2>4 DEF Restored, Opens, CallInv
    <3>2. tab'[t].user = tab[t].user \/ tab'[t].user = c.user
      BY <2>1, <2>4 DEF Restored
    <3> QED
      BY <1>1, <3>1, <3>2, NullsType
  <2>5. ASSUME showLogin(c.tab) PROVE c.tab = t
    BY <1>1, <2>1, <2>5 DEF showLogin
  <2>6. CASE NotRestored(c)
    BY <2>5, <2>6 DEF NotRestored
  <2>7. CASE Loaded(c)
    <3>1. HidesApp(c) /\ showLogin(c.tab)
      BY <2>1, <2>7 DEF Loaded
    <3>2. ~ LoggedIn(c)
      BY <2>3, <3>1 DEF HidesApp, CallInv
    <3> QED
      BY <2>5, <2>7, <3>1, <3>2 DEF Loaded
  <2>8. CASE Reported(c)
    BY <2>1, <2>8 DEF Reported
  <2>9. CASE logout(c)
    BY <2>5, <2>9 DEF logout
  <2> QED
    BY <2>2, <2>4, <2>6, <2>7, <2>8, <2>9 DEF Receive
<1>2. IInv /\ [Next]_vars =>
        [\A t \in Tabs : tab[t].user # NoUser /\ tab'[t].user = NoUser =>
            \/ loads' # loads
            \/ \E c \in calls \ calls' :
                  /\ c.tab = t
                  /\ c.kind \in {"me", "logout"} \/ ~ LoggedIn(c)]_vars
  BY <1>1
<1> QED
  BY <1>2, Invariance, PTL DEF Spec, LeavesAppWhenOver
=============================================================================
