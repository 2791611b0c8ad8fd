-------------------------- MODULE WebSessionsProofs --------------------------
(***************************************************************************)
(* Theorems about WebSessions for every number of users, threads and       *)
(* sessions, and every bound.                                              *)
(***************************************************************************)
EXTENDS WebSessions, FiniteSetTheorems, TLAPS

-----------------------------------------------------------------------------
(* The invariant                                                           *)

(* Nobody's request is about a user who does not exist, except one that is *)
(* about to create him.                                                    *)
KnowsUser(t) ==
    /\ ~ At(t, "idle") => job[t].user \in Users
    /\ job[t].pc \notin {"idle", "registering"} => Registered(job[t].user)

(* A login read the account while it was active; if it was never disabled  *)
(* since, it still is.                                                     *)
ReadWhileActive(t) ==
    At(t, "creating") =>
        LET now == user[job[t].user] IN
        /\ job[t].read.disables <= now.disables
        /\ job[t].read.disables = now.disables => now.status = "active"

OwnSession(t) ==
    job[t].pc \in {"loaded", "acting", "changing"} =>
        /\ job[t].session \in SessionIds /\ Exists(job[t].session)
        /\ session[job[t].session].user = job[t].user

(* Between its UPDATE of the sessions and its commit, a request that ends  *)
(* them has matched all there are, but for its own and those whose login   *)
(* it overtook.                                                            *)
Matched(t) ==
    /\ At(t, "disabling") => job[t].wanted = "disabled"
    /\ job[t].pc \in {"changing", "disabling"} =>
        \A s \in SessionIds :
            Live(s) /\ session[s].user = job[t].user =>
                \/ s \in job[t].found
                \/ session[s].raced
                \/ At(t, "changing") /\ s = job[t].session

JobInv(t) == KnowsUser(t) /\ ReadWhileActive(t) /\ OwnSession(t) /\ Matched(t)

(* One of four: the name is free, its creator is about to be told the      *)
(* password, was told it, or never will be.                                *)
Telling(u) == {t \in Threads : At(t, "telling") /\ job[t].user = u}

AccountTold(u) ==
    \/ ~ Registered(u) /\ told[u] = 0 /\ u \notin lost /\ Telling(u) = {}
    \/ Registered(u) /\ told[u] = 1 /\ u \notin lost /\ Telling(u) = {}
    \/ Registered(u) /\ told[u] = 0 /\ u \in lost /\ Telling(u) = {}
    \/ Registered(u) /\ told[u] = 0 /\ u \notin lost /\ \E t \in Threads : Telling(u) = {t}

SessionInv(s) ==
    Exists(s) =>
        LET u == session[s].user IN
        /\ Registered(u)
        /\ Live(s) /\ (user[u].status = "disabled" \/ session[s].password # user[u].password)
              => session[s].raced

IInv ==
    /\ TypeOK
    /\ \A t \in Threads : JobInv(t)
    /\ \A u \in Users : AccountTold(u)
    /\ \A s \in SessionIds : SessionInv(s)

-----------------------------------------------------------------------------
(* Fields and functions                                                    *)

LEMMA JobFields ==
    ASSUME TypeOK, NEW t \in Threads
    PROVE  /\ job[t] \in Job /\ job[t].pc \in Stages
           /\ job[t].user \in Users \cup {NoUser} /\ job[t].read \in User
           /\ job[t].session \in SessionIds \cup {NoSession}
           /\ job[t].wanted \in Statuses /\ job[t].found \subseteq SessionIds
  BY DEF TypeOK, Job

LEMMA UserFields ==
    ASSUME TypeOK, NEW u \in Users, Registered(u)
    PROVE  /\ user[u] \in User /\ user[u].status \in Statuses
           /\ user[u].password \in Nat /\ user[u].failed \in 0 .. LoginLimit - 1
           /\ user[u].lock \in {"none", "elapsed", "held"} /\ user[u].disables \in Nat
  BY DEF TypeOK, User, Registered

LEMMA SessionFields ==
    ASSUME TypeOK, NEW s \in SessionIds, Exists(s)
    PROVE  /\ session[s] \in Session /\ session[s].user \in Users
           /\ session[s].state \in {"live", "expired", "revoked"}
           /\ session[s].password \in Nat /\ session[s].raced \in BOOLEAN
  BY DEF TypeOK, Session, Exists

LEMMA BlankRecords == NewUser \in User /\ NoJob \in Job /\ NoJob.pc = "idle"
  BY LimitType DEF NewUser, User, Statuses, NoJob, Job, Stages

(* Rows that are written are rows, not the lack of one. *)
LEMMA WrittenRows ==
    /\ \A x \in User : x # NoAccount
    /\ \A x \in Session : x # NoSession
  BY NoAccountType, NoSessionType

(* What a row keeps when sessions are revoked. *)
LEMMA RevokeKeeps ==
    ASSUME TypeOK, NEW S
    PROVE  /\ Revoke(S) \in [SessionIds -> Session \cup {NoSession}]
           /\ \A s \in SessionIds :
                /\ Exists(s) <=> Revoke(S)[s] # NoSession
                /\ s \notin S => Revoke(S)[s] = session[s]
                /\ s \in S /\ Exists(s) => Revoke(S)[s].state = "revoked"
                /\ Exists(s) => /\ Revoke(S)[s] \in Session
                                /\ Revoke(S)[s].user = session[s].user
                                /\ Revoke(S)[s].raced = session[s].raced
                                /\ Revoke(S)[s].password = session[s].password
                                /\ Revoke(S)[s].state = "live" => session[s].state = "live"
<1> SUFFICES ASSUME NEW s \in SessionIds
             PROVE  /\ Revoke(S)[s] \in Session \cup {NoSession}
                    /\ Exists(s) <=> Revoke(S)[s] # NoSession
                    /\ s \notin S => Revoke(S)[s] = session[s]
                    /\ s \in S /\ Exists(s) => Revoke(S)[s].state = "revoked"
                    /\ Exists(s) => /\ Revoke(S)[s] \in Session
                                    /\ Revoke(S)[s].user = session[s].user
                                    /\ Revoke(S)[s].raced = session[s].raced
                                    /\ Revoke(S)[s].password = session[s].password
                                    /\ Revoke(S)[s].state = "live" => session[s].state = "live"
  BY DEF Revoke
<1>1. Revoke(S)[s] = IF s \in S /\ Exists(s)
                     THEN [session[s] EXCEPT !.state = "revoked"] ELSE session[s]
  BY DEF Revoke
<1>2. CASE ~ Exists(s)
  BY <1>1, <1>2 DEF Exists
<1>3. CASE Exists(s)
  <2>1. session[s] \in Session
    BY <1>3, SessionFields
  <2>2. [session[s] EXCEPT !.state = "revoked"] \in Session
    BY <2>1 DEF Session
  <2>3. Revoke(S)[s] \in Session /\ Revoke(S)[s] # NoSession
    BY <1>1, <2>1, <2>2, WrittenRows
  <2>4. CASE s \in S
    <3>1. Revoke(S)[s] = [session[s] EXCEPT !.state = "revoked"]
      BY <1>1, <1>3, <2>4
    <3>2. /\ Revoke(S)[s].state = "revoked" /\ Revoke(S)[s].user = session[s].user
          /\ Revoke(S)[s].raced = session[s].raced /\ Revoke(S)[s].password = session[s].password
      BY <2>1, <3>1 DEF Session
    <3> QED
      BY <1>3, <2>3, <2>4, <3>2
  <2>5. CASE s \notin S
    BY <1>1, <1>3, <2>3, <2>5
  <2> QED
    BY <2>4, <2>5
<1> QED
  BY <1>2, <1>3

-----------------------------------------------------------------------------
(* What another thread may do to the tables                                *)

(* Accounts stay, and one that is disabled is counted; sessions keep their *)
(* owner and do not come back to life; a new one was raced by whoever ends *)
(* its user's sessions just then.                                          *)
Evolves ==
    /\ \A u \in Users : Registered(u) =>
        /\ user'[u] # NoAccount
        /\ user[u].disables \in Nat /\ user'[u].disables \in Nat
        /\ user[u].disables <= user'[u].disables
        /\ user'[u].disables = user[u].disables /\ user[u].status = "active"
              => user'[u].status = "active"
    /\ \A s \in SessionIds : Exists(s) =>
        /\ session'[s] # NoSession
        /\ session'[s].user = session[s].user /\ session'[s].raced = session[s].raced
        /\ session'[s].state = "live" => session[s].state = "live"
    /\ \A s \in SessionIds : ~ Exists(s) /\ session'[s] # NoSession =>
        \/ session'[s].raced
        \/ \A v \in Threads : job[v].pc \in {"changing", "disabling"}
                                => job[v].user # session'[s].user

LEMMA Undisturbed ==
    ASSUME IInv, Evolves, NEW v \in Threads, job'[v] = job[v]
    PROVE  JobInv(v)'
<1>1. JobInv(v)
  BY DEF IInv
<1>2. job[v].read.disables \in Nat
  BY JobFields DEF IInv, User
<1>3. KnowsUser(v)'
  BY <1>1 DEF JobInv, KnowsUser, Evolves, Registered, At
<1>4. ReadWhileActive(v)'
  BY <1>1, <1>2 DEF JobInv, KnowsUser, ReadWhileActive, Evolves, At
<1>5. OwnSession(v)'
  BY <1>1 DEF JobInv, OwnSession, Evolves, Exists
<1>6. Matched(v)'
  <2>1. At(v, "disabling")' => job'[v].wanted = "disabled"
    BY <1>1 DEF JobInv, Matched, At
  <2>2. ASSUME job'[v].pc \in {"changing", "disabling"}, NEW s \in SessionIds,
               Live(s)', session'[s].user = job'[v].user
        PROVE  \/ s \in job'[v].found
               \/ session'[s].raced
               \/ At(v, "changing")' /\ s = job'[v].session
    <3>1. CASE Exists(s)
      BY <1>1, <2>2, <3>1 DEF JobInv, Matched, Evolves, Live, Exists, At
    <3>2. CASE ~ Exists(s)
      BY <2>2, <3>2 DEF Evolves, Live, Exists
    <3> QED
      BY <3>1, <3>2
  <2> QED
    BY <2>1, <2>2 DEF Matched
<1> QED
  BY <1>3, <1>4, <1>5, <1>6 DEF JobInv

LEMMA IdleSound ==
    ASSUME NEW t \in Threads, job'[t] = NoJob
    PROVE  JobInv(t)'
  BY BlankRecords DEF JobInv, KnowsUser, ReadWhileActive, OwnSession, Matched, At

LEMMA ToldUntouched ==
    ASSUME UNCHANGED accounts, NEW u \in Users, AccountTold(u),
           Registered(u)' <=> Registered(u),
           \A v \in Threads : (At(v, "telling") /\ job[v].user = u)'
                                <=> (At(v, "telling") /\ job[v].user = u)
    PROVE  AccountTold(u)'
<1>1. Telling(u)' = Telling(u)
  BY DEF Telling
<1>2. told' = told /\ lost' = lost
  BY DEF accounts
<1> QED
  BY <1>1, <1>2 DEF AccountTold

(* A step of one thread that leaves the tables alone. *)
LEMMA QuietStep ==
    ASSUME IInv, NEW t \in Threads, NEW j \in Job, job' = [job EXCEPT ![t] = j],
           UNCHANGED <<user, session, accounts>>,
           job[t].pc # "telling", j.pc # "telling", JobInv(t)'
    PROVE  IInv'
<1>1. job'[t] = j /\ \A v \in Threads \ {t} : job'[v] = job[v]
  BY DEF IInv, TypeOK
<1>2. TypeOK'
  BY DEF IInv, TypeOK, accounts
<1>3. Evolves
  <2>1. \A u \in Users : Registered(u) => user[u].disables \in Nat
    BY UserFields DEF IInv
  <2> QED
    BY <2>1 DEF Evolves, Exists, Registered
<1>4. \A v \in Threads : JobInv(v)'
  BY <1>1, <1>3, Undisturbed
<1>5. \A u \in Users : AccountTold(u)'
  BY <1>1, ToldUntouched DEF IInv, At, Registered
<1>6. \A s \in SessionIds : SessionInv(s)'
  BY DEF IInv, SessionInv, Exists, Live, Registered
<1> QED
  BY <1>2, <1>4, <1>5, <1>6 DEF IInv

(* A step that changes rows but neither creates an account nor tells a     *)
(* password.                                                               *)
LEMMA RowsStep ==
    ASSUME IInv, TypeOK', Evolves, UNCHANGED accounts,
           \A u \in Users : Registered(u)' <=> Registered(u),
           \/ job' = job
           \/ \E t \in Threads : job' = [job EXCEPT ![t] = NoJob] /\ job[t].pc # "telling",
           \A s \in SessionIds : SessionInv(s)'
    PROVE  IInv'
<1>1. ASSUME NEW v \in Threads
      PROVE  job'[v] = job[v] \/ (job'[v] = NoJob /\ job[v].pc # "telling")
  BY DEF IInv, TypeOK
<1>2. \A v \in Threads : JobInv(v)'
  BY <1>1, Undisturbed, IdleSound
<1>3. \A v \in Threads : \A u : (At(v, "telling") /\ job[v].user = u)'
                             <=> (At(v, "telling") /\ job[v].user = u)
  BY <1>1, BlankRecords DEF At
<1>4. \A u \in Users : AccountTold(u)'
  BY <1>3, ToldUntouched DEF IInv
<1> QED
  BY <1>2, <1>4 DEF IInv

-----------------------------------------------------------------------------
(* Steps that begin or continue a request                                  *)

LEMMA BeginStep ==
    ASSUME IInv, NEW t \in Threads,
           \/ \E u \in Users : LookUpName(t, u) \/ LoginMisses(t, u) \/ LoginRead(t, u)
           \/ \E u \in Users, status \in Statuses : ReadForStatus(t, u, status)
           \/ \E s \in SessionIds : LoadSession(t, s)
    PROVE  IInv'
<1> USE BlankRecords
<1>1. \A j : job' = [job EXCEPT ![t] = j] => job'[t] = j
  BY DEF IInv, TypeOK
<1>2. ASSUME NEW u \in Users, LookUpName(t, u) PROVE IInv'
  <2> DEFINE j == [NoJob EXCEPT !.pc = "registering", !.user = u]
  <2>1. j \in Job /\ j.pc = "registering" /\ j.user = u
    BY DEF Job, Stages
  <2>2. job' = [job EXCEPT ![t] = j] /\ UNCHANGED <<user, session, accounts>> /\ At(t, "idle")
    BY <1>2 DEF LookUpName
  <2> HIDE DEF j
  <2>3. JobInv(t)'
    BY <1>1, <2>1, <2>2 DEF JobInv, KnowsUser, ReadWhileActive, OwnSession, Matched, At
  <2> QED
    BY <2>1, <2>2, <2>3, QuietStep DEF At
<1>3. ASSUME NEW u \in Users, LoginMisses(t, u) PROVE IInv'
  <2> DEFINE j == [NoJob EXCEPT !.pc = "missed", !.user = u, !.read.failed = user[u].failed]
  <2>1. j \in Job /\ j.pc = "missed" /\ j.user = u
    <3>1. user[u].failed \in 0 .. LoginLimit - 1
      BY <1>3, UserFields DEF LoginMisses, IInv
    <3>2. [NewUser EXCEPT !.failed = user[u].failed] \in User /\ NoJob.read = NewUser
      BY <3>1 DEF User, NoJob
    <3>3. j = [NoJob EXCEPT !.pc = "missed", !.user = u, !.read = [NewUser EXCEPT !.failed = user[u].failed]]
      BY <3>2 DEF NoJob
    <3> QED
      BY <3>2, <3>3 DEF Job, Stages
  <2>2. /\ job' = [job EXCEPT ![t] = j] /\ UNCHANGED <<user, session, accounts>>
        /\ At(t, "idle") /\ Registered(u)
    BY <1>3 DEF LoginMisses
  <2> HIDE DEF j
  <2>3. JobInv(t)'
    BY <1>1, <2>1, <2>2 DEF JobInv, KnowsUser, ReadWhileActive, OwnSession, Matched, At, Registered
  <2> QED
    BY <2>1, <2>2, <2>3, QuietStep DEF At
<1>4. ASSUME NEW u \in Users, LoginRead(t, u) PROVE IInv'
  <2> DEFINE j == [NoJob EXCEPT !.pc = "creating", !.user = u, !.read = user[u]]
  <2>1. Registered(u) /\ user[u].status = "active" /\ user[u] \in User /\ user[u].disables \in Nat
    BY <1>4, UserFields DEF LoginRead, MayLogIn, IInv
  <2>2. j \in Job /\ j.pc = "creating" /\ j.user = u /\ j.read = user[u]
    BY <2>1 DEF Job, Stages
  <2>3. job' = [job EXCEPT ![t] = j] /\ UNCHANGED <<user, session, accounts>> /\ At(t, "idle")
    BY <1>4 DEF LoginRead
  <2> HIDE DEF j
  <2>4. JobInv(t)'
    BY <1>1, <2>1, <2>2, <2>3 DEF JobInv, KnowsUser, ReadWhileActive, OwnSession, Matched, At,
       Registered
  <2> QED
    BY <2>2, <2>3, <2>4, QuietStep DEF At
<1>5. ASSUME NEW u \in Users, NEW status \in Statuses, ReadForStatus(t, u, status) PROVE IInv'
  <2> DEFINE j == [NoJob EXCEPT !.pc = "setting", !.user = u, !.read.status = user[u].status,
                                !.wanted = status]
  <2>1. j \in Job /\ j.pc = "setting" /\ j.user = u
    <3>1. user[u].status \in Statuses
      BY <1>5, UserFields DEF ReadForStatus, IInv
    <3>2. [NewUser EXCEPT !.status = user[u].status] \in User /\ NoJob.read = NewUser
      BY <3>1 DEF User, NoJob
    <3>3. j = [NoJob EXCEPT !.pc = "setting", !.user = u,
                            !.read = [NewUser EXCEPT !.status = user[u].status],
                            !.wanted = status]
      BY <3>2 DEF NoJob
    <3> QED
      BY <3>2, <3>3 DEF Job, Stages
  <2>2. /\ job' = [job EXCEPT ![t] = j] /\ UNCHANGED <<user, session, accounts>>
        /\ At(t, "idle") /\ Registered(u)
    BY <1>5 DEF ReadForStatus
  <2> HIDE DEF j
  <2>3. JobInv(t)'
    BY <1>1, <2>1, <2>2 DEF JobInv, KnowsUser, ReadWhileActive, OwnSession, Matched, At, Registered
  <2> QED
    BY <2>1, <2>2, <2>3, QuietStep DEF At
<1>6. ASSUME NEW s \in SessionIds, LoadSession(t, s) PROVE IInv'
  <2> DEFINE j == [NoJob EXCEPT !.pc = "loaded", !.user = session[s].user, !.session = s]
  <2>1. Exists(s) /\ session[s].user \in Users /\ Registered(session[s].user)
    BY <1>6, SessionFields DEF LoadSession, IInv, SessionInv
  <2>2. j \in Job /\ j.pc = "loaded" /\ j.user = session[s].user /\ j.session = s
    BY <2>1 DEF Job, Stages
  <2>3. job' = [job EXCEPT ![t] = j] /\ UNCHANGED <<user, session, accounts>> /\ At(t, "idle")
    BY <1>6 DEF LoadSession
  <2> HIDE DEF j
  <2>4. JobInv(t)'
    BY <1>1, <2>1, <2>2, <2>3 DEF JobInv, KnowsUser, ReadWhileActive, OwnSession, Matched, At,
       Registered, Exists
  <2> QED
    BY <2>2, <2>3, <2>4, QuietStep DEF At
<1> QED
  BY <1>2, <1>3, <1>4, <1>5, <1>6

(* The request goes on with the session and the user it has.               *)
LEMMA ContinueStep ==
    ASSUME IInv, NEW t \in Threads,
           LoadUser(t) \/ Finish(t) \/ RevokeOthers(t) \/ RevokeAll(t)
    PROVE  IInv'
<1>1. \A j : job' = [job EXCEPT ![t] = j] => job'[t] = j
  BY DEF IInv, TypeOK
<1>2. job[t] \in Job /\ JobInv(t)
  BY JobFields DEF IInv
<1>3. ASSUME At(t, "loaded") \/ At(t, "acting"), Done(t), UNCHANGED <<user, session, accounts>>
      PROVE  IInv'
  <2>1. job' = [job EXCEPT ![t] = NoJob]
    BY <1>3 DEF Done
  <2> QED
    BY <1>1, <1>3, <2>1, BlankRecords, IdleSound, QuietStep DEF At
<1>4. ASSUME At(t, "loaded"), job' = [job EXCEPT ![t].pc = "acting"],
             UNCHANGED <<user, session, accounts>>
      PROVE  IInv'
  <2> DEFINE j == [job[t] EXCEPT !.pc = "acting"]
  <2>1. /\ j \in Job /\ j.pc = "acting" /\ j.user = job[t].user /\ j.session = job[t].session
        /\ job' = [job EXCEPT ![t] = j]
    BY <1>2, <1>4 DEF Job, Stages
  <2> HIDE DEF j
  <2>2. JobInv(t)'
    BY <1>1, <1>2, <1>4, <2>1 DEF JobInv, KnowsUser, ReadWhileActive, OwnSession, Matched, At,
       Registered, Exists
  <2> QED
    BY <1>4, <2>1, <2>2, QuietStep DEF At
<1>5. ASSUME NEW stage \in {"changing", "disabling"}, NEW found \in SUBSET SessionIds,
             UpdateSessions(t, stage, found),
             \/ stage = "changing" /\ At(t, "acting")
                /\ found = SessionsOf(job[t].user) \ {job[t].session}
             \/ stage = "disabling" /\ At(t, "setting") /\ job[t].wanted = "disabled"
                /\ found = SessionsOf(job[t].user)
      PROVE  IInv'
  <2> DEFINE j == [job[t] EXCEPT !.pc = stage, !.found = found]
  <2>1. /\ j \in Job /\ j.pc = stage /\ j.user = job[t].user /\ j.session = job[t].session
        /\ j.wanted = job[t].wanted /\ j.found = found
        /\ job' = [job EXCEPT ![t] = j] /\ UNCHANGED <<user, session, accounts>>
    BY <1>2, <1>5 DEF UpdateSessions, Job, Stages
  <2> HIDE DEF j
  <2>2. job'[t] = j /\ job[t].pc \in {"acting", "setting"}
    BY <1>1, <1>5, <2>1 DEF At
  <2>3. KnowsUser(t)' /\ ReadWhileActive(t)' /\ OwnSession(t)'
    BY <1>2, <1>5, <2>1, <2>2 DEF JobInv, KnowsUser, ReadWhileActive, OwnSession, At,
       Registered, Exists
  <2>4. Matched(t)'
    BY <1>5, <2>1, <2>2 DEF Matched, SessionsOf, Live, Exists, At
  <2> QED
    BY <2>1, <2>2, <2>3, <2>4, QuietStep DEF JobInv
<1>6. CASE LoadUser(t)
  BY <1>3, <1>4, <1>6 DEF LoadUser, Touch
<1>7. CASE Finish(t)
  BY <1>3, <1>7 DEF Finish
<1>8. CASE RevokeOthers(t) \/ RevokeAll(t)
  <2>1. SessionsOf(job[t].user) \subseteq SessionIds
    BY DEF SessionsOf
  <2> QED
    BY <1>5, <1>8, <2>1 DEF RevokeOthers, RevokeAll
<1> QED
  BY <1>6, <1>7, <1>8

-----------------------------------------------------------------------------
(* Steps that create an account and tell its password                      *)

LEMMA RegisterStep ==
    ASSUME IInv, NEW t \in Threads, InsertUser(t) \/ TellPassword(t) \/ LosePassword(t)
    PROVE  IInv'
<1> USE BlankRecords
<1>1. job[t] \in Job /\ JobInv(t) /\ job[t].pc \in {"registering", "telling"}
  BY JobFields DEF IInv, InsertUser, TellPassword, LosePassword, At
<1>0. PICK u \in Users : u = job[t].user
  BY <1>1 DEF JobInv, KnowsUser, At
<1>2. session' = session
  BY DEF InsertUser, TellPassword, LosePassword
<1>3. ASSUME NEW j \in Job, job' = [job EXCEPT ![t] = j], JobInv(t)', Evolves, TypeOK',
             \A x \in Users : Registered(x) => user'[x] = user[x],
             AccountTold(u)',
             \A x \in Users \ {u} : user'[x] = user[x] /\ told'[x] = told[x]
                                   /\ (x \in lost' <=> x \in lost),
             j.pc = "telling" => j.user = u
      PROVE  IInv'
  <2>1. job'[t] = j /\ \A v \in Threads \ {t} : job'[v] = job[v]
    BY <1>3 DEF IInv, TypeOK
  <2>2. \A v \in Threads : JobInv(v)'
    BY <1>3, <2>1, Undisturbed
  <2>3. ASSUME NEW x \in Users \ {u} PROVE AccountTold(x)'
    <3>1. Telling(x)' = Telling(x)
      BY <1>0, <1>3, <2>1 DEF Telling, At
    <3> QED
      BY <1>3, <3>1 DEF IInv, AccountTold, Registered
  <2>4. \A s \in SessionIds : SessionInv(s)'
    <3> SUFFICES ASSUME NEW s \in SessionIds, Exists(s) PROVE SessionInv(s)'
      BY <1>2 DEF SessionInv, Exists
    <3>1. session[s].user \in Users /\ Registered(session[s].user) /\ SessionInv(s)
      BY SessionFields DEF IInv, SessionInv
    <3>2. user'[session[s].user] = user[session[s].user]
      BY <1>3, <3>1
    <3> QED
      BY <1>2, <3>1, <3>2 DEF SessionInv, Exists, Live, Registered
  <2> QED
    BY <1>3, <2>2, <2>3, <2>4 DEF IInv
<1>4. ASSUME user' = user PROVE Evolves
  <2>1. \A x \in Users : Registered(x) => user[x].disables \in Nat
    BY UserFields DEF IInv
  <2> QED
    BY <1>2, <1>4, <2>1 DEF Evolves, Exists, Registered
<1>5. CASE InsertUser(t) /\ Registered(u)
  <2>1. job' = [job EXCEPT ![t] = NoJob] /\ UNCHANGED <<user, session, accounts>> /\ At(t, "registering")
    BY <1>0, <1>5 DEF InsertUser, Done
  <2>2. job'[t] = NoJob
    BY <2>1 DEF IInv, TypeOK
  <2> QED
    BY <2>1, <2>2, IdleSound, QuietStep DEF At
<1>6. CASE InsertUser(t) /\ ~ Registered(u)
  <2> DEFINE j == [job[t] EXCEPT !.pc = "telling"]
  <2>1. /\ j \in Job /\ j.pc = "telling" /\ j.user = u /\ job' = [job EXCEPT ![t] = j]
        /\ user' = [user EXCEPT ![u] = NewUser] /\ told' = told /\ lost' = lost
    BY <1>0, <1>1, <1>6 DEF InsertUser, accounts, Job, Stages
  <2> HIDE DEF j
  <2>2. job'[t] = j /\ \A v \in Threads \ {t} : job'[v] = job[v]
    BY <2>1 DEF IInv, TypeOK
  <2>3. user'[u] = NewUser /\ \A x \in Users \ {u} : user'[x] = user[x]
    BY <1>1, <2>1 DEF IInv, TypeOK
  <2>4. user'[u] # NoAccount
    BY <2>3, WrittenRows
  <2>5. JobInv(t)'
    BY <1>1, <2>1, <2>2, <2>4 DEF JobInv, KnowsUser, ReadWhileActive, OwnSession, Matched, At, Registered
  <2>6. TypeOK'
    BY <1>2, <2>1 DEF IInv, TypeOK
  <2>7. \A x \in Users : Registered(x) => user'[x] = user[x]
    BY <1>6, <2>3
  <2>8. Evolves
    <3>1. \A x \in Users : Registered(x) => user[x].disables \in Nat
      BY UserFields DEF IInv
    <3> QED
      BY <1>2, <2>7, <3>1 DEF Evolves, Exists, Registered
  <2>9. AccountTold(u)'
    <3>1. told[u] = 0 /\ u \notin lost /\ Telling(u) = {}
      BY <1>6 DEF AccountTold, IInv
    <3>2. Telling(u)' = {t}
      BY <1>1, <2>1, <2>2, <3>1 DEF Telling, At
    <3> QED
      BY <2>1, <2>4, <3>1, <3>2 DEF AccountTold, Registered
  <2> QED
    BY <1>3, <2>1, <2>3, <2>5, <2>6, <2>7, <2>8, <2>9
<1>7. CASE TellPassword(t) \/ LosePassword(t)
  <2>1. /\ job' = [job EXCEPT ![t] = NoJob] /\ user' = user /\ At(t, "telling")
        /\ Registered(u)
    BY <1>0, <1>1, <1>7 DEF TellPassword, LosePassword, Done, JobInv, KnowsUser, At
  <2>2. job'[t] = NoJob /\ \A v \in Threads \ {t} : job'[v] = job[v]
    BY <2>1 DEF IInv, TypeOK
  <2>3. told[u] = 0 /\ u \notin lost /\ Telling(u) = {t}
    <3>1. t \in Telling(u)
      BY <1>0, <2>1 DEF Telling
    <3> QED
      BY <3>1 DEF AccountTold, IInv
  <2>4. Telling(u)' = {}
    BY <2>2, <2>3 DEF Telling, At
  <2>5. \/ told' = [told EXCEPT ![u] = told[u] + 1] /\ lost' = lost
        \/ told' = told /\ lost' = lost \cup {u}
    BY <1>0, <1>7 DEF TellPassword, LosePassword
  <2>6. TypeOK' /\ AccountTold(u)'
    <3>1. TypeOK'
      BY <1>1, <1>2, <2>1, <2>5 DEF IInv, TypeOK
    <3>2. (told'[u] = 1 /\ u \notin lost') \/ (told'[u] = 0 /\ u \in lost')
      BY <1>1, <2>3, <2>5 DEF IInv, TypeOK
    <3> QED
      BY <2>1, <2>4, <3>1, <3>2 DEF AccountTold, Registered
  <2>7. \A x \in Users \ {u} : told'[x] = told[x] /\ (x \in lost' <=> x \in lost)
    BY <2>5 DEF IInv, TypeOK
  <2>8. JobInv(t)' /\ Evolves
    BY <1>4, <2>1, <2>2, IdleSound
  <2> QED
    BY <1>3, <2>1, <2>6, <2>7, <2>8
<1> QED
  BY <1>5, <1>6, <1>7

-----------------------------------------------------------------------------
(* Steps that write rows                                                   *)

(* What leaves status, password and disables of every account as they are, *)
(* and every session too, disturbs no session.                             *)
LEMMA SessionsUntouched ==
    ASSUME IInv, session' = session,
           \A u \in Users : Registered(u) =>
               /\ user'[u] # NoAccount
               /\ user'[u].status = user[u].status /\ user'[u].password = user[u].password
               /\ user'[u].disables = user[u].disables
    PROVE  Evolves /\ \A s \in SessionIds : SessionInv(s)'
<1>1. \A u \in Users : Registered(u) => user[u].disables \in Nat
  BY UserFields DEF IInv
<1>2. Evolves
  BY <1>1 DEF Evolves, Exists
<1>3. ASSUME NEW s \in SessionIds, Exists(s) PROVE SessionInv(s)'
  <2>1. session[s].user \in Users /\ SessionInv(s)
    BY <1>3, SessionFields DEF IInv
  <2> QED
    BY <1>3, <2>1 DEF SessionInv, Live, Exists, Registered
<1> QED
  BY <1>2, <1>3 DEF SessionInv, Exists

LEMMA RecordMissStep == ASSUME IInv, NEW t \in Threads, RecordMiss(t) PROVE IInv'
<1> DEFINE u == job[t].user
           failed == job[t].read.failed + 1
<1>1. /\ job[t] \in Job /\ u \in Users /\ Registered(u) /\ user[u] \in User
      /\ job[t].read.failed \in 0 .. LoginLimit - 1
  <2>1. u \in Users /\ Registered(u)
    BY DEF RecordMiss, IInv, JobInv, KnowsUser, At
  <2> QED
    BY <2>1, JobFields, UserFields DEF IInv, User
<1>2. PICK f \in 0 .. LoginLimit - 1, l \in {"none", "elapsed", "held"} :
        user' = [user EXCEPT ![u] = [user[u] EXCEPT !.failed = f, !.lock = l]]
  <2>1. CASE failed < LoginLimit
    <3>1. user' = [user EXCEPT ![u].failed = failed]
      BY <2>1 DEF RecordMiss
    <3>2. user' = [user EXCEPT ![u] = [user[u] EXCEPT !.failed = failed, !.lock = user[u].lock]]
      BY <1>1, <3>1 DEF User, IInv, TypeOK
    <3>3. failed \in 0 .. LoginLimit - 1 /\ user[u].lock \in {"none", "elapsed", "held"}
      BY <1>1, <2>1, LimitType DEF User
    <3> QED
      BY <3>2, <3>3
  <2>2. CASE ~ (failed < LoginLimit)
    <3> DEFINE f == IF job[t].read.failed = 0 THEN user[u].failed ELSE 0
    <3>1. user' = [user EXCEPT ![u].failed = IF job[t].read.failed = 0 THEN @ ELSE 0,
                               ![u].lock = "held"]
      BY <2>2 DEF RecordMiss
    <3>2. user' = [user EXCEPT ![u] = [user[u] EXCEPT !.failed = f, !.lock = "held"]]
      BY <1>1, <3>1 DEF User, IInv, TypeOK
    <3>3. f \in 0 .. LoginLimit - 1
      BY <1>1, LimitType DEF User
    <3> QED
      BY <3>2, <3>3
  <2> QED
    BY <2>1, <2>2
<1> DEFINE row == [user[u] EXCEPT !.failed = f, !.lock = l]
<1>3. /\ row \in User /\ row.status = user[u].status /\ row.password = user[u].password
      /\ row.disables = user[u].disables
  BY <1>1 DEF User
<1>4. user' = [user EXCEPT ![u] = row]
  BY <1>2
<1> HIDE DEF row, u
<1>5. \A x \in Users : Registered(x) =>
         /\ user'[x] # NoAccount /\ user'[x].status = user[x].status
         /\ user'[x].password = user[x].password /\ user'[x].disables = user[x].disables
  BY <1>1, <1>3, <1>4, WrittenRows DEF IInv, TypeOK, Registered
<1>6. \A x \in Users : Registered(x)' <=> Registered(x)
  BY <1>1, <1>3, <1>4, WrittenRows DEF IInv, TypeOK, Registered
<1>7. /\ session' = session /\ UNCHANGED accounts
      /\ job' = [job EXCEPT ![t] = NoJob] /\ job[t].pc # "telling"
  BY DEF RecordMiss, Done, At
<1>8. TypeOK'
  BY <1>1, <1>3, <1>4, <1>7, BlankRecords DEF IInv, TypeOK, accounts
<1> QED
  BY <1>5, <1>6, <1>7, <1>8, SessionsUntouched, RowsStep

LEMMA TimeStep ==
    ASSUME IInv,
           \/ \E u \in Users : LockEnds(u)
           \/ \E s \in SessionIds : SessionEnds(s)
    PROVE  IInv'
<1>1. ASSUME NEW u \in Users, LockEnds(u) PROVE IInv'
  <2> DEFINE row == [user[u] EXCEPT !.lock = "elapsed"]
  <2>1. Registered(u) /\ user[u] \in User
    BY <1>1, UserFields DEF LockEnds, IInv
  <2>2. /\ row \in User /\ row.status = user[u].status /\ row.password = user[u].password
        /\ row.disables = user[u].disables /\ user' = [user EXCEPT ![u] = row]
    BY <1>1, <2>1 DEF LockEnds, User
  <2> HIDE DEF row
  <2>3. \A x \in Users : Registered(x) =>
           /\ user'[x] # NoAccount /\ user'[x].status = user[x].status
           /\ user'[x].password = user[x].password /\ user'[x].disables = user[x].disables
    BY <2>1, <2>2, WrittenRows DEF IInv, TypeOK, Registered
  <2>4. \A x \in Users : Registered(x)' <=> Registered(x)
    BY <2>1, <2>2, WrittenRows DEF IInv, TypeOK, Registered
  <2>5. UNCHANGED <<session, job, accounts>>
    BY <1>1 DEF LockEnds
  <2>6. TypeOK'
    BY <2>2, <2>5 DEF IInv, TypeOK, accounts
  <2> QED
    BY <2>3, <2>4, <2>5, <2>6, SessionsUntouched, RowsStep
<1>2. ASSUME NEW s \in SessionIds, SessionEnds(s) PROVE IInv'
  <2> DEFINE row == [session[s] EXCEPT !.state = "expired"]
  <2>1. Exists(s) /\ session[s] \in Session
    BY <1>2, SessionFields DEF SessionEnds, IInv
  <2>2. /\ row \in Session /\ row.state = "expired" /\ row.user = session[s].user
        /\ row.raced = session[s].raced /\ session' = [session EXCEPT ![s] = row]
    BY <1>2, <2>1 DEF SessionEnds, Session
  <2> HIDE DEF row
  <2>3. UNCHANGED <<user, job, accounts>>
    BY <1>2 DEF SessionEnds
  <2>4. TypeOK'
    BY <2>2, <2>3 DEF IInv, TypeOK, accounts
  <2>5. /\ session'[s] = row /\ row # NoSession
        /\ \A x \in SessionIds \ {s} : session'[x] = session[x]
    BY <2>2, WrittenRows DEF IInv, TypeOK
  <2>6. \A x \in Users : Registered(x) => user[x].disables \in Nat
    BY UserFields DEF IInv
  <2>7. Evolves
    BY <2>1, <2>2, <2>3, <2>5, <2>6 DEF Evolves, Exists, Registered
  <2>8. \A x \in SessionIds : SessionInv(x)'
    <3>1. SessionInv(s)'
      BY <2>1, <2>2, <2>3, <2>5 DEF IInv, SessionInv, Exists, Live, Registered
    <3>2. \A x \in SessionIds \ {s} : SessionInv(x)'
      BY <2>3, <2>5 DEF IInv, SessionInv, Exists, Live, Registered
    <3> QED
      BY <3>1, <3>2
  <2> QED
    BY <2>3, <2>4, <2>7, <2>8, RowsStep DEF Registered
<1> QED
  BY <1>1, <1>2

(* The columns of the lock are nobody else's business. *)
LEMMA LockColumns ==
    ASSUME IInv, NEW u \in Users, Registered(u),
           NEW f \in 0 .. LoginLimit - 1, NEW l \in {"none", "elapsed", "held"},
           user' = [user EXCEPT ![u].failed = f, ![u].lock = l]
    PROVE  /\ user' \in [Users -> User \cup {NoAccount}]
           /\ \A x \in Users :
                /\ user'[x] # NoAccount <=> Registered(x)
                /\ Registered(x) =>
                    /\ user'[x].status = user[x].status
                    /\ user'[x].password = user[x].password
                    /\ user'[x].disables = user[x].disables
<1> DEFINE row == [user[u] EXCEPT !.failed = f, !.lock = l]
<1>1. user[u] \in User
  BY UserFields DEF IInv
<1>2. /\ row \in User /\ row.status = user[u].status /\ row.password = user[u].password
      /\ row.disables = user[u].disables /\ user' = [user EXCEPT ![u] = row]
  BY <1>1 DEF User, IInv, TypeOK
<1> HIDE DEF row
<1> QED
  BY <1>2, WrittenRows DEF IInv, TypeOK, Registered

LEMMA CreateSessionStep == ASSUME IInv, NEW t \in Threads, CreateSession(t) PROVE IInv'
<1>1. PICK u \in Users : u = job[t].user /\ Registered(u)
  BY DEF CreateSession, IInv, JobInv, KnowsUser, At
<1>2. /\ job[t] \in Job /\ JobInv(t) /\ job[t].read \in User /\ user[u] \in User
      /\ At(t, "creating")
  BY <1>1, JobFields, UserFields DEF IInv, CreateSession
<1>3. /\ user' \in [Users -> User \cup {NoAccount}]
      /\ \A x \in Users :
           /\ user'[x] # NoAccount <=> Registered(x)
           /\ Registered(x) =>
               /\ user'[x].status = user[x].status
               /\ user'[x].password = user[x].password
               /\ user'[x].disables = user[x].disables
  <2> DEFINE f == IF job[t].read.failed = 0 THEN user[u].failed ELSE 0
             l == IF job[t].read.lock = "none" THEN user[u].lock ELSE "none"
  <2>1. f \in 0 .. LoginLimit - 1 /\ l \in {"none", "elapsed", "held"}
    BY <1>2, LimitType DEF User
  <2>2. user' = [user EXCEPT ![u].failed = f, ![u].lock = l]
    BY <1>1, <1>2 DEF CreateSession, LoginColumns, User, IInv, TypeOK
  <2> HIDE DEF f, l
  <2> QED
    BY <1>1, <2>1, <2>2, LockColumns
<1>4. PICK s \in SessionIds, new \in Session :
        /\ ~ Exists(s) /\ session' = [session EXCEPT ![s] = new]
        /\ new.user = u /\ new.state = "live" /\ new.password = job[t].read.password
        /\ new.raced <=> Overtaken(t)
  <2>1. PICK s \in SessionIds :
          /\ ~ Exists(s)
          /\ session' = [session EXCEPT ![s] =
                 [user |-> u, state |-> "live", password |-> job[t].read.password,
                  raced |-> Overtaken(t)]]
    BY <1>1 DEF CreateSession
  <2> DEFINE new == [user |-> u, state |-> "live", password |-> job[t].read.password,
                     raced |-> Overtaken(t)]
  <2>2. Overtaken(t) \in BOOLEAN
    BY DEF Overtaken
  <2>3. new \in Session
    BY <1>2, <2>2 DEF Session, User
  <2> QED
    BY <2>1, <2>3
<1>5. /\ session'[s] = new /\ new # NoSession
      /\ \A x \in SessionIds \ {s} : session'[x] = session[x]
  BY <1>4, WrittenRows DEF IInv, TypeOK
<1>6. /\ UNCHANGED accounts /\ job' = [job EXCEPT ![t] = NoJob] /\ job[t].pc # "telling"
  BY <1>2 DEF CreateSession, Done, At
<1>7. TypeOK'
  BY <1>3, <1>4, <1>6, BlankRecords DEF IInv, TypeOK, accounts
<1>8. Evolves
  <2>1. \A x \in Users : Registered(x) => user[x].disables \in Nat
    BY UserFields DEF IInv
  <2>2. \A x \in Users : Registered(x) =>
          /\ user'[x] # NoAccount
          /\ user[x].disables \in Nat /\ user'[x].disables = user[x].disables
          /\ user'[x].status = user[x].status
    BY <1>3, <2>1
  <2>3. new.raced \/ \A v \in Threads : job[v].pc \in {"changing", "disabling"} => job[v].user # u
    BY <1>1, <1>4 DEF Overtaken
  <2>4. \A x \in SessionIds \ {s} : session'[x] = session[x]
    BY <1>5
  <2> QED
    BY <1>4, <1>5, <2>2, <2>3, <2>4 DEF Evolves, Exists
<1>9. \A x \in SessionIds : SessionInv(x)'
  <2>1. SessionInv(s)'
    <3>1. ~ Overtaken(t) => user[u].status = "active" /\ user[u].password = job[t].read.password
      BY <1>1, <1>2 DEF Overtaken, JobInv, ReadWhileActive
    <3> QED
      BY <1>1, <1>3, <1>4, <1>5, <3>1 DEF SessionInv, Live, Exists, Registered
  <2>2. ASSUME NEW x \in SessionIds \ {s} PROVE SessionInv(x)'
    <3>1. CASE Exists(x)
      <4>1. session[x].user \in Users /\ SessionInv(x)
        BY <3>1, SessionFields DEF IInv
      <4> QED
        BY <1>3, <1>5, <3>1, <4>1 DEF SessionInv, Live, Exists, Registered
    <3>2. CASE ~ Exists(x)
      BY <1>5, <3>2 DEF SessionInv, Exists
    <3> QED
      BY <3>1, <3>2
  <2> QED
    BY <2>1, <2>2
<1>10. \A x \in Users : Registered(x)' <=> Registered(x)
  BY <1>3 DEF Registered
<1> QED
  BY <1>6, <1>7, <1>8, <1>9, <1>10, RowsStep

(* What a request does that has matched its user's sessions, or only its   *)
(* own: nobody's session gains from it.                                    *)
LEMMA RevokingStep ==
    ASSUME IInv, NEW t \in Threads, job' = [job EXCEPT ![t] = NoJob],
           job[t].pc # "telling", UNCHANGED accounts,
           user' \in [Users -> User \cup {NoAccount}],
           \A x \in Users : user'[x] # NoAccount <=> Registered(x),
           Evolves,
           session' \in [SessionIds -> Session \cup {NoSession}],
           \A s \in SessionIds : Exists(s) => SessionInv(s)',
           \A s \in SessionIds : ~ Exists(s) => session'[s] = NoSession
    PROVE  IInv'
<1>1. TypeOK'
  BY BlankRecords DEF IInv, TypeOK, accounts
<1>2. \A x \in Users : Registered(x)' <=> Registered(x)
  BY DEF Registered
<1>3. \A s \in SessionIds : SessionInv(s)'
  BY DEF SessionInv, Exists
<1> QED
  BY <1>1, <1>2, <1>3, RowsStep

LEMMA LogoutStep == ASSUME IInv, NEW t \in Threads, Logout(t) PROVE IInv'
<1>1. /\ session' = Revoke({job[t].session}) /\ job' = [job EXCEPT ![t] = NoJob]
      /\ UNCHANGED <<user, accounts>> /\ job[t].pc # "telling"
  BY DEF Logout, Done, At
<1>2. session' \in [SessionIds -> Session \cup {NoSession}]
  BY <1>1, RevokeKeeps DEF IInv
<1>3. \A s \in SessionIds :
        /\ Exists(s) <=> session'[s] # NoSession
        /\ Exists(s) => /\ session'[s].user = session[s].user
                        /\ session'[s].raced = session[s].raced
                        /\ session'[s].password = session[s].password
                        /\ session'[s].state = "live" => session[s].state = "live"
  BY <1>1, RevokeKeeps DEF IInv
<1>4. Evolves
  <2>1. \A x \in Users : Registered(x) => user[x].disables \in Nat
    BY UserFields DEF IInv
  <2>2. \A x \in Users : Registered(x) =>
          /\ user'[x] # NoAccount
          /\ user[x].disables \in Nat /\ user'[x].disables \in Nat
          /\ user[x].disables <= user'[x].disables
          /\ user'[x].disables = user[x].disables /\ user[x].status = "active"
                => user'[x].status = "active"
    BY <1>1, <2>1 DEF Registered
  <2> QED
    BY <1>3, <2>2 DEF Evolves
<1>5. ASSUME NEW s \in SessionIds, Exists(s) PROVE SessionInv(s)'
  BY <1>1, <1>3, <1>5 DEF IInv, SessionInv, Live, Exists, Registered
<1>6. user' \in [Users -> User \cup {NoAccount}]
  BY <1>1 DEF IInv, TypeOK
<1> QED
  BY <1>1, <1>2, <1>3, <1>4, <1>5, <1>6, RevokingStep DEF Registered

LEMMA ChangePasswordStep == ASSUME IInv, NEW t \in Threads, ChangePassword(t) PROVE IInv'
<1>1. PICK u \in Users, own \in SessionIds :
        /\ u = job[t].user /\ own = job[t].session
        /\ Registered(u) /\ Exists(own) /\ session[own].user = u
  BY DEF ChangePassword, IInv, JobInv, KnowsUser, OwnSession, At
<1>2. /\ user[u] \in User /\ user[u].password \in Nat /\ session[own] \in Session
      /\ At(t, "changing") /\ Matched(t)
  BY <1>1, UserFields, SessionFields DEF IInv, JobInv, ChangePassword
<1> DEFINE row == [user[u] EXCEPT !.password = user[u].password + 1]
           R == Revoke(job[t].found)
           mine == [R[own] EXCEPT !.password = user[u].password + 1]
<1>3. /\ row \in User /\ row.status = user[u].status /\ row.disables = user[u].disables
      /\ row.password = user[u].password + 1 /\ user' = [user EXCEPT ![u] = row]
  BY <1>1, <1>2 DEF ChangePassword, User
<1>4. /\ job' = [job EXCEPT ![t] = NoJob] /\ UNCHANGED accounts
      /\ session' = [R EXCEPT ![own].password = user[u].password + 1]
  BY <1>1 DEF ChangePassword, Done
<1>5. /\ R \in [SessionIds -> Session \cup {NoSession}]
      /\ \A s \in SessionIds :
           /\ Exists(s) <=> R[s] # NoSession
           /\ s \in job[t].found /\ Exists(s) => R[s].state = "revoked"
           /\ Exists(s) => /\ R[s] \in Session /\ R[s].user = session[s].user
                           /\ R[s].raced = session[s].raced
                           /\ R[s].password = session[s].password
                           /\ R[s].state = "live" => session[s].state = "live"
  BY RevokeKeeps DEF IInv
<1> HIDE DEF row, R
<1>6. /\ mine \in Session /\ mine.user = u /\ mine.raced = session[own].raced
      /\ mine.password = user[u].password + 1
      /\ mine.state = "live" => session[own].state = "live"
  BY <1>1, <1>2, <1>5 DEF Session
<1>7. session' = [R EXCEPT ![own] = mine]
  BY <1>1, <1>4, <1>5
<1> HIDE DEF mine
<1>8. /\ session'[own] = mine /\ mine # NoSession
      /\ \A s \in SessionIds \ {own} : session'[s] = R[s]
  BY <1>1, <1>5, <1>6, <1>7, WrittenRows
<1>9. \A x \in Users :
        /\ user'[x] # NoAccount <=> Registered(x)
        /\ Registered(x) => /\ user'[x].status = user[x].status
                            /\ user'[x].disables = user[x].disables
        /\ x # u => user'[x] = user[x]
  BY <1>1, <1>3, WrittenRows DEF IInv, TypeOK, Registered
<1>10. user'[u].password = user[u].password + 1
  BY <1>1, <1>3 DEF IInv, TypeOK
<1>11. /\ user' \in [Users -> User \cup {NoAccount}]
       /\ session' \in [SessionIds -> Session \cup {NoSession}]
  BY <1>3, <1>5, <1>6, <1>7 DEF IInv, TypeOK
<1>12. \A s \in SessionIds :
         /\ Exists(s) <=> session'[s] # NoSession
         /\ Exists(s) => /\ session'[s].user = session[s].user
                         /\ session'[s].raced = session[s].raced
                         /\ session'[s].state = "live" => session[s].state = "live"
  BY <1>1, <1>5, <1>6, <1>8
<1>13. Evolves
  <2>1. \A x \in Users : Registered(x) => user[x].disables \in Nat
    BY UserFields DEF IInv
  <2> QED
    BY <1>9, <1>12, <2>1 DEF Evolves
<1>14. ASSUME NEW s \in SessionIds, Exists(s) PROVE SessionInv(s)'
  <2>1. SessionInv(s) /\ session[s].user \in Users
    BY <1>14, SessionFields DEF IInv
  <2>2. CASE s = own
    BY <1>1, <1>6, <1>8, <1>9, <1>10, <1>12, <1>14, <2>1, <2>2
       DEF SessionInv, Live, Exists, Registered
  <2>3. CASE s # own /\ session[s].user = u
    <3>1. Live(s)' => Live(s) /\ s \notin job[t].found
      BY <1>5, <1>8, <1>14, <2>3 DEF Live, Exists
    <3>2. Live(s)' => session'[s].raced
      BY <1>1, <1>2, <1>12, <1>14, <2>3, <3>1 DEF Matched, At
    <3> QED
      BY <1>9, <1>12, <1>14, <2>1, <2>3, <3>2 DEF SessionInv, Registered, Live
  <2>4. CASE session[s].user # u
    <3>1. user'[session[s].user] = user[session[s].user] /\ session'[s] = R[s]
      BY <1>1, <1>8, <1>9, <2>1, <2>4
    <3> QED
      BY <1>5, <1>12, <1>14, <2>1, <3>1 DEF SessionInv, Live, Exists, Registered
  <2> QED
    BY <2>2, <2>3, <2>4
<1>15. job[t].pc # "telling"
  BY <1>2 DEF At
<1> QED
  BY <1>4, <1>9, <1>11, <1>12, <1>13, <1>14, <1>15, RevokingStep

LEMMA SetStatusStep == ASSUME IInv, NEW t \in Threads, SetStatus(t) PROVE IInv'
<1>1. PICK u \in Users : u = job[t].user /\ Registered(u)
  BY DEF SetStatus, IInv, JobInv, KnowsUser, At
<1>2. /\ user[u] \in User /\ user[u].disables \in Nat /\ user[u].status \in Statuses
      /\ job[t].wanted \in Statuses /\ Matched(t) /\ job[t].pc # "telling"
      /\ At(t, "disabling") \/ (At(t, "setting") /\ job[t].wanted = "active")
  BY <1>1, UserFields, JobFields DEF IInv, JobInv, SetStatus, At
<1>3. PICK w \in Statuses, d \in Nat :
        /\ user' = [user EXCEPT ![u] = [user[u] EXCEPT !.status = w, !.disables = d]]
        /\ w \in {job[t].wanted, user[u].status}
        /\ user[u].disables <= d
        /\ d = user[u].disables /\ user[u].status = "active" => w = "active"
  <2> DEFINE w == IF job[t].wanted # job[t].read.status THEN job[t].wanted ELSE user[u].status
             d == IF w = "disabled" /\ user[u].status = "active"
                  THEN user[u].disables + 1 ELSE user[u].disables
  <2>1. w \in Statuses /\ d \in Nat /\ user[u].disables <= d /\ w \in {job[t].wanted, user[u].status}
    BY <1>2
  <2>2. d = user[u].disables /\ user[u].status = "active" => w = "active"
    BY <1>2, <2>1 DEF Statuses
  <2>3. user' = [user EXCEPT ![u] = [user[u] EXCEPT !.status = w, !.disables = d]]
    BY <1>1, <1>2 DEF SetStatus, User, IInv, TypeOK
  <2> QED
    BY <2>1, <2>2, <2>3
<1> DEFINE row == [user[u] EXCEPT !.status = w, !.disables = d]
           R == Revoke(job[t].found)
<1>4. /\ row \in User /\ row.status = w /\ row.password = user[u].password /\ row.disables = d
      /\ user' = [user EXCEPT ![u] = row]
  BY <1>2, <1>3 DEF User
<1>5. /\ job' = [job EXCEPT ![t] = NoJob] /\ UNCHANGED accounts /\ session' = R
  BY DEF SetStatus, Done
<1>6. /\ session' \in [SessionIds -> Session \cup {NoSession}]
      /\ \A s \in SessionIds :
           /\ Exists(s) <=> session'[s] # NoSession
           /\ s \in job[t].found /\ Exists(s) => session'[s].state = "revoked"
           /\ Exists(s) => /\ session'[s].user = session[s].user
                           /\ session'[s].raced = session[s].raced
                           /\ session'[s].password = session[s].password
                           /\ session'[s].state = "live" => session[s].state = "live"
  BY <1>5, RevokeKeeps DEF IInv
<1> HIDE DEF row, R
<1>7. /\ user' \in [Users -> User \cup {NoAccount}]
      /\ user'[u] = row /\ \A x \in Users \ {u} : user'[x] = user[x]
      /\ \A x \in Users : user'[x] # NoAccount <=> Registered(x)
  BY <1>1, <1>4, WrittenRows DEF IInv, TypeOK, Registered
<1>8. Evolves
  <2>1. \A x \in Users : Registered(x) => user[x].disables \in Nat
    BY UserFields DEF IInv
  <2>2. \A x \in Users : Registered(x) =>
          /\ user'[x] # NoAccount
          /\ user[x].disables \in Nat /\ user'[x].disables \in Nat
          /\ user[x].disables <= user'[x].disables
          /\ user'[x].disables = user[x].disables /\ user[x].status = "active"
                => user'[x].status = "active"
    BY <1>1, <1>3, <1>4, <1>7, <2>1
  <2> QED
    BY <1>6, <2>2 DEF Evolves
<1>9. ASSUME NEW s \in SessionIds, Exists(s) PROVE SessionInv(s)'
  <2>1. SessionInv(s) /\ session[s].user \in Users
    BY <1>9, SessionFields DEF IInv
  <2>2. CASE session[s].user # u
    BY <1>6, <1>7, <1>9, <2>1, <2>2 DEF SessionInv, Live, Exists, Registered
  <2>3. CASE session[s].user = u /\ At(t, "disabling")
    <3>1. Live(s)' => Live(s) /\ s \notin job[t].found
      BY <1>6, <1>9 DEF Live, Exists
    <3>2. Live(s)' => session'[s].raced
      BY <1>1, <1>2, <1>6, <1>9, <2>3, <3>1 DEF Matched, At
    <3> QED
      BY <1>6, <1>7, <1>9, <2>1, <3>2 DEF SessionInv, Registered, Live
  <2>4. CASE session[s].user = u /\ At(t, "setting") /\ job[t].wanted = "active"
    <3>1. w = "disabled" => user[u].status = "disabled"
      BY <1>3, <2>4
    <3> QED
      BY <1>1, <1>4, <1>6, <1>7, <1>9, <2>1, <2>4, <3>1 DEF SessionInv, Live, Exists, Registered
  <2> QED
    BY <1>2, <2>2, <2>3, <2>4
<1> QED
  BY <1>2, <1>5, <1>6, <1>7, <1>8, <1>9, RevokingStep

-----------------------------------------------------------------------------
(* The invariant holds initially and every step keeps it                   *)

LEMMA InvInit == Init => IInv
<1> SUFFICES ASSUME Init PROVE IInv
  OBVIOUS
<1> USE BlankRecords
<1>1. TypeOK
  BY DEF Init, TypeOK
<1>2. \A t \in Threads : JobInv(t)
  BY DEF Init, JobInv, KnowsUser, ReadWhileActive, OwnSession, Matched, At
<1>3. \A u \in Users : AccountTold(u)
  BY DEF Init, AccountTold, Telling, Registered, At
<1>4. \A s \in SessionIds : SessionInv(s)
  BY DEF Init, SessionInv, Exists
<1> QED
  BY <1>1, <1>2, <1>3, <1>4 DEF IInv

LEMMA InvNext == IInv /\ [Next]_vars => IInv'
<1> SUFFICES ASSUME IInv, [Next]_vars PROVE IInv'
  OBVIOUS
<1>1. CASE UNCHANGED vars
  <2>1. TypeOK'
    BY <1>1 DEF vars, IInv, TypeOK
  <2>2. \A t \in Threads : JobInv(t)'
    BY <1>1 DEF vars, IInv, JobInv, KnowsUser, ReadWhileActive, OwnSession, Matched, At,
       Registered, Exists, Live
  <2>3. \A u \in Users : AccountTold(u)'
    BY <1>1 DEF vars, IInv, AccountTold, Telling, Registered, At
  <2>4. \A s \in SessionIds : SessionInv(s)'
    BY <1>1 DEF vars, IInv, SessionInv, Registered, Exists, Live
  <2> QED
    BY <2>1, <2>2, <2>3, <2>4 DEF IInv
<1>2. ASSUME NEW t \in Threads, Register(t) PROVE IInv'
  BY <1>2, BeginStep, RegisterStep DEF Register
<1>3. ASSUME NEW t \in Threads, Login(t) PROVE IInv'
  BY <1>3, BeginStep, RecordMissStep, CreateSessionStep DEF Login
<1>4. ASSUME NEW t \in Threads, Request(t) PROVE IInv'
  BY <1>4, BeginStep, ContinueStep, LogoutStep, ChangePasswordStep DEF Request
<1>5. ASSUME NEW t \in Threads, Administer(t) PROVE IInv'
  BY <1>5, BeginStep, ContinueStep, SetStatusStep DEF Administer
<1>6. ASSUME NEW u \in Users, LockEnds(u) PROVE IInv'
  BY <1>6, TimeStep
<1>7. ASSUME NEW s \in SessionIds, SessionEnds(s) PROVE IInv'
  BY <1>7, TimeStep
<1> QED
  BY <1>1, <1>2, <1>3, <1>4, <1>5, <1>6, <1>7 DEF Next

(* The invariant is inductive: it holds in every state of every behaviour  *)
(* of the accounts and sessions.                                           *)
THEOREM Invariance == Spec => []IInv
<1>1. Init => IInv
  BY InvInit
<1>2. IInv /\ [Next]_vars => IInv'
  BY InvNext
<1> QED
  BY <1>1, <1>2, PTL DEF Spec

(* Type correctness: rows and requests keep their types, whatever the      *)
(* interleaving.                                                           *)
THEOREM TypeCorrect == Spec => []TypeOK
<1>1. IInv => TypeOK
  BY DEF IInv
<1> QED
  BY <1>1, Invariance, PTL

(* A disabled account, or an older password, backs no live session but one *)
(* whose login was under way when the others were ended.                   *)
THEOREM OnlyRacersSurviveHolds == Spec => []OnlyRacersSurvive
<1>1. IInv => OnlyRacersSurvive
  BY DEF IInv, SessionInv, OnlyRacersSurvive, Live
<1> QED
  BY <1>1, Invariance, PTL

(* Of all who create one user, one is told a password and the others are   *)
(* refused.                                                                *)
THEOREM ToldOnceHolds == Spec => []ToldOnce
<1>1. IInv => ToldOnce
  <2> SUFFICES ASSUME IInv, NEW u \in Users
               PROVE  told[u] + Cardinality(Telling(u)) + (IF u \in lost THEN 1 ELSE 0)
                        = IF Registered(u) THEN 1 ELSE 0
    BY DEF ToldOnce, Telling
  <2>1. AccountTold(u)
    BY DEF IInv
  <2>2. Cardinality({}) = 0 /\ \A t : Cardinality({t}) = 1
    BY FS_EmptySet, FS_Singleton
  <2>3. CASE Telling(u) = {}
    BY <2>1, <2>2, <2>3 DEF AccountTold
  <2>4. CASE Registered(u) /\ told[u] = 0 /\ u \notin lost /\ \E t \in Threads : Telling(u) = {t}
    <3>1. Cardinality(Telling(u)) = 1
      BY <2>2, <2>4
    <3> QED
      BY <2>4, <3>1
  <2> QED
    BY <2>1, <2>3, <2>4 DEF AccountTold
<1> QED
  BY <1>1, Invariance, PTL

-----------------------------------------------------------------------------
(* What a step may never do                                                *)

(* Every step that touches sessions, by what it does to one that exists.   *)
LEMMA SessionSteps ==
    ASSUME IInv, [Next]_vars
    PROVE  \/ session' = session
           \/ \E S : session' = Revoke(S)
           \/ \E S, x : session' = [Revoke(S) EXCEPT ![x].password = session'[x].password]
           \/ \E x \in SessionIds : \E row : ~ Exists(x) /\ session' = [session EXCEPT ![x] = row]
           \/ \E x \in SessionIds : /\ Exists(x) /\ session[x].state = "live"
                                    /\ session' = [session EXCEPT ![x].state = "expired"]
<1>1. CASE UNCHANGED vars
  BY <1>1 DEF vars
<1>2. ASSUME NEW t \in Threads, Register(t) PROVE session' = session
  BY <1>2 DEF Register, LookUpName, InsertUser, TellPassword, LosePassword
<1>3. ASSUME NEW t \in Threads, Login(t)
      PROVE  \/ session' = session
             \/ \E x \in SessionIds : \E row : ~ Exists(x) /\ session' = [session EXCEPT ![x] = row]
  BY <1>3 DEF Login, LoginRead, LoginMisses, RecordMiss, CreateSession
<1>4. ASSUME NEW t \in Threads, Administer(t)
      PROVE  session' = session \/ \E S : session' = Revoke(S)
  BY <1>4 DEF Administer, ReadForStatus, RevokeAll, UpdateSessions, SetStatus
<1>5. ASSUME NEW t \in Threads, ChangePassword(t)
      PROVE  \E S, x : session' = [Revoke(S) EXCEPT ![x].password = session'[x].password]
  <2>1. job[t].session \in SessionIds
    BY <1>5 DEF IInv, JobInv, OwnSession, ChangePassword, At
  <2>2. \E S, n : session' = [Revoke(S) EXCEPT ![job[t].session].password = n]
    BY <1>5 DEF ChangePassword
  <2>3. \A S : Revoke(S)[job[t].session] \in Session
    BY <1>5, RevokeKeeps DEF IInv, JobInv, OwnSession, ChangePassword, At
  <2>4. PICK S, n : session' = [Revoke(S) EXCEPT ![job[t].session].password = n]
    BY <2>2
  <2>5. session'[job[t].session].password = n
    BY <2>1, <2>3, <2>4 DEF Revoke, Session
  <2> QED
    BY <2>4, <2>5
<1>6. ASSUME NEW t \in Threads, Request(t), ~ ChangePassword(t)
      PROVE  session' = session \/ \E S : session' = Revoke(S)
  BY <1>6 DEF Request, LoadSession, LoadUser, Touch, Finish, Logout, RevokeOthers, UpdateSessions
<1>7. ASSUME NEW u \in Users, LockEnds(u) PROVE session' = session
  BY <1>7 DEF LockEnds
<1>8. ASSUME NEW x \in SessionIds, SessionEnds(x)
      PROVE  /\ Exists(x) /\ session[x].state = "live"
             /\ session' = [session EXCEPT ![x].state = "expired"]
  BY <1>8 DEF SessionEnds
<1> QED
  BY <1>1, <1>2, <1>3, <1>4, <1>5, <1>6, <1>7, <1>8 DEF Next

(* A revoked session stays revoked and keeps its owner: requests that      *)
(* loaded it before only commit when it was last seen.                     *)
THEOREM RevocationIsFinalHolds == Spec => RevocationIsFinal
<1>1. ASSUME IInv, [Next]_vars, NEW s \in SessionIds, Exists(s), session[s].state = "revoked"
      PROVE  session'[s] = [session[s] EXCEPT !.password = session'[s].password]
  <2>1. session[s] \in Session /\ session \in [SessionIds -> Session \cup {NoSession}]
    BY <1>1, SessionFields DEF IInv, TypeOK
  <2>2. session[s] = [session[s] EXCEPT !.password = session[s].password]
    BY <2>1 DEF Session
  <2>3. \A S : Revoke(S)[s] = session[s]
    <3>1. [session[s] EXCEPT !.state = "revoked"] = session[s]
      BY <1>1, <2>1 DEF Session
    <3> QED
      BY <3>1 DEF Revoke
  <2>4. ASSUME NEW S, NEW x,
               session' = [Revoke(S) EXCEPT ![x].password = session'[x].password]
        PROVE  session'[s] = [session[s] EXCEPT !.password = session'[s].password]
    <3>1. CASE x = s
      BY <2>3, <2>4, <3>1 DEF Revoke
    <3>2. CASE x # s
      <4>1. session'[s] = session[s]
        BY <2>3, <2>4, <3>2 DEF Revoke
      <4> QED
        BY <2>2, <4>1
    <3> QED
      BY <3>1, <3>2
  <2>5. ASSUME NEW x \in SessionIds, NEW row,
               \/ ~ Exists(x) /\ session' = [session EXCEPT ![x] = row]
               \/ session[x].state = "live" /\ session' = [session EXCEPT ![x].state = "expired"]
        PROVE  session'[s] = session[s]
    BY <1>1, <2>1, <2>5
  <2> QED
    BY <1>1, <2>2, <2>3, <2>4, <2>5, SessionSteps
<1>2. IInv /\ [Next]_vars =>
        [\A s \in SessionIds : Exists(s) /\ session[s].state = "revoked"
            => session'[s] = [session[s] EXCEPT !.password = session'[s].password]]_vars
  BY <1>1
<1> QED
  BY <1>2, Invariance, PTL DEF Spec, RevocationIsFinal

(* An account's status changes only by the request of an administrator     *)
(* that wants it so: neither a login, nor a wrong password, nor a change   *)
(* of the password writes back the status it had read.                     *)
THEOREM StatusIsTheAdministratorsHolds == Spec => StatusIsTheAdministrators
<1>1. ASSUME IInv, [Next]_vars, NEW u \in Users, Registered(u), user'[u].status # user[u].status
      PROVE  \E t \in Threads : /\ job[t].pc \in {"setting", "disabling"} /\ job[t].user = u
                                /\ job[t].wanted = user'[u].status
  <2>1. user[u] \in User /\ user \in [Users -> User \cup {NoAccount}]
    BY <1>1, UserFields DEF IInv, TypeOK
  <2>2. CASE UNCHANGED user
    BY <1>1, <2>2
  <2>3. ASSUME NEW t \in Threads, InsertUser(t) PROVE FALSE
    BY <1>1, <2>1, <2>3 DEF InsertUser, Registered
  <2>4. ASSUME NEW t \in Threads, RecordMiss(t) \/ CreateSession(t) \/ ChangePassword(t) PROVE FALSE
    <3>1. CASE RecordMiss(t)
      BY <1>1, <2>1, <3>1 DEF RecordMiss, User
    <3>2. CASE CreateSession(t)
      BY <1>1, <2>1, <3>2 DEF CreateSession, LoginColumns, User
    <3>3. CASE ChangePassword(t)
      BY <1>1, <2>1, <3>3 DEF ChangePassword, User
    <3> QED
      BY <2>4, <3>1, <3>2, <3>3
  <2>5. ASSUME NEW x \in Users, LockEnds(x) PROVE FALSE
    BY <1>1, <2>1, <2>5 DEF LockEnds, User
  <2>6. ASSUME NEW t \in Threads, SetStatus(t)
        PROVE  /\ job[t].pc \in {"setting", "disabling"} /\ job[t].user = u
               /\ job[t].wanted = user'[u].status
    BY <1>1, <2>1, <2>6 DEF SetStatus, User, At
  <2>7. ASSUME NEW t \in Threads, Register(t) \/ Login(t) \/ Request(t) \/ Administer(t)
        PROVE  \/ UNCHANGED user \/ InsertUser(t) \/ RecordMiss(t) \/ CreateSession(t)
               \/ ChangePassword(t) \/ SetStatus(t)
    BY <2>7 DEF Register, LookUpName, TellPassword, LosePassword, Login, LoginRead, LoginMisses,
       Request, LoadSession, LoadUser, Finish, Logout, RevokeOthers, Administer, ReadForStatus,
       RevokeAll, UpdateSessions
  <2>8. ASSUME NEW s \in SessionIds, SessionEnds(s) PROVE UNCHANGED user
    BY <2>8 DEF SessionEnds
  <2> QED
    BY <1>1, <2>2, <2>3, <2>4, <2>5, <2>6, <2>7, <2>8 DEF Next, vars
<1>2. IInv /\ [Next]_vars =>
        [\A u \in Users : Registered(u) /\ user'[u].status # user[u].status
            => \E t \in Threads : /\ job[t].pc \in {"setting", "disabling"} /\ job[t].user = u
                                  /\ job[t].wanted = user'[u].status]_vars
  BY <1>1
<1> QED
  BY <1>2, Invariance, PTL DEF Spec, StatusIsTheAdministrators
=============================================================================
