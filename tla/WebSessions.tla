----------------------------- MODULE WebSessions -----------------------------
(***************************************************************************)
(* Accounts and browser sessions: auth.py behind the endpoints of api.py.  *)
(*                                                                         *)
(* Every request runs in a thread of the server's pool with a database     *)
(* session of its own.  It reads rows, decides on what it read, and        *)
(* commits later; no row is locked in between and verifying a password     *)
(* takes long.  On commit the object mapper writes the columns whose value *)
(* the request changed from what it had read, and no others.               *)
(*                                                                         *)
(* Passwords are numbered: user[u].password is the number of the current   *)
(* one, and must_change_password is true of the first.  Tokens against     *)
(* forged requests are in WebClient.  A request that is refused changes    *)
(* nothing and is not a step, unless it had changed its thread's state     *)
(* before.                                                                 *)
(***************************************************************************)
EXTENDS Integers, FiniteSets

CONSTANTS
    Users,           \* names of child users
    Threads,         \* request threads, and processes of the command line
    SessionIds,      \* ids for rows of web_sessions (bounds the logins)
    LoginLimit,      \* wrong passwords before the account is locked for a while
    MaxPassword,     \* bound: the number of passwords a user may have
    MaxDisables,     \* bound: a user is not disabled again after so many times
    NoUser, NoSession, NoAccount

ASSUME UsersType == NoUser \notin Users
ASSUME LimitType == LoginLimit \in Nat \ {0}
ASSUME BoundsType == MaxPassword \in Nat \ {0} /\ MaxDisables \in Nat

Statuses == {"active", "disabled"}

(* lock is locked_until: null, a time gone by, or a time to come.          *)
User == [status : Statuses, password : Nat, failed : 0 .. LoginLimit - 1,
         lock : {"none", "elapsed", "held"},
         disables : Nat]      \* history: how often this user was disabled

(* raced is history: a request that should have ended the session was      *)
(* under way, or came and went, between the login's read and its commit.   *)
(* password is the number of the password its owner last proved to know.   *)
Session == [user : Users, state : {"live", "expired", "revoked"},
            password : Nat, raced : BOOLEAN]

Stages == {"idle", "registering", "telling", "creating", "missed", "loaded", "acting", "changing", "setting", "disabling"}
(* read is what the request keeps of the row it read. *)
Job == [pc : Stages, user : Users \cup {NoUser}, read : User,
        session : SessionIds \cup {NoSession}, wanted : Statuses,
        found : SUBSET SessionIds]     \* the sessions its UPDATE matched

VARIABLES
    user,        \* the table users: [Users -> User \cup {NoAccount}]
    told,        \* how often a one-time password was shown for a user
    lost,        \* history: the users whose creation failed after its commit
    session,     \* the table web_sessions: [SessionIds -> Session \cup {NoSession}]
    job          \* each thread's request: [Threads -> Job]

ASSUME NoSessionType == NoSession \notin Session \cup SessionIds
ASSUME NoAccountType == NoAccount \notin User

vars == <<user, told, lost, session, job>>
accounts == <<told, lost>>

NewUser == [status |-> "active", password |-> 1, failed |-> 0, lock |-> "none",
            disables |-> 0]
NoJob == [pc |-> "idle", user |-> NoUser, read |-> NewUser, session |-> NoSession,
          wanted |-> "active", found |-> {}]

Init ==
    /\ user = [u \in Users |-> NoAccount]
    /\ told = [u \in Users |-> 0] /\ lost = {}
    /\ session = [s \in SessionIds |-> NoSession]
    /\ job = [t \in Threads |-> NoJob]

At(t, stage) == job[t].pc = stage
Exists(s) == session[s] # NoSession
Registered(u) == user[u] # NoAccount
Done(t) == job' = [job EXCEPT ![t] = NoJob]

-----------------------------------------------------------------------------
(* An account is created, by an administrator's request or the command line*)

(* The name is looked up; the command line does so twice, which decides    *)
(* nothing.                                                                *)
LookUpName(t, u) ==
    /\ At(t, "idle") /\ ~ Registered(u)
    /\ job' = [job EXCEPT ![t] = [NoJob EXCEPT !.pc = "registering", !.user = u]]
    /\ UNCHANGED <<user, accounts, session>>

(* Faulty variants, here and below, stand before what they replace when    *)
(* the properties' strength is measured.                                   *)
InsertUserOrIgnore(t) ==
    /\ At(t, "registering")
    /\ user' = [user EXCEPT ![job[t].user] = IF @ = NoAccount THEN NewUser ELSE @]
    /\ job' = [job EXCEPT ![t].pc = "telling"]
    /\ UNCHANGED <<accounts, session>>

(* Somebody may have taken the name since: the unique constraint refuses.  *)
InsertUser(t) ==
    /\ At(t, "registering")
    /\ IF Registered(job[t].user)
       THEN Done(t) /\ UNCHANGED user
       ELSE /\ user' = [user EXCEPT ![job[t].user] = NewUser]
            /\ job' = [job EXCEPT ![t].pc = "telling"]
    /\ UNCHANGED <<accounts, session>>

(* The administrator reads the password in the answer, which follows the   *)
(* audit row's commit, or in the credentials file.                         *)
TellPassword(t) ==
    /\ At(t, "telling")
    /\ told' = [told EXCEPT ![job[t].user] = @ + 1]
    /\ Done(t)
    /\ UNCHANGED <<user, lost, session>>

(* The audit row is refused, the answer is lost, the file cannot be        *)
(* written, the process dies: the account stays.                           *)
LosePassword(t) ==
    /\ At(t, "telling")
    /\ lost' = lost \cup {job[t].user}
    /\ Done(t)
    /\ UNCHANGED <<user, told, session>>

-----------------------------------------------------------------------------
(* Login: read the account and verify, then commit                         *)

MayLogInUnlocked(u) == Registered(u) /\ told[u] > 0 /\ user[u].lock # "held"

(* Nobody but its creator's administrator has the first password. *)
MayLogIn(u) ==
    Registered(u) /\ told[u] > 0 /\ user[u].lock # "held" /\ user[u].status = "active"

(* The bound: an id is left for every login that has begun. *)
IdLeft == Cardinality({t \in Threads : At(t, "creating")})
              < Cardinality({s \in SessionIds : ~ Exists(s)})

LoginRead(t, u) ==
    /\ At(t, "idle")
    /\ MayLogIn(u) /\ IdLeft
    /\ job' = [job EXCEPT ![t] = [NoJob EXCEPT
                  !.pc = "creating", !.user = u, !.read = user[u]]]
    /\ UNCHANGED <<user, session, accounts>>

(* A wrong password is counted before the account's status is looked at. *)
LoginMisses(t, u) ==
    /\ At(t, "idle")
    /\ Registered(u) /\ user[u].lock # "held"
    /\ job' = [job EXCEPT ![t] = [NoJob EXCEPT
                  !.pc = "missed", !.user = u, !.read.failed = user[u].failed]]
    /\ UNCHANGED <<user, session, accounts>>

RecordMissUnreset(t) ==
    /\ At(t, "missed")
    /\ user' = [user EXCEPT
           ![job[t].user].failed = job[t].read.failed + 1,
           ![job[t].user].lock = IF job[t].read.failed + 1 < LoginLimit THEN @ ELSE "held"]
    /\ Done(t)
    /\ UNCHANGED <<session, accounts>>

(* The count of the row that was read, plus one, is written back; only     *)
(* the columns changed from what was read are.                             *)
RecordMiss(t) ==
    /\ At(t, "missed")
    /\ LET u == job[t].user
           failed == job[t].read.failed + 1
       IN user' = IF failed < LoginLimit
                  THEN [user EXCEPT ![u].failed = failed]
                  ELSE [user EXCEPT ![u].failed = IF job[t].read.failed = 0 THEN @ ELSE 0,
                                    ![u].lock = "held"]
    /\ Done(t)
    /\ UNCHANGED <<session, accounts>>

WholeRow(t) == [user EXCEPT ![job[t].user] =
                   [job[t].read EXCEPT !.failed = 0, !.lock = "none"]]

(* The counter is reset and the lock cleared when the row read had one. *)
LoginColumns(t) ==
    [user EXCEPT
        ![job[t].user].failed = IF job[t].read.failed = 0 THEN @ ELSE 0,
        ![job[t].user].lock = IF job[t].read.lock = "none" THEN @ ELSE "none"]

(* History only: what raced records of the login that commits now. *)
Overtaken(t) ==
    LET u == job[t].user IN
    \/ user[u].disables # job[t].read.disables
    \/ user[u].password # job[t].read.password
    \/ \E other \in Threads : job[other].pc \in {"changing", "disabling"} /\ job[other].user = u

CreateSession(t) ==
    /\ At(t, "creating")
    /\ \E s \in SessionIds :
        /\ ~ Exists(s)
        /\ session' = [session EXCEPT ![s] =
               [user |-> job[t].user, state |-> "live",
                password |-> job[t].read.password, raced |-> Overtaken(t)]]
    /\ user' = LoginColumns(t)
    /\ Done(t)
    /\ UNCHANGED accounts

(* The quarter of an hour of a lock, and the hours of a session, pass.     *)
LockEnds(u) ==
    /\ Registered(u) /\ user[u].lock = "held"
    /\ user' = [user EXCEPT ![u].lock = "elapsed"]
    /\ UNCHANGED <<session, job, accounts>>

SessionEnds(s) ==
    /\ Exists(s) /\ session[s].state = "live"
    /\ session' = [session EXCEPT ![s].state = "expired"]
    /\ UNCHANGED <<user, job, accounts>>

-----------------------------------------------------------------------------
(* A request with a session cookie                                         *)

LoadSession(t, s) ==
    /\ At(t, "idle")
    /\ Exists(s) /\ session[s].state = "live"
    /\ job' = [job EXCEPT ![t] = [NoJob EXCEPT
                  !.pc = "loaded", !.user = session[s].user, !.session = s]]
    /\ UNCHANGED <<user, session, accounts>>

(* The user's row is read by a second statement; last_seen_at is committed *)
(* and leaves every other column of the session alone.                     *)
TouchWholeRow(t) == [session EXCEPT ![job[t].session].state = "live"]
Touch(t) == session

LoadUser(t) ==
    /\ At(t, "loaded")
    /\ IF user[job[t].user].status = "active"
       THEN /\ job' = [job EXCEPT ![t].pc = "acting"]
            /\ session' = Touch(t)
       ELSE Done(t) /\ UNCHANGED session
    /\ UNCHANGED <<user, accounts>>

(* Any endpoint that changes neither accounts nor sessions, or a refusal. *)
Finish(t) == At(t, "acting") /\ Done(t) /\ UNCHANGED <<user, session, accounts>>

(* Sessions are marked where revoked_at is null, and stay marked. *)
Revoke(S) ==
    [s \in SessionIds |-> IF s \in S /\ Exists(s)
                          THEN [session[s] EXCEPT !.state = "revoked"] ELSE session[s]]

SessionsOf(u) == {s \in SessionIds : Exists(s) /\ session[s].user = u}

(* A session that was loaded is not revoked in the copy that was loaded. *)
Logout(t) ==
    /\ At(t, "acting")
    /\ session' = Revoke({job[t].session})
    /\ Done(t)
    /\ UNCHANGED <<user, accounts>>

(* The UPDATE of the sessions matches the rows committed by then and is    *)
(* seen when it commits.  The user's row is written with the commit only:  *)
(* the object mapper does not flush before a statement (db.py 35).         *)
UpdateSessions(t, stage, found) ==
    /\ job' = [job EXCEPT ![t].pc = stage, ![t].found = found]
    /\ UNCHANGED <<user, session, accounts>>

(* The bound: a number is left for every change that has begun. *)
PasswordLeft(u) ==
    Cardinality({t \in Threads : At(t, "changing") /\ job[t].user = u}) + user[u].password
        < MaxPassword

(* The password is checked against the row that LoadUser read, which the   *)
(* client may match whatever became of it since.                           *)
RevokeOthers(t) ==
    /\ At(t, "acting") /\ PasswordLeft(job[t].user)
    /\ UpdateSessions(t, "changing", SessionsOf(job[t].user) \ {job[t].session})

(* The request's own session stays, now backed by the new password.        *)
ChangePassword(t) ==
    /\ At(t, "changing")
    /\ LET u == job[t].user IN
        /\ user' = [user EXCEPT ![u].password = @ + 1]
        /\ session' = [Revoke(job[t].found) EXCEPT ![job[t].session].password = user[u].password + 1]
    /\ Done(t)
    /\ UNCHANGED accounts

-----------------------------------------------------------------------------
(* The administrator sets a user's status                                  *)

ReadForStatus(t, u, status) ==
    /\ At(t, "idle") /\ Registered(u)
    /\ status = "disabled" => user[u].disables < MaxDisables
    /\ job' = [job EXCEPT ![t] = [NoJob EXCEPT
                  !.pc = "setting", !.user = u, !.read.status = user[u].status,
                  !.wanted = status]]
    /\ UNCHANGED <<user, session, accounts>>

RevokeAll(t) ==
    /\ At(t, "setting") /\ job[t].wanted = "disabled"
    /\ UpdateSessions(t, "disabling", SessionsOf(job[t].user))

(* The status is written when it differs from what was read; disabling     *)
(* revokes in any case.                                                    *)
SetStatus(t) ==
    /\ \/ At(t, "setting") /\ job[t].wanted = "active"
       \/ At(t, "disabling")
    /\ LET u == job[t].user
           status == job[t].wanted
           written == IF status # job[t].read.status THEN status ELSE user[u].status
           disabling == written = "disabled" /\ user[u].status = "active"
       IN user' = [user EXCEPT ![u].status = written,
                               ![u].disables = IF disabling THEN @ + 1 ELSE @]
    /\ session' = Revoke(job[t].found)
    /\ Done(t)
    /\ UNCHANGED accounts

Register(t) ==
    (\E u \in Users : LookUpName(t, u)) \/ InsertUser(t) \/ TellPassword(t) \/ LosePassword(t)
Login(t) ==
    (\E u \in Users : LoginRead(t, u) \/ LoginMisses(t, u)) \/ RecordMiss(t) \/ CreateSession(t)
Request(t) ==
    (\E s \in SessionIds : LoadSession(t, s)) \/ LoadUser(t) \/ Finish(t)
    \/ Logout(t) \/ RevokeOthers(t) \/ ChangePassword(t)
Administer(t) ==
    (\E u \in Users, status \in Statuses : ReadForStatus(t, u, status))
    \/ RevokeAll(t) \/ SetStatus(t)

Next ==
    \/ \E t \in Threads : Register(t) \/ Login(t) \/ Request(t) \/ Administer(t)
    \/ \E u \in Users : LockEnds(u)
    \/ \E s \in SessionIds : SessionEnds(s)

Spec == Init /\ [][Next]_vars

-----------------------------------------------------------------------------
(* Properties                                                              *)

TypeOK ==
    /\ user \in [Users -> User \cup {NoAccount}]
    /\ told \in [Users -> Nat] /\ lost \subseteq Users
    /\ session \in [SessionIds -> Session \cup {NoSession}]
    /\ job \in [Threads -> Job]

Live(s) == Exists(s) /\ session[s].state = "live"

(* Disabling an account and changing its password end its sessions, and    *)
(* the only ones to outlive that are those whose login was under way at    *)
(* the same time: no login that begins later gets in while the account is  *)
(* disabled, and no older session lives on (auth.py 54-85 against 161-174  *)
(* and 217-224).                                                           *)
OnlyRacersSurvive ==
    \A s \in SessionIds : Live(s) =>
        LET u == session[s].user IN
        user[u].status = "disabled" \/ session[s].password # user[u].password
            => session[s].raced

(* A revoked session stays revoked, although requests that loaded it       *)
(* before commit last_seen_at afterwards (113-114, 180-182).               *)
RevocationIsFinal ==
    [][\A s \in SessionIds : Exists(s) /\ session[s].state = "revoked"
          => session'[s] = [session[s] EXCEPT !.password = session'[s].password]]_vars

(* An account's status changes only by what an administrator wrote, never  *)
(* because a login or a password change that had read the old row commits  *)
(* it back (81-85, 163-174).                                               *)
StatusIsTheAdministrators ==
    [][\A u \in Users : Registered(u) /\ user'[u].status # user[u].status
          => \E t \in Threads : /\ job[t].pc \in {"setting", "disabling"} /\ job[t].user = u
                                /\ job[t].wanted = user'[u].status]_vars

(* Two administrators who create one user at once: one of them is told a   *)
(* password, and it is the account's; the other is refused (auth.py 185-   *)
(* 205, "return its password exactly once").  An account whose password    *)
(* nobody was told is one whose creation failed after its commit           *)
(* (api.py 366-372, cli.py 88-106).                                        *)
ToldOnce ==
    \A u \in Users :
        LET telling == {t \in Threads : At(t, "telling") /\ job[t].user = u} IN
        told[u] + Cardinality(telling) + (IF u \in lost THEN 1 ELSE 0)
            = IF Registered(u) THEN 1 ELSE 0

(* docs/SYSTEM.md: when the administrator disables a user, all of that     *)
(* user's Web sessions are revoked at once.                                *)
DisabledUserHasNoSession ==
    \A s \in SessionIds : Live(s) => user[session[s].user].status = "active"
=============================================================================
