# laoliuliu: a TLA+ verification project

laoliuliu collects lottery draws from one public source into PostgreSQL, shows
statistics about them to users whom an administrator manages, and lets an
external AI service explain those statistics. The program is a FastAPI service,
a scheduler process and a command line that share one database; there is no
lock, queue or message between them.

This directory holds TLA+ models of its parts, the TLC configurations that check
them on small instances, and theorems about them that TLAPS proves for every
value of the constants. `PROJECT.json` lists the parts, the runs, the lines every
definition stands for, the hazards and the findings. Paths below are relative to
the repository's root; `ingestion.py` and the like are in `laoliuliu/`.

To check a run or a proof:

    tlc -config IngestionSafety.cfg MCIngestion
    tlapm IngestionProofs.tla

## 1. The system

### Parts, their state, their operations

| part | state | operations | modelled in |
|---|---|---|---|
| synchronization (`ingestion.py`) | `draw_records`, `source_sync_runs`, `raw_source_snapshots` | history import, incremental update | `Ingestion`, `DrawLedger` |
| source client and parser (`source.py`) | none | fetch with two attempts, parse, filter by scope, order | the filter, the order and the window in `Ingestion`, `DailySync` |
| scheduler (`scheduler.py`) | the time it sleeps, the attempt it is at | one run a day, retries while nothing is new | `DailySync` |
| accounts and sessions (`auth.py`) | `users`, `web_sessions` | create a user, login, load a session, log out, change the password, set a status; rotate the CSRF token | `WebSessions`; the token in `WebClient` |
| statistics (`zodiac.py`, `analysis.py`) | none; reads `draw_records` | zodiac of a number, analysis of an issue, list of the issues that have one | `DrawAnalysis` |
| number combinations (`combinations.py`) | none; reads `draw_records` twice | ranked numbers and groups of three | `NumberCombinations` |
| AI configuration and audit (`api.py` 403-468, 530-550) | `ai_providers`, `audit_logs` | PUT of the configuration, its audit row | `AiService` |
| AI explanations (`api.py` 260-310, `ai.py`) | `analysis_runs` | ask, settle the run | `AiService` |
| administrator's endpoints (`api.py`) | `audit_logs` | create and list users, set status, start a synchronization | creation and status in `WebSessions`, synchronizations in `Ingestion` |
| maintenance (`maintenance.py`) | none; writes draws, snapshots, `analysis_runs` | one-off prune of what lies before the approved start | `Maintenance` |
| command line (`cli.py`) | a credentials file | creation of identities, synchronization, prune | `WebSessions`, `Ingestion`, `Maintenance` |
| read endpoints (`api.py`) | none | the paged list of draws; other lists | `DrawPages`; the others are single reads |
| browser client (`web/assets/app.js`) | whom it shows, the CSRF token, the page of draws | restore, login, logout, password, views, paging | `WebClient`, `DrawPages` |
| settings, schema, secrets, migrations, deployment | - | - | bounds, constraints and flags enter the models above |

### How they interact

All interaction is through the database at READ COMMITTED. A synchronization is
started by the scheduler, by a request thread or from the command line, with
nothing to serialize the three. Requests run in the threads of one server
process, each with a database session of its own. `db.py` 35 turns autoflush off
and keeps objects after a commit, so a request decides on rows it read earlier,
an UPDATE it states explicitly is executed before the rows it merely changed in
memory are written, and a commit writes only the columns that changed from what
was read. These four facts are the source of most of what is hard here, and the
models keep all of them.

A browser adds two more: its tabs share one cookie while each keeps a token and a
user name of its own, and its calls are answered in any order or not at all.

### What is hard, and what makes each part correct

* **Synchronization.** Two workers may fetch, compare and insert at once; any
  statement may fail; a process may die between the two transactions; a commit
  may take effect and be reported as failed. Correct is: the draw table grows
  by whole batches, each from a run whose snapshot says the same; a failed run
  leaves nothing; an anchor is never guessed; a stored draw is never changed.
* **Scheduler.** Deaths, restarts and failures on any day, draws published late,
  a source that returns only its last five draws. Correct is: one start a
  day, no hole in the issues unless the outage was longer than the window, and
  every issue stored in the end.
* **Sessions.** A login verifies a password for a long time between its read and
  its commit. Correct is: disabling an account or changing its password ends
  the other sessions for good, and no request that had read an old row restores
  anything.
* **Accounts.** The row is committed before its one-time password is shown. Correct
  is: of two who create one user one is told a password, and it is the account's.
* **Browser.** A tab's memory goes stale whenever another tab logs in, loads or
  logs out. Correct is: no change is made in another user's name than the one the
  tab showed, a page on its own is never refused, and no answer but one that says a
  session is over throws a user out.
* **Table of draws.** Two queries per answer, draws stored between them and between
  pages, clicks faster than answers. Correct is: a patient reader misses no draw and
  does not get past the end; the label is right once the answers are in.
* **Prune.** It deletes beside workers that insert. Correct is: what it removed stays
  away, what is left stays traceable, and readers of the approved range see nothing
  of it.
* **Statistics.** Two independent loops decide what can be analysed; draws arrive
  late and out of order. Correct is: they agree, counts add up, and a later draw
  does not change what was said of an earlier issue.
* **Combinations.** Two reads of a table that grows in between; two sort keys that
  must agree.
* **AI configuration and explanations.** Read, test and commit without a lock; an
  audit row committed after the change it records; a run that is committed as
  failed before the service is asked.

`PROJECT.json` lists each hazard at its line, with the properties that cover it.

## 2. The modules

    DrawLedger          the abstract table: append-only, whole batches
      ^ refined by
    Ingestion           workers, transactions, failures   <- MCIngestion, IngestionProofs
      ^ extended by
    Maintenance         the prune beside the workers      <- MCMaintenance, MaintenanceProofs
                        (also refines DrawLedger, seen from the approved scope)
    DailySync           the scheduler over a calendar     <- DailySyncProofs
    WebSessions         accounts and sessions             <- MCWebSessions, WebSessionsProofs
    WebClient           the tabs of one browser           <- MCWebClient, WebClientProofs
    DrawPages           the paged table of draws          <- MCDrawPages, DrawPagesProofs
    DrawAnalysis        zodiac and transition analysis
      ^ extended by
    NumberCombinations  two reads, candidates, groups     <- MCNumberCombinations, DrawAnalysisProofs
    AiService           configuration, audit, explanations <- MCAiService, AiServiceProofs

In every module one atomic step is one statement, or one commit, that another
transaction can see or whose result it can change; what a request computes
between two such steps is part of the step. A request that is refused before it
changed anything is not a step. In each module a few definitions stand right
before another one with the same parameters (`SameNumbers` before `SameDraw`):
they are the faulty variants that measure whether the properties would notice,
one for each property, and nothing else uses them.

**Ingestion.** `feed` is the source, `draws`, `runs` and `snapshots` are the three
tables, `job[w]` is a worker's local state. `Fetch` is the call of the source and
the parser; `OpenRun` the first transaction (`ingestion.py` 54-57); `ReadAnchor`
the read at 63-68; `RefuseWithoutAnchor`, `SkipStored`, `RefuseConflict` and
`QueueInsert` one turn of the loop at 71-98; `Commit` the commit at 105,
`CommitRejected` the primary key refusing it; `RecordFailure` the handler at
113-122. `TransientError`, `CommitAckLost` and `Crash` are failures. The numbers
and the opening time of a draw are one value, its body; `MCOpenTime` makes a
corrected body change places with its neighbour, so that "the newest draw" and
"the largest issue" differ.

**DrawLedger** is what the readers of `draw_records` rely on. `LedgerView` maps the
table to it, without the run that wrote a row; `LedgerSpec` says that `Ingestion`
implements it.

**DailySync.** Time is counted in slots of a day. `Synchronize` is a whole
committed synchronization (Ingestion is its detail) together with what `run_once`
does with the result; `SynchronizeFails` is any exception, which `entrypoint`
logs; `Wake` and `WakeToRetry` are the ends of the two sleeps. `silent` and
`longest` are history variables that let a property say "unless no
synchronization committed for that long". `RetriesEndBeforeMidnight` is an
assumption on the settings: the default (five retries 120 seconds apart from
21:35) meets it, the largest values `config.py` accepts (ten retries 900 seconds
apart) spill over midnight, where one day less of silence is bridged.

**Maintenance** starts from what a former version of the program, which collected
the year from its first issue, may have stored. `PruneReads` is the body of
`prune_before_approved_start`, whose three queries are one step because no worker adds
to what they look for: autoflush is off, so every deletion and update is
sent by the commit, `PruneCommits`, computed from what was read; `PruneDies` is any
failure before it. It deletes draws, so it does not implement `LedgerSpec`; what
it implements is the ledger restricted to the approved scope (`ScopeView`), which
is all that this version's readers use.

**WebSessions.** An account is created by `LookUpName`, `InsertUser` and
`TellPassword`, by an endpoint or by the command line; `LosePassword` is any failure
after the commit of the row. Nobody logs in to an account whose password was not
told. A login is `LoginRead` and `CreateSession`, or `LoginMisses` and
`RecordMiss`; a request with a cookie is `LoadSession`, `LoadUser`, and what it
does. A password change and a disabling are each two steps, because the UPDATE of
the sessions matches the rows committed by then (`RevokeOthers`, `RevokeAll`) and
takes effect with the user's row at the commit (`ChangePassword`, `SetStatus`).
`raced` is history: it marks a session whose login overlapped such a request
(`Overtaken`; no line of the code computes it).
Passwords are numbers, and a session remembers which one its owner proved. The wrong
passwords are counted as the code counts them: what was read, plus one, is written
back.

**WebClient.** A call is sent with the cookie and the token of the moment (`CallOf`),
served in one step (`Serve`: `me`, `login`, `Perform`, `Refuse`), and its answer is
received later (`Receive`) or lost (`Lose`). `restoreSession` is the load of a page:
the tab forgets everything, while a question it had asked may still be served and
replace the token. `load` numbers these questions: two that nobody waits for any more
look alike otherwise, and would be one call in the set of calls although each of them
replaces a token. The service's own interleavings are in `WebSessions`; here each
endpoint is one step. A lost answer may have left its cookie behind (`CookieAfter`),
because the browser takes it before the script reads the body. A read is a view, whose
401 shows the login page, or a refresh, which reports it; `Loaded` allows both for each.
Calls that agree in everything are one. `contested` is history: the sessions whose token
was replaced while another page relied on it.

**DrawPages.** `Count` and `Rows` are the two queries of `list_draws`; `drawsPrevious`,
`drawsNext` and `OpenView` send a request, `loadDraws` shows its answer. `walk` is
history: what somebody saw who turned pages 1, 2, ... and waited for each. `hasty`
and `late` mark the clicks and answers that overtook each other.

**DrawAnalysis.** A list of rows is the set of their issues, because the order of
the queries is total; a rank is one more than the number of what comes before.
The zodiac wheel, the matches, the counts and the rankings are operators on that
set. Frequencies, which are counts divided by a total, are left out. Every row
is read with its own anchor. `Store` adds a draw in any order; that rows are never
changed is what `Ingestion` establishes.

**NumberCombinations.** `FirstReading` is the query for the draws, `SecondReading`
the one the transition analysis makes, and `StoreDraw` a synchronization that
commits at any time, so between the two as well.

**AiService.** `provider` is the table oldest row first, `ReadProvider`,
`WriteProvider` and `Audit` the three parts of a PUT, `Ask` the row written before
the service is called, `Explained`, `NotExplained` and `AskingBreaks` the three
outcomes. The prompt and the validation of an answer are one outcome, success or
`AiServiceError`. Two rows of `ai_providers` are reachable (two PUTs that both
found none); the oldest one stays in effect (`Current`), which `SoloPutTakesEffect`
relies on. The code dates a row at the flush and commits it next, the model does both at
once: of two first rows either may be the older, here the one committed first is. The
change that commits second was overlapped, and the property does not speak of it.

## 3. What the runs check

Ranges are small, and chosen so that what could go wrong happens within them.

| run | instance | what it shows |
|---|---|---|
| `ingestion_safety` | 2 workers, 3 runs, an issue before the scope and 2 in it, 2 bodies for those, 2 anchors, 1 correction, crashes, transient errors, lost acknowledgements | `DrawsTraceable`, `FailedRunsLeaveNothing`, `SucceededRunsAgree`, `CountsTellTheTruth`, `AnchorsConfirmed`, and `LedgerSpec`: the refinement |
| `ingestion_live` | the workers with `Maintenance`: 2 workers, 2 runs and a former version's, an issue before the scope, one in it, one after the data year, 1 body, lost acknowledgements, any number of prunes | `PrunedForGood`, `StayTraceable`, `NewCountsTellTheTruth`, and `PruneIsInvisible`: the ledger of the approved scope; with fairness every run ends (`RunsFinish`) |
| `daily_sync` | 7 days of 5 slots, 2 retries, a window of 3, 4 faults | `OneRunADay`, `NoHoleAfterShortSilence`, `EveryIssueStored` |
| `web_sessions` | 1 user, who does not exist at first, 2 threads, 3 sessions, 3 passwords, 1 disabling, lock after 2 misses | `OnlyRacersSurvive`, `ToldOnce`, `RevocationIsFinal`, `StatusIsTheAdministrators` |
| `web_client` | 2 users, 2 tabs, 2 logins, 2 page loads, 2 calls under way, 1 fault (a session that ends or a call that is lost) | `ChangesAsShown`, `RefusedOnlyIfContested`, `LeavesAppWhenOver` |
| `draw_pages` | 5 issues, one of them out of scope, pages of 2, 4 requests, 2 under way, 1 lost | `SettledPageIsLabelled`, `NeverPastTheEnd`, `NothingSkipped` |
| `statistics` | every table of at most 4 draws out of 4 contents, in any order of arrival, over the real wheel and 49 numbers; 2 recent draws, 5 candidates, 4 groups | `ZodiacWheel`, `CountsAddUp`, `ListedIffAnalysable`, `HistoryIsStable`, `ListedForGood`, `GroupsFollowCandidates`, `ComparedWithEarlierDraws` |
| `ai_service` | 2 threads, 2 keys, 2 explanations, 1 request id, 2 rows, crashes | `SoloPutTakesEffect`, `RunsSettleOnce` |

Why these bounds are enough. A race in this program is between two requests or
workers: three would each only meet the commits of the others, as two do. Three
runs let a third one meet what two others left behind. Two issues in scope, bodies and
anchors give a next record, a conflict, an anchor that changes inside the window
and an order that a correction reverses. The issue before the scope is served by both
interfaces and must be kept out of snapshots, counts and anchors; it has one body only
(`OutsideUncorrected`, a constraint of the run), which no worker looks at. The second run
has both ends of the scope. Seven days and four faults reach a silence longer
than the window of three; the program's is five. Three sessions let one login
race while another session is the one that acts; two threads also let two
administrators create one user. Two tabs are a tab and whoever disturbs it; two
sessions are the one it shows and the one that replaced it. Five issues in pages
of two have a full page, a last one that fills up while somebody looks, and one to
spill over. The tables of four draws hold matches, repeats and two ties in the
opening time; the combinations need more draws than the recent ones, and more
candidates than a group has.

The searches are complete within these bounds: 1.32 million distinct states for
`ingestion_safety`, 232 000 for `ingestion_live`, 59 000 for `daily_sync`, 933 000 for
`web_sessions`, 666 000 for `web_client`, 3.8 million for `draw_pages`, 8 900 for
`statistics` (with many issues to evaluate in each), 115 000 for `ai_service`.

Symmetry (workers, threads, tabs, users, ids, keys) is used in runs with safety properties
only. `CHECK_DEADLOCK FALSE` is set where the instance fills up: all run ids
used and no worker busy. The other runs set no such thing: what they model never stops.

Fairness. `ingestion_live` assumes weak fairness of a worker's own steps after its
run is committed (`Progress`): a worker waits for no other worker, so only
its death, or a database that refuses the handler's own commit, stops it, and
this run has neither: such a run otherwise stays `running` for ever, which the hazards
name. Nothing is assumed of whoever starts a synchronization, of the source, or of
whoever prunes. `daily_sync` assumes that time
passes, that the source publishes what it draws, that a process that is due runs,
and that a container that died is restarted (`restart: unless-stopped`,
`compose.production.yaml` 90 and 125). Failures and deaths are bounded by
`MaxFaults` and nothing is assumed of them.

Cases that the properties leave out on purpose:

* `FailedRunsLeaveNothing` means nothing or everything. When the acknowledgement of
  the commit at `ingestion.py` 105 is lost, the draws are stored, and the handler at
  113-122 overwrites `succeeded` by `failed`: the run is reported as failed although
  its whole batch is there. The property then asks for all of it and for a row
  that still counts it, never for a part; without lost acknowledgements it asks for
  nothing at all.
* An incremental update compares the stored anchor with the one it would inherit.
  Were the anchor to change inside the window, an unchanged draw before the change
  would be refused as a conflict. In the approved range the anchor is the same
  throughout, and the models claim nothing about that case: the safety properties
  hold with it included.

* `ComparedWithEarlierDraws` says "exactly the last ones" only when nothing is stored
  between the two reads of `combinations.py`. When a draw is, the answer names it as
  the latest while the recent draws were read before it, and are one off from the
  "20 draws before the latest" of the repository's README (line 44).
* `AiService` reaches states in which a change of the configuration is committed and its
  audit row is not: a crash in between, or a client that repeats its X-Request-ID
  (`main.py` 40 takes it as it is, `models.py` 210 makes it unique per action).
  `docs/DATABASE.md` 14 lists the configuration among what `audit_logs` is for.
* `SettledPageIsLabelled` excepts the table that an overtaken answer filled: rows, label
  and buttons may then disagree until the view is opened again. `NeverPastTheEnd`
  excepts whoever clicked before the last page was shown: an empty page past the end
  is then possible. After a click that failed the next one skips a page, because the
  page number had changed already. `NothingSkipped` excepts the end of a walk when a
  draw was stored between the two queries of the last answer: the oldest draw has then
  moved to a page that the button does not offer.
* `ToldOnce` counts a password that was lost: such an account stays, and nobody can enter
  it until its row is changed by hand. Nothing in the code recovers from that.
* `LeavesAppWhenOver` allows a refusal of an old session to take the user out who has
  logged in again since: `showLogin` does not ask whose call was refused.
* `RefusedOnlyIfContested` says nothing for a page whose token another one took: it is
  refused until it is loaded again, which is what `auth.py` 118-124 intends.

### Disagreements between the code and what is said of it

Each is a run whose one property TLC finds violated; `PROJECT.json` quotes the
lines.

| run | what happens |
|---|---|
| `daily_sync_lag` | retries stop as soon as anything was inserted; after a missed day that is yesterday's draw, and today's late draw waits for tomorrow |
| `web_sessions_disable` | a login that read the account before it was disabled commits a session afterwards that nobody revokes; a password change is raced in the same way |
| `web_client_logout` | a tab whose token another tab's load has replaced logs out: the call is refused with 403, the error is ignored and the login page shown, and session and cookie live on |
| `ai_key_gone` | a PUT that clears the key and one that enables the service, each valid for what it read, leave an enabled service without a key |

## 4. What is proved

Eight modules hold theorems. They speak of any sets of workers, threads, tabs, issues,
users, numbers and draws, and of any bounds, that meet the modules' named assumptions;
every safety invariant, action property and refinement that a passing run checks is a theorem
of one of them. In each the argument is the same: the property speaks of what somebody
else can see, and whether a step keeps it depends on what its actor carries from an
earlier one; the inductive invariant says what that is worth.

**Ingestion.** The safety properties speak of committed rows and are not inductive:
whether a commit keeps them depends on what the worker is about to write and on
whether what it read is still so. `IInv` adds, for each worker: it owns its run
(`OwnRun`) and shares it with nobody (`RunsApart`); nothing of the run is visible
while its transaction is open (`UnseenYet`); each record it is done with is either
queued as the source said it or already stored that way (`LoopFaithful`); its
counters count the queue and what is left (`LoopCounts`); the anchor it inherits
was confirmed and still is (`InheritsConfirmed`). The last two survive the commits
of others because a stored draw is never changed. `InvInit` and `InvNext` are
proved one step of a worker at a time; the commit is `BatchWritten`. From
`Invariance` follow

* `TypeCorrect`, `DrawsAlwaysTraceable`, `SucceededRunsAlwaysAgree`,
  `CountsAlwaysTrue`, `AnchorsAlwaysConfirmed`;
* `Atomicity`: `[]FailedRunsLeaveNothing`, by two invariants on top of `IInv`. When
  acknowledgements are never lost, a worker about to mark its run failed has not
  committed (`AtomicInv`); when they may be, a run of which anything is visible has
  left its whole batch, and its row the counts of it (`WholeOrUnseen`);
* `LedgerImplemented`: `Spec => LedgerSpec`, with the lemma that a batch that passes
  the constraints is one step of the ledger, confirmed or inherited.

**Maintenance.** The prune deletes draws, so `Ingestion`'s invariant does not hold of
the tables; it holds of what the approved scope shows of them. `MaintenanceProofs`
instantiates `IngestionProofs` for that view (`Scoped`: the draws in the scope, the
snapshots without early records, the former version's run as if it had collected
nothing else), and shows that a worker's step is the same step of the view and that
the prune is none. `PruneInv` adds what makes this true: the former run stays and no
worker has it (`LegacyKept`), whatever lies outside the scope came from it
(`EarlyIsLegacy`), and what the prune read is still so when it commits, because
workers add nothing early (`ReadIsCurrent`). `PrunedForGoodHolds`,
`StayTraceableHolds`, `NewCountsAlwaysTrue` and `PruneIsInvisibleHolds` follow, the
last by the proof of `LedgerImplemented` applied to the view.

**DailySync.** `OneRunADay` needs where in the day the process can be: asleep until the
next trigger (`NextTrigger`), at attempt n just n - 1 delays after it
(`AttemptsOnTime`), never before it (`NoneBeforeTrigger`); with
`RetriesEndBeforeMidnight` no attempt of one day meets the trigger of the next.
`NoHoleAfterShortSilence` needs how far the table can be behind: the source lags at
most one issue (`SourceLags`), and each day of silence adds one (`StoredUpTo`), so that
a silence shorter than the window is bridged by one answer. Here the proof found a gap
in the model, not in the code: for a draw at the first slot of a day, `Tick` did not ask
for the day before to be published, because no slot of the same day comes before it;
`NextSlot` now wraps around.

**WebSessions.** `OnlyRacersSurvive` is about two requests, one that ends a user's
sessions and one that opens another. `Matched` says that between the UPDATE and the
commit of the former every live session of the user is matched, or its own, or marked
as raced; `ReadWhileActive` that a login which saw the account active is about an
account that still is, unless it was disabled in between. `OwnSession` keeps a
password change from sparing somebody else's session, and `AccountTold` counts who
is about to tell the one password of an account (`ToldOnce`). `RevocationIsFinal` and
`StatusIsTheAdministrators` are properties of steps and follow from what each step does to
a session that exists (`SessionSteps`).

**WebClient.** `ChangesAsShown` rests on what a token is worth wherever it is held: in a
tab, in a call, in an answer under way. `Issued` says that it was given by a session of
the user it stands beside, and is current, or was replaced while a page relied on it
(`TabInv`, `CallInv`). For `RefusedOnlyIfContested` a page that asks must know nothing of
the session it asks with (`AskInv`), or its own question would spoil its own token.
`Counted` shows that `loads` bounds the tokens: every question not served replaces one
at most. That part failed at first, and rightly: two questions whose tabs
had been loaded again collapsed into one call, which is why a call has a `load`.

**DrawPages.** `NothingSkipped` is proved with ranks: the rank of a draw is how many lie
before it in the table, and it only grows. What the walk has not seen of the draws it
began with has at least the rank of the pages behind it, now and in what is read for
the next page (`WalkInv`); a page of the rows of some moment holds the ranks of that
moment. `Labelled` orders the calls in flight by lateness, `ShownInv` and `PageInv` say
of one who waits that the page asked for begins before the last draw, which gives
`SettledPageIsLabelled` and `NeverPastTheEnd`.

**AiService.** `SoloPutTakesEffect` needs that a change which nobody overlapped has read the
row that is in effect (`PutInv`): the oldest, or none. `RunsSettleOnce` needs that the run
of a question is unsettled and nobody else's (`AskInv`, `OwnRuns`).

**DrawAnalysis and NumberCombinations.** `ZodiacWheelHolds` shows that the assignment the
code builds from two reversed slices is the wheel run backwards, for every number of
animals and numbers. `ListedAlwaysAnalysable` shows that the two loops agree. It needs
that the draw after a given one exists and is unique, which follows from the least
element of a set of naturals, first by opening time and then by issue. With it,
`HistoryIsStableHolds` and `ListedForGoodHolds` follow: a draw that falls after an
issue changes neither the draws through it nor whom each of them is followed by,
and one that is stored anywhere does not unmake a match.

`CountsAlwaysAddUp` is about sums over sets, which the community modules define by a recursive
function. What such a function computes is not proved by induction, for which the
provers have no rule, but by a least counterexample (`SumUnique`): a function on the
subsets that loses an element's worth with each element (`Additive`) is the sum, since
a least set on which they differ would have a smaller one. That the counts of a ranking
add up is then that the occurrences of an animal, or of a number, are disjoint
(`RankingTotal`), and that there are as many as samples times numbers is
`UniformUnion`. `CombinationsOnlyRead` carries all of this over to the specification the
run checks (`AnalysisUndisturbed`). `ComparedWithEarlierDrawsHolds` needs that what was
read is still stored (`ReadingStored`) and that a latest draw exists.
`GroupsFollowCandidatesHolds` needs that a number is one candidate's (`AnswerInv`), that
the order of the groups is transitive (the tuples are compared at the first number they
differ in, `TupleOrder`), and that a better candidate makes a better group
(`BetterGroup`); then fewer groups precede the new one than the old one.

**What the proofs assume.** The `ASSUME`s of the modules, each of which a run evaluates. Most
are types. Those that say more: the animals of the wheel differ, a draw has
`RegularCount` numbers and its special is none of them (`DrawsType`; `source.py` 134 refuses
others), the issues there may be are finitely many, a draw is made before the scheduler's
trigger (`DrawnBeforeSync`), and `RetriesEndBeforeMidnight`, discussed in section 2.

**Only model-checked.** The two liveness properties, `RunsFinish` and `EveryIssueStored`, which
need ENABLED for their fairness. The findings are counterexamples, for which a trace of
TLC's is the proof.

## 5. What is not modelled

* Validation of single fields, JSON and HTTP: each failure is one outcome (no row
  is written, because parsing precedes the first transaction).
* Cryptography: password hashing, token digests, encryption of keys. Only that an
  encryption is never the same twice, and that a decryption may fail, matters.
* The two attempts of a fetch, which end like one; the lists of users, runs and
  synchronizations, each a single read; the audit rows of users and of
  synchronizations, which differ from those of the configuration in their names only.
* In the command line the argument parser, and two creations that name one
  credentials file, of which the second finds the file taken after its account is
  committed (`LosePassword` is what that comes to).
* The tables of migration 0001 are the variables of the modules, and nothing happens
  to them there. Of 0002 it is shown that its constraint can be added after a prune,
  not in which order the containers of `compose.production.yaml` start: there the one
  that would prune waits for the migration, which fails as long as early rows exist.
* An empty table of draws, for which the combinations are refused as they are with too few.
* In the browser, the moment between the arrival of a cookie and that of its answer in the
  script, in which only other tabs can send, as they can right after; the rendering of the
  other views, the dialogs, and which view is
  shown when two are loaded at once.
* Settings are parameters of the models; that `config.py` refuses others is a validation.
* Containers, reverse proxy, texts, layout.

## 6. Plan

Done, in order of importance: the ledger and the synchronization with their
proofs, the scheduler, sessions, statistics with their proofs, combinations, AI;
then the prune beside the workers, the creation of accounts, the browser's tabs and
the table of draws.

The proofs followed in the order in which the properties matter: the ledger, the prune
beside it, the scheduler, accounts and sessions, the tabs, the paged table, the AI
configuration, the statistics and the combinations. No safety property that a run checks is
left without a theorem.

What could still be proved: that a ranking has no gaps, that is, the ranks are
1 to n (`analysis.py` numbers its rows, `Ranked` counts predecessors); that a candidate list
of five always offers the groups of its first three, which `GroupsFollowCandidates` implies
and no theorem spells out; and that a committed run of `Ingestion` is one `Synchronize` of
`DailySync`, for the worker that the scheduler starts.
