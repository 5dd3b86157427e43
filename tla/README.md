# Трамплин backend: formal models

TLA+ models of the Трамплин career platform's backend (FastAPI, SQLAlchemy over
PostgreSQL, Redis, S3), the TLC configurations that check them on small
instances, and theorems about them that TLAPS checks. Paths below are those of
the repository: `src/...` is the Python package, `README.md` the repository's.

- [The system](#the-system): its parts, and what makes them hard
- [The models](#the-models): module by module, against the code
- [The runs](#the-runs): what TLC checks, its bounds, the fairness assumed
- [The proofs](#the-proofs): what holds for every value of the constants
- [Where the code and its docs part](#where-the-code-and-its-docs-part)
- [What is not modelled](#what-is-not-modelled), and the [plan](#plan)

## The system

One Python process serves HTTP requests as coroutines. Each request gets one
database session (`src/db/session.py`) for its whole life; services hold the
rules, repositories the queries and the commits. There is no worker and no
queue: everything is done inside a request, apart from two detached tasks
(`applications_count`, `views_count`).

What every module takes from `src/db/session.py` and from PostgreSQL:

- a request runs alone only between two awaits; every query, flush and commit is
  a point where others run;
- isolation is READ COMMITTED and nothing in the code locks a row (`FOR UPDATE`
  never appears), so what a request has read may be stale when it writes;
- the ORM writes only the columns whose attributes changed, and re-reading a row
  already loaded returns the loaded object with its old attributes;
- `autoflush=False`, `expire_on_commit=False`, and `get_db` closes the session
  without a commit: what was only flushed is lost;
- an INSERT of a unique key waits for an uncommitted INSERT of the same key;
- a DELETE by the ORM that matches no row is a warning, an UPDATE that matches
  none is an error.

So a request is a *process*: a program counter `pc[s]`, what it was asked
(`request[s]`), and the copy of a row it read (`loaded[s]`). Components talk to
each other only through the tables, and the employer's, the applicant's and the
curator's requests meet there. Several processes may serve the same database:
nothing below depends on there being one.

| component (`src/services/…`) | state | operations that change it | what makes it correct |
|---|---|---|---|
| Applications (`application.py`) | `applications`, `Opportunity.applications_count`, notifications | create, withdraw, change of status, feedback, shortlist | one application per pair; the status machine; a request changes only what it was asked to change; row and notification together |
| Events (`event.py`) | `event_registrations`, `Opportunity.current_participants`, notifications | register, cancel (with promotion from the waitlist), check in; the employer's change of the limit | the limit; nobody who waits is overtaken on the waitlist; a counter that agrees with the rows; no notice of what did not happen |
| Opportunities (`opportunity.py`) | `opportunities` (status, is_moderated), skills, tags, views | create, update, publish, delete, approve, reject | only moderated opportunities are public; edits, closings and reviews do not undo each other |
| Company verification (`company.py`, `dadata.py`) | `companies`, `company_verifications`, the Redis sessions of looked-up INNs | verify INN, register, submit documents, curator's review | one company per INN and owner; a company is never without its verification; every verdict is announced |
| Favorites (`favorites.py`) | `favorites`, `favorite_companies`, `Opportunity.favorites_count` | add, remove, sync of a guest's list | the counter counts the rows; what a sync answers is stored; every request ends |
| Contacts and applicant search (`api/v1/endpoints/applicants.py`, `applicant.py`) | `contacts`, `Profile.privacy_settings`, notifications | send a contact request; search and show profiles | a stored request is announced to its addressee; nothing is shown that its owner has closed |
| Recommendations (`recommendation.py`) | `recommendations`, notifications | recommend, mark read | only among those who are or were contacts; announced if and only if stored |
| Authentication (`auth.py`, `core/security.py`, `utils/cache.py`, `api/v1/deps.py`) | the Redis blacklist of tokens | register, log in, refresh, log out | a token that was logged out is refused for as long as it lives |
| Users and profiles (`user.py`) | `users`, `profiles`, `skills`, `profile_skills` | register, create a curator, change of password, verification of an employer, update of a profile | an account and its profile exist together, one account per e-mail; what is answered as stored is stored |
| Uploads (`upload.py`, `storage.py`) | objects in S3 | upload | none of the program's own |
| Glossary, IP geolocation | read-only data; a cache of an external service | seeding at start-up | – |
| Start-up (`main.py`, `core/`) | the default administrator | creation by a process that starts and finds none | one administrator, whoever starts |

What is hard here, and hardly reached by a unit test: two requests that pass a
check together and then write; a commit computed from a row that has changed
since; operations that are several transactions, each of which may fail with the
earlier ones stored; ORM and driver semantics (columns left out, swallowed
failures, uncommitted flushes); long sequences of legal calls (cancel, promote,
register) that drift a counter away from its rows. There is no persistence of a
request and no retry, so there is no crash recovery beyond "what was not
committed is gone", which is how every module ends a failed request.

## The models

### ApplicationLifecycle and Applications

`ApplicationLifecycle` is the abstract specification: the status machine that the
program's checks add up to (the transition table of `_validate_status_transition`
and the check of `withdraw_application`), one status per application, without
requests or transactions. Two other texts allow a withdrawal after a decision; the
lifecycle does not, because the code refuses it
([below](#where-the-code-and-its-docs-part)).

`Applications` is the service with its repository. Create is `CreateApplication`
(with `check_duplicate`) → `ValidateOpportunity` → `InsertApplication` (flush,
behind `uq_application_once`, so it waits for the key) → `CommitApplication` (row
and employer's notification at once, or the failure that the service swallows) →
`IncrementApplicationsCount` (the detached task: it may or may not reach the
database). Withdraw, change of status, feedback and shortlist read the row and
check, then write the changed columns in one commit (`RowWritten` and, for each of
them, `StatusUpdated`, `Withdrawn`, …). A row's identity `Ids` is its UUID.
`employer_comment` is a text of `Comments`, so that one text can replace another:
`update_status` and feedback both assign it (`CommentWritten`), and a change of
status that carries a comment replaces whatever feedback has been stored since it
read the row. `viewed_at`, `responded_at` are "set or not"; `status_history` is the
JSONB list with the rule that makes it interesting: appending in place to the loaded
list is not seen as a change, so only the first entry is written (`HistoryWritten`).

### Events

One event with a limit (events share nothing; without a limit there is no waitlist),
which its employer may change at any time (`LimitChanges`,
`services/opportunity.py:617`; raising it promotes nobody). Register decides
*confirmed* or *waitlist* from the counter it read first (`Register`), checks
(`CheckExisting`), inserts and counts in one transaction (`InsertRegistration`).
Cancel remembers `was_confirmed` from its first read, reads again
(`FindRegistration`, with the identity map), deletes and decrements
(`DeleteRegistration`, floor 0), then in separate transactions picks, promotes and
notifies (`PickWaiting`, `PromoteFromWaitlist`, `NotifySpot`). `StepFails` and
`DecrementFails` are the database's failures with what each `except` does about
them; `Failing` says at which steps they may happen. `ahead` is auxiliary: who, by
time of arrival, was waiting when a row was inserted.

### Opportunities

One opportunity, edited, published and closed by its employer while curators review
it. `Load` is the read with its checks, `CommitWrite` the commit: `RowWritten`
overlays the changed columns on whatever the row has become. An update that carries
a skills list is three steps, because `DELETE FROM opportunity_skills` sees the rows
committed when it starts (`DeleteSkills`), waits for those another transaction is
deleting (`SkillsDeleted`), and the new rows are inserted at the commit. Tags are a
second list treated the same way and are not repeated. `ApproveOpportunity` ends in
an error, as the code does; opportunities that are ACTIVE are therefore in `Init`,
as rows that were there from the start (inserted directly into the database).

### VerificationLifecycle and CompanyVerification

`VerificationLifecycle` is the abstract specification: the documented flow of a
verification (`services/company.py:1-39`, `models/company.py:1-13`) with one record
per company (status, the curator's comment, documents, the last notice) and one step
per move: `Register`, `Submit`, `Review`.

Step 1 (`VerifyInn`) puts an INN that Dadata knows into Redis under a token, which
may expire at any time (`TokenExpires`) or be spent by another request. Step 2 is
`RegisterCompany` (no company of this owner) → `GetByInn` (none with this INN) →
`ResolveDadata` → `InsertCompany` (flush; waits for an uncommitted INSERT of the
same owner or INN) → `CommitRegistration` (company and verification) →
`ForgetToken`. Step 3 (`SubmitDocuments`) and the curator's decision
(`CuratorReview`) read the company, then its verification (`GetLatestVerification`),
then commit the changed columns (`CommitDocuments`, `CommitVerdict`); `links` and
`documents` are written as the whole list, old entries and new. A company is known
by its owner and INN; `Documents` stands for links and files alike. Dadata is the
set `KnownInns`.

### Favorites

`FavoriteService` and `FavoriteCompanyService` are the same code but for the
counter, so one set of actions serves both kinds of item. Add is `Add` (the look
for a row) → `StoreFavorite` (INSERT and COMMIT, behind the unique key) →
`RefreshFavorite` (which raises if the row is already gone) → `CountFavorite`, a
second transaction. Remove is `Remove` → `DeleteFavorite` (by primary key; nothing
to delete is a warning) → `UncountFavorite` (floor 0). Sync goes through its two
lists one after the other: `ReadExisting`, `InsertRow` for each row of one
`INSERT … ON CONFLICT DO NOTHING` (it waits for another session's uncommitted row,
in whatever order the SELECT returned them), `Tally` for each id (the first one's
COMMIT also stores the rows), `CommitSync`. `CountFails`, `RefreshFails` and
`StepFails` are the failures, with what each `except` does about them;
`BreakDeadlock` is PostgreSQL's way out of a circle of waits. Whether an item is
ACTIVE is a nondeterministic answer. `excused` is auxiliary: the items whose
counter the program does not promise, because two requests of one user handled
them at once or a counter's transaction failed.

### Contacts

Contacts, recommendations and the views of a profile, because the second and the
third ask the first. `SendContactRequest` → `StoreContact` is the endpoint's check
and its one COMMIT. No code accepts, rejects or blocks a contact; the tests write it
through SQL, so `MoveContact` is external (a pending request is accepted or
rejected, an accepted contact broken off). `CreateRecommendation` →
`FlushRecommendation` → `AnnounceRecommendation` has its only commit in the
notification, whose failure is swallowed. `MarkAsRead` → `FinishMark` flushes and
never commits. The views (`SearchApplicants`, `GetApplicantDetail`,
`ListApplicants`, `GetPublicProfile`) read the settings first, two of them look for
a contact later (`CheckContactStatus`), and `Fields` is what they are about to
answer: the name and what always goes with it (`portfolio_url` included), the
contacts (phone and social links), the CV. `privacy_settings` is a free dictionary
that a PATCH replaces whole (`UpdatePrivacy`), so a key may be missing, and the
code's answers to that differ: without `public_profile` a profile is public in the
views of one profile (`IsPublic`) and not public for the two searches (`Listed`).
Between the steps of a view settings and contacts may change. `seen` is auxiliary:
what the settings and the contact said at the moments of the request, so that an
answer can be compared with them.

### Tokens

A token is what its signature covers: whose, of which type, until which second.
`Login`, `Refresh`, `Use` (`get_current_user`), `Visit`
(`get_current_user_optional`, which asks the blacklist before it decodes) and
`Logout` begin a request; `CheckBlacklist` and `ReadUser` let it in; `Issue` signs a
pair. `Revoke` measures what is left of both tokens in whole seconds, then
`AddAccess` and `AddRefresh` are two calls of SETEX, each of which may fail. The
second token of a logout may be of any type, since the code does not ask. The clock
counts half seconds (`Tick`), because what truncation loses is less than a second;
Redis drops keys as it ticks. `MaxTime` bounds it. `revoked` and `late` are
auxiliary: tokens of answered logouts, and whether a request began with one.

### Accounts

`RegisterNewUser`, `CreateCurator` and `CreateDefaultAdmin` look for the e-mail and
meet in `InsertUser` (a flush behind the unique e-mail) → `CommitUser` (with the
profile). `ChangePassword` and `VerifyEmployer` read the user and `Save` the
changed column, if it differs from what was read. `UpdateUserProfile` is the
replacement of a profile's skills in the order the ORM emits it: `Lookup` by name,
`CreateSkill` for each missing one (unique by name and by slug), `DeleteSkills`,
`RelateSkills`, `StoreProfile`, `Reload`; which flush comes first depends on
whether a skill had to be created. `stale` is auxiliary: another request has
stored the same kind of thing for the same user since this one began.

Common to all: a check that refuses a request is a disabled action, since a
refused request changes nothing; a failed one is `RequestFails` or `StepFails`,
which drops what was not committed. Definitions with a suffix (`Edited_WholeRow`,
`PickWaiting_Unordered`, …) are marked "Variant": a plausible defect of the
definition they precede, against which the properties are tried. No behaviour of
the system uses them.

## The runs

| run | instance | states | what it shows |
|---|---|---|---|
| `Applications_race` | 2 requests at a time, 2 creations by one applicant for one opportunity, one company, 2 texts of comments | 3.17 M | uniqueness, stamps and timeline under stale writers, row and notification together, no request changes a column it was not asked to change |
| `Applications_serial` | 1 request at a time, 2 applicants | 392 k | the service implements `ApplicationLifecycle` when requests do not overlap |
| `Events_race` | 2 requests over 1 or 2 places (the limit changes), 3 profiles, 4 registrations, failures anywhere | 2.93 M | the counter never overstates; a notice of a free place is true; a promotion hits the row that was picked; nobody who waits is overtaken by a later one on the waitlist |
| `Events_serial` | 1 request, 2 places, 4 profiles, 6 registrations, no failures | 803 k | nobody waits for a free place |
| `Opportunities_race` | 2 requests, 2 skills | 238 k | status and moderation flag agree; a rejection is announced after it; only an approval brings anything back into the catalogue; a replacement leaves none of the skills it found |
| `CompanyVerification_race` | 2 requests, 2 employers, 2 known INNs and an unknown one, 1 token, no documents | 2.02 M | one company per owner and INN, only looked-up INNs, atomic registration, announced verdicts |
| `CompanyVerification_serial` | 1 request, 2 employers, 2 INNs, 2 documents | 105 k | company and verification agree; tables and notices together implement `VerificationLifecycle` (documents are only added, and none for an approved company) |
| `Favorites_race` | 2 requests of one user or two, 2 opportunities and a company, counters to 2, failures of every counter | 2.48 M | the counter follows the rows, and what a sync answers is stored, unless requests of one user overlap or a counter fails |
| `Favorites_liveness` | 2 requests of one user | 255 k | every request is answered, deadlocks of two syncs included |
| `Contacts_race` | 2 requests of an employer, a curator and an applicant, 1 recommendation, 2 dictionaries of settings that each lack a key, contacts made and broken off, failures of every step | 4.48 M | stored if and only if announced; recommendations among those who are or were contacts; nothing is shown that was closed all along |
| `Tokens_race` | 2 requests, 1 user, lives of 1 and 2 s, a clock of 2 s | 4.33 M | no token of an answered logout is taken again before its last second |
| `Accounts_race` | 2 requests, 2 users, 3 names of skills of which 2 have one slug, failing commits | 5.91 M | accounts whole and unique; what is answered as stored is stored |

**Why these bounds.** Every hazard the safety properties are about is a race of two
requests over one row, or a sequence of calls by one request at a time; two sessions
and the fewest rows that can collide reach all of them, and the theorems below lift
the safety results to any number for all eight components. Two texts of comments are
what it takes for one to replace another. Events needs one more registration than
places to have a waitlist, and one more again to have an order in it; 4 arrivals of
3 profiles over 1 place let one leave while two wait and come back behind the other,
and limits of 1 and 2 let the limit rise above a waitlist and fall below the
confirmed. The one run with a fixed limit is the one whose property a change of the
limit breaks (`Events_serial`); there, 6 arrivals with 2 places let the counter
drift. In Favorites, two opportunities let two syncs insert in opposite orders, and
a counter of 2 lets two users count one item; the company shows the second list of a
sync and the lack of a counter. In Tokens the clock runs for four half seconds over
lives of two and four, so that a token can be issued, logged out between two seconds
and expire. In Contacts an employer, a curator and an applicant are the three roles
whose rights differ. A new profile has both settings; the two dictionaries that may
take their place each lack one, so that each missing key is met, and
one hides what the other opens. (The theorem is for all nine.) In Accounts the three
names are a match, a clash of slugs and neither.

`MaxArrivals` (Events), `MaxCount` (Favorites) and `MaxTime` (Tokens) are the only
bounds put on what the program leaves unbounded; they stand in the guards of
`Register`, of the favourites' `Add` and `Sync`, and of `Tick`. The status history
is bounded by its own rule (one entry), `applications_count` by the number of
creations, since an id is used once, and so are recommendations. The race run of
CompanyVerification has no documents, because none of its properties looks at them,
and the serial one has two, because one could not tell adding from
replacing.

**Symmetry** is used in all race runs but never with liveness: ids, users, comments,
profiles, sessions, skills, passwords, employers, *known* INNs. In Events it covers
profiles and sessions but not the order of arrival, which the code's waitlist
depends on. Accounts has none on names, which their slugs tell apart, nor on
e-mails, of which one is the administrator's.

**Fairness** is assumed in one run only, `Favorites_liveness`. Each session has weak
fairness of its own steps, failures excepted: the event loop resumes every
coroutine whose query has been answered, the driver answers or fails every query,
and PostgreSQL finds every deadlock. The two steps that may wait for another
session's key have strong fairness, because whoever waits for a row is woken when
the transaction that holds it ends, and is not passed over for ever by later ones.
The arrival of requests has none. The safety runs need none. What a liveness
property of the events' waitlist could say, the code does not promise: the
promotion runs once, inside the request that cancelled, and nothing retries it, so
the state between requests is checked instead (`NobodyWaitsForFreePlace`, under
`Quiet`).

**Deadlock** is checked in every run; some request can always be made.

**Why some properties are checked one request at a time.** Three are so:
`FollowsLifecycle`, `StatusesAgree` with `FollowsVerificationLifecycle`, and
`NobodyWaitsForFreePlace`. Each is about the outcome of a whole sequence of requests
(a lifecycle, two tables that agree, a counter that drifts), holds without overlap,
and is broken by it, as the section on disagreements tells. A property whose only
enemy is overlap is not checked this way.

**Why some properties have exceptions.** `CounterFollowsRows` excepts `excused`
items, `AnsweredAsAsked` outdated requests, `LoggedOutIsRefused` a token's last
second. Each exception is behaviour of the code that was met when the property
was first stated without it; the property says that there is no other.

## The proofs

Eight modules, one for each component, prove every invariant and every action
property of the runs: for any number of concurrent requests and any sets of
applicants, opportunities, skills, employers, INNs, documents, users, settings and
e-mails, any limits of an event and any lives of tokens, what the race runs check on
two requests; and for one request at a time, but any data, what the `_serial` runs
check. A theorem about one request at a time has the hypothesis `Sessions = {s}`
and a name that begins with `Alone`. No theorem is about fewer failures than its run,
except where it says so (`Failing`).

The assumptions on constants are only that the null values (`NoApplication`,
`NoRegistration`, `NoRequest`, `NoRow`, `NoId`) are none of the values they stand in
for, that no text is the absent comment (`NoComment`), that `KnownInns` is part of
`Inns` and `Patches` of the dictionaries, that `Role` gives every user a role, that
lives of tokens and limits of events are positive, that no id is that of an
opportunity and of a company (both are UUIDs), that bounds are natural numbers, and
that what requests may send (`SkillLists`, `AdminEmail`, `SyncLists`) is of its
kind, a list of ids being finite.

**ApplicationsProofs.** None of the properties is inductive: a writer's stale copy
could be anything. `IInv` adds what is true of it: *the copy is never ahead of the
row* (`LoadedIsPast`: stamps and timeline entries are never taken away, so a column
left out because the copy had it is set in the row), and *a creation between flush
and commit is alone with its key* (`CreationsOwnTheirKey`). `RowWrittenFacts` says
once what the four UPDATEs may do to a row; one lemma per action does the rest. From
it: `TypeCorrect`, `Uniqueness`, `Stamps`, `Timeline`, `CreationIsAtomic`, and the
action properties `RequestedColumns` (whatever its copy has become, a request leaves
alone every column it was not asked to change) and `Kept`. `AloneFollowsLifecycle`
is the refinement: with a single session every step maps to a step of
`ApplicationLifecycle` or to a stutter, from the invariant that the copy still
equals the row (`CheckHoldsAtCommit`).

**EventsProofs.** That the counter never exceeds the confirmed rows is not
inductive: a cancellation that loaded its row on the waitlist deletes it without
counting down, though the row may have been promoted meanwhile. The promotion did
not count it up either, so what is inductive is that the counter stays within the
confirmed rows *that no cancellation has loaded as waiting* (`Settled`). It rests on
rows being known by their time of arrival (`Issued`, `New`) and on a confirmed row
staying confirmed for as long as it is there (`Copied`). That there are finitely
many confirmed rows is part of the invariant, so nothing is assumed of `Profiles`.
From it: `TypeCorrect`, `Counter`, `SpotNotice`, `PickedRow`. That nobody is
overtaken (`NotOvertaken`, for any number of requests) needs `Queue`: those a row
has ahead of it arrived before it, and nobody who waits is ahead of a row that has
been picked. Times of arrival are what makes it stable between pick and promotion:
whoever was ahead and left comes back with a later one. For one request at a time,
the copy a request carries is the row (`CopyIsRow`), and a count of the places holds
at every step (`PlacesTaken`): between requests either nobody waits or the confirmed
fill the limit, and the one place short of that is the one whose promotion is under
way. From them: `AloneNobodyWaits`, for a limit that does not change and a program
none of whose steps fail (a failure between the transactions leaves a place free, as
the code does, and so does a higher limit).

**OpportunitiesProofs.** The row moves one way only: no step makes it ACTIVE,
moderated, or reviewed by nobody again (`OneWay`). Hence what a request saw gone is
still gone when it writes (`Past`), and the columns it leaves out have the value it
assumed. From it: `TypeCorrect`, `StatusAndFlag`, `Notice`, `OnlyApprovalReturns`.
`FoundAreGone` needs one invariant more (`Deletions`): what a DELETE has seen is
still stored until it has removed it, when the replacement writes it has removed all
of it, and no two replacements remove the same row. The argument rests on
`approve_opportunity` failing, as it does in this code: with a working approval the
row could become ACTIVE again behind a stale copy. `OneWay` is the first lemma that
would fail then.

**CompanyVerificationProofs.** The unique keys alone do not give uniqueness of what
is committed *together*: what is inductive is that a flushed INSERT holds its owner
and its INN against every row and every other flushed INSERT (`HoldsItsKey`), and
that a request past `ResolveDadata` has a looked-up INN, whatever has become of its
token (`Served`). From it: `TypeCorrect`, `Uniqueness`, `LookedUp`,
`RegistrationIsAtomic`, `Announced`. For one request at a time the columns it leaves
out are those of the row, and documents are not taken for an approved company
(`CopiesHold`): hence `AloneStatusesAgree`. From the same invariant and the
agreement of the two tables, `AloneFollowsLifecycle` is the refinement: each of the
three commits is a step of `VerificationLifecycle`, and every other step a stutter.

**FavoritesProofs.** A row and its counter are written in two transactions, so in
between they differ. What is always true is that the counter is the number of users
*it stands for* (`Counted`): those who have the row stored, less those whose request
has still to count it (`Uncounted`), and more those whose request has deleted the row
and has still to count it down. An item that is not excused is in the hands of one
request of each user only (`Overlapping`), so a step changes this set by its own user
at most, and the counter with it (`CountsAlong`); the floor of the decrement is never
reached, because the user was counted. For a sync, `Syncing` says how far it has come:
every id before `at` is inserted, stored or excused; the first increment stores them
all; at the end all of the answer is stored or about to be. `CountersFollow` says
once how the number follows the set, `StepKeepsIInv` what is left to show of a step;
one lemma per action does the rest. From it: `TypeCorrect`, `CounterFollows`,
`AnswersStored`. So that the exceptions do not hide anything, `AloneExact` proves that
with one request at a time and no failure of a counter nothing is ever excused, and
every counter is exact.

**ContactsProofs.** A check made before an INSERT is worth something only if a trace
of what it found cannot go away: who has been a contact stays one or is broken off
(`Trace`), so a recommendation on its way is still one among users who are or were
contacts (`Serving`). `Keys` says that the key of a flushed recommendation is nobody
else's, without which announcing one could overwrite another. For the views,
`Viewing` relates the stale copy, whichever of its keys are missing, to what `seen`
remembers: what was loaded open, or found a contact, was so at a moment of this
request. The code reads settings once and shows by what it read, so "at some moment"
is as much as can be said of it. From it: `TypeCorrect`, `Announced`,
`AmongContacts`, `Consent`.

**TokensProofs.** A revoked token must be held by the blacklist until its last
second (`Held`). The two SETEX of a logout come at any time after the measurement;
that is harmless because each starts the time to live anew (`Measured` is stable
while the clock runs), and a second logout of the same token cannot shorten it,
since it measures from the same expiry. From it: `TypeCorrect`, `LoggedOut`.

**AccountsProofs.** A flushed user holds its e-mail against every row and every
other flushed one (`Holding`). A request that is not outdated still finds what it
loaded, so the difference it computed from its copy is the difference to the
stored rows, whichever order its flushes come in (`Fresh`). From it:
`TypeCorrect`, `Whole`, `AsAsked`.

Only model-checked: `RequestsEnd`, the one liveness property. Out of the prover's
reach: liveness under fairness and ENABLED; induction over data (the library's
induction theorems take an operator as a parameter); RECURSIVE operators, of which
these modules have none.

## Where the code and its docs part

Met while modelling; the models have the code's behaviour.

- *Applications.* "Запрещено: Изменять статус отозванного отклика"
  (`src/services/application.py:267-269`) is checked on a row that is not re-read:
  an employer's change of status can overwrite a withdrawal. `status_history` is the
  "История изменений статуса для timeline" (`src/models/application.py:55`); it is
  appended to in place, and from the second change on it is not stored.
- *Events.* Promotion does not increment the counter that cancelling decremented
  (`src/repositories/event.py:301`), so later registrations are confirmed beyond
  the limit, which the repository's `README.md:138-139` says they cannot be.
- *Opportunities.* "полная замена списков"
  (`src/api/v1/endpoints/opportunities.py:469`): of two concurrent replacements the
  union of the lists may stay.
- *Applications.* The docs contradict each other on withdrawal: "Любые → WITHDRAWN
  (только соискателем)" (`services/application.py:352`) and "на любом этапе до
  ACCEPTED" (`models/application.py:9`), but "Разрешено только если статус PENDING
  или VIEWED" in `withdraw_application` itself. The code does the last: a rejected
  application, or one in reserve, cannot be withdrawn
  (`services/application.py:188`), although a stale withdrawal overwrites a
  decision. A change of status with a comment replaces feedback stored since it read
  the row. The applicant's notification of a change of status (`:467`) is flushed
  and never committed. A failed commit of a new application is swallowed (`:405`)
  and the request answered as if it were stored. `applications_count` may miss
  applications: its task runs on a session that is being closed (`:124`).
- *Events.* The employer is never told of a registration: `event.company` is loaded
  lazily after the commit and raises, so the participant gets an error for a
  registration that is stored. Check-in is never recorded
  (`datetime.now(datetime.UTC)` on the class, `repositories/event.py:266`). When the
  decrement fails, its rollback forgets the DELETE too, and the place is given away
  all the same. A newcomer may take a place over the heads of those who wait
  (`ahead` and `NobodyOvertaken` are about promotions only), and a higher limit
  promotes nobody. The list of participants shows phone, links and CV whatever the
  settings say (`services/event.py:340-366`). With two requests at a time somebody
  may stay on the waitlist while a place is free.
- *Opportunities.* "Если `approve=true`: статус → ACTIVE"
  (`api/v1/endpoints/opportunities.py:669`): no approval succeeds
  (`repositories/opportunity.py:663`, the same `datetime.UTC`). A stale rejection or
  publication re-opens a CLOSED opportunity. Publishing is documented for drafts and
  accepts any status but ACTIVE. Edits of an ACTIVE opportunity need no new
  moderation. The pending list is newest first, its doc says oldest first.
- *Company verification.* "Можно вызывать несколько раз — данные накапливаются, не
  заменяются" (`api/v1/endpoints/companies.py:117`): of two concurrent submissions
  one loses its documents. Two reviews at a time can leave the company and its
  verification with different statuses, since each omits the column it did not
  change; the last notice may then not be the status. A submission that read
  REJECTED turns a fresh APPROVED back to PENDING. A failure of Redis after the
  commit of a registration is answered with an error. The curators' notification
  after a submission is a TODO (`services/company.py:272`).
- *Favorites.* Sync is meant to be idempotent ("ON CONFLICT DO NOTHING для
  идемпотентности", `repositories/favorites.py:195`); sent twice at once it counts
  twice (`repositories/favorites.py:201`), and so do two removals at once count down
  twice (`:147`). When the first increment of a sync fails, the rollback takes the
  inserted rows with it, and the ids are answered as synchronised all the same.
- *Contacts.* Two users who ask each other at the same time get two rows, since the
  unique key is on the ordered pair; once both are accepted, `scalar_one_or_none`
  fails, which the recommendations answer with an error and the profile with "no
  contact". The `contact_id` of the notification's payload is "None": it is read
  before the flush.
- *Applicant search.* "Кураторы видят все данные независимо от настроек приватности"
  (`api/v1/endpoints/applicants.py:115`): a curator sees hidden profiles, but not
  the contacts of open ones. `PrivacyFilterService` hides the phone from contacts
  too. A PATCH replaces the whole dictionary (`services/user.py:211-214`): one that
  sends `show_contacts` only re-opens a closed profile, while the searches stop
  listing an open one. A profile that becomes private between two queries of a view
  is still shown, and an answer may combine the settings of one moment with the
  contact of another. "Соцсети, CV" are hidden, but `portfolio_url` and the avatar
  are always shown (`services/applicant.py:175`), and an employer sees the CV of an
  applicant whose profile is public whatever `show_contacts` says
  (`services/application.py:625-636`, not modelled).
- *Recommendations.* One may be stored after its contact was broken off. When the
  commit of the notification fails, the recommendation is lost and answered as
  created. Marking one as read is flushed and never committed, so it is undone when
  the request ends.
- *Tokens.* The time to live on the blacklist is cut down to whole seconds, so a
  logged-out token is good again in its last second. Tokens have no `jti`: those of
  one user and one second are equal, so logging in within the second of a login
  that was logged out gives tokens that are refused. A logout whose second SETEX
  failed cannot be repeated, because its access token is refused. The token for a
  password reset is made and dropped, so the reset can never be confirmed.
  `is_active` is checked everywhere and cleared nowhere.
- *Users.* A skill whose slug another skill has (`C`, `c`) can never be added: the
  whole update fails. Of two verdicts on an employer at once, the one that agrees
  with what it read writes nothing, and is answered as stored.

## What is not modelled

- Listings, filters, the map: they read only. Of the applicant search only what it
  shows of a profile is modelled, not which profiles its filters choose.
- The texts of profiles, companies and opportunities: no rule reads them, apart
  from the fields `publish` requires, which are one two-valued column.
- Creation of an opportunity is the initial state of `Opportunities`;
  `views_count` is a detached increment nothing depends on.
- Uploads and S3, the glossary and its seeding, IP geolocation, logging, rate
  limiting, configuration, migrations: I/O or wiring without state of the
  program's own.
- Messages, reviews and the read flag of notifications: tables no code writes.
- Signing, hashing, the confirmation of a password reset (unreachable), and
  permission checks by role: an operation is open to whoever the endpoint allows,
  which is who issues the request in the models.

## Plan

Done, in this order: Applications with its lifecycle and proofs; Events;
Opportunities with proofs; CompanyVerification with proofs; Favorites; Contacts,
Tokens and Accounts with proofs; the proofs of Events and Favorites, and of the
`_serial` properties; VerificationLifecycle and its refinement; texts of comments,
changing limits, free dictionaries of settings, and what they ask of the proofs.

Next:

1. Abstract specifications of more components, in the way of the two lifecycles.
2. The profile that employers see with an application, as a fifth view of
   `Contacts`.
3. Weaker hypotheses than `Sessions = {s}` for the `Alone` theorems: requests that
   overlap without being about the same row should not matter.

