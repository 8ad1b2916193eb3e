# Verification of the school backend

TLA+ modules, TLC configurations and TLAPS proofs about the FastAPI / SQLAlchemy /
PostgreSQL backend in `src/`. Every definition is translated from the Python source;
`PROJECT.json` maps each one to the lines it stands for.

## 1. The program

### 1.1 One request, one transaction

`src/app/db/session.py` gives every HTTP request one `AsyncSession`. A handler reads
committed rows (PostgreSQL, READ COMMITTED), computes, and changes Python objects;
`get_db` commits after the handler has returned or rolls everything back. The sessions
are made with `autoflush=False` and `expire_on_commit=False`. Two facts shape every
hard behaviour of the program:

* rows are read without locks (the only `with_for_update` in the code is the
  identifier counter), so what a handler has checked may be stale when it commits;
* the unit of work updates only the columns whose Python value changed, and sets them
  to literals, so two overlapping requests merge column by column, the later one
  winning in each.

The modules therefore model a handler as two steps: one that reads, checks and
computes (guards are the handler's conditions and early returns), and `Commit`, with
anything else in between; `Abort` is an exception after the read. A handler that the
code refuses outright takes no step, because it changes nothing. The database's unique
and foreign keys are guards of `Commit`: a request that breaks one can only abort.

### 1.2 Components

| component | state | operations | hard behaviour | module |
|---|---|---|---|---|
| fee ledgers and payments (`services/fee.py`) | `fee_ledger`, `payments` | record a payment, spread one over a student's ledgers, dashboard, overdue refresh | two payments of one ledger; a dashboard read that writes; rounding | `FeeLedger`, `FeeAccounts` |
| fee structures and generation (`services/fee.py`) | `fee_structures`, `fee_ledger` | batch create, update, delete, generate by class or student, payment cycles, custom heads | terms changed under a billed student; cascade delete against generation | `FeeAssignment` |
| enrollment (`services/enrollment.py`) | `student_year_mappings`, flat columns of `students` | create, update, transfer, exit, complete, roll numbers | a cache of another table, kept by every handler; terminal states | `Enrollment` |
| promotion (`services/promotion_workflow.py`) | the same | execute a promotion, re-enroll | several students in one transaction, errors item by item | `Enrollment` |
| registration and approval (`services/registration.py`, `approval.py`) | `users`, `registration_requests`, `user_approval_audits` | register, approve, reject, hold | concurrent decisions, namesakes | `Admission` |
| identifiers and role profiles (`services/identifier.py`, `role_profile.py`) | `identifier_counters`, `identifier_format_configs`, profiles | generate, custom identifier, save format, decide with profile | a locked counter, a failure that is swallowed, a format that freezes | `Admission` |
| leave (`services/leave.py`) | `teacher_leaves`, `leave_balance`, notices | apply, decide, allocate days | sums of other rows, recounted twice; a notice before the commit and one after | `Leave`, `Staff` |
| complaints (`services/complaint.py`) | `complaints`, notices | create, advance | a stage that is read and not locked | `Complaints`, `Staff` |
| request transaction (`db/session.py`, `minio_client.py`) | session, object storage | commit, roll back, upload, background tasks | what fails after an upload or before a task | `UnitOfWork` |
| homework, assignments, submissions | one table each, files | create, hand in, grade, review | two submissions; a file without its row | `Coursework` |
| exams, results, report cards, schedules | `exams`, `results`, series and papers, documents | enter, correct, publish, cancel, generate | correction against publication; a query that finds a mark and one that does not | `Exams` |
| attendance | `attendance` | mark, a dozen aggregate queries | an upsert keyed without the class; queries that must count alike | `Attendance` |
| classroom and quizzes (`my_class.py`) | chapters, topics, content, quizzes, attempts | create, cascade, attempt | a total recounted by every edit; a year that ends | `Classroom` |
| academic years and structure (`academic_year.py`, `masters.py`) | years, classes, subjects, sections, grades | activate, copy, edit, delete | two activations; a copy next to edits | `Years` |
| teacher assignments, timetable (`teacher_class_subject.py`, `timetable.py`) | assignments, timetables, a JSON registry | assign, upload, delete | a registry read and written back by three services | `Teaching` |
| students, legacy promotion (`student.py`) | `students`, history rows, sections, the registry | create, move, promote, hold back | rows that repeat each other | `Students` |
| documents | `documents`, JSON settings | request, upload, review, require | one JSON value per school; placeholders of what is required | `Documents` |
| chat, announcements, notifications | tables | open, send, read, announce | a failure that is swallowed; targets read three times | `Messaging` |
| authentication | `otp_store`, `jti_blocklist` | login, refresh, logout, code, reset, cleanup | single use, expiry | `Auth` |
| diary, behaviour and whom a row concerns | students, assignments of teachers | write, tell, list | two queries of one audience, people who move | `Audience` |
| gallery | albums, photos | upload, feature, delete | a cover and a flag in two tables | `Gallery` |
| rate limiting (`middleware/`) | timestamps in memory | check a request | the edge of the window; a client that keeps trying | `RateLimit` |
| roles, teachers and parents, reports, logging, storage, scripts | | | single steps or pure I/O | not modelled (section 7) |

Components meet in three ways: through shared rows (`students` is written by
enrollment, promotion, the profile service and `student.py`; `fee_ledger` by generation,
payment and deletion), through calls (a promotion re-enrolls, an approval creates a profile
that takes an identifier), and through background tasks that read what was committed.
`PROJECT.json` lists every component with its status and every hazard at its line.

## 2. The modules

### FeeLedger
`ledger` holds the committed rows (total, paid, due, status), `receipts` the sum of the
Payment rows of each ledger, `today` the date and `tx` the unit of work of every
request: the rows as loaded (`seen`), as changed (`write`) and the payments to insert
(`pay`). `RecordPayment`, `Allocate` and `FeeDashboard` are the reads; `MarkOverdue` is
the one UPDATE statement of `mark_overdue_ledgers`, atomic in the database; `Flushed`
is the column-wise UPDATE. `Spec` lets requests overlap in every way; `SerialSpec`
allows one open handler at a time, with overdue refreshes still in between.

* Under `Spec`: `paid_amount` stays within the bill (`PaidWithinTotal`) and is backed
  by Payment rows (`PaidBackedByReceipts`). Updates can be lost, never invented.
* Under `SerialSpec`: the books balance, the status says what the amounts say, a settled
  ledger is never reopened, and the service implements `FeeAccounts`, whose only step
  accepts money while the bill has room for it.
* `NoOverpayment`, the service's own error message turned into a property, fails under
  `Spec`: two payments of one ledger pass the same check (run `ledger_overpay`).

### FeeAssignment
Adds the structures and the administrators' jobs, and instantiates `FeeLedger` on the
ledgers they generate (`Payments!Next` is a disjunct of its `Next`). A ledger's id is
(student, structure, installment name), the key under which the code looks for
duplicates. `update_structure` is the one handler whose second read matters: its
synchronisation looks for unpaid ledgers after the check that there are none, hence
`UpdateStructure` and `SyncLedgers` are two steps. Installment arithmetic
(`round(total / count, 2)`, ties to even, the last one takes the remainder) is in
whole paise.

### Enrollment
`mapping` holds the student-year mappings, `place` the flat columns of `students`. `tx`
is as above, with `at`, the flat columns a request sets. The variable `alone` is not
program state: it remembers whether two handlers have ever been open at once, so that
one run asks both what holds of every interleaving and what only overlaps can break.

* Always: a mapping that reads PROMOTED or REPEATED names the mapping of another year
  that the same promotion made for the same student, and no two name the same one.
* While alone: terminal states are terminal; the flat columns show a mapping of the
  student that is ACTIVE, or GRADUATED.
* `CacheOfActive`, the strict form in the model's docstring, fails: graduation does not
  synchronise (run `placement_graduate`).

### Admission
`user`, `audit`, `profile`, `config` and `counter` are the committed rows. A request that
generates an identifier has a step of its own, `TakeNumber`, between its checks and its
commit: the counter row is selected FOR UPDATE there and stays locked until the request
ends (`Unlocked`). `decision-with-profile` commits the approval even when the profile is
refused, with the number consumed and the format locked by then; only a refusal by the
database takes the approval with it. An identifier is the pair of what its template
keeps of the year and of the number; an administrator's custom one is the pair the
counter would give first, the choice that can collide.

* Always: nobody has an identifier without a recorded approval; no sequence number is
  issued twice for one school, type and year; of two namesakes one was approved by
  override; admission numbers and employee codes are unique in a school.
* While alone: parent codes are unique too, the audit trail chains from the pending
  registration to the present status, `is_active` says ACTIVE, and a format that has
  generated an identifier is frozen.
* `Membership` is what this amounts to for the people, without handlers, counters and
  transactions: a role is for ever, an approval stays on record, an identifier is given once
  and to somebody approved, generated numbers go up, and equal identifiers of one role are
  never issued (for parents: until requests overlap, its variable `orderly`). `Admission`
  implements it in every interleaving (`MembersSpec`): `approved` are the users with an
  approval in their audit, `card` is `profile`. The lock of the counter is what its
  order of numbers needs. Later edits of a profile are outside (`services/teacher.py:152`
  lets an administrator replace an employee code).

### Leave, Complaints and Staff
`Leave` holds the committed applications and balances. `used_days` is never added up in
place: it is recounted from the approved rows by every handler that may change one. So a
decision takes three steps before its commit (`DecideLeave` with the first count,
`RecordDecision` with the flush and the second count, `NotifyTeacher`, committed by a
session of its own), and an allocation two (`SetTeacherBalance`, `SyncAllocated`). The
principal's notice is a background task: with the pinned FastAPI 0.115 the session has
committed by then (`NotifyPrincipal`, in state "answered"). An UPDATE waits for a row that
another request has written and then writes over it; that is the one lock in the module.
`Complaints` is the workflow table with its notices. `Staff` serves both with one set of
requests: they share no row, and the run shows that each keeps its properties whatever
the other does.

* Always: every committed decision has been told to the teacher; the principal is told of
  stored applications only (`LeaveNotices`).
* While alone: approved days stay within the allocation, `used_days` is their sum, a
  decision stands; a complaint advances by one stage and is reported afterwards.

### UnitOfWork and the campus
`UnitOfWork` is the request transaction of section 1.1 as a module that services extend.
`db` maps tables to committed rows, `tx` a session to what it will write: rows to insert,
to upsert (`put`), columns to change, rows to delete, rows that foreign keys need, notices
that a background task will write (`tell`) and other tasks (`jobs`). A handler is an action
that checks `db` and calls `Begin`; `Commit` applies everything with the constraints of the
database (`Refused`: keys, foreign keys, partial unique indexes, rows that are gone) and
cascades (`Dropped`); `Abort` stands for an exception, a lost client, a stop of the server
and a task that dies with it. `stored` is the object storage, written at once, outside of
the transaction. The id of a new row is a `uuid4`: `Unused` says that no row has it,
committed or pending, and that no notification names it, stored or scheduled (`Named`), so
that a notice about a deleted row never comes to speak of another. The variable `serial` is
chosen at the start: handlers overlap, or one
runs at a time.

Twelve services extend it, each with its tables in an `area` of its own:

* `Coursework`, `Exams`, `Attendance`, `Classroom`: teaching. `Exams` computes percentages
  in hundredths, `round` included, and looks grades up in bands; `Attendance` repeats each
  aggregate query of the repository with its own WHERE and GROUP BY.
* `Years`, `Teaching`, `Students`: structure. One JSON value is written back whole by
  three services.
* `Documents`, `Messaging`, `Gallery`, `Auth`: records, people and their sessions.
* `Audience` is about seven kinds of rows at once: what concerns a class, a section, a
  subject and a year, and who is told of it, finds it in a list, may open it, may write
  it. The queries differ from service to service; students and teachers move in between.

`Campus` offers all handlers to one set of sessions. An area keeps the state spaces side by
side instead of multiplied; handlers of different areas share no rows.

* Always: notices are about committed rows (`ToldOfFacts`), committed rows name stored
  files (`FilesAreStored`), a school has one active year and a reset token changes one
  password (`OneOfAKind`), what was published, sent, cancelled or graded stays (`Lasting`).
* Serial: one submission per student, one conversation per pair, one history row per year,
  registered sections (`OneOfAKind`); columns that go together (`ColumnsAgree`); queries
  that count alike (`ViewsAgree`); who is told is who sees it (`AudienceAgrees`).

### RateLimit
`counts` is the list of timestamps of each key, kept as ages so that the clock may run for
ever; `passed` are the requests really let through, which the program does not remember;
`trying` the clients that go on. A request is pruned, counted and recorded or refused in one
step (there is no await in between), and a restart forgets everything. `WithinLimit`: no
window of one life of the process lets more through than the limit. `NeverShutOut`, the one
liveness property of the project: as long as somebody of a scope keeps trying, somebody of
it is let through again and again.

## 3. The runs

| run | question | bounds |
|---|---|---|
| `ledger_overlap` | what survives every overlap of payments | 2 ledgers of one student, bill 3, amounts 1 and 4, 3 requests, 2 days |
| `ledger_serial` | what holds without overlaps; refinement of `FeeAccounts` | the same, bills 1 and 4, amounts 1, 3, 7 |
| `ledger_overpay` | finding: two payments exceed the bill | 2 requests |
| `assignment_overlap` | jobs and a payment overlapping | 1 student, 1 head, 3 jobs, 1 payment, custom head allowed |
| `assignment_serial` | jobs one at a time, plans and cycles | the same, no plan or two terms, 2 halves |
| `assignment_custom` | finding: a custom head rewrites assigned terms | 3 jobs |
| `placement` | enrollment and promotion over two years | 1 student, 3 classes, 2 sections of one name, 3 requests |
| `placement_graduate` | finding: graduation leaves the cache | the same |
| `admission` | registration, approval, identifiers | 2 namesakes, 2 roles, 2 formats, 2 calendar years, 3 requests |
| `staff` | leave and complaints side by side | 2 applications of 1 or 2 days, 1 balance, 1 complaint, 3 requests |
| `campus` | daily school life, serial and overlapping | 2 sessions, 2 students, 2 classes and sections, 1 to 3 rows of each kind |
| `limiter` | the sliding window | a window of 3 ticks, 5 kinds of requests in 4 scopes |

Two overlapping requests are the smallest case of every race here, and the third is
what another request does between or after them (a refresh, a generation, a second
decision). Two ledgers of one student are needed for an allocation to spread and to
have an order; bills of 1 and 4 against amounts of 1, 3 and 7 meet the tolerance from
both sides, one paisa short, exact and one over. Prices 2 and 3 make a rounded half and
a remainder. Two classes with a section of one name each make the resolution of a
section by name happen. Bounds on data are CONSTANTS of the cfg files; `MaxDay` and
`MaxYear` bound the calendar. Requests are served once each, so that every behaviour
ends: `CHECK_DEADLOCK FALSE` says that, and no run uses it to hide a blocked request.

In `campus` two sessions are the two sides of every race, and rows are what a query can tell
apart: two students of one class or of two, two submissions to choose from, two bands of
grades and marks on their edges (0, 50 and 100 percent). `RowBound` says from how many rows
handlers still go on, fewer when they overlap; every area reaches several rows of each of
its tables, and the mutants show that the interesting cases do happen. Sessions, students,
tokens and guardians are symmetric; no liveness is checked there. Audience is about the
queries, so that overlaps only insert one row.

**Fairness.** Only `RateLimit` assumes any: weak fairness of `Tick` (time passes) and of
each kind of `Attempt` (the client in question tries again, which is what the 429 answer
with Retry-After asks for; without it nobody would be owed anything). The other
specifications assume none and claim no liveness: nothing in the handlers promises that a
request is sent or repeated, and one in progress ends by a timeout of the server that is
outside of the source.

Every property has a mutant, a changed form of a mapped definition next to it in the
module, that makes TLC find it violated under the run's own configuration.

## 4. The proofs

`FeeLedgerProofs` proves, for all finite or infinite sets of ledgers, requests, amounts,
bills and dates that satisfy `LedgerConstants`:

| theorem | statement |
|---|---|
| `TypeCorrect` | `Spec => []TypeOK` |
| `MoneyInvariant`, `PaidStaysWithinTotal`, `PaidIsBacked` | what overlapping requests cannot break |
| `SerialInvariant`, `SerialBooksBalance`, `SerialStatus`, `SerialSettled` | what serial handlers keep |
| `SerialRefinement` | `SerialSpec => AccountsSpec`, the implementation of `FeeAccounts` |

Neither `PaidWithinTotal` nor `PaidBackedByReceipts` is inductive: what an open request
will write was computed earlier, so the invariant must speak of the units of work.
`MoneyInv` adds that every row an open request writes is within its bill, was computed
from the row it read by adding exactly what it will insert as a payment, that this row
was itself backed, and that receipts never shrink. The step lemmas first describe what
each handler prepares (`RecordPaymentPrepares`, `AllocateShares` and `SharesPrepare`,
`FeeDashboardPrepares`), then what `Commit` and `MarkOverdue` do to one row
(`CommitRows`, `MarkOverdueRows`), so that the invariance proof has one case per kind of
step. `SerialInv` adds that the only open request still sees current amounts, up to an
overdue refresh (`CurrentCommit`), from which balance, status and refinement follow.

`FeeAssignmentProofs` adds the structures and the administrators' jobs. It takes the lemmas
about single payment steps from `FeeLedgerProofs` (`Pay == INSTANCE FeeLedgerProofs`, on the
ledgers that jobs generate) and proves, for any students, classes, heads, prices, plans and
payment cycle, and finitely many jobs and requests:

| theorem | statement |
|---|---|
| `TypeCorrect`, `LedgersStayBacked` | `Spec => []TypeOK`, `Spec => []LedgersBacked` |
| `DeletionsConfirmed`, `LedgersBalance` | `SerialSpec => ConfirmedDeletion`, `SerialSpec => []Payments!BooksBalance` |
| `TermsImmutable` | `SerialSpec => ImmutableAfterAssignment`, if `CustomHeads = {}` |
| `LedgersBilled` | `SerialSpec => []BilledByStructure`, if also no plan uses the names of the cycle |
| `CyclesWhole`, `LedgersSum` | `SerialSpec => []LedgersAddUp`, with the same hypotheses and distinct names of the cycle |

That a ledger is never credited with money it did not receive is harder here, because it
can be deleted, and generated again under its old key, while a payment on it is open. `Inv`
rules the case out: every structure was made by a job that is done (`Born`), no other job
can take its id, so a deleted structure is gone for good (`GoneForGood`) and with it the
key of its ledgers; and receipts of ledgers that do not exist are zero (`Emptied`).
`Planned` says what each handler decides when it reads, `SerialInv` that the decision of
the only job under way is still true at its commit (`Lone` draws "the only one" from the
count in `OneAtATime`). The hypothesis on custom heads is needed: with them the code does
rewrite the terms of a billed structure, which the run `assignment_custom` shows.

The cycle sum needs two more invariants. `CyclesWhole`: the ledgers of a student and a
structure are a whole cycle or none of it, because generation writes all of it in one
transaction, and deletion takes all of it. `LedgersSum`: their amounts are the rounded
shares and the remainder, which add up to the price, by the lemmas of `Sums`; its further
hypotheses are that there are no custom heads and that the names of the cycle differ.

`Sums` is the library the proofs about counts and sums rest on. A fold over a set or a
sequence is a recursive function underneath, and the induction theorems of the proof
library cannot be instantiated here; so each lemma takes a minimal counterexample with
`WFMin` on the natural numbers instead: the function of partial results exists, two of
them agree, and the sum of a set is that of the set without an element, plus the element.
From it follow sums of sequences, the sum over a set whose terms change in one place, and
a bound of the sum by the bounds of its terms.

`StaffProofs` does the same for `Leave`, `Complaints` and `Staff`:

| theorem | statement |
|---|---|
| `ToldInvariant`, `DecisionsAreTold`, `PrincipalHearsOfRows` | who has been told what, in every interleaving |
| `LeaveTyped`, `StaffTyped` | types, in every interleaving |
| `AccountInvariant`, `ApprovalsFit`, `DaysAreCounted` | approved days fit the allocation and `used_days` is their sum, until handlers overlap |
| `DecisionsStand`, `StagesAreOrdered` | what handlers that do not overlap never undo |
| `ComplaintsInvariant`, `SubmittersHearAfterwards` | a submitter never hears of more changes than there were, until updates overlap |
| `StaffServesBoth`, `StaffIsTold`, `StaffKeepsBoth` | `StaffSpec` implies both services' specifications, hence their theorems |

`DecisionTold` is not inductive, because a commit copies a row written earlier: `ToldInv`
adds a promise per unit of work (a recorded decision carries its notice, an open one has
written it, a background task speaks of a stored row). `StandInv` and `StageInv` say that a
program that has been alone so far has one open handler, whose reads are still true.
`AccountInv` adds that the days this handler has added up are the sum over the rows it
read, with its own row in the state it is about to have; the two properties are then one
change of one term of a sum.

`EnrollmentProofs` and `AdmissionProofs` are about every interleaving of any number of
requests, and about what holds until two handlers overlap:

| theorem | statement |
|---|---|
| `EnrollmentProofs`: `TypeCorrect`, `LinksHold` | `Spec => []TypeOK`, `Spec => []PromotionLinks` |
| `EnrollmentProofs`: `PlacesHold`, `TerminalStay` | `Spec => []PlaceOfMapping`, `Spec => TerminalStates` |
| `AdmissionProofs`: `TypeCorrect`, `IdentifiersUnique` | `Spec => []TypeOK`, `Spec => []UniqueIdentifiers` |
| `AdmissionProofs`: `NamesakesHold`, `AuditsTell` | `Spec => []NamesakesNeedOverride`, `Spec => []AuditTellsStatus` |
| `AdmissionProofs`: `FormatStays` | `Spec => FormatFrozen` |
| `AdmissionProofs`: `MembersServed` | `Spec => MembersSpec`, the implementation of `Membership` |

Both have one inductive invariant, `Inv`, of three parts: types; what open requests will
write (the part that holds however they overlap); and `SerialInv`, that a request that was
alone since it read still sees what it read. `LinksHold` needs of every open promotion that
it links to rows that it inserts itself, no two of its rows to the same one; a second
promotion of a student into that year cannot commit, because of the unique constraint. The
type of a roll number needs that n students never need more than n of them, an injection
of the roll numbers given into the students. `IdentifiersUnique` rests on the locked counter:
the counters that
open requests hold are disjoint and above the committed ones, so a committed number
is above all that were issued before (`Numbered`, `Numbers`). That two identifiers of
students or teachers differ although their templates may map two numbers to one value is
owed to the unique constraints alone (`Constraints`); for parents, whose codes are not
unique in the database, it needs `SerialInv`. `NamesakesHold` is about unseen approvals,
committed or about to be: whoever reads no namesake is the only registered bearer of the name. In
`AuditsTell` the first half holds of every interleaving, because `users.status` never turns
ACTIVE without the audit row that goes with it. Each kind of step has a lemma: the units
of work that handlers prepare are `Sound`, `QuietKeeps` covers all steps that commit
nothing, and `Commit` is treated table by table. `MembersServed` maps every commit to one
transaction of `Membership` and all other steps to stutters, or to the end of `orderly`: a
number just taken is above those issued because the counter that the request holds is
(`CommitIssues`), values are kept apart by the constraint or, for parents, by the check of
a handler that was alone.

`AdmissionProofs` is also about the limiter in front of registration and login, for any calls,
scopes, windows and limits of `LimiterConstants`:

| theorem | statement |
|---|---|
| `CountsAreExact` | the timestamps of a key that are in the window are exactly those of the requests it let through |
| `LimitsHold` | `LimiterSpec => []WithinLimit` |

The process prunes its list `counts` only when a request of the key arrives, the reference
list `passed` holds at every moment what was let through in the window. The invariant is
that `counts`, pruned now, is `passed`, so that the limit of a window is the limit of the
length of one list. A tick ages both, which needs that pruning before ageing makes no
difference once one prunes afterwards (`OlderYoung`); such facts about filtered sequences
are proved from `Shortest`, that what fails for some sequence fails for the empty one or
for one that extends a sequence for which it holds.

`CampusProofs` is about the unit of work and the areas of the campus:

| theorem | statement |
|---|---|
| `FilesStored` | `CampusSpec => []FilesAreStored` |
| `ColumnsStayInAgreement` | `CampusSpec => []ColumnsAgree` |
| `AudiencesAgree` | `CampusSpec => []AudienceAgrees` |
| `WhatWasShownLasts` | `CampusSpec => Lasting` |

It begins with what a commit makes of a table (`Flushed`: inserts, upserts, changes,
deletions and cascades in their order; `InsertFlush`, `UpdateFlush`, `DropFlush` for the
units of work that handlers prepare), and that typed writes leave typed tables. An area
has then a lemma per handler (what it collects) and an invariant. That rows name stored
files is not inductive: handlers store a file before they commit, other handlers remove
files, and a commit applies what was collected earlier. The invariants of assignments,
homework, documents,
report cards and galleries say that the files of collected writes are stored as well, that
what notices speak of is filed, and, if handlers do not overlap, what the table will
be after the open unit of work (`Flushed`) already has the property that the table has.
For a gallery this includes that a photo belongs to its album and that only one that is
not featured can lose its cover.

`AudiencesAgree` compares queries that different services make for one purpose, who is
told, who finds the row in a list, who may open it, in every state of seats and duties.
Its invariant is small (every pupil has a seat and one guardian, posts are typed, and no
handler writes a student); the work is in the queries, compared kind by kind of post.

`WhatWasShownLasts` is about steps, and its invariants are about what may be collected: no
unit of work takes back a publication or a cancellation, none changes an attempt or a
lateness, and the one that deletes a conversation refers to a row that cannot exist, so
that the database refuses it (`ChatDrops`) and messages stay. While handlers do not overlap, an
open unit of work that changes questions will leave the total of the quiz equal to the sum
of their marks (`QuizPromise`, with the sums of `Sums`), one that adds an attempt finds the
quiz unlocked, and one that writes lessons was let in by an active year, which only another
handler could have ended.

Attendance, structure, teaching, announcements, sign-in and students are followed there only
as far as to say that they stay within their own tables (`Without`). `SchoolProofs` gives
each of them its invariant, adds to those of chat, schedules, audience, quizzes and
classroom, and proves the four statements that span the whole campus:

| theorem | statement |
|---|---|
| `OneOfEachKind` | `CampusSpec => []OneOfAKind` |
| `TypesKept` | `CampusSpec => []CampusTypeOK` |
| `ToldTheTruth` | `CampusSpec => []ToldOfFacts` |
| `ViewsKeptAlike` | `CampusSpec => []ViewsAgree` |

Its invariant `SchoolInv` is `CampusInv` and one part per area. None of the statements is
inductive, for three reasons that every part answers in the same way:

* *A commit writes what was decided earlier.* Each part therefore says of an open unit of
  work what it may write, for any interleaving (`...Work`: the values are typed, references
  lead to rows that the commit will check, the row a notice speaks of is there already or
  written by the same transaction, a reset names the token it consumes) and, if handlers do not
  overlap, what the tables will be
  after it (`...Promise`: what the area promises of `db` holds of `Flushed` too).
* *A handler that finds nothing inserts.* While handlers do not overlap what it has looked
  for is still missing when it commits; that there is one active year, and one password per
  reset token, is owed to an index and a key and holds in every interleaving.
* *Rows and files disappear.* A notification outlives deletions only where no handler deletes
  the row it names; for schedules a deleted one may be named, an unpublished one not.
  This is where the freshness of ids (`Unused`) is needed: a new, unpublished schedule
  with the id of a deleted one would be a lie about it.

`ViewsAgree` compares aggregates. That the counts by subject, month and student sum up to the
rows there are (`CountBy`), and that the content of chapters and topics adds up with
what is linked to none (`LinkedCount`), are statements about finite sets, proved by
the sums of `Sums`; the sets are finite because every transaction adds finitely many rows
(`FewInv`). For the classroom one also needs that links lead to rows, of the class
they are in, which rests on foreign keys and on the chain of cascades from chapter to
topic to content (`ChainCascades`). For attendance each row is counted once because the
groups of every query are disjoint, whatever class a row kept when its student moved.

The proofs of `FeeLedgerProofs` assume only `LedgerConstants`, those of
`FeeAssignmentProofs` `AssignmentConstants` and `CycleShares`, those of `EnrollmentProofs`
`EnrollmentConstants`, those of `AdmissionProofs` `AdmissionConstants` and
`CustomIdentifiers` and, about the limiter, `LimiterConstants`, those of `StaffProofs`
`LeaveConstants` (the requests are finitely many), those of `CampusProofs` and
`SchoolProofs` the assumptions named in the modules of the areas: the last day is a natural
number (`CalendarConstants`); the placeholders for "no photo", "no conversation", "the whole
class" and "login" are none of the values they stand beside (`GalleryConstants`,
`MessagingConstants`, `TeachingConstants`, `AuthConstants`); documents asked for are document
types; marks entered lie within the maximum, those of a quiz are natural numbers and its
questions finitely many; students and subjects are finitely many where rows are counted, and
statuses are those of the enumeration (`AttendanceConstants`); places of people are pairs of
a class and a section (`AnnouncementConstants`); in `Audience` students are finitely many and
no guardians, and seats and duties are typed. The greedy spread of `Allocate` is used as "each
part is at most what the row owes".

Every property of a passing run is stated by a theorem, except the liveness property
`NeverShutOut`, which is out of the prover's reach and which TLC alone checks.

## 5. Assumptions and abstractions

* Amounts are whole paise (`Numeric(10, 2)`), `Tol` is the 0.01 of the comparisons;
  binary floating point inside `float(...)` is not modelled. Dates are day numbers.
* One academic year and one fee category in `FeeAssignment`; due dates of a cycle are
  cut off at `MaxDay`. A price is far above one paisa an installment (`CycleShares`): the
  code does not look whether the rounded shares before the last one exceed the price, and
  would bill a negative last installment of, say, 0.07 in twelve parts.
* Reads of one handler happen at one instant, except where a module names a second
  read. Ties in the order of an allocation are broken in any way.
* Who may call a handler (roles and permissions) is left out: an allowed caller is assumed.
* In `Enrollment` a section stands for its id and its name, and `joined_on` is abstracted:
  the synchronisation picks any other ACTIVE mapping. An item of a promotion that fails
  changes nothing. Other writers of the flat columns (`services/student.py`, the
  rollover, the profile service) are not in the module.
* In `Admission` padding and prefix are part of the template; distinct templates give
  distinct identifiers unless they keep the same tokens. Registrations that existed
  before the model starts were made one after the other.
* In `Leave` days are whole numbers (the code counts dates, and totals of two decimals are
  compared with them); a decision PENDING changes remarks only, and its lock is left out.
  A teacher always has a user to be told. A stop of the server may lose a background task,
  so nothing says that one ever runs.
* In the campus an `area` has the rows of one service; rows of others that it only reads are
  there from the start. Most areas are about one school, one class or one academic year;
  queries are modelled by their WHERE and GROUP BY, not by their order or pages. Roles are
  left out except where they choose another query (`Messaging`, `Audience`).
* Handlers read at one instant. What a library does is external and taken from its
  documentation: SQLAlchemy detaches the loaded children of a deleted row before deleting it
  unless told otherwise, `scalar_one_or_none` raises on two rows, a failed statement fails
  the PostgreSQL transaction it is in.
* Enrolment moves students and assigns teachers in one external step in `Audience` and
  `Attendance`; how it does so is `Enrollment`.
* `stored` only says whether an object was ever uploaded and not removed; a file left behind
  by a rollback is allowed, a row without a file is not.

## 6. What the modelling found

With a run: overpayment by overlapping payments (`services/fee.py:857`); the custom fee
head that rewrites assigned terms (`fee.py:460`); graduation that leaves the flat columns
(`promotion_workflow.py:312`).

Seen in the code, without a run of their own:

* `update_structure` and `delete_structure` count linked ledgers before they act, so an
  overlapping generation is re-billed, or deleted without confirmation (`fee.py:355`, `391`).
* A payment cycle generated after a class-wide generation gives a student several rows
  for a structure without a plan, although `models/fee.py:94` promises one.
* A cycle from a due date on day 29 to 31 raises in a shorter month (`fee.py:636`).
* `assign_roll_numbers` does not synchronise the flat roll number (`enrollment.py:752`);
  `update_mapping` keeps the old class's section (`427`) and never lifts HOLD.
* `create_student_profile` sets the class and section after its last flush and then
  refreshes the row without one, which discards both (`role_profile.py:154`).
* A custom identifier does not lock the format, although
  `models/identifier_format_config.py` says the first one issued does; a custom value
  that equals the counter's next one makes every further generation fail, because the
  failed request rolls the counter back.
* `teachers.employee_code` is unique over all schools while its counter is per school
  and its default format is `EMP/{SEQ}`: a second school's first number is refused by
  the database, again and again.
* Overlapping decisions can leave a user REJECTED with `is_active` true
  (`models/user.py:55` expects the opposite).
* Two approvals that overlap both fit the balance and exceed it together (`leave.py:239`),
  and two decisions on one leave both pass the check for PENDING: the later one wins,
  after the teacher was told of both. Shown by `WithinBalance` without its `alone`.
* The teacher is told of a decision before it is committed (`leave.py:254`), so a failing
  commit leaves a false notice. A decision may also be CANCELLED or PENDING.
* An update of a complaint that was read earlier takes it back to a stage it had left.
* A database error while `decision-with-profile` creates the profile undoes the approval,
  which its docstring excludes (`approvals.py:185`).
* `delete_album` removes the files of an album first and then always fails if there are
  photos: the mapper detaches them from the album, whose column is not nullable. The photos
  stay, without files (`gallery.py:266`, `models/gallery.py:73`; `DeleteFullAlbum`).
  `delete_conversation` fails in the same way for every conversation (`repositories/chat.py:126`),
  and `delete_exam` for one whose results were loaded.
* `delete_timetable` removes the object before its transaction commits.
* `chat.mark_read` swallows the failure of a message that was read before, which has failed
  the transaction: all reads of the call are lost (`chat.py:736`).
* `update_promotion_status` is meant for "at most once per academic year" (`student.py:525`),
  but promoted, held back and promoted again moves a student two classes. The history row
  then names the new class as the one the status is about (`student.py:595`).
* Classes of one year that are copied to another collide with subjects whose code is unique
  in the school; `update_standard` moves a class to another year and leaves its sections.
* A report card that was generated is never refreshed after a correction (`result.py:904`),
  and a correction of a mark names its last author (`result.py:752`), so that the exam
  leaves the first teacher's list.
* Homework is announced to the students of the class in any year (`homework.py:52`), an
  assignment to those of its year.
* A teacher of one subject in two sections of a class cannot post to it, and a parent of two
  students in one class cannot open an assignment: `scalar_one_or_none` finds two rows
  (`repositories/teacher_class_subject.py:177`, `assignment.py:365`).
* An announcement for a section without a class tells everybody and is then listed for the
office only.
* The cleanup loop purges codes, tokens and notifications and never commits
  (`lifespan.py:102`), although `services/notification.py:108` says that its caller must.
* `rate_limit_backend.py:36` promises to "record this request attempt"; a refused one is not
  recorded, which is what makes `NeverShutOut` true.
* `parent_student_links` "replaces the single parent_id" (`models/parent_student_link.py:4`);
  nothing writes it, and every query uses `parent_id`.

## 7. Not modelled, and what is left

Not modelled: roles and permissions (static tables, an allowed caller is assumed), the
profiles of teachers and parents (single rows with uniqueness checks), gallery reactions
and comments, reports and the audit log (reads), settings other than the registries,
logging, the clients of storage, mail and SMS, the layout of PDFs, the WebSocket relay (it
keeps no record of what it sent), migrations and scripts, and the deprecated rollover, whose
endpoint answers 410.

What is left to do: an abstract specification of enrollment (one class per student and
year) that `Enrollment` implements while handlers do not overlap; the year-end jobs
across `Years`, `Students` and `Enrollment` in one composition, which keeps them apart
today because each has its own view of a student's row.
