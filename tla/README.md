# Formal model of the Node.js API

TLA+ modules, TLC configurations and machine-checked proofs for the API of this
repository (Express, TypeORM, BullMQ, Redis). Paths are relative to the
repository; `src/src/...` in `PROJECT.json` is `src/...` of the API.

| part | module | checked by TLC | proved by TLAPS |
|---|---|---|---|
| tables and requests shared by the account endpoints | `AccountStore` | with `Account` | with `Account` |
| sessions, login, the auth middleware | `Sessions` | `sessions`, `backoffice`, `sweep` | `AccountSafetyProofs`, `AccountBoundProofs` |
| password recovery and change | `Recovery` | `recovery` | the same |
| user records | `UserRecords` | `backoffice`, `selfservice` | the same |
| composition of the four, its properties | `Account` (`MCAccount`) | all of these | the same |
| outgoing mail: table, queue, worker | `MailQueue` (`MCMail`) | `mail` | `MailProofs` |
| the category tree | `Category` (`MCCategory`) | `tree`, `tree_force` | `CategoryProofs` |
| what the mail pipeline promises | `MailPromise` | refinement in `mail` | `PromiseIsKept` |
| every endpoint of the back office as a script of steps | `Endpoints` | with `BackOffice` | `BackOfficeProofs` |
| tables, transactions, cache, permissions, history under them | `BackOffice` (`MCBackOffice`) | `catalogue` | `BackOfficeProofs` |
| filters and pages of every list | `Listing` (`MCListing`) | `listing` | `ListingProofs` |
| the feature manager and the manifests | `FeatureManager`, `Manifests` (`MCFeatures`) | `features` | `FeatureProofs` |
| what the feature manager promises | `FeatureSet` | refinement in `features` | `ImplementsPromise`, `NeedsStay` |
| the process: start, requests, shutdown | `Server` | with `Cron` | `ProcessProofs` |
| log lines and their outputs | `Logger` | with `Cron` | `ProcessProofs` |
| cron jobs, composed with the process and the logger | `Cron` (`MCProcess`) | `process` | `ProcessProofs` |

## 1. Inventory

**Sessions and authentication** (`middleware/auth.middleware.ts`,
`features/account/account-token.*`, `account.controller.ts`, `account.service.ts`).
State: the table `account_token` (ident, user, expiry, metadata). Operations:
every request passes the middleware, which reads the token, reads its owner,
and extends the expiry when little of it is left; `login` counts the valid
sessions and inserts one; `logout`, `removeToken` and the update of a user
remove rows; a cron job removes rows that expired long ago; the middleware
removes expired rows *in promises nobody awaits*. Hard: every handler is a chain of awaits, so counts and
rows are stale when used. Correct when: the limit of sessions is passed by no
more than the requests that race; a removed session never comes back; nobody
acts on a standing they never had; old rows go away.

**Password recovery** (`account-recovery.*`, the recovery handlers). State: the
table `account_recovery`. Operations: ask for a code (limited per six hours),
spend it, sweep. Hard: check, save and removal are four statements
without a transaction, and the request may end between any two. Correct
when: the limit is passed by no more than the requests that race; a code is
spent once per racing request at most, and once more for each change that broke
off before it removed the code; a removed code is not written back.

**User records** (`features/user`, registration and confirmation). State: the
table `user`, the confirmation links (signed tokens, which no table records).
Hard: links that are redeemed long after they were mailed; `save()` of an entity read
earlier writes back stale columns. Correct when: addresses stay unique; no
older password returns; no link revives whom the back office deactivated.

**Mail pipeline** (`providers/email.provider.ts`, `features/mail-queue`,
`queues`, `workers`). State: the table `mail_queue`, the jobs in Redis, the runs of the
worker. Operations: `queueEmail` saves a row, whose subscriber adds a job inside
the same transaction; the worker sends and writes the outcome; BullMQ delays,
retries, recovers stalled jobs; the back office deletes rows;
`workerMaintenance` removes failed jobs. Hard: two stores without a common
transaction, at-least-once runs, lost answers, crashes. Correct when: copies
are bounded, no saved mail is forgotten, `sent` is true, every job ends.

**Cache** (`providers/cache.provider.ts`, `shared/listeners/cache.listener.ts`).
State: keys in Redis. Operations: read-through `get`, which fetches again even on a
hit; invalidation by pattern, started by events that are emitted inside the
transactions and not awaited. Hard: a read, an invalidation and a commit in any
order; a scan that meets some keys and not others; Redis failing. Correct when:
an answer is never older than its request, and every entry that is out of date
is accounted for.

**Users' permissions** (`features/permission`, `features/user-permission`,
`middleware/auth.middleware.ts`). State: the rows granted to an operator and the
list of them in the cache. Operations: grant, revoke, grant again; every request
reads the list. Hard: check then write; the list is half an hour old. Correct
when: a revoked permission is of no use to a request sent afterwards.

**Event listeners and histories** (`shared/abstracts/subscriber.abstract.ts`,
`shared/listeners`, `features/log-history`). Subscribers emit an event per
insert, update or removal; listeners clear the cache and write the history,
unawaited. Correct when: the history names what a commit did.

**Cron** (`providers/cron.provider.ts`, `shared/cron-jobs`). State: the runs in
progress and the table `cron_history`. `executeCron` runs a job, logs its failure,
and saves a row in `finally`. Hard: runs overlap, a failing save rejects, the
database is closed under a run. Correct when: a job that failed has left a trace.

**Category tree** (`features/category`). State: the tables `category` (parent,
status, soft deletion), its closure table and the content per language.
Operations: create, update, statusUpdate (forced or not), delete, restore. Hard:
`delete` and `restore` check outside the transaction that writes, entities are
saved long after they were read, forced updates lock several rows. Correct
when: no live category sits below a deleted one, but for races; a deactivation
reaches the whole subtree and nothing else; updates do not wait for each other
for ever.

**Catalogue and back office CRUD** (`features/brand`, `carrier`, `client`,
`discount`, `place`, `template`, `permission`, `category`, `user`, and the tables of logs,
histories and mails). State: one table each. One pattern with
many variants: check uniqueness, then write; soft delete or delete, restore, status,
order, texts per language, list. Hard: checks outside the transactions, entities
saved long after they were read, ids that do not exist. Correct when: unique
columns stay unique, a write touches its own columns only, and a request that
runs alone does what its endpoint says.

**Lists** (`shared/abstracts/repository.abstract.ts`, the queries of the
repositories). No state but the query they build. Hard: parameters that share a
name, falsy values, pages of a table that changes, rows and their number read in
two statements. Correct when: a page shows the
rows that the filter means.

**Server lifecycle** (`server.ts`, `bootstrap.ts`, `app.ts`). State: what is open, what
is in progress, whether a shutdown has begun. Operations: start, signals, unhandled
rejections, closing side by side, forced exit. Hard: two handlers of one signal
(the email worker has its own), work that goes on while things are closed.
Correct when: requests are drained or the time is over, and every shutdown ends.

**Logger** (`providers/logger.provider.ts`). State: the outputs a line is marked as
sent to. Hard: each writer marks and looks at marks of others. Correct when: an
error that the log file takes is kept somewhere.

**Feature manager** (`cli/feature.ts`). State: the directories of features and their
backups. Operations: install, upgrade, remove, rollback. Hard: every file operation
may fail and the tool may be killed. Correct when: a manifest tells the truth, an upgrade loses no old file
before the new ones are there, and no feature loses what it needs.

**Others.** Middleware, policies and validators are modelled as far as they
decide (permissions, accepted columns and filters, languages); mail transports, internationalisation,
entities without operations and migrations hold no state another part depends
on; `PROJECT.json` says for each what becomes of it.

**Interactions.** Handlers call services, services call repositories over one
database; account handlers queue mails without waiting; the middleware, the cron jobs
and handlers meet in the rows of `account_token`; the back office and members
meet in those of `user`; subscribers reach the cache and the mail queue from inside
transactions; any unhandled rejection reaches the server's lifecycle; a change of a permission
changes what every operator's cached list should say.

The list `hazards` of `PROJECT.json` names the places where this goes wrong
most easily, each with the properties that watch it.

## 2. Plan

Done, in this order: the account core; the mail pipeline with its abstract
promise; the category tree; the back office over cache, permissions and history
(`Endpoints` and `BackOffice`, one parameterised module instead of one per
feature); the process with its cron jobs and log lines; the feature manager with its
abstract promise; the lists; the theorems.

What is worth doing next:

1. The part of `Listed` that does not depend on the filters (order, no repeats, the size of
   a page), as a theorem.
2. Compose `Account` and `MailQueue` through `queueEmail`: today the detached
   loading of a template is a cause of `Rejection` in `Server`.
3. An abstract session service that `Account` refines.
4. Two types of categories, and lists of a table that changes for more features
   than one.

Runs are few on purpose, one for each question. Disagreements between code and
comments that need no state space are described in section 10 instead of having
a run each.

## 3. The account model

### State and steps

| variable | code |
|---|---|
| `user` | table `user`: status, `deleted_at` set or not, email, password |
| `token` | table `account_token` |
| `recovery` | table `account_recovery` |
| `issued`, `link` | uuids generated, confirmation links mailed (a JWT is good whenever it is shown) |
| `lookup`, `removing` | detached `removeTokenById` before and after their SELECT; `removing` also holds what cron selected |
| `expunging` | recovery rows selected by cron |
| `req` | the locals of each request in flight and the await it stands at |
| `process` | `"up"`; `"stopping"` after an unhandled rejection (`server.ts` takes no new requests and ends); `"exited"` |
| `clock` | the wall clock, in coarse units |
| `spent`, `seen` | history only: password changes per code (`made`) and how many of those ended before they removed it (`cut`); which standings held since a request arrived |

JavaScript runs a handler without interruption between two awaits, so **an
action is what happens between two awaits**, including the one statement it
sends; requests, detached promises and cron interleave at awaits. Each handler
is a chain of actions through `req[r].pc`; a refusal (4xx) or failure (5xx) frees
the slot. `RepositoryAbstract.delete` is two halves (`TokenFind` and
`TokenDelete`, `CodesFind` and `CodesDelete`, `DeleteFind` and `SoftDelete`),
because it selects entities and then removes each by id; it throws when it
selects none.

Any statement may fail, and the process may exit between any two: `Break` ends a
request at any of its steps and leaves what it wrote. So a change of a password
that saved it and did not come to remove the code (`LeavesCode`; `updatePassword`
has no transaction) leaves a code that is good for another change, and
`CodeSpentBound` counts these changes: one code changes the password at most once
per slot and once more for each of them. DELETEs of detached removals
and of cron fail too (`RemoveTokenFails`, `RemoveCodeFails`).

`server.ts` answers an unhandled rejection by a shutdown. The requests in flight
may go on until they end, cron goes on sweeping, and then the process exits
(`Exit`), which drops every detached removal and every DELETE that was not sent.
A process that exited sends nothing any more; whether anything starts it again is
left open (`Start`): the exit code is 0 and `docker-compose` has no restart
policy.

`save()` in TypeORM is what its argument makes it: of a partial entity, the named
columns; of an entity read earlier, every column that differs from the row,
except `password`, which is never selected; of an id whose row is gone, an INSERT,
which the database rejects when columns that cannot be null are missing
(`Marked`).

Abstracted: passwords are version numbers, a wrong password is one of the
refusals; metadata (user agent, IP) is a refusal; roles, names, languages and
the sessions of back office operators are left out; JWT signatures are taken to
be sound; expiry of confirmation links is left out (an old link stays usable,
which only adds behaviour).

### Bounds

`Horizon` stops the clock, `MaxDetached` limits the detached removals of one token,
`MaxPassword` limits the changes of a password; `Idents`, `Codes` and `Users` limit what
can be created. `FewRemovals` of `MCAccount` cuts behaviours of `sessions` where detached removals of two
sessions are under way at once, which meet in no row. Every one of them only stops steps from
happening; none occurs in a property. The slots in `Requests` are the requests in flight at one time
and the bounds of `SessionBound`, `RecoveryBound` and `CodeSpentBound` are stated
in them.

### Runs

| run | instance | question |
|---|---|---|
| `sessions` | 2 requests, 3 sessions, limit 1, 1 user, detached removals of one session at a time | can racing logins and renewals pass the limit by more than the requests that race; can a removed session return |
| `backoffice` | 2 requests, 1 user, 1 session | types and locals under every back office operation beside logins; stale saves and passwords; standings |
| `recovery` | 2 requests, 3 codes, limit 1, clock up to 2 | the limit of codes, double spending with and without changes that broke off, removed codes, links that revive |
| `selfservice` | 2 users, 2 addresses, 2 requests | unique addresses under registration, confirmation, change and the back office |
| `sweep` | 1 request, 2 sessions, clock up to 3; liveness, no symmetry | outdated sessions are removed while the server is up |

Two requests are the least that race, and three tokens the least that
distinguish "one more than the limit" from "two more". Symmetry over slots,
idents and codes (and users and addresses where nothing tells them apart) is used
in the safety runs only. The theorems remove these bounds.

### Fairness

`FairSpec` adds weak fairness of cron's sweep while the server is up
(`process = "up" /\ CleanTokens`: node-cron runs it every three hours, and a run that
finds nothing is caught by `executeCron`) and strong fairness of the DELETE it
sends for each row (`RemoveToken`). Weak fairness would not do: a DELETE may fail,
which takes the row off `removing` until the next run selects it again, and what
is assumed is that the database does not refuse it every time. Requests are not
fair: clients may stop anywhere. Nor is `Start`: after a final shutdown outdated
rows stay, which is why `OutdatedSwept` says that an outdated row goes away *or the
server goes down*.

## 4. The mail model

| variable | code |
|---|---|
| `tx`, `row` | the transaction of `save()` in `queueEmail`, and the committed row |
| `job`, `attempts`, `stalled`, `holder` | BullMQ's job: its list, failed attempts (`attemptsMade`), stalls, lock |
| `slot` | the runs of the processor (`concurrency`) |
| `copies` | history: what the mail server accepted |

`AddJob` happens inside the transaction: the subscriber's `afterInsert` awaits
the queue, and a worker may take the job before the `Commit`. An UPDATE of a row
that is not committed, or deleted, touches nothing (`Write`). `Send` has three
outcomes: accepted, refused, and accepted without an answer. The `catch` of the
processor surrounds the send *and* the UPDATE and ends the run normally
(`MarkError`), so a run only throws when the second UPDATE fails as well
(`GiveUp`). BullMQ is modelled from how the code configures it: `attempts: 3`
counts the first run, a job that lost its lock is handed out again at most once
(`maxStalledCount`, the library's default), and completed and failed jobs are not run again. A
run that lost its lock goes on sending and writing, but has no say in the job
(`Owns`). `Crash` ends the process with its transactions and runs; Redis and
the database survive.

Run `mail`: one mail, two slots, **the production values** of attempts and
stalls. Mails share nothing but the slots; the second slot is there for the run
that lost its lock to overlap with the next run of the same job.

Fairness (`JobsEnd`): BullMQ keeps handing out waiting jobs, promoting delayed
ones and noticing locks without an owner, and every query and send settles.
The last is an assumption about the database and the mail server that nothing in the code
enforces: neither `data-source.config.ts` nor the mail transports set a timeout, so a
call that never settles would hold its slot for good. `JobsEnd` says nothing of that case.
Nothing is assumed of clients, of crashes or of `LoseLock`; that jobs end
nonetheless is because each stall is counted.

`MailPromise` is the abstract specification: a job is handed out a bounded
number of times, each run delivers at most one copy, perhaps late, and what ended
is never run again. `Promise` maps `Runs(m)` and the end of a job to it.

## 5. The category model

| variable | code |
|---|---|
| `cat` | table `category`: parent, status, `deleted_at` set or not |
| `closure` | `category_closure`, pairs of an ancestor and a descendant |
| `req` | the locals of each request in flight and the await it stands at; `locked`, the rows its open transaction has updated |
| `alone` | history: whether nothing else was in flight since the request arrived |

A request arrives with the answer of its first query; one refused there changed
nothing and is left out. `create` and `statusUpdate` are transactions: their
writes become visible at the end (`CreateInsert`, `SaveWrite`). `Deactivate` is
the UPDATE of the rows a forced update selected, one row after the other, each
locked until the transaction ends; PostgreSQL finds transactions that wait in a
circle and aborts one (`Abort`). `save()` of an entity read before is two steps here:
its own SELECT, which finds the columns that differ (`SaveRead`), and the
UPDATE of those (`SaveWrite`). (In the account model, where the question is which stale
columns come back and not which locks are held, the two are one step.)

Three things are as the code and TypeORM have them, not as they look:

- The query of the active descendants has a `where()` that *replaces* the condition
  `createDescendantsQueryBuilder` set, so it selects every active category
  (`ActiveDescendants`).
- `restore` joins the parent before it calls `withDeleted()`, so a deleted
  parent is not found, its check is dead and a category can be restored below a
  deleted one (`RestoreFind`).
- `update` reads the category without its parent, so it never moves it: there
  is no action for it, since all it writes is content.

`AloneKeepsTree` says that `create`, `delete` and `statusUpdate` make no new
orphan (a live category below a deleted one) when they run alone: what races
have done before is not repaired, but not added to either. `DeactivationCovers`
says that a deactivation that runs alone leaves nothing active below it. Both are
false of requests that race, which is why `alone` is remembered.

Run `tree`: two requests and four categories. `MaxRacing = 2` (the constraint
`Bounded` of `MCCategory`) lets requests race while at most two rows exist, so that
orphans and restored rows arise, and one at a time work on the larger trees of up to
four levels; the theorems have neither bound. Deadlock is checked: without `Abort`
two forced updates do wait for each other. `tree_force` needs one request and
two categories. No fairness is assumed.

## 6. The back office

`Endpoints` says what each feature's endpoints do, as sequences of named steps;
`BackOffice` gives each step its meaning. What differs between features is data: which
steps an endpoint has, which columns its validator lets through, whether the key
is unique, whether the table has texts or parents. A behaviour looks at one
table (`feature`), since tables share nothing but the permissions and the cache,
where their keys are apart.

| variable | code |
|---|---|
| `rows` | the table: unique key, status (or, without one, the other columns), parent, texts, `deleted_at` set or not |
| `order` | `sort_order` of brands |
| `grants` | the rows of `user_permission` of the operator (`row`), and whether the permission of each is there under its name (`named`) |
| `req` | the request in a slot: the step it stands at, the entity it read, what its transaction will write, what the subscribers told |
| `cache`, `permCache` | what Redis holds of a read, under an entry per row or one for all, and of the operator's permissions |
| `cleaning` | calls of `deleteByPattern` that are under way |
| `excused`, `watch` | history: keys whose entry may be out of date, and what a request could have seen since it arrived |

A step is one query, one statement or one call of Redis. `save()` of an entity with an
id is two steps, the SELECT (`Load`) and the UPDATE of the columns that differ
(`Write`). Writes become visible at `Commit`; a second transaction waits for the
row lock of the first; the unique index counts uncommitted rows of others only when they commit.
The events of a subscriber (`told`, and the invalidation that joins
`cleaning`) leave the transaction before it commits, and are not taken back when
it fails (`Breaks`).

Some things are as the code has them:

- `CacheProvider.get` fetches and stores again even after a hit, so a hit never
  shows an old row (`Fetch`); what the cache holds decides nothing for rows, but the
  same entry serves operators who may see deleted rows and those who may not.
- `res.locals.language` is never set (the middleware sets `res.locals.lang`), so reads
  of brands, places and categories, which join the texts in that language, find
  nothing (`Readable`).
- A permission granted again by `create` goes through `repository.restore`, whose
  UPDATE tells no subscriber, so the cached list stays (`SaveGrant`).

- The reads of clients and of discounts build their key from `res.locals.id`, which
  nothing sets, so all rows share one entry (`Unkeyed`, `Entry`) that holds the row read last
  and that no invalidation matches.
- The operator's list joins `user_permission` with `permission`
  (`getUserPermissions`), so that deleting, restoring or renaming a permission changes it
  (`Granted`, `ChangePermission`), and no subscriber clears it.
- `update` of a client looks for a duplicate even when the body names no identity: the
  filters drop what is undefined, so any other client of the type is found and
  the answer is 409 (`FoundElsewhere`). All clients are of one type here.
- A body may leave out what its validator has as optional: the parent of a place (which
  keeps it, and which no body can clear), the address of a user. The latter is compared with the stored one,
  so such an update ends the user's sessions, or answers 404 when there is none
  (`EndSessions`).

`StaleExplained` lists every way in which a row's entry, or the permissions', may be out of date and
says that there is no other; the shared entry belongs to no row, and `ReadsFresh` says what counts there. `ReadsFresh` and `ActsOnGranted` say that no answer and
no permission is older than its request. `AloneIsAtomic` compares every
endpoint with a reference that does it in one step (`Reference`): whatever
other requests left in Redis or hold uncommitted, a request during which nobody
else changes a row answers and leaves the table as the reference does.
`OwnColumns` and `HistoryTells` hold when requests do race.

Run `catalogue`: thirteen features, two rows, two keys, two requests. Two of
anything is what a race and a conflict of keys need, and what one request does is independent of the
third row. `MaxArrivals = 2` ends a behaviour after two requests or changes of a permission; in the features of
`Single` one request runs, since their endpoints are made of the steps of
those where two race: brand, client, permission, category, and the logs through
cron_history, with which grants and permissions change meanwhile as well. `Bounded` of `MCBackOffice` keeps lists, new orders and changes of
parents for behaviours with one request. No fairness is assumed.

## 7. Lists

`Listing` translates what a filter becomes (`filterBy`, `filterByRange`,
`filterByTerm` and each feature's `findByFilter`) into a set of conditions,
evaluates them as PostgreSQL does, and compares the answer with what the fields of the
filter mean. A condition's parameter has the name of its column, and the last
value wins (`Selected`).

`Listed` says that a page shows the rows that the filter means at the moment it is
read, in order, and that the number is that of the rows it means at the moment they
are counted. `getManyAndCount` sends two statements outside a transaction, so a page and
its number may be of two tables (`NextPage`, then `Count`). Where the code overlooks a field, `Overlooked` and `Heeded` name
it: an id of 0, an id beside a numeric term, terms of up to three letters or 0, a template
of 0, the reference of discounts, the language of mails, the user of permissions, the id
of categories. Categories are articles where no type is named, the validator's default;
lists of translated tables are empty without a language.
`WalkDrifts` bounds what a client that walks through the pages misses or sees twice by the
number of rows that left or entered meanwhile: the places shown are compared with the
rows seen at them.

Run `listing`: fourteen features, a stock of rows in which each column differs from the others in
exactly one row, and every filter of the values that the code tells apart. The
walk (`Changing`) is over four carriers, with up to two changes and pages of one
or two rows. Everything else is one answer long.

## 8. The process and the feature manager

### Process

`Server` is the life of the process, `Logger` the outputs of a line, `Cron` the runs
of jobs; `Cron` composes the three, since an exit ends every run and every write, and
the closing of the database happens under them.

| variable | code |
|---|---|
| `phase`, `database`, `closing` | how far `server.ts` has come, `dataSource.isInitialized`, what `closeHandler` waits for |
| `worker`, `mails` | the email worker, which has handlers of the same signals, and its jobs |
| `requests`, `timer`, `exit`, `starts` | connections without an answer, the forced shutdown, what ended the process, restarts |
| `run` | the runs of `executeCron`: job, status, log line, whether the row was saved |
| `levels` | the logger's lists of levels |

`Drained`: a request has the database until it is answered, and is cut off only when the
time is over or the worker's own handler exits first. `FailuresLeaveTrace`: a job
that failed has left a row or a log line, although each writer marks lines as sent by
others and each output may fail. There is one exception, the log file: it is the last
resort of a refused mail and of a closed database, and its writes are not watched, so
when it refuses an error itself (a full disk) and the database is closed, nothing is left (`refused`). `ShutdownEnds`: a shutdown ends, whatever
hangs. Fairness is that of the timer alone (`WF_vars(ServerStep /\ ForceExit)`): timers fire as
long as the process runs. Nothing is assumed of requests or of closing.

Run `process`: two requests, two jobs of the worker, one run of one of three jobs (one
for each kind of outcome), two starts; the logger as configured and with errors
kept out of files. Runs of cron do not touch each other, so one is enough.

### Feature manager

| variable | code |
|---|---|
| `dir`, `backup` | what the directories of a feature and of its backup hold: the version of each file |
| `run` | the tool: its command, the files still to copy or remove, the undo steps |
| `held`, `torn`, `lost` | history: the files, each in its version, that upgrades have to keep; features that an interrupted run left; whether a rollback removed a directory |

Files are copied and removed one by one, each operation may fail, the developer may say no, the tool
may be killed (`Kill`). Undo steps are registered after a copy is
complete, so the only error that a rollback answers is the failing removal of
the backup: it then removes the new directory and restores from a backup that may be
half gone. A failing append to the history file leaves before the rollback. `compareVersions` is a difference that has to be exactly -1, so a feature
two versions behind cannot be upgraded. `Manifests` holds the dependencies
of all 24 manifests as they are, subscription's wrong directory included.

`TruthfulManifests` and `OldFilesKept` are what a developer relies on between runs.
`OldFilesKept` goes over runs: what an upgrade found stays in `held` until its
backup is given up or the feature's removal is confirmed, whatever later runs do, with the one exception that the code
makes: a later upgrade copies the directory over the same backup, so a file that an interrupted one had saved is
overwritten by the version that is in the directory now. {manifest 2, a 1} goes to 3, is killed when `a` 3
is copied, and is run again: `a` 1 is gone though nobody gave the backup up.
`FeatureSet` is the abstract specification: features come when what they need is there, and go when
nothing needs them; `Implements` is the refinement, `NeedsStay` what follows for users of
the abstract one. Both end with a rollback that removes a directory (`lost`): from then on `FeatureSet` promises
nothing of what features need, even for features that rollback did not touch.

Run `features`: three features that need each other in a chain, two files,
three versions (the second drops a file, the third has it again), three runs of the tool:
an interrupted run, one on top of it, and one that looks at both. The theorems have none of these bounds.

## 9. What is proved

For every value of the constants allowed by `StoreAssumption` (finite sets of
slots, idents and codes; durations and limits natural numbers; a limit of at
least one session, which `config` forces) and `MailAssumption`:

- `AccountSafetyProofs!TypeCorrect`: `TypeOK`, whose part `Locals` says which
  locals are set at which step; it is inductive because no row of `user` ever
  disappears.
- In the same module: `RevocationIsFinal`, `CodeRemovalIsFinal`,
  `NoPasswordIsLost`, `EmailsAreUnique`, `RequestsActOnSeen`. The first four need
  no more than `TypeOK`; the last one needs `SeenInv`, which ties `seen` to the current standings: what holds now is
  in `seen` of every request in flight, so what a step reads is remembered.
- `AccountBoundProofs`: `SessionsAreBounded`, `RecoveriesAreBounded`,
  `CodesAreSpentOnce`. A bound on the rows is not inductive, because it forgets the
  requests that already counted. `ClaimInv` and `SendInv` therefore count the rows of a user
  *together with* the requests that may still add one (a login past its
  check, a middleware that will extend an expired row): the sum cannot pass
  the limit plus the slots less one, since the check is made below the limit by a request that is not yet counted.
  `SpendInv` counts the changes made with a code and the requests that still
  hold it the same way, against the slots and the changes that broke off.
- `MailProofs`: `TypeCorrect` (with `JobInv`: attempts and stalls stay within their
  limits because the list a job is in says how many runs it has had),
  `CopiesAreBounded` (`CopyInv`: copies plus runs about to send are at most
  `Runs(m)`), `NoMailIsForgotten`, `SentIsTrue` (`SentInv`: a run about to
  mark `sent` has delivered), and `PromiseIsKept`: every step is a step of
  `MailPromise` or a stutter.

- `CategoryProofs`, under `CategoryAssumption`: `TypeCorrect`, `TreeIsKept`,
  `SubtreeIsCovered`. `TreeInv` adds two facts to the types: a row is below its parent in the
  closure table (`ClosureInv`), so that a delete that sees nothing live below sees every child; and what the locals of
  a request that runs alone say of the tables still holds (`Current` in
  `AloneInv`), since a step that does not end a request writes nothing.
- `FeatureProofs`, under `FeatureManagerAssumption`: `TypeCorrect` (`TypeInv`: which of
  directory, backup and list of files a step may rely on), `ImplementsPromise`, `NeedsStay` (`Closed` is
  inductive in `FeatureSet`, and `ManifestsAgree` is what it needs of the manifests),
  `UpgradeKeepsOldFiles` (`KeepInv` follows each held file, in its version, through the copying: it is still to be
  copied and in the directory, or in the backup), and
  `ManifestsTellTruth` (`TruthInv`: the files still to copy are the ones that may not be of the new version).
- `ProcessProofs`, under `ServerAssumption` and `CronAssumption`: `TypeCorrect`, `StopsDrain`,
  `FailuresTraced`. The last one needs that a line that is pending or kept in
  no output, and that the file has not refused, does not exist for an error (`Traced`), which the fallback
  from mail to file preserves.
- `BackOfficeProofs`, under `BackOfficeAssumption` and `NoneIsNothing` (None is no row, and
  the names of the permissions' entry and of the shared one are not ids): seven theorems, in layers.
  *Scripts* (`ScriptsOK`): in each feature, every endpoint's script is made of steps of
  that endpoint, in an order (`Follows`) in which a step finds what the one before it left.
  This is the only place that looks at the features one by one.
  *Kinds of steps* (`StepIs`): each of the steps of `BackOffice` either changes nothing but its request and
  Redis, or acquires part of a row for its transaction, or commits, or
  removes, or changes the grants; `ChangePermission` belongs to no request.
  *The invariant* (`BaseHolds`): `Sound` says what a request at each step of its script has found, loaded and
  written (`Fine`); `Locks` that two transactions never hold the same part of one row;
  `Regranted` that a grant about to be restored is there.
  On top of it: `TypeCorrect`; `KeysAreUnique`, where `UniqueKeys` is not inductive, because a
  commit takes effect long after the check, and `KeysHeld` adds that an uncommitted key differs from those
  of all rows and all other transactions; `AnswersAreFresh` and
  `PermissionsAreCurrent` (`Timely`: what a request holds at each step before it answers was in
  `watch` when it was read, which only grows); `StalenessIsExplained` (`Warned`: once an uncommitted change has
  told its subscriber, the entry of its row is gone, about to be removed, or excused); and the action properties `OwnColumnsOnly` and
  `HistoryIsTold`, from what `Pending` says of a transaction at its commit.
- `ListingProofs`, under `ListingAssumption` (ids from 1 on, queries that the validators let through):
  `TypeCorrect` and `WalksDriftLittle`. What a filter selects is left open (`Selects` is
  never expanded): the drift is a matter of ranks. A client has the first `Passed` places of the list
  behind it. `WalkDrifts` is not inductive, since a row that moves is repeated or missed only by the page after. `Repeats`
  therefore adds to the rows shown twice those that were shown and are ahead again (`Ahead`), and `Misses` counts the rows
  not shown that are behind (`Behind`); a row that enters pushes one row ahead at most
  (`EntryPushes`), one that leaves pulls one behind at most (`LeavingPulls`), and a page moves as many
  from ahead as it repeats (`WalkOn`).

Only model-checked: what is liveness, beyond the prover (`OutdatedSwept`, `JobsEnd`,
`ShutdownEnds`); `Listed`, which needs what the conditions of fourteen filters amount to after
a fold over them, which the provers cannot evaluate; and `AloneIsAtomic`, since it relates what a whole script
does to a reference that knows nothing of scripts: each step of each endpoint would need an
assertion of what the rest of its script will do.

## 10. Findings

*A forced deactivation changes every active category* (`tree_force`), the parent
of the deactivated one included, against the comment of the method: `where()`
replaces the condition on the ancestor.

Found while reading, and modelled as the code does it:

- Sessions: a comment in `passwordRecoverChange` says that all account tokens are
  removed, but only the recovery rows are, so old sessions survive. `passwordUpdate` and `meDelete`
  check the current password against a column that is never selected, so they
  always fail (`CheckCurrentPassword`).
- Recovery: the rows of the user are removed before the code is marked as used, so
  the marking becomes an INSERT that the database rejects, and the client gets an
  error although the password has changed (`Marked`).
- A detached removal rejects when its row is gone, nobody handles that, and
  `server.ts` shuts down, with exit code 0.
- `emailConfirm` activates a user whom the back office deactivated between its
  read and its save (`ActsOnSeen` says how far that goes); `update` without an
  address ends the user's sessions.
- Mails: the `catch` of the processor turns a refused send into a completed job,
  although the subscriber's comment promises three attempts.
- Categories: a category can be restored below a deleted parent, and is never moved.
- Account: a change of a password that breaks off between its save and the removal of the
  codes leaves the code usable (`Break`).
- Back office: the page of a template (`readPage`) always answers 500, since it reads
  `res.locals.outputder`; all clients, and all discounts, are cached under one key; a deleted or renamed
  permission stays in the operators' lists until the next request reads them; a client
  cannot be updated without naming its identity once there are two of its type.
- Back office: reads of brands, places and categories always answer 404, and their lists are
  empty unless a language is named (see section 6); an update of a carrier or a
  permission under an unknown id inserts it; the order of brands accepts repeated
  and unknown ids if their number is right.
- Cron: the job that compares times uses a function PostgreSQL does not have; the job that
  counts warnings counts errors; the expected run time of every job is the literal 1.
- Feature manager: a second upgrade overwrites the backup of an interrupted one; see section 8. Removing the database tables of a feature only prints.

## 11. Not modelled

Mail transports (adapters without state), the template's `readPage` (it fails after a read, and its own entry of the
cache is used by nothing else), calls that never settle, internationalisation, templates and settings,
entities without operations and migrations. Of the middleware: output, CORS, validation of
path parameters, request ids. Rate limits are left out: they only remove
requests. Of validators: the shape of single values. Of the logger: formats,
rotation and the console. The account models run one process; the database is one that
executes statements atomically (a list with joins, for which TypeORM reads ids and then rows, is one) at the isolation level of single statements
(READ COMMITTED), with transactions and row locks where a model's property depends on them
(`Category`, `BackOffice`).

## 12. Running

`tlc -config sessions.cfg MCAccount.tla`, and so on for each `.cfg` with the
module that `PROJECT.json` names for it; `tlapm MailProofs.tla` for the proofs, and so on for each
`*Proofs.tla`.
