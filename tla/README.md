# A formal model of the backend template

TLA+ models of the NestJS template in `src/`: two services (`apps/backend`, the public
HTTP API, and `apps/auth-service`, which owns sessions and is called over gRPC), a
PostgreSQL database they share, Redis with BullMQ queues, an SMTP server and an S3 store.

What goes wrong in such a program seldom goes wrong inside a function. A handler reads a
row, awaits something, and writes a row; between two awaits any other handler, worker,
cron tick or process may run, and the process may stop. Most queries run without a
transaction. So the unit of the models is **one await**: an action is what a handler does
from one database, Redis, queue or S3 call to the next, and what it keeps in local
variables meanwhile is part of the state.

## 1. Inventory

| Component | State | Operations | Talks to |
|---|---|---|---|
| **Sessions** (auth-service) | `refresh`, `password_reset_token`, password columns of `user` | login, refresh, logout, forgot / reset / change password, administrator's reset, blocking, deletion | users, gateway |
| **Login lockout** (auth-service) | `failedLoginAttempts`, `failedLoginWindowStartedAt`, `lockedUntil` | login, unlock | sessions, clock |
| **Access tokens and token version** | `user.tokenVersion`, role, `blocked`; Redis key without an expiry | update, unlock, delete, issue, check | sessions, Redis |
| **Auth gateway** | none in the backend; cookies and memory of the browser | guards, gRPC calls, cookies | auth-service, browser |
| **User accounts** | the other columns of `user` | create, update, unlock, delete, theme, preferences, lists | events |
| **Roles, permissions, policies** | `role`, `role_permission`, abilities in the memory of each instance | role commands, refresh, guard | guards |
| **Migration and seeding** | roles, permissions, first user, templates | at the start of each instance | all |
| **Notification dispatch** | `notification`, queue `notifications` | create, cron dispatcher, worker | mail, BullMQ |
| **Notification inbox** | `notification` | list, mark, mark all, delete | browser |
| **Mail delivery** | `mail`, queue `mail` | send, worker, RetryFailedMails | BullMQ, SMTP |
| **Mail templates, magic links** | `mail_template`, tokens of links | template commands, seeding, look-up by name, request of a link | mail |
| **Captcha challenges** | `captcha_asset`, `captcha_challenge`, `captcha_attempt`, Redis list | create, verify | Redis |
| **Captcha templates and configurations** | `captcha_template`, `captcha_config`, queue `captcha-generation`, S3 | create template, draft, activate, generate | BullMQ, S3 |
| **Captcha answers** | none | generate text, normalise, hash, compare | challenges |
| **File storage** | `file`, `file_version`, S3 objects | upload, update, read, delete | S3 |
| **Admin** | `access_log`, `system_setting` | audit handlers, log, settings, dashboard | events |
| **HTTP layer, i18n** | none | hooks, guards, interceptors, pipe, filter, translation | all |
| **Cryptography** | hashes and wire strings in columns | hash, verify, rehash; encrypt, decrypt, fingerprint | sessions |
| **Logging** | the connection to Graylog | ship a line | Graylog |
| Health, metrics, configuration | one query or none | | |

What is hard, and what makes each part correct:

* **Sessions.** A request holds evidence (a row, a verified password) across awaits while
  another one changes the password or revokes sessions. Correct: an active session
  belongs to the present password; a token is spent before it is replaced; what a
  revocation ends stays ended.
* **Lockout.** The counter is read before the Argon2 verification and written after it,
  without a condition. Correct: counter and lock agree, nobody is locked for too few
  failures, guesses per window are bounded, a lock lasts.
* **Token version.** Three stores (row, cache, tokens in circulation) that no transaction
  joins, and a Redis that may refuse a command. Correct: no current token with a role that
  was taken away; an announced invalidation takes effect.
* **Gateway.** Three modes, two places a token may come from, a csrf token, an answer that
  may be lost after auth-service has acted, cookies that belong to a directory. Correct:
  browser and auth-service agree on which sessions there are; a browser that plays along
  is not refused.
* **Accounts.** The look-up of an e-mail ignores deleted users and the unique index does
  not. Correct: one creation of an address has a row to answer with.
* **Starts.** Several instances of several releases find the tables empty, delete and
  refill permissions, and die half-way. Correct: an undisturbed start repairs what the code
  means to repair; an ability is what a release grants.
* **Notifications.** Two writers of each row (workers, retries), a queue that remembers
  finished jobs, a cron job that adds jobs again, pages over a changing list. Correct: one
  mail unless something broke, nobody forgotten, settled rows stay settled, pending ones
  settle, though only the oldest are looked for; what a client sees is the head of its list.
* **Mail.** The SMTP answer, the row and the queue can each be lost on their own; a
  template is looked up by name twice. Correct: SENT means accepted, accepted once per
  mishap, attempts bounded, PENDING is carried; rendered from the template of its row.
* **Captcha.** Check-then-act over three tables and a list whose commands may be repeated;
  two UPDATEs that should be one; a version number read and then inserted; batches that
  fail anywhere. Correct: one challenge per asset, bounded answers, closed once, contiguous
  versions, one active configuration, a picture shows its answer, a reader passes.
* **Files.** An object is put inside a transaction that may be rolled back; its key is
  computed again from a row that may have changed. Correct: a version has its object; a
  download sends the bytes of the file asked for to somebody who may have them.
* **HTTP.** Errors of every origin at every stage. Correct: no driver's text leaves, details
  return to a client what it sent itself, texts are in the language asked for.
* **Cryptography, logging.** Settings change between deployments; connections break.
  Correct: what was stored can be used; what arrives is what was logged.

Every one of these hazards is listed with its line in `PROJECT.json`.

## 2. Modules

| Module | Role | Code (under `apps/backend/src` unless named) |
|---|---|---|
| `SessionLifecycle` | abstract: what the session store promises | (specification) |
| `AuthSessions`, `AuthSessionsProofs` | sessions, one step per query; implements `SessionLifecycle` | `apps/auth-service`: `*.handler.ts`, repositories |
| `LoginLockout`, `LoginProofs` | failed-login columns of one account | `apps/auth-service`: `login.handler.ts`; `user-unlock.handler.ts` |
| `AccessVersion`, `AccessProofs` | `tokenVersion` of one user, its cache, its tokens | `user-update.handler.ts`, `auth-token-version.service.ts`, issuers |
| `AuthGateway`, `LoginProofs` | one browser, guards, gRPC calls, cookies | `modules/users` handlers of authentication, `csrf.guard.ts`, `jwt.strategy.ts` |
| `UserDirectory`, `DirectoryProofs` | rows of `user` under administrators and users | `modules/users` handlers, `user-repository.drizzle.ts` |
| `Bootstrap`, `AccessProofs` | starts, seeding, abilities, role commands | `modules/migration`, `policies.service.ts`, role repositories |
| `NotificationDispatch`, `NotificationProofs` | rows, queue, workers, dispatcher | `modules/notification` |
| `NotificationInbox`, `NotificationProofs` | list, mark, delete, and a client that walks | `modules/notification`, `Paginated.ts` |
| `MailDelivery`, `MailProofs` | rows, queue, workers, SMTP server, RetryFailedMails | `modules/mail` |
| `MailComposition`, `MailProofs` | templates, seeding, producers, links | `modules/mail`, mail producers of both services |
| `CaptchaChallenges`, `CaptchaProofs` | assets, Redis list, challenges, verification | `modules/captcha` |
| `CaptchaAuthoring`, `CaptchaProofs` | templates, configurations, batches, images; implements `ConfigHistory` | `modules/captcha` |
| `ConfigHistory` | abstract: what the table of configurations promises | (specification) |
| `CaptchaAnswers`, `CaptchaProofs` | generator, normaliser, hash, as functions on texts | `modules/captcha` |
| `FileArchive` | abstract: what files promise to their users | (specification) |
| `FileStore`, `FileStoreProofs` | rows, versions, objects, requests; implements `FileArchive` | `modules/file` |
| `HttpPipeline`, `FileStoreProofs` | one request through the framework | `main.ts`, `exceptions`, `interceptors`, `i18n` |
| `AuditTrail`, `DirectoryProofs` | events, the access log and its reader | `modules/admin` |
| `PasswordHashes`, `DirectoryProofs` | formats, rehash, settings | `libs/auth/password-service.adapter.ts` |
| `FieldEncryption`, `DirectoryProofs` | wire strings, keys, fingerprints | `encryption.service.ts` |
| `GelfShipping` | a log line on its way | `utils/pino-gelf.mts` |
| `MC*` | small instances for TLC | |

How state and actions correspond to the code:

* A table is a function from row identities to records that hold the columns the model
  needs; a row that is not there yet has a status `absent` or an owner `None`. An UPDATE
  changes the columns it names and only them, which is why the columns of `user` can be
  spread over several modules. A unique index is a condition of the INSERT or UPDATE that
  meets it.
* `pc[p]` (or the `step` of a worker, request or call) is the await at which a request or
  worker stands; `req`, `local` and the record's other fields are its local variables,
  out of date as soon as another actor writes.
* `Die`, `Stop`, `Break`, `GiveUp`, `AdminDie` are a rejected query or the end of the
  process: the handler stops between two awaits and what it has written stays. In
  `FileStore` the upload runs in a transaction, so that `UploadFail` takes back the rows
  and leaves the object; until it ends, its row lock keeps other writers out (`Locked`,
  `Contended`).
* Queries of one `Promise.all` are actions of their own, in either order (`ReadRows`,
  `ReadTotal`; `ReadLog`, `CountLog`); the INSERTs of `seedRoles` likewise.
* Passwords, tokens, texts, names and images are model values; an Argon2 hash is the
  password it was made of, with its options. `expired` sets stand for `expiresAt` in the
  past; where time matters (`LoginLockout`, `CaptchaAuthoring`, `AuditTrail`) there is a clock.
* Characters, headers and keys are classes that the code treats differently: a capital, a
  small letter, a Cyrillic letter with diaeresis, a mark, a blank, `<`.
* Redis, BullMQ, S3 and Graylog are modelled from how the code uses them and marked
  external: a Redis command takes effect or rejects, `LPUSH` and `RPOP` may be sent again
  when the connection breaks; a BullMQ job whose worker died or lost its lock is given to
  another worker once, a finished job is remembered for a while and a job of the same id
  is then ignored; a put to a bucket that keeps no versions replaces the object; Graylog
  reads a UDP datagram that is JSON or begins with the magic number of a chunk, and a TCP
  frame up to its zero byte.
* Variables that only properties read are declared as such at their declaration
  (`history`, `unbumped`, `announced`, `lapsed`, `overtaken`, `disturbed`, `failures`,
  `fate`, `word`, `outdated`, `restored`, `mishaps`, `unwritten`, `dropped`, `astray`, `late`,
  `again`, `past`, ...). No guard of an action that models code reads them, with one
  exception: `mishaps` bounds how often the environment fails.
* A cookie that is set without a path belongs to the directory of the route that set it: the
  browser of `AuthGateway` sends its cookies to the routes of authentication only, and a
  deletion that names another path leaves them (`@fastify/cookie` and the browser are
  external).

The modules share tables and not steps: `AuthSessions`, `LoginLockout`, `AccessVersion`,
`UserDirectory` and `Bootstrap` see different columns of `user`, and what they have in
common (`blocked`, `deletedAt`) each of them lets an administrator change at any moment.
`NotificationDispatch` ends where a mail is queued and `MailDelivery` begins there;
`CaptchaAuthoring` ends with an entry of the list and `CaptchaChallenges` begins with one;
what auth-service does inside a call of `AuthGateway` is `AuthSessions`.

## 3. Runs

Twelve runs; eight pass, four show a disagreement between the program and what it says of
itself. A run of several parts (the variable `part` of its `MC` module) explores each part
alone and not their product: the parts share no state, and the others stay as they were
initially, where none of their fair steps is enabled. Deadlock is not checked in any run:
an instance stops when its identities, its clock or its edits are used up.

| Run | Part: instance | Shows | States |
|---|---|---|---|
| `MCAuthPasswords` | 1 user, 2 tokens, 1 reset token, 2 passwords, 2 requests | `SessionsFollowPassword`, `SpentBeforeReplaced`, `RevokedFamiliesStayDead`, `ImplementsLifecycle` | 2.7 M |
| `MCAuthLiveness` | sessions: 1 token, 1 reset token, 2 passwords, 2 fair requests | `PasswordChangeEndsSessions` | 0.6 M |
| | hashes: 2 words in 2 spellings, 2 secrets, 2 options, 1 login in flight | `PasswordOutlivesSecret` | |
| | fields: 2 services, 2 keys in every format, 2 texts | `FieldReadsBack` | |
| `MCLockout` | lockout: 2 logins, window 1, lock 2, threshold 3, 4 ticks | `LockMatchesCounter`, `FailuresCounted`, `LockHolds` | 4.8 M |
| | gateway: 2 calls of routes of authentication and elsewhere, 2 issues, every mode, csrf on and off, cookies that the page may read or not | `SessionsHeld`, `CsrfExplained` | |
| `MCAccess` | versions: 2 requests, 2 roles, every Redis command may fail, 3 versions | `CurrentTokensAreCurrent`, `InvalidatedStaysInvalid` | 4.7 M |
| | boot: 2 instances, 2 releases, 3 roles, 2 users, 1 edit | `AbilitiesRight`, `SeedingRight` | |
| `MCNotifyWorkers` | dispatch: 1 mail, 1 unsupported, 1 row listed at a time, 2 workers that can lose locks, 2 attempts, 2 mishaps | `OneMailUnlessMishap`, `NobodyForgotten`, `SettledStaysSettled` | 4.1 M |
| | inbox: 2 users, 3 requests, 1 row shown of at most 3, any number of pages | `PagesShowTheNewest` | |
| | composition: 2 instances, 2 names, 3 rows, 2 edits, 1 producer, 1 worker | `RenderedFromItsTemplate`, `LinksHold`, `SeedingIsComplete` | |
| `MCMail` | delivery: 1 mail, 3 jobs, 2 fair workers, 2 calls of RetryFailedMails, 2 attempts, 2 mishaps | `DeliveryRight`, `MailSettles` | 0.16 M |
| | notification: 1 unsupported, 1 mail, 1 row listed at a time, 1 fair worker that loses locks, 3 attempts, 3 mishaps | `PendingSettles` | |
| | logs: 2 lines, both protocols | `LinesArrive` | |
| `MCCaptcha` | pool: 2 assets, 2 challenges, 2 requests, 2 attempts | `ChallengesRight`, `ClosedOnce` | 2.8 M |
| | administration: 2 configurations, 2 administrators | `ConfigsRight`, `ImplementsHistory` | |
| | generation: 2 batches of 2 images, 3 images in all, 2 attempts, 1 configuration, 1 administrator at a time | `GenerationRight` | |
| | answers: texts of at most 3 characters of 9 kinds, 3 alphabets, 2 keys | `ReadingPasses` | |
| `MCFiles` | files: a user, a manager, 2 files, 3 names (2 of one key), 2 requests, 2 puts | `FilesRight`, `ImplementsArchive` | 1.6 M |
| | http: 1 request with a body of 2 fields, every language header in up to 2 places, every error | `NothingLeaks`, `AnswerInLanguage` | |
| | users: 2 requests, 2 rows, 2 addresses | `CreationsAnswered` | |
| | log: 2 happenings, pages of 1 | `LogIsTrue`, `LogReadOnce` | |
| `MCAuthExchangedOnce` | 3 tokens, 2 requests | `ExchangedOnce` **violated** | |
| `MCMailNotRetried` | 1 mail, no retrier | `FailedIsTriedAgain` **violated** | |
| `MCBoot` | boot: 1 instance, 1 edit | `SeedingIdempotent` **violated** | |
| `MCResetMail` | composition: 1 start, 1 forgotten password | `ResetMailNeedsNoFile` **violated** | |

`DeliveryRight` is the conjunction of `TypeOK`, `SentMeansAccepted`,
`AcceptedOncePerMishap`, `PendingIsCarried` and `AttemptsBounded`; `ChallengesRight` of
`TypeOK`, `OneChallengePerAsset`, `AnswersBounded`, `OpenHasAsset` and `AvailableIsPooled`;
`FailuresCounted` of `NoFalseLock` and `GuessesBounded`; `SeedingRight` of `BootRepairs` and
`RolesComplete`; `ConfigsRight` of `VersionsContiguous` and `OneActiveConfig`;
`FilesRight` of `CurrentIsReadable` and `ServedRight`; `GenerationRight` of the type
invariant, `PictureShowsAnswer` and `BatchesKept`.

Bounds, and why they are enough:

* *Two requests* (or workers, instances, administrators, batches): every hazard of the
  list is one actor overtaking another between two awaits. Where a third one matters, the
  theorems hold for any number.
* *Two passwords*: the old one and the new one. *Three refresh tokens* (in
  `MCAuthExchangedOnce`): two successors of one token; with two, `MCAuthPasswords` has login
  and rotation, or two logins, and longer chains are left to the theorems.
* *Lockout*: threshold 3 separates the first failure, a middle one and the last; the clock
  runs one tick past a lock that was set at once, and the window is shorter than the lock,
  as 15 minutes are shorter than 30. `Many` = 6 is more than `2 * LockAt - 1`, so a
  violation of `GuessesBounded` would be counted. The account is blocked while no login is
  in flight (`BlockedAtRest`): all that a block does is to stop the next one.
* *Two calls of a browser*: one of them at least logs in or out or refreshes (`OneMoves`);
  two others share nothing that either writes, and `CsrfExplained` looks at one call.
* *Three versions*: a token that is two bumps old, and a late write of version 1 over 3.
* *Two releases*: the second grants more than the first, so that the counts differ and a
  start deletes and inserts. *Three roles, one edit*: the seeded two and one that two
  starts, or an administrator, add.
* *Mishaps*: enough to use up all attempts by failures of different kinds, and to stall a
  job twice (after which BullMQ gives it up). Where two notifications are there, the
  unsupported one has none (no mail is queued for it) and neither is deleted; with the
  liveness property the mail has none either (`DisturbedAlone`). Attempts whose query fails
  need no mishap, so that one row can crowd the other all the same.
* *A batch of one, two notifications*: an older row that keeps a newer one out of the batch,
  as 100 rows do in the code. *One fair worker* of notifications: overlaps of two are in
  the safety run and in the proofs.
* *Three jobs* of one mail, two attempts: the first job, a retry, and the second one that
  two calls of RetryFailedMails add when they meet.
* *Three template rows*: two names, and one given again after its row was deleted.
* *Two assets, two challenges*: an asset that is pushed twice can reach a second challenge.
  *Batches of two, one tick, three images*: the same index, clock and configuration can
  meet, and a batch can be done after it left an image behind. Beside the batches one
  configuration and one administrator at a time are enough: a batch reads no more of
  them than whether its configuration is active when it is queued.
* *Three names*: two that `slugify` maps to one key, one that no path may hold. *Two puts*:
  the older and the newer version.
* *One row shown of three*: the list is longer than an answer, as with 21 rows in the code,
  and two rows can be deleted or come in during a walk. *Pages of one row* (access log):
  every boundary between two pages. *Two places for a language*: one
  before the other; a third changes nothing that the second did not.
* *Two lines*: one that is cut and one that follows.

Fairness. Safety runs assume none. Handlers are weakly fair (`WF_vars(Continue(p))`): an
await resolves or rejects, since the drivers have timeouts, and Node.js runs its
continuation. `Die` is never fair. Workers are weakly fair: BullMQ hands out waiting jobs.
The dispatcher is `@Cron(EVERY_10_SECONDS)`, hence weak fairness of `ListPending`, which
lists the `DispatchBatchLimit` (100) oldest rows that are due and no others; a row comes due
because time passes (`ComesDue`). That the job of a listed row gets into the queue at last
needs strong fairness of a successful `Add`, because each tick may fail and a later one
tries again. The log transport is weakly fair: it takes lines
from its stream, an attempt to connect ends, and a connection that holds delivers. Users,
administrators, other clocks and failures are not fair. `RetryAdd` is fair because it is the rest
of a call that has begun; calls themselves are not.

`MCMail` and `MCAuthLiveness` run without symmetry, which liveness does not allow.

## 4. What is proved

The proofs are machine-checked for every value of the constants that the named assumptions
allow: any number of users, tokens, requests, workers, rows and instances. Every safety
property that a passing run checks is a theorem, and so are the refinements.

Each proof goes the same way: an inductive invariant holds initially (`...Init`), each
action preserves it (a lemma per action, or per group of actions that write the same
variables), and the property follows from it, or from one step taken in a state where it
holds. TLC checked each invariant on the instance of its run before it was proved; now that
it is proved no run repeats it. What the invariants add to the properties is what an
actor holds between two awaits, and why it is still right:

* **`AuthSessionsProofs`.** `Inductive` adds `LocalsFit` (a request in flight has the
  locals its step needs), `HistoryFits`, and `EvidenceHolds`: what entitled a request to
  issue a session (the password it verified, the token it read) is still right when it
  issues it, unless a revocation overtook the request. From it: `RotationSpends`,
  `SessionsFollow`, `DeadFamilies`, and `RefinesLifecycle`, that the store implements
  `SessionLifecycle` step by step.
* **`LoginProofs`.** *Lockout.* The code never clears the counter when a lock runs out and
  has no upper guard; it stays at the threshold because the lock outlives the window it was
  set in (`AfterFailureFits`). `LockersOvertake` (whoever is in flight and not overtaken
  found the account unlocked, and so it still is) gives `LocksHold`. `CountInductive` relates
  the columns to the failures that were stored: columns, in the row or in a login's hands,
  count no more than there are in their window (`Backed`, `Holds`: hence `NoFalseLock`),
  and those of the row no fewer of the fresh ones, while the window before it did not reach
  the threshold (`Counted`, `InOrder`: hence `GuessesBounded`; any interval meets at most two
  windows). *Gateway.* `GateInductive` says what a call, its answer and the browser's csrf
  token are made of, and, while no two calls have crossed, that one call moves tokens
  (`OneMover`, `MoversFit`), that cookies and script are not in two live sessions
  (`OneSession`), and the two directions of `SessionsHeld` (`LiveIsHeld`, `HeldIsLive`) with
  the answer that is still on its way and the cookies that logouts have left.
* **`AccessProofs`.** *Versions*, for any Redis failures: the induction needs
  `CacheNeverAhead` and that a token about to be signed is as current as an issued one
  (`LocalsFit`). *Starts.* `BootInductive`: permissions in the table are granted by a
  release (`RowsAreGranted`); whoever inserts them inserts into an empty table unless
  starts have met there (`SeederIsAlone`), so that an untorn table is that of one release
  (`OneReleaseRules`); a start has roles enough left to insert (`RolesFit`); and one that
  nobody disturbed has repaired what it has passed (`AloneRepairs`).
* **`NotificationProofs`.** *Dispatch*, whether or not workers that are alive can lose the
  locks of their jobs. A job has one holder at most (`OneHolderPerJob`); whoever else is at
  its notification has lost the lock, and is *late*. The bound on mails needs `Chances`:
  every late worker that can still send or write PENDING has one, and the row has one when
  it is open to the present holder or to the next. Mails and chances together are at most
  one more than the mishaps (`MailsAccounted`): sending spends a chance, settling the row
  closes it, and a late write of PENDING opens it again for the chance of the writer. A
  settled row can be written again only if its job was taken from a worker that may still
  write (`FitsAt`), and that is all `SettledStaysSettled` excepts. *Inbox.*
  `InboxInductive`: what the client has seen, or has read for its next answer, is of the
  rows there at its start those that had fewer than `Shown` newer ones, and as many more as
  were deleted; what an answer left out has `Shown` newer rows, but for those deleted since
  (`WalkFits`). Rows are only added at the head of the list and taken out of it.
* **`MailProofs`.** *Delivery*, for any number of calls of RetryFailedMails at once (no code
  dispatches the command yet). Each call makes PENDING what it has read as failed, so that
  two calls that meet queue one mail twice: the second one counts as a mishap of the mail
  (`Doubled`). `StaysCarried` adds to `PendingIsCarried` that the job is not about to end,
  `LocksFit` that a job has one worker with its lock, and `ChancesCounted` is the argument
  for both bounds: a mail has one chance (its producer, its jobs, the calls that are about
  to add it, counted together) and one for each mishap, and every time the server takes it,
  and every failure beyond `MaxAttempts`, uses one up. *Composition.*
  `CompositionInductive`: names are unique, a producer stores the link it is about to mail
  (`ErrandsFit`), every letter is one producer's (`OwnLetters`), mails and what workers made
  of them refer to the one row of their template's name (`LettersFit`, `SendersFit`), and a
  seeding start has found or left every name it passed (`SeedingFits`).
* **`CaptchaProofs`.** *Challenges.* `AssetsTaken` (an asset in a request's hands is not in
  another's), `OpenUnlessLate` and `UsedAssets` (a request that is not late finds the
  challenge it has read open and its asset unused, and only the one that closed it goes on
  to the asset) and `AnswersCounted` (answers, and those about to be recorded, are counted).
  *Administration.* `DraftsFit`: a version number in somebody's hands was the next one when
  he read it, so that it is, or its INSERT is refused; `ActivationsFit`, `AloneFits`:
  an activation that is alone has archived whatever was active. From these, `RefinesHistory`:
  the configurations of a template in the order of their versions are the list of
  `ConfigHistory`. They are as many as the greatest version, so that a draft that is not
  refused appends (`OrderStays` for the others), and each UPDATE of an activation, or none
  of its rows, is one step or a stutter. *Generation.* `JobFits`,
  `CountsFit`, and `KeysFit`: what a job drew in this try has a lower index than the next,
  and in earlier tries an earlier time, which is why its keys differ; `PicturesFit` and
  `ShelfFits` carry that to the objects and the list. *Answers.* Every step of the
  normaliser keeps characters or replaces each by one; those it keeps are chosen by their
  position (`Chosen`), in an order that counting preserves (`PlacesMove`). So the letters and
  digits of a text survive every step, all of them and in their order (`SignsSurvive`,
  `NormalizedSigns`), and `ReadersPass` follows for texts of any length, without an
  induction over them.
* **`FileStoreProofs`.** *Files.* `PutsAreFresh` (nobody has yet what will be put next),
  `RequestsFit` (what a request holds of a row is still so, or the exception of the property
  applies), `VersionsAreStored`. `NamesFit` (a transaction that is about to insert a row has
  its name alone) is what `RefinesArchive` needs besides: names stay unique among a user's
  files although an upload looks for the row long before it commits, and the current version
  is one of the file's although updates have no transaction. The archive sees what downloads
  send only where the bucket keeps versions. *Http.* `HttpInductive`: whatever is thrown, at
  whatever stage, can be presented: its text is the code's, the framework's or a key, or its
  class stands for a key; its errors name constraints by keys, fields of the body and the
  values this request has in them; and a lock's end or the captcha is told by the refusal
  of a login that has it. `LanguageInductive`: the language the interceptor leaves on the
  request is the one its places ask for, and stays so when the filter resolves it again.
* **`DirectoryProofs`.** *Users.* `Unannounced`: a row that its creator still has to
  announce is his alone, and nobody has announced it. *Hashes.* The hash is of the word set
  last, or of an earlier one after a login in flight has put it back, and Argon2id once
  somebody has logged in; what a login is about to save was the word once. *Fields.* What
  the column and the fingerprint hold. *Log.* `AuditInductive`: a row, written or about to
  be, is what the handler announced of one request; `BrowseInductive`: the rows of the
  start stay first in the list, and those before the page are the ones the reader has met
  (`OnTheWay`).

Assumptions. Each module names those it needs, TLC evaluates them on every run, and each
is as weak as the code allows; beside those that say which set a constant belongs to:

* `Window < LockDuration` and `LockAt <= Many` (`LoginLockout`): the code's 15 and 30 minutes;
  the count of failures, which only the properties read, reaches the threshold.
* Requests, jobs, workers, configurations, types and permissions are finite sets where
  they are counted.
* A value that stands for "no row", "no language" or "no key" is no row, language or key
  (`NoneIsNoRow`, `NothingIsNoRow`, `NothingIsNoTemplate`, `NoRowIsNoUser`, `MissingIsNoRow`,
  `NothingIsNoLanguage`): true of records against model values, and not provable about them.
* `HttpPipelineAssumption`: the keys that the code uses are keys, the texts it writes are
  not, and texts of drivers are neither.
* `AlphabetsAreKnown`: alphabets are made of the characters that the model tells apart.

What the proofs changed in the models. A start used to keep the abilities of the process
that was refused before it, and `AbilitiesRight` did not follow: a new process has an empty
cache. `CsrfExplained` could be made stronger: a browser that sends its token back is
refused only without an access cookie, or after a login that failed half-way.
`SettledStaysSettled` was about workers that keep their locks; with the exception it names
it is about all of them, and its run lets locks run out. `LogReadOnce` excepted every row
inserted in the middle of the list; only those of the reader's filter matter.

Conventions that the provers need, and that cost a reader nothing: sums are cardinalities
of numbered rows (`FailureRows`, `PermissionRows`), pages are ranks (`Newer`, `Before`) and
not subsequences of a sorted sequence, "the first that ..." is a least position
(`FirstThat`), changes of nested records are nested `EXCEPT`s. Every lemma with hypotheses
was tried with the goal FALSE, which must fail. No module declares a recursive operator.

Only model-checked:

* *Liveness* (`PasswordChangeEndsSessions`, `PendingSettles`, `MailSettles`, `LinesArrive`):
  fairness and ENABLED are out of the prover's reach.
* The four violated properties of section 5.

## 5. Where the program and its words part

The four violated runs are listed as findings:

* A refresh token can be exchanged twice by concurrent requests
  (`refresh-tokens.handler.ts:65`).
* A failed mail is not tried again, because no code dispatches `RetryFailedMailsCommand`
  and jobs have one attempt (`mail.service.ts:24`, against `README.md:244`).
* Seeding is not idempotent (`README.md:163`): it looks for an administrator and not for
  an empty table, so that after the seeded one is deleted or demoted the next start
  inserts the same e-mail, is refused, and nothing listens.
* Templates are looked for on the disk when the row has no content, which no seeded row
  has; `reset-password` has no file, so its mail fails (`mail.service.ts:59`, against
  `README.md:244`).

Other gaps were met on the way and are written into the properties as their exceptions, so
that each property says exactly what the code guarantees:

* A session is inserted after `revokeAllForUser` by a login or rotation that read its
  evidence before (`login.handler.ts:113`, `README.md:302`): `history.survivor` in
  `SessionsFollowPassword` and `RevokedFamiliesStayDead`.
* The rehash of a legacy password writes the password it verified over one changed
  meanwhile (`login.handler.ts:85`): `history.lapsed` for the sessions, and `restored` in
  `PasswordOutlivesSecret`: a password that was replaced opens the account again, and the
  one that replaced it may not.
* A reset token is marked used after the password is written, so two requests may both use
  it (`reset-password.handler.ts:36`, `auth.dto.ts:65`). No property promises otherwise.
* A slow failed login writes its older columns over a lock (`login.handler.ts:145`,
  `README.md:305`): `overtaken` in `LockHolds`.
* The window is not rolling but starts at its first failure (`login.handler.ts:171`,
  `README.md:305`): `GuessesBounded` is `2 * LockAt - 1`, not `LockAt`.
* Two crossing updates may leave a role change without a bump
  (`user-update.handler.ts:29`): `unbumped` in `CurrentTokensAreCurrent`.
* The cache may hold an old version for good, in three ways, of which `lapsed` in
  `InvalidatedStaysInvalid` names the one that happened: a check that missed the cache
  writes the version it has read over a newer one (`auth-token-version.service.ts:86`); of
  two bumps that cross the earlier one writes its version last (`:49`); or Redis takes
  neither the new version nor the deletion of the old one, and the log says all the same
  that tokens were invalidated. The property says that nothing else does it: no other
  order of reads, evictions, deaths and updates.
* Cookies are set without a path (`auth-cookies.helper.ts:30-61`), so that the browser keeps
  them for `/api/v1/auth`, and are cleared on `/` (`:72-74`), where there are none. They
  survive a logout (`left` in `SessionsHeld`), and a refresh that sends the one left is a
  replay that ends every session of the user. Routes elsewhere receive no cookies: with
  `COOKIES_ONLY` (`README.md:303`) nobody is authenticated there, and where the csrf check is
  on, requests that are not safe are refused there in every mode. A page that lies elsewhere
  cannot read the csrf cookie to send it back (`README.md:304`): `config.reads`.
* `SessionsHeld` also excepts answers that were lost, two calls that move tokens at once,
  and sessions that auth-service ended itself: after a password change the browser keeps
  cookies of a dead session; a logout without a refresh token asks nobody and clears
  nothing.
* The refresh handler puts the csrf token into every body, the login handler only when the
  check is on and the mode is not `COOKIES_ONLY`; a login that fails after its cookies
  were set leaves the script without it: `halved` in `CsrfExplained`. A script that cannot
  read the cookie is refused after a login of `COOKIES_ONLY` and after a logout.
* Whether permissions need seeding is decided by their number: other rows of the same
  number are not repaired (`BootRepairs` asks for the number). Roles are inserted one by
  one, and one live role stops any later start from inserting the others; two instances
  that meet on empty tables may both be refused and leave some (`cut` in `RolesComplete`).
* An ability that was read while somebody was seeding may allow less than it should until
  the next refill: `misread` in `AbilitiesRight`.
* A deleted user's e-mail cannot be used again: the creation passes the look-up and is
  refused by the index, with a 409. A user that was created is announced at most once: a
  process that stops between the row and the event leaves it unannounced.
* Concurrent answers exceed the attempt limit (`captcha.handlers.ts:199`): `AnswersBounded`
  counts the requests in flight.
* A late request overwrites the status of a closed challenge and uses its asset again
  (`captcha.repository.drizzle.ts:166`): `late` in `ClosedOnce`.
* Two activations that meet may leave two configurations active or none, as may one that
  stops between its UPDATEs: the exceptions of `OneActiveConfig`.
* Two batches of one configuration in one millisecond share the keys of their images:
  the exception of `PictureShowsAnswer`.
* Marks are dropped after blanks are trimmed, so an answer that ends with a blank and a
  mark ("a !") is refused where "a!" passes; an alphabet with `<` or `&` makes a picture
  that is no document (`ReadingPasses` asks for one that can be shown); an alphabet of
  marks only accepts any marks. The key of the hashes is `captcha.hashPepper` or a secret
  of the tokens, and the shipped configuration names neither as the code asks for it, so
  that the last fallback is what counts.
* A PENDING mail whose job could not be added is looked for by nobody
  (`mail.repository.drizzle.ts:36`): `dropped` in `PendingIsCarried`.
* A rename without an upload leaves the versions under the old key; an upload onto a
  deleted file's name stays deleted; a download from a bucket without versions may send another
  file's bytes when two names of a user have one key: the exceptions of
  `CurrentIsReadable` and `ServedRight`. The bucket is versioned in the compose file
  (`README.md:375`) and may not be elsewhere, so `versioned` is chosen in `Init`.
* `GET /notifications` hands `limit` and `offset` to a query that looks for `take` and `skip`
  (`notifications-get.handler.ts:16-19`, `notification.repository.drizzle.ts:79-80`): every
  page is the 20 newest rows, whatever `page` and `per_page` say, while `meta` counts pages
  of the size that was asked for. `PagesShowTheNewest` says what this shows, and that older
  rows are not seen by any walk. `?isRead=` is refused always (the query string is text),
  and `type` is ignored.
* The dispatcher reads the 100 oldest pending rows that are due
  (`notification-pending-dispatcher.service.ts:7`, `notification.repository.drizzle.ts:104-105`).
  Rows whose jobs left no trace stay pending as long as the queue remembers the jobs; a
  hundred of them keep every newer row from the dispatcher: `Crowded` in `PendingSettles`.
* A row of the access log may appear before one of its filter that is listed already: `late` in
  `LogReadOnce`. Its
  filter by action is exact, though `admin.dto.ts:59` says partial.
* Of a validation error only the first message is translated; `details.errors` holds
  untranslated keys (`README.md:323` says that errors are translated) and, as arguments of
  each, the field and the value that was sent in it, a password too
  (`validation-exception.factory.ts:43-49`, `all.exception.ts:142-144`). `NothingLeaks` allows
  a request its own values, and `lockedUntil` and `requiresCaptcha` to refused logins. The
  keys `captcha.*`, `notification.notFound`, `user.auth.tokenStale`,
  `file.multipartRequired`, `file.fileRequired` and `file.versionNotFoundWithId` are in no
  dictionary and are sent as they are: `AnswerInLanguage` excepts keys no dictionary has.
  A blank language header means Russian, an empty one the fallback.
* A plain text that begins like a wire string is stored unencrypted and read by nobody:
  the exception of `FieldReadsBack`.
* A log line over UDP that needs chunks is never readable, because the chunk's header is
  joined as text (`pino-gelf.mts:184`); the TCP connection is never opened again.
  `LinesArrive` therefore speaks of TCP, and of lines before the connection broke.

## 6. Not modelled, and why

* **Code nobody reaches.** `MailService.processQueue`, the queries of mails by status, the
  handlers that consumed magic links (`README.md:417`; the list endpoints of
  `README.md:224` and `225` do not exist either). Commands that are handled and that nobody
  dispatches (the template commands, `MagicLinkRequestCommand`, `RetryFailedMails`, file
  update and delete) are modelled, and a constant says whether they happen.
* **The dashboard** (`admin.handlers.ts`): four counts at four moments, no state. (It counts
  notifications of every channel where `admin.dto.ts:17` says in-app, and active users may
  exceed all users for a moment.)
* **Health checks, metrics, configuration, contracts**: they read and store nothing.
* **Texts and layout**: subjects (which are not compiled as templates), the noise and size
  of pictures, the preview of a captcha configuration, lengths that are no integers,
  surrogate pairs, log lines.
* **Primitives**: Argon2, HMAC, AES-GCM and JWT signatures are what they should be.
* **Ties of `createdAt`**: pages of rows with equal times have no order in PostgreSQL; the
  rows of the models have distinct times.
* **The count of unread rows** in the list of notifications, a third concurrent read.
* **A weak administrator's password** in the configuration ends every start; it is left out
  of `Bootstrap`, where it would hide everything else. SQL migrations run before the first
  step of a start.
* **PUBLIC files**: rows may be, and downloads without a user find only these; no code
  creates one, so that `FileStore` has none.
* **`EncryptionService`** is modelled although no handler calls it yet.

## 7. Plan

What is left, in this order:

1. An abstract specification of the captcha pool (an asset is handed out once), and its
   refinement.
2. A composition of `NotificationDispatch` with `MailDelivery` that bounds the mails a user
   receives, and of `CaptchaAuthoring` with `CaptchaChallenges` over one table of assets.

Each question has one run; components that need an instance of the same size share one, so
that the whole project can be checked in minutes.
