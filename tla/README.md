# A TLA+ model of ky_server_base

`ky_server_base` is the scaffold server of a product suite: a Go process with an HTTP API and
an embedded web client over SQLite or PostgreSQL, with local sign-in, MFA, SSO, device
pairing, SCIM provisioning, and encrypted backups deposited at an external KyRecovery server.
This directory models the parts of it that run concurrently with each other, checks them with
TLC on small instances and proves their safety properties with TLAPS for every instance.

## 1. Inventory

| Component | State it keeps | Operations | What is hard about it | What makes it correct |
|---|---|---|---|---|
| Sign-in and sessions (`auth_handlers.go`, `session.go`, `sqlstore.go`) | `users`, `sessions`, `mfa_challenges` | login, issue, authenticate, logout, expiry | rows are read, then used several statements later; each statement is its own transaction | a grant never outlives the credential it was derived from |
| MFA | `totp_last_counter`, `recovery_codes_hash`, challenges | TOTP, recovery code | two requests spend one code | a code, counter or challenge buys one session |
| Password replacement, `init-admin` | hash, `must_change_password` | change, reset, create | commits between two reads of another request | an old session never inherits a cleared flag |
| Device pairing (`devices.go`) | `device_pairings` | init, verify, poll | two devices, expiry between read and use | one session per pairing; revoked with the password |
| SSO callback, KySignOn webhook (`sso_handlers.go`, `kysignon.go`) | `users` | callback, created, updated, deactivated, deleted | lookup and insert are two statements and only names are unique; events late, out of order or replayed; read, edit, write back | one account per subject and name; a sign-on enters its own account only; a disabled account stays signed out |
| SCIM users, groups (`scim/handler.go`) | `users`, `groups`, `group_members` | create, replace, patch, delete | full-row write back; members changed row by row | no orphan rows, no lost members |
| Attempt limiter (`server.go`) | the attempts map under a mutex | `allowAttempt` | clock read outside the mutex; a map at its cap; one request charges two keys | bounded; refuses for a sender's own deeds only; no limit can be escaped |
| Client address (`clientip.go`) | none | `ClientIP` | forged and differently spelled entries | a request is charged to whoever sent it |
| Gate of `ServeHTTP` (CSRF) | none | every request | requests a page of another site makes a browser send | they reach no handler that uses the session |
| Shutdown (`main.go`, `server.go`) | detached counter, wait goroutine, scheduler | drain, wait, close | late registrations, lost wake-ups, hung work | ends, and closes the store over finished work |
| Backup (`backup_handlers.go`, `main.go`, `internal/backup`) | pin, pairing, schedule, last deposit, audit rows | pair, pin, unpair, schedule, run, export | admins, scheduler and command race; dropped connections; lost answers; refused audit rows; a process that dies | sealed for the right server; every effect audited |
| Migrations (`migrations.go`, `factory.go`) | schema, `schema_migrations` | open a store | several processes, death at any step | schema and record never part |
| Restore drill (`drill.go`, `run_drill.go`) | `drill.lock`, the drill directory | handler and command | an advisory lock between processes that may be killed; a recipe that is data | one drill at a time; a drill that passed means restorable |
| Restore and `export-capsule` commands | files of their own | CLI | | (not modelled) |
| Proof of work, config, crypto, settings, SAML metadata, web client | none, or one setting | | stateless checks and I/O | (not modelled) |

How they interact: the handlers, the CLI commands and the scheduler share nothing but the
database, the attempts map, the detached counter and the data directory. There is no lock
around a handler, so the unit of atomicity everywhere is one SQL statement or one explicit
transaction; that is the grain of the models. `PROJECT.json` lists the hazards line by line.

## 2. Modules

* `Credentials` - sign-in, MFA, pairing, authentication, password replacement.
  A request is a slot `p \in Procs` with a program counter and locals `req[p]`; each action is
  one statement or transaction of its handler, so two handlers, and `init-admin`, interleave
  exactly where the code lets them. `WithPassword` is the conditional update that
  `withPassword` opens its transaction with. A password hash is a number (`nextHash` grows,
  because a salted hash never repeats); `recovery_codes_hash` is the set of slots not blanked;
  a TOTP code is the time step it stands for. `sessions[..].hash`, `pairings[..].hash`, the
  local `hash` of an authenticating request and `grants` are history: no guard of an action
  reads them. (The `hash` of a challenge, and of a request finishing MFA, is the column
  `mfa_challenges.password_hash`, which the handlers do compare.) A refusal of the limiter, of
  the proof of work or of a wrong password is `End`.
* `Directory` - extends `Credentials` with SCIM and the webhook over the same tables. Both
  read a row (`ReadRow`), write every column but `totp_last_counter` back (`UpdateUser`) and
  then delete sessions in a statement of its own. Roles behave exactly as the status does in
  this code, so the status stands for both. `ServerStep` is any step of `Credentials`.
* `SessionAuthority` - what the server promises about sessions, without tables, requests or
  statements: a session appears in one step, for an eligible account, on evidence nobody used
  and under the credential of that moment; one that ended never returns; replacing a
  credential ends all sessions of the account in the same step. `Credentials` instantiates it
  with the mapping `live <- sessions`, `issued <- grants`, `cred <- ` the password hashes,
  `eligible <- ` the active accounts, and `ImplementsAuthority` says it is implemented.
* `Provisioning` - where accounts come from: the SSO callback, the webhook and SCIM over one
  `users` table, each a slot with a program counter and the copy of the row it read. KySignOn
  is external: it signs events, and an event once signed may be delivered at any later time,
  any number of times or never. Its checks (`HandleSyncWebhook`) and the lookup of the account
  (`GetUserBySSO`) are two steps: an event that was fresh when checked may be applied after its
  window. `known` (the names a subject has had) and `settled` (accounts disabled with no
  enabling event left in its window, no enabling event past its check, no copy of them in
  flight and no word of an administrator since) are history.
* `RateLimiter` - `allowAttempt` in two steps, because it calls `time.Now` before it locks.
* `ClientIP` - the walk over `X-Forwarded-For` as an operator: the entry that ends it is the
  rightmost one that is no trusted proxy.
* `Admission` - composes the two. A sender makes up a header, up to two trusted proxies append
  the hop before them in a spelling of their own, the gate of `ServeHTTP` lets the request
  pass, and its handler charges the address and, once that has admitted it, the account. The
  history `served` says who really sent what the limiter logged.
* `Shutdown` - `runServer` from the signal on, the detached counter, `WaitDetached`, the
  scheduler loop and both waits. net/http is external: a connection may stay half read, a
  handler may hang. `owed` (counted before `WaitDetached` returned) and `joined` (counted while
  a run of the scheduler was waited out) are history.
* `Backup` - every handler of the backup administration, the scheduler and the deposit
  command. The library `recoveryclient` is external; one step per call, with the outcomes the
  handlers distinguish. A connection that drops (`Disconnect`) stops a handler only where it
  still uses the request's context (`Detached`), and at an audit row costs the row but not
  what follows it: an export is still sent. The store may refuse an audit row
  (`AuditFails`), which the handlers log and pass over; the server or the command may die at
  any step (`Crash`). `lost` remembers the rows those two cost.
* `Migrations` - `migrations.Run` in several processes; `Exit` is death at any step. The locks
  are the database's (external): on SQLite one for all who write, with a wait bounded by
  `busy_timeout` (`BusyTimeout`); on PostgreSQL those each statement takes. Version 4 begins
  there with a DELETE, which locks rows only (`ExecDelete`), so two processes can both pass it,
  wait for each other at the ALTER (`ExecAlter`) and have one aborted (`DeadlockDetected`).
  `alone` (a process with no other opening the store since it started) is history.
* `Processes` - extends `Migrations` with the restore drills of the processes that are up. A
  lock belongs to a descriptor and an inode, and dies with its process. `Checks` is the
  product's verdict over an arbitrary recipe and an arbitrary capsule.
* `Groups` - SCIM group membership, one row at a time.
* `CredentialsProofs`, `DirectoryProofs`, `ProvisioningProofs`, `GroupsProofs`,
  `AdmissionProofs` (with the limiter), `ShutdownProofs`, `BackupProofs`, `ProcessesProofs`
  (with the migrations) - theorems about the module each is named after.
* `MC*` - the constants and symmetry sets of the TLC runs.

Definitions named "Mutant of ..." are plausible regressions of the definition after them;
each property of a passing run is violated when the definition is replaced by its mutant.

## 3. Runs

| Run | Checks | Bounds and why they suffice |
|---|---|---|
| `credentials` | `TypeOK`, `GrantsMatchCredential`, `NoInheritedFlag`, `OneSessionPerProof`, `ImplementsAuthority` | one account, two requests (each property relates at most two, plus `init-admin`), four secrets (two complete MFA sign-ins), two hashes computed, one expiry |
| `pairing_grants` (violation) | `PairingsMatchCredential` | same, three secrets |
| `directory` | `DirTypeOK`, `DisabledStaysSignedOut`, `NoOrphanGrants`, `OneSessionPerCounter` | one request, one directory request, four secrets |
| `directory_codes` (violation) | `OneSessionPerProof` | the property proved of `Credentials` alone, beside a directory |
| `provisioning` | `TypeOK`, `AccountsPerSubject`, `SignOnIsOwn`, `DisabledForGood` | two people, two names of which the local administrator has one, three account ids, two requests at a time, two inputs (events signed or SCIM requests) and one clock tick with `Window = 0`, so that an event is fresh before the tick and stale after it; deliveries are not bounded |
| `admission` | `TypeOK`, `BoundedMap`, `RefusedForOwnDeeds`, `BudgetHolds` | two clients, two proxies, one account, one made-up entry in every spelling, two requests at a time, four attempts, two ticks, `Limit` and `Window` 1 over a map of two slots: the cap is met, windows end, callers overtake, and four admitted attempts are what it takes to exceed twice the limit. The path is the password change, the one that meets the gate and charges two keys |
| `shutdown` | `TypeOK`, `NoAbandonedWork`, `NoLostWakeup`, `ShutdownEnds` | two tracked requests and one ordinary |
| `shutdown_handlers` (violation) | `ReturnsOnlyWhenIdle` | same |
| `backup` | `TypeOK`, `SealedForDestination`, `PinAudited`, `DepositsAudited` | two admins, two KyRecovery servers with different keys, two capsules; one crash or refused row that costs something |
| `backup_schedule` (violation) | `ScheduleAuditTruthful` | same, one run |
| `processes` | `SchemaRecorded`, `OpensComplete`, `FailureIsBenign`, `EveryStartSettles`, `OneDrill`, `PassedIsRestorable` | three processes, both drivers, a database of every earlier version; two drills of the server and one of the command; two inodes of the lock file, one more than the code makes |
| `groups` | `NoDanglingMember`, `CommonMembersSurvive` | two users, two requests |

Where deadlock checking is off the modelled system really stops: the process exits
(`shutdown`), or the named bounds are used up and an id never returns (`admission`,
`directory`, `provisioning`).

**What the passing properties say.** `AccountsPerSubject` is what an "upsert" by lookup and insert
can promise when only names are unique: a second account takes a second name, so two
callbacks of a person who was renamed in between may leave two. `SignOnIsOwn`: a name that is
taken, by a local or a SCIM account or by another person, ends a provisioning sign-on and
never leads into that account. `DisabledForGood` is what the timestamp window buys; inside the
window, and for a request that was checked inside it, an older event may still be applied after
a newer one. `FailureIsBenign` does not say that a start succeeds (of two at once one may fail,
by a deadlock or a busy database with its version not recorded, or on a version the other has
applied) but that a process which fails had another opening the store beside it, so that
starting one again works. `RefusedForOwnDeeds` and
`BudgetHolds` are the two halves of a limiter that works, end to end: the first fails if a
header could put one sender's attempts on another's key or if the gate let a foreign page
spend them, the second if a header could move a sender to a fresh key. Fixed windows admit up
to twice the limit around a boundary, and a full map may give a window up; the property says
so. Of the exempt paths (login, MFA) a foreign page may use up attempts of a browser's
address: they carry no session, and the sender there is the browser. `PinAudited` and
`DepositsAudited` allow for rows the store refused and rows a crash cost, because the code
does: `auditBackup` logs a refused row and goes on.

**Faults.** Requests end at any step (`End`, `Abort`), connections drop (`Disconnect`),
processes die holding locks and unwritten rows (`Crash`, `Exit`, `ExitProcess`), events are
lost, late, reordered, replayed and applied late (`Sign`, `HandleSyncWebhook`, `GetUserBySSO`),
deadlocks are broken and waits time out (`DeadlockDetected`, `BusyTimeout`), answers of
KyRecovery are lost (`Deposit`), rows are refused (`AuditFails`), headers are forged
(`Direct`), timers fire over hanging work (`DeadlinePasses`).

**What the violations show.** (1) Pair-init is not under `withPassword`, so a pairing
authorized before a password replacement can be written after it and survives. (2) `UpdateUser`
writes credential columns from a stale copy, so a spent recovery code can come back; the same
statement can put back a replaced password hash. `totp_last_counter`, which it leaves alone,
cannot come back: `OneSessionPerCounter`. (3) `WaitDetached` returns for good at its first
zero, also while a run of the scheduler is still waited out. A request that was being read when
the drain timed out can enter its handler during that wait; it is counted, but nobody looks any
more, and the store closes under it before the deadline. A comment of `tracked` rules out
covering the window before `ServeHTTP` is entered; this request has left it. `NoAbandonedWork`
is what does hold. (4) Two administrators who set the schedule at once can leave an audit row
for a schedule that is not stored.

**Fairness.** `Shutdown`: weak fairness of the goroutines of the process (Go schedules every
runnable goroutine) and of its two timers; none of clients, handlers or deposits, which may
hang. `Migrations`: strong fairness of a process's own next step, because it repeatedly
competes for locks: PostgreSQL queues lock requests, and its deadlock detector ends the wait of
two for one another; SQLite's wait ends by `busy_timeout`. No one is obliged to start or end a
process, or to finish a drill (`Processes` takes that fairness over unchanged). The other
modules claim safety only and assume no fairness; `SessionAuthority` is a safety specification
too.

## 4. Proofs

TLAPS proves every invariant, every action property and both refinements that the passing runs
check, for every value of the constants: any number of accounts, requests, processes, servers,
keys, limits and windows. Each argument is one inductive invariant, checked first by TLC on
the instance of the run; few of the properties are inductive as they stand, and what has to be
added says why the code works.

* `CredentialsProofs` (`Invariance`): `TypeCorrect`, `GrantsAlwaysMatch`, `NeverInheritsFlag`,
  `EvidenceUsedOnce`. `Inv` adds to the properties: every secret in a table was minted
  (`SecretsMinted`) and no two sessions share one (`OneRowPerToken`), so a session that
  vanished cannot come back under its token; what an authenticating request may rely on
  between its reads (`AuthInv`); that spent evidence is honoured by no table any more
  (`EvidenceGone`) and is held by one request or session (`EvidenceApart`).
  `GrantsMatchCredential` needs no more than the types, but `NoInheritedFlag` is not inductive:
  it holds because the second read finds a session that `GrantsMatchCredential` ties to the
  hash the account had when its row was read.
* `AuthorityImplemented`, in the same module: `Credentials` implements `SessionAuthority`.
  Every step opens one session, replaces one credential or only ends sessions
  (`AuthorityStep`), and each of the three is a step of the authority or a stutter
  (`Simulation`). `RefInv` adds that a hash is newer than all in use and that a session that
  was ever issued used up its secret: the guards of the authority's `Issue` are about the
  whole past.
* `DirectoryProofs` (`DirectoryInv`): `DirectoryTypes`, `DisabledSignedOut`,
  `GrantsHaveAccounts`, `CounterUsedOnce`. The lemmas of `CredentialsProofs` on how a step of
  the server moves tables and evidence apply unchanged; its invariant does not, because
  directories write stale hashes and recovery codes back. What survives: a counter never goes
  down while its account is there, and the id of a deleted account never returns
  (`OffOrRetired`); an account counts as signed out only while it is disabled
  (`SignedOutDisabled`), and the insertion of a session looks at the status.
* `ProvisioningProofs` (`ProvisioningInv`): `ProvisioningTypes`, `AccountsBounded`,
  `SignOnIsOwnHolds`, `DisabledStays`. `Slot` says what a request carries from the statement
  that read a row to the one that writes it: a row of a person under a name that person was
  given, of an account that is gone for good or still that person's. `AccountsBounded` follows
  because names are unique: account to name is an injection into the names a subject has had.
  `DisabledStays` needs that no copy in flight, no event past its check and no event still
  fresh enables a settled account (`Settled`, `Harmless`).
* `GroupsProofs` (`GroupsInv`): `MembersExist`, `NobodyIsLost`. On the way to the end a member
  everybody keeps may be missing, but is on the list of a request that has yet to add it.
* `AdmissionProofs`. Of the limiter alone: `MapNeverOutgrowsCap`, `LimiterTypes`; the
  strengthening is that the map's domain is finite, which cardinality needs.
  `AdmissionImplementsLimiter` carries both over to the requests of the handlers
  (`MapBoundedBehindHandlers`, `LimiterTypesBehindHandlers`). `NobodyIsLockedOut`
  (`RefusedForOwnDeeds`) and `NobodyEscapesTheLimit` (`BudgetHolds`) come from
  `AdmissionInvariance`. `RequestIPIsSender` first shows that the walk over the header ends at
  the sender, for any trusted set and any made-up header, behind no, one or two proxies: so
  keys belong to senders and accounts (`Charged`, `Attributed`) and "same spender" means "same
  key" (`SpenderIsKey`). `Counted`: what a window counts was admitted, up to the limit, no
  earlier than a window before its end; a refusal inside it is therefore for recent attempts.
  `Paced`: what was admitted since any entry, while the map kept the key, lies in the present
  window, or in it and the one before, or has two entries more than a window apart.
* `ShutdownProofs`: `ShutdownTypeCorrect`, `WakeupsNeverLost`, `WorkWaitedOut`; the
  strengthening says that the counter is the number of tracked handlers that run, that what is
  owed is among them, and what each phase of the wait implies.
* `BackupProofs` (`BackupInv`): `BackupTypes`, `DestinationSealed`, `PinIsAudited`,
  `DepositsAreAudited`, and the action property `PinWrittenOnce`, on which
  the others rest: a handler that checked its key against the pin may act on it steps later.
  `Slot` says what a handler knows at each step (its key is that of the server it talks to,
  and the pinned one); `PinOwed` and `RunsOwed` say who still owes the trail a row.
* `ProcessesProofs`: `SchemaIsRecorded`, `OpensOnCompleteSchema`, `FailuresAreBenign`,
  `OneDrillAtATime`, `PassedDrillIsSound`, of `ProcessesSpec`. The recorded versions are an
  initial segment of the registry that covers what every process has passed, what a process
  has locked follows from where it is (`LocksAt`), and no two are between the statements of one
  version and its commit (`Apart`); a process with no other beside it finds neither locks nor
  the version it is about to apply (`Undisturbed`). `MigInv` is their conjunction. The lock file is
  made once, so all descriptors are of one inode and the lock on it is one lock (`DrillInv`).

The assumptions are the named ASSUMEs of the modules: types of the bounds, a `None` outside
the data, a finite set of connections, positive limits and windows, senders that are no
trusted proxies, and a limiter key for whatever the handlers charge (`KeysAssumption`). TLC
evaluates them in the runs.

Only model-checked: the liveness properties `ShutdownEnds` and `EveryStartSettles` (fairness
is beyond the prover), and the counterexamples of the four violation runs. Not proved beyond
what `Admission` states: headers through more than two proxies, which would need induction
over the length of the chain.

## 5. Not modelled, and limits

* A key file written whose setting could not be (inside `StoreRecoveryKey`) counts as not
  pinned.
* No property is stated of the audit row of an export. It is written on the context of the
  request: if the client closes its side of the connection the row fails, that is logged, and
  the capsule is sent all the same, although a comment in `handleExportCapsule` says "the trail
  says who took one". `Backup` contains that behaviour (`Disconnect`, then `SendExport`).
* `NewSealer` and `RunConfig` fail only on a deployment key of the wrong length, which the
  configuration never loads; in `Shutdown` the scheduler may be absent for that reason.
* `CleanExpiredSessions` and `CleanExpiredPairings` have no caller in the repository.
* The `restore` and `export-capsule` commands: the external library on files of their own.
* Proof of work, configuration, crypto wrappers, theme settings, SAML metadata, the headers of
  answers and the web client: stateless or pure I/O. A proof of work may be presented again
  until it expires; the limiter is what bounds attempts.
* The OIDC exchange with its state and nonce cookies: one conversation with an external
  service that stores nothing here. The webhook's signature is what makes an event one that
  KySignOn signed.
* Listings and the poll of a pairing only read. User names are model values, so that lookups
  ignore case and uniqueness does not is outside the model; so is the step of a starting server
  that creates the first administrator.

## 6. Plan for the proofs

1. More action properties of what is proved inductive already: an audit row once written
   stays and a schema version once recorded stays (`Backup`, `Migrations`); a settled account
   is enabled only by an administrator or a newer event (`Provisioning`).
2. `NoAbandonedWork` and the closing of the store as a step property of `Shutdown`.
3. Shorter proofs where lemmas of different modules say the same of a slot that changes.
