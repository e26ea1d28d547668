# git2imap in TLA+

git2imap presents Git repositories as read-only IMAP accounts: each branch of a
mirrored repository is a mailbox, each commit an email.  This directory models
the parts of it where several goroutines, a database, a directory tree and a
process that may die have to agree, checks them with TLC on small instances,
and proves the main results with TLAPS for every instance.

`src/` below is the root of the repository.

## 1. The system

| part | state | operations | used by |
|---|---|---|---|
| refresh and deletion (`internal/service/repository.go`) | `running[id]`, the shared call of a refresh; the row's `status`; the mirror `<id>.git` and its temporary directories | `AddRepository`, `RefreshRepository`, `DeleteRepository` | web handlers, IMAP commands, recovery |
| startup and shutdown (`cmd/git2imap/main.go`) | the listeners, the channel of servers that failed | `PurgeLegacyRepositories`, `EnsureAll`, then the servers; at the end it waits for nobody | |
| configuration (`internal/config`) | none after startup | defaults, YAML file and environment laid over each other, `Validate` | startup, the servers |
| mailbox snapshots (`refresh`, `Store.ReplaceMailboxes`) | rows of `mailboxes` and `messages`, `default_branch` | one transaction per refresh | refresh |
| git backend (`internal/gitbackend`) | mirrors on disk | `Clone`, `Fetch`, `DefaultBranch`, `Branches`, `IsAncestor`, `Commits`, `RenderCommit`, each a subprocess with a timeout | refresh, rendering |
| IMAP sessions (`internal/imapserver`) | per connection the account, the selected row and a copy of its messages | `Select`, `Unselect`, `Poll`, `Idle`, `List`, `Status`, `Fetch`, `Search` | mail clients |
| rendering (`RenderMessage`) | `messages/<id>/<branch>/<commit>.eml`, `cache_path` of a message | render, write, rename, update the row | `Fetch`, `Search`, `Status` |
| web administration (`internal/web`) | admin sessions (database), flashes and login attempts (memory) | login, logout, add, refresh, reveal, rotate, delete | administrators |
| mail accounts | `mail_username`, password hash, `identityMu` | choose an address, authenticate, rotate | web, IMAP, SMTP |
| SMTP sessions (`internal/smtpserver`) | one bit per connection | authenticate, discard mail | mail clients |
| secrets, templates | none | | |

How they interact: the web handlers and every IMAP `SELECT`, `LIST`, `STATUS`,
`NOOP` and `IDLE` tick call `RefreshRepository`, which lets one of them work and
the others wait for its result.  The worker talks to git, then commits the
mailboxes in one transaction and writes the status in another statement.
Deletion marks the row, cancels the worker, waits for it, removes the files and
deletes the row.  Sessions read the mailboxes without any lock and keep what
they read; rendering writes files and rows on behalf of such old copies.

What is hard in it, with the lines, is the list `hazards` of `PROJECT.json`.
The properties that make each part correct:

* refresh and deletion: single flight, everybody is answered, the mark
  "deleting" keeps refreshes away, a deleted row stays deleted, an interrupted
  deletion is finished, "ready" means stored mail, no leaked directories;
* snapshots: IMAP's rules for uids and UIDVALIDITY over any history of pushes,
  and mailboxes that hold all of their branch;
* sessions: what is shown under a UIDVALIDITY is what the mailbox had, and
  sequence numbers mean the same to client and server;
* rendering: an email is the right commit's and whole;
* startup: nothing is served before old accounts are gone, every configured
  address is served or the process ends;
* accounts: an address is one repository's, and mail is shown only to who has
  a password of the repository it is of.

## 2. Modules

| module | what | source |
|---|---|---|
| `RefreshLifecycle` | one repository's row, mirror, refresh call, deletions, restarts | `repository.go` 60-133, 245-411; `git.go` 116-175, 262-275; `main.go` 72-114 |
| `SharedCall` | what `RefreshRepository` promises its callers: an abstract single-flight call | `repository.go` 47-51, 245-268 |
| `MCRefreshLifecycle` | symmetry for TLC | |
| `RefreshLifecycleProofs` | theorems about it | |
| `RefreshCallProofs` | `RefreshLifecycle` implements `SharedCall` | |
| `MailboxSync` | the mailboxes over repeated refreshes | `repository.go` 303-355; `store.go` 211-312; `git.go` 277-348 |
| `MCMailboxSync` | a commit graph with a fork, a merge and a second root | |
| `MailboxSyncProofs` | theorems about it; each branch implements `UidMailbox` | |
| `UidMailbox` | what a client may rely on of one mailbox name: the abstract mailbox | `store.go` 234-278 |
| `ImapSession` | sessions that select and poll a mailbox which changes below them | `imapserver/server.go` 103-151, 263-324 |
| `ImapSessionProofs` | theorems about it | |
| `MessageCache` | `RenderMessage` and its files | `repository.go` 425-452; `store.go` 340-365 |
| `MCMessageCache` | symmetry for TLC | |
| `MessageCacheProofs` | theorems about it | |
| `MailCommands` | FETCH and SEARCH over `ImapSession`'s sessions | `imapserver/server.go` 332-404, 432-605 |
| `MCMailCommands` | two emails, sets of numbers and criteria for TLC | |
| `MailCommandsProofs` | theorems about it | |
| `WebAdmin` | logins, login sessions, credentials and flashes | `web/server.go` 161-210, 244-285, 309-414, 440-458; `repository.go` 213-239 |
| `MCWebAdmin` | symmetry for TLC | |
| `WebAdminProofs` | theorems about it | |
| `Configuration` | the layers of the configuration, `Validate`, and what the servers make of it (operators, no state) | `config.go`; `New` and `Serve` of the servers |
| `Startup` | `run`: purge, recovery, listeners, the end of the process | `main.go` 35-114; `repository.go` 178-195, 392-411 |
| `Accounts` | addresses, passwords, IMAP and SMTP logins, on top of `Startup` | `repository.go` 60-133, 157-176, 205-239; `smtpserver/server.go` 66-110; `imapserver/server.go` 115-122 |
| `MCAccounts` | names with one address, configurations right and wrong | |
| `AccountsProofs` | theorems about both | |

`PROJECT.json` maps each definition to its lines.

**RefreshLifecycle.** A process is a caller of `RefreshRepository` (`pc`) or of
`DeleteRepository` (`dpc`).  One action is what happens between two points at
which another goroutine or a crash can come in: a database statement, a git
subprocess, a removal, a section under `RepositoryService.mu`.  `row` is the
status column, with "unborn" and "gone" for no row; `mirror` and `scratch` are
directories; `mail` says whether mailboxes are stored.  A caller that registers
is the call: `running` and `joined` hold its name, `Closed(q)` is the closed
channel `call.done` and `outcome[q]` is `call.err`.  A canceled context
(`cancelled`) lets a step fail and forbids it to start git or a statement; git
and the database may fail at any time besides.  `left` are web requests whose
client went away.  `Crash` keeps `row`, `mirror`, `mail` and `scratch` only; a
graceful stop is the same, since main waits for nothing.  A process begins in
`mode` "boot"; `EnsureAll` lists the rows and goes through them ("ensure"), or
cannot list them (`ListFails`), and either way the servers start ("up").  One repository is
modelled: calls of different ids share the mutex and nothing else.  Every
caller of `RefreshRepository` hands it `context.Background()` (`RetryClone`, which
passes its own, has no caller), so a joiner never leaves by `ctx.Done()`.

**SharedCall** is what is left of it for a caller: somebody leads, the others
attach, all get the leader's answer.  `RefreshLifecycle` implements it under the
mapping `Shared`: a caller that works is "leading" until it closes the channel,
and an outcome is an answer from then on (`CallIsShared`).

**MailboxSync.** Since refreshes of a repository never overlap
(`SingleFlight`), there is one refresh at a time, cut at the fetch, the
`ls-remote`, the transaction and the last status write.  A fetch brings any
assignment of commits to any set of branches, and so does one that fails;
`ls-remote` names any branch.  `Replaced` is what the transaction writes for a
branch, from the same decisions as the code: `FastForward`, `MappingChanged`,
`Rebuild`, and `INSERT OR IGNORE` (`Appended`).  `Reach` and `Log` are the
ancestry and `git log`, constants with the assumptions that git keeps.

**UidMailbox** is one name as a client sees it: a mailbox appears, is extended
under its UIDVALIDITY, is rebuilt under the next one, goes, and may come back
under any value of the clock.  `MailboxSync` implements it for every branch
(`BranchesAreMailboxes`), and the sessions of `ImapSession` rely on nothing else.

**ImapSession.** Sessions over a mailbox that steps as `UidMailbox` allows: the
environment is the abstract mailbox (`INSTANCE UidMailbox`), not a second copy of
`ReplaceMailboxes`, so what holds here holds over every branch of `MailboxSync`.
A command is a sequence of steps: refresh, read the row by name, read the
messages by the row's id, which a row made anew does not share (`id`).  Either
query may fail and ends the command (`NoMailbox`, `NoMessages`).  Ghosts:
`had`, what the name has held under which UIDVALIDITY; `torn`, sessions between
whose two queries the history changed; `reused`, sessions that hold a UIDVALIDITY
which the name got again, for `ReplaceMailboxes` takes the clock for a new row
and adds one for a rebuild.

**MessageCache.** `RenderMessage` call by call and file by file: `create`
truncates `<commit>.eml.tmp`, `write` makes the file of the descriptor whole,
`rename` moves it, with the descriptors others have on it.  Sessions call it
with rows they loaded at any earlier time.  Refreshes rebuild the rows, a
deletion removes mirror, files and rows in the code's order, gives up at a
failure, and may be taken up again.  A refresh may have written over the
deletion's mark, and the next one clones the mirror again beside it (`Reclone`,
the finding `orphan_mirror`): `git show` then succeeds for what the remote still
has.  `shielded` says that the mark stands, and will; each removal chooses, once
and for all when it is so, and `RefreshLifecycle`'s `MarkedDeletionIsClean` is why no
mirror comes back then.

**MailCommands.** Extends `ImapSession` with the two commands that read its
view.  Each copies the view under the session's mutex and looks at nothing else
of it, so it is one step, which chooses the commits that cannot be rendered.
`Matches` follows `matches`: the row's criteria, then the email if one needs it,
then NOT and OR in order, with the first criterion that is not met deciding
(`Decide`).  It is a function on the criteria, given for one by the verdicts on those
nested in it (`Judge`); `Depth`, which bounds the nesting, is what makes it one.
The loops of the two commands are functions of how many messages are done
(`Found`, `Sent`).  An email is a day, a size, the fields of its header, the
words of its body, and the words of what `buildMessage` writes of both (`Raw`):
the body as it is, the header too unless the subject or the author's name has
something to encode (`Plain`).  `Denoted` and `Selected` say what RFC 3501 does,
with sets and without an order: HEADER asks for a field with that name and that
value, BODY for words of the body, TEXT for words of either.  The code looks for
all of them anywhere in `Raw`, the name and the value of a field apart.  So
`SearchMeans` does not claim equality of every criterion: `Promised` says for
which a search finds "all" that is selected, for which "only" what is, and for
which both; a NOT turns the one into the other.  With HEADER or BODY a search
may find too much, with an encoded header too little, with neither it is exact.
No text of the repository promises more, so this is no finding.  The email is
the one of the commit; that a stored one may be another's is `stale_cache`.
`found` keeps what the last SEARCH returned while other commands and polls go by.

**WebAdmin.** A handler is a sequence of lookups of its session, statements, and
sections under `attemptsMu` or `flashesMu` (`request`).  `attempts` counts an
address's failures of the last ten minutes, `session` is the column
`expires_at` seen as "live" or "over", `account` the password whose hash and
cipher a row has, `flashes` the map of the server with a ghost number for each
flash, and `stored` a ghost of every password a row has had.  Expiry is an
action of time; `Restart` loses what is in memory.

**Configuration, Startup, Accounts.** `Configuration` is pure: a configuration
maps fields to what the program tells apart of their values, a layer is a
partial one, `Load` lays them over each other, `Wanted` is what the three `Serve`
start.  `Startup` runs one process after another over the table `repositories`:
each action is a stage of `run`, one row of the purge or of `EnsureAll`, or a
listener that opens or fails.  A deletion is its row here; files and refreshes
are `RefreshLifecycle`'s.  `Accounts` extends it with who uses the table: requests
that add a repository hold `identityMu` from the look for an address to the
insert (`add`), rotations and deletions change rows, and connections go through
STARTTLS, the query of the row, the comparison of the password with what was
read, and commands that go by the id of the repository.  A password is its
repository and a number, and `conn` keeps which one the client gave.
`Natural` and `Suffixed` are the address of a name, alone and with eight digits of
an id; they are constants, any functions, so no result rests on how slugs are
made.  `StatusWritten` lets a status write of a refresh come at any time of a
deletion.

Each component's module also has "wrong versions": definitions the code does
not have, each a plausible slip that must break one property.

## 3. Runs

| run | instance | shows |
|---|---|---|
| `lifecycle_safety` | 3 callers, 1 web deletion, 1 crash, failing deletions | `TypeOK`, `SingleFlight`, `RecoveryExclusive`, `SuccessHasMail`, `ScratchBounded`, `MarkShieldsRemoval`, `GoneStaysGone`, `CallIsShared`, `MarkedDeletionIsClean` |
| `lifecycle_liveness` | 2 callers, 1 web deletion, 1 crash, deletions do not fail | `RefreshReturns`, `DeleteReturns`, `InterruptedDeletionResumes` |
| `mailbox_sync` | 2 branches, 5 commits, 3 refreshes, 1 lost status write | `TypeOK`, `UidsSound`, `Complete`, `UidsStable`, `BranchesAreMailboxes` |
| `imap_session` | 1 session, 2 commits, 2 messages, 2 changes, 2 seconds, 18 number sets, 101 criteria | `TypeOK`, `ViewIsReal`, `CountAnnounced`, `SelectionOnlyGrows`, `CommandsAnswered`, `SearchMeans`, `FetchMeans`, `FoundIsFetched` |
| `message_cache` | 2 sessions, 2 commits, 1 message, 2 changes, 1 mishap | `TypeOK`, `TornHeals`, `RemovedStaysEmpty`, `AloneIsRight` |
| `web_admin` | 2 requests at a time, 2 login sessions, 1 repository, limit 2 | `TypeOK`, `LimiterBound`, `FlashOnce`, `PasswordStored`, `FlashKept`, `LockoutEnds` |
| `accounts` | 2 ids, 2 names with one address, 2 requests that add, 1 connection, 1 rotation each, 4 files, 5 environments, 3 databases | `TypeOK`, `AddressStaysFree`, `OnlyHolders`, `NoLegacyServed`, `AddressServedOrExit` |
| `orphan_mirror`, `lost_status`, `inbox_validity`, `imap_torn_view`, `stale_cache` | small | violated, see section 5 |

Why the bounds are enough.  Three callers are one refresh that runs, one that
joins it and one that begins after it while the second is still waking up;
callers return and call again, so the number of calls is not bounded.  A second
crash meets nothing the first did not: what survives is the disk.  With two web
deletions at a time `MarkShieldsRemoval` and `MarkedDeletionIsClean` are not
claimed: the second one may set the mark of a row whose first deletion no longer
waits.  The five commits
contain a fork, a merge and an unrelated root, so fast-forwards over one and
several commits, rewrites back and forth and unrelated histories all occur;
three refreshes are a first one, a change, and a change of what a change left.
Sessions of `ImapSession` do not see each other (each has its connection, and a
refresh by one is a refresh by anybody), so one stands for all.  Two renderings
are what it takes to share a temporary file; one
message lets a uid keep, change and lose its commit, and sessions hold another
commit's row than the mailbox does; the files of two messages do not meet, and
`stale_cache` has two.  Two changes of the mailbox put a
rebuild, or a removal and a new row, around any query of a session; the ranges
have "*", both orders and a number past the end, and criteria nest twice.  Two
requests are what it takes to pass the limit together, to lose a session in
the middle, or to race for a flash, two login sessions to sweep the flash of
another.  In `accounts` two requests race for one address and two ids are what it
takes to give an address to another repository while a session lives on; a
connection does not see the others, so one stands for all, and processes follow
each other without bound.  The three databases are empty, with a retired
account, and with an interrupted deletion; every way a layer can be refused or
passed over occurs in one file or environment.  `web_admin` and `accounts` use
symmetry with a liveness property; neither it nor the fairness mentions what is
permuted.

Deadlock is checked wherever the system goes on for ever; only `MailboxSync`
stops, when its bound on refreshes is used up.

Fairness.  Weak fairness of each goroutine's own steps (`RefreshStep`,
`DeleteStep`, `SessionStep`) and of the boot sequence: the Go scheduler runs
what can run, every git command has a timeout, every context wait is in a
`select` with a channel that the worker closes.  `accounts` assumes it of each
listener's goroutine and of the `select` that ends `run`, not of clients or of a
signal.  `LockoutEnds` rests on time
passing (`AttemptAges`).  No fairness is assumed of
clients: nobody must call, disconnect, push or crash.
`InterruptedDeletionResumes` begins where `EnsureAll` has listed the rows and needs
deletions that do not fail: `EnsureAll` drops their error, and returns when it
cannot list the rows, and either way the servers start over the mark, which
stays until another start.

## 4. Proofs

`RefreshLifecycleProofs`, for any set of callers and deletions and any number
of crashes.  `SingleFlight` is not inductive: nothing in it says that
`running` names the one who is working.  `Registration` does (a caller is
registered exactly if `running` is its name), and it needs `BootIdle`, for
`EnsureAll` registers a refresh only because nobody else is there yet.
`ScratchBounded` needs `CloneOwnsScratch`, or a clone that ends could count below
zero; `SuccessHasMail` needs `FinishHasMail`, what a refresh knows at its last
write, and `MailHasRow`.  `MarkShieldsRemoval` rests on `MarkTurnsAway`: as long as
the mark stands, only the refresh a deletion waits for can be past its check
of the row, and none when the row goes.  A waiter needs `WaitsForCall`: what it waits
for is registered or has ended, and a deletion has cancelled it.  Theorems:
`TypeCorrect`, `MutualExclusion`, `RecoveryAlone`, `SuccessSound`,
`ScratchLeaksOnlyByCrash`, `DeletionIsFinal`, `MarkProtects` and `MarkedDeletionsClean`
(both with one web deletion), `NoMarkServed` and `WaitersAttended`.  Assumed:
the constants' types, `NoCall` is no
caller, `BootDelete` no web deletion.

`MailboxSyncProofs`, for any branches, any commit graph and any bounds.  The
lemma `AppendedFresh` shows that `INSERT OR IGNORE` never ignores anything when
the log is new to the mailbox; `Appending` that it then keeps uids dense,
ordered and within the head's history.  That an incremental log is new needs
`Within`: what is stored is in the history of the stored head.  `Complete` needs
`NamesAgree` (names and `default_branch` tell the same default branch while no
status write was lost), so that a rebuild never gets an incremental log.
Theorems: `TypeCorrect`, `UidsAreSound`, `MailboxesAreComplete`, `UidsNeverMove`, and
`MailboxContract`: under the same invariant the transaction extends a branch's
mailbox, rebuilds it under the next UIDVALIDITY, makes or drops it, and every other
step leaves it alone.  Assumed: ancestry is a partial order, `git log` names what it
should once and
parents first.

`WebAdminProofs`, for any number of requests at a time, sessions, addresses and
repositories and any limit.  `LimiterBound` is inductive as it stands; that a
failure trades a check under way for an attempt is the arithmetic of finite
sets (`PressureStep`: an address's attempts and checks together fall, unless a check
is let through below the limit; `LockoutFalls` is read off the same lemma).
`PasswordStored` needs `RowStored` (the password a row has now was stored)
and `RequestsSound`: what a request carries was stored, and a row that a rotation
was let at is not unborn, so that an UPDATE that finds no row means a deletion.
`FlashOnce` needs `FlashIds`: two flashes are never one, so showing one leaves the
others unshown.  `FlashKept` follows from the types, step by step.  Theorems:
`TypeCorrect`, `LimiterHolds`, `LockoutFalls`, `PasswordsStored`, `FlashesOnce`,
`FlashesKept`.
Assumed: requests are finitely many, the limit is positive, and `None`, `Unborn`
and `Gone` are none of the values they stand beside.

`RefreshCallProofs`: under the lifecycle's invariant and `Answered` (every way out of
`refresh` has set the error before the channel is closed) each step is one of
`SharedCall` or leaves all that a caller sees alone.

`ImapSessionProofs`, for any sessions, commits and bounds.  `NoExpungeNeeded` needs
more than it says: `Behind` (a session that holds the current UIDVALIDITY, and did not
live to see it used again, shows a beginning of the current mailbox) and
`Positions` (a poll that goes on to the messages has picked a row with the
UIDVALIDITY of its view).  `ViewIsReal` needs `NowHad`: what the name holds now is
among what it had.  Theorems: `TypeCorrect`, `ViewsAreReal`,
`CountsAnnounced`, `NoExpungeNeeded`.

`MailCommandsProofs`, for any emails, sets of ranges, and criteria nested to any
depth.  A recursive definition is worth something only once
it is shown to define a function: `Recursion` says so of every step that looks at
what is less deep alone, and is used for `Matches` over the criteria and for the
loops over the numbers of messages.  No induction theorem helps, for those take an
operator; `Recursion` and the lemmas after it take the least counterexample
(`WFMin`), the functions in question being sets.  Then
`Judge` agrees with `Selected`, where the code stops at the first criterion not met
and the meaning has no order; and `Found` and `Sent` up to a message are what is
selected or named up to it.  `FoundIsFetched` needs `Kept`: the numbers that a search
found still lead to what they led to then, as long as the view is not torn.  That a
refresh or a poll keeps it is `OnlyGrowsStep` of `ImapSessionProofs`, which holds here
because the commands leave the sessions alone (`CommandsAreSessions`).  Theorems:
`SearchAnswers`, `FetchAnswers`, `NumbersStayMeant`, `CommandsAreSessions`.  What
is promised of a criterion is followed through NOT and OR by `VerdictsRight`, from
`RawIsExact`, where the tests of the whole email meet what RFC 3501 means.  Assumed:
emails, ranges and criteria have their types, what is nested in a criterion is a
criterion and less deep, the body is in the email as it is, and the header where
nothing is encoded.

`MessageCacheProofs`, for any readers and commits.  `TornHeals` needs that every
torn temporary file has a writer, too, and that descriptors are where their file
is; `RemovedStaysEmpty` that under a mark that stands there is no mirror (`Shield`), so
that who is past `git show` after the removal was so at the removal (`Leaving`);
`AloneIsRight` what a call that nobody has met may rely on at each of its places (`Solo`, `Places`, `Undisturbed`).  Theorems: `TypeCorrect`,
`NoEmailStaysTorn`, `RemovalIsFinal`, `LoneCallsSucceed`.

`AccountsProofs`, for any ids, names, addresses, requests and connections, any
slugs and any configurations.  `NoLegacyServed` is inductive with `Purged` (from
`ensure` on no row is legacy) and `NewFormat` (nobody is about to insert a legacy
address); `AddressStaysFree` with the lock (`TypeOK` says that who has an address
chosen holds it); `OnlyHolders` with `LoggedIn`: who is past the comparison gave the
password of the row that was read.  `Attended` keeps what `Validate` has let through until
the servers are made: what is configured is then wanted (`ValidIsServed`), and a
listener that is wanted is being opened, open, or has sent its error.  Theorems:
`TypeCorrect`, `AddressesStayFree`, `HoldersOnly`, `LegacyNeverServed`,
`NoAddressForgotten`.  Assumed: no address of the new format is of
the retired one, which the prefix `git2imap+` and the `@` see to.

Only model-checked: liveness under fairness, which TLAPS cannot prove.  Where it rests
on a fact that can be, the fact is proved:

| liveness | what is proved of it |
|---|---|
| `RefreshReturns`, `DeleteReturns` | `WaitersAttended`: who waits, waits for a call that has closed its channel or whose caller is at work and waits for nobody |
| `InterruptedDeletionResumes` | `NoMarkServed`: a server starts over an earlier process's mark only if the rows could not be listed or the removal failed |
| `LockoutEnds` | `LockoutFalls`: tries do not prolong a lockout, time shortens it |
| `AddressServedOrExit` | `NoAddressForgotten`: a configured address is on its way, served, or its error waits for the `select` |
| `CommandsAnswered` | nothing |

What is left to TLC is that the steps these facts leave open are taken.

## 5. Where the code does not keep what the repository says

* `orphan_mirror`: a refresh in flight when a deletion marks the row writes
  "error" (or a status of its progress) over "deleting"; a refresh that starts
  then clones while the files are removed, and the mirror outlives the row.
  `MarkedDeletionsClean` says that nothing else orphans one, with one web deletion
  (`repository.go:291`; `repository_test.go:208` "cache still exists").
* `lost_status`: after a status write that never happened and a change of the
  default branch, a mailbox is emptied and filled with the newest commits only
  (`repository.go:355`; `README.md:7`).
* `inbox_validity`: INBOX passes to another branch and may keep its
  UIDVALIDITY (`store.go:246`; `server.go:301`).
* `imap_torn_view`: a rebuild between two queries shows the new history under
  the old UIDVALIDITY until the next poll (`server.go:304`, 126-130).
* `stale_cache`: a slow rendering writes its path into the row that has its uid
  after a rebuild; that row's email is then another commit's, for good
  (`repository.go:450`; `README.md:7`).

## 6. Not modelled

Secrets (thin wrappers of argon2, AES-GCM and the random source) and templates:
no state.  The text of a slug (`projectSlug`) and of log lines.  The files that
`Backend.command` makes for a git subprocess (keys, askpass) and removes after it:
one process's own, with random names.  `LIST` and `STATUS` change nothing of a
session.  SQLite is taken to be atomic and durable per transaction, the
file system to keep what was written when the process dies; the loss of power
is outside.  The text of emails, envelopes and command lines is abstracted.
`public_host` is taken not to change between processes: with another host two
repositories may have addresses that differ in it alone.  The suffix of an address
is eight digits of a random id and is not looked for before the insert; two of
them that agree end in a refused request, which `AddressStaysFree` excepts.
Integers have no width: UIDVALIDITY is a clock in seconds and counts rebuilds, and
an overflow needs the year 2106 or four billion commits.

## 7. Order of the work

1. `RefreshLifecycle` with its proofs: the part everything else relies on.
2. `MailboxSync` with its proofs.
3. `ImapSession`, which takes from 2 how a mailbox may change.
4. `MessageCache`.
5. `MailCommands`: number sets and search criteria against what they mean.
6. `WebAdmin` with its proofs.
7. The abstract specifications `SharedCall` and `UidMailbox`, implemented by
   `RefreshLifecycle` and by each branch of `MailboxSync`, and the refinement proofs;
   `ImapSession` over `UidMailbox`.
8. `Configuration`, `Startup` and `Accounts` with their proofs.
9. Proofs about `MessageCache` and `ImapSession`.
10. Proofs about `MailCommands`, written with recursive functions for that, and of
    what the liveness properties rest on.

What could follow: the files of `Backend.command`, a host that changes between
processes, and a composition of `RefreshLifecycle` with `MessageCache`, whose
deletions are one story told twice (`shielded` and `Reclone` are what the second takes
from the first).

## 8. Running it

    tlc -workers 2 -config lifecycle_safety.cfg MCRefreshLifecycle
    tlc -workers 2 -config lifecycle_liveness.cfg MCRefreshLifecycle
    tlc -workers 2 -config mailbox_sync.cfg MCMailboxSync
    tlc -workers 2 -config imap_session.cfg MCMailCommands
    tlc -workers 2 -config message_cache.cfg MCMessageCache
    tlc -workers 2 -config web_admin.cfg MCWebAdmin
    tlc -workers 2 -config accounts.cfg MCAccounts
    for m in *Proofs.tla; do tlapm $m; done

`orphan_mirror.cfg` goes with `MCRefreshLifecycle`,
`lost_status.cfg` and `inbox_validity.cfg` with `MCMailboxSync`,
`imap_torn_view.cfg` with `ImapSession`, `stale_cache.cfg` with
`MCMessageCache`.
