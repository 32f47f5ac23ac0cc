# TLA+ specifications of Notekeeper

Notekeeper is a self-hosted notes service. Core (Go, PostgreSQL, several replicas) stores notes, fires reminders,
keeps files and serves a web client and chat bots; the Matrix bot turns chat messages into notes and brings reminders
into chats. This directory specifies the parts of it whose correctness depends on the order of things: TLA+ modules,
configurations with which TLC checks them on small instances, and proofs that TLAPS checks for every instance.

`PROJECT.json` lists, for tools, what this document explains: the components, the runs, for each property a change to
the model that breaks it, the source lines of every definition, the findings, the hazards and the theorems.

To check: `tlc -config Outbox_race.cfg MCOutbox.tla` and so on for the table of runs below; `tlapm BotProofs.tla` and
so on for the modules whose names end in `Proofs`.

## 1. The system

### 1.1 What the components have in common

- *One lock per user.* Nearly everything a user or a bot changes runs in `store.InUserTx`
  (`core/internal/store/store.go`): lock the row of `users`, run the operation, check limits, number the changes,
  notify, commit. Two such operations of one user never overlap, so in the models each is **one action**.
- *Jobs do not take that lock first.* Reminders, expiry, retention and the janitor are periodic River jobs on any replica
  (`core/internal/jobs`). They read in one transaction and act in others, so what they act on is **old**.
- *Bots are processes elsewhere.* They pull work, act and report over HTTP and retry; an answer may be lost and a
  process may stop between any two calls.
- *Time* is the database's or a process's clock. Models count ticks; each MC module says what a tick stands for.

### 1.2 Inventory

"Hard" is what makes a component difficult to test; "correct" is what must hold. The last column names the modules it is
modelled in; section 6 says what of it is left out.

| Component | State and operations | Hard | Correct | Where |
| --- | --- | --- | --- | --- |
| Outbox (`core/internal/outbox`) | rows of `bot_outbox` and `outbox_messages`; enqueue, claim, report, cancel, expire, purge | claims with leases, three-step reports that do not say whose claim they answer, lost answers, overlapping processes | one holder at a time; outcomes are real and final; everything settles; failures are told | Outbox, DeliveryPromise |
| Bot's delivery loop (`bots/matrix/internal/bot/outbox.go`), SDK retries (`bots/sdk`) | the batch in memory | a send that happened though its answer was lost; reports given up | repeating a send is harmless | Outbox, MatrixSync |
| Reminders (`core/internal/reminders`) | rows of `reminders`; create, update, snooze, done, delete, the chat reply, suspend and restore, `FireDue` | replicas claim while users edit; claims left behind; failures set aside | fires once, never too early, never lost; silent when its note is gone | Reminders |
| Recurrence and time parsing (`core/internal/timeparse`) | none: the next occurrence of a rule, the instant words mean | month ends, clock changes, times that are over today | the rule is followed, the local time kept; words mean the first instant that fits them | Calendar, TimeParse, ReminderTimes |
| Blobs (`core/internal/blobs`, upload handler) | `blobs`, `attachments`, counters of `user_storage`; upload, abort, delete, janitor, quota | an upload holds no lock while it streams; a commit whose answer is lost; a janitor that knows only ages | counters exact, quota kept, nothing lost or orphaned | Blobs |
| Store (`core/internal/store`) | `users.change_seq`, `changes` | the number comes after the wait for the lock, the time before it | every change numbered and announced with its commit | ChangeFeed |
| Realtime (`core/internal/realtime`, `server/sse.go`, `web/src/realtime`) | listeners, streams, wake-ups; the browser's last event id and stale views | wake-ups lost with a listener, streams cut with events under way, purges | no tab misses a change; all catch up | ChangeFeed |
| Notes (`core/internal/notes`) | notes, parts, histories of texts; create, edit, add and remove parts, merge, split, move, dismiss, restore, delete | the app and chats edit the same text; cascades into files and reminders | overwritten texts are kept; a file belongs to one part; browsers are told of everything | Notes, Board, Chat |
| Positions (`fracindex`, `position`) | sort keys between neighbours, rebalancing | keys between neighbours that are stale, equal or too close; keys that grow too long | others keep their order; an item goes where it was put | FracIndex, Position, Board |
| Board (`board`), lists of notes | pages and categories; cursors | a list read page by page while notes move; operations that change many rows | every note is read once | Board |
| Ingest, grouping (`ingest`, `grouping`) | `ingest_events`; created, edited, deleted, the remind command | repeated, late and reordered events; removed uploads | each event takes effect once; the newest edit wins; what was removed stays removed | Chat |
| Accounts, sessions (`accounts`, `auth`) | users, sessions with generations, activation links, deletion requests; login, renewal with grace, logout, disabling, deletion by a job | tabs renew at once; lost answers; requests that began before a deletion | a race signs nobody out; a deletion is complete and ends | Accounts, Access |
| Throttle (`throttle`) | failures per address and account | attempts under way at once, refunds | attempts are as far apart as their number asks for | Throttle, Accounts |
| Bots, identities, pairing (`bots`) | instances, credentials, pairing codes, identities, reminder targets | two clocks; late reports; unlinking while events arrive | nothing from before a link, or from somebody else's, is stored | Identities |
| Shares (`shares`) | share links | three reads per visit, changes between them | whatever is shown was shared | Shares |
| Export and search (`export`, `notes/search.go`) | a snapshot, pages, batches, files copied afterwards | others write between statements and requests | answers agree with themselves; exports are whole | Reading |
| Matrix bot: sync (`syncack`, `backfill.go`, `rooms_logic.go`, `bots/sdk`) | the sync token, remembered rooms; handle a response, fill gaps, commit the token | a crash between handling and committing; gaps; retries; a stale answer about a room | every message reaches Core in the order of its room, none is skipped | MatrixSync, Handover |
| Matrix bot: content (`normalise`, `media.go`) | none | files that cannot be moved, kinds of events | what was said is handed over, or a trace of it | Normalise, MatrixSync |
| Matrix bot: leader lock (`leader`) | an advisory lock on a connection | loss is noticed seconds late | overlap does no harm | MatrixSync; its effect in Outbox |
| Notices (`notify`) | in-app notifications | - | failures are told | the notice of a failed delivery in Outbox |
| Web client (`web/src`) | cache, session | renewal across tabs | the cache converges to Core | ChangeFeed, Accounts |
| Jobs (`jobs`) | periodic runs | fail and run again | - | each as an action of the module it serves |
| Schema (`core/migrations`) | tables, keys, cascades | cascades | - | as sets and guards |
| HTTP routing, rate limits, slots, configuration, database pool, observability, deployment, generated code | none, or counters local to a process | - | - | not modelled (section 6) |

### 1.3 How they interact

```
 web tab --HTTP--> Core: accounts, notes, reminders, blobs --InUserTx--> PostgreSQL --NOTIFY--> hub of each replica
    ^                                      |                                                        |
    |                          jobs: FireDue, Expire, purge, janitor                              wakes
    +------------- event stream (sse.go): changes since Last-Event-ID <------------------------------+

 chat --sync--> Matrix bot --ingest events--> Core: ingest --> notes, reminders
 chat <--send-- Matrix bot <--claim / report--> Core: outbox <-- enqueue, cancel -- reminders, bots
```

- Reminders put messages into the outbox and cancel them there; Outbox models the life of the messages, Reminders the set
  of occurrences that wait there (`queued`) and the one that is in the chat.
- Notes cascade: dismissing, restoring, merging and deleting a note changes its reminders (Reminders) and its attachments
  (Blobs; in Notes a file is there or is not).
- Every committed operation appends to the change feed. ChangeFeed does not care what the change was; Notes and Board
  check that every operation names all it changed (`BrowsersSeeEverything`).
- Blobs meets Notes where a part takes an attachment (`AddPart`) and where parts go, with their note or without it
  (`RemoveParts`).
- MatrixSync gives Core messages at least once; Chat takes them from a bot that repeats itself, at most once.
- Access puts accounts, chats and share links side by side, because disabling and deleting an account cuts across them.

## 2. The modules

| Module | What it is |
| --- | --- |
| `DeliveryPromise` | what the outbox promises about one item, without claims, leases, retries or reports |
| `Outbox`, `MCOutbox` | the outbox with the bot's loop and the jobs; its instances |
| `Reminders`, `RemindersProofs` | reminders, their notes and the job `FireDue` |
| `Calendar`, `TimeParse` | local time, recurrence rules and the time expressions of the chat |
| `ReminderTimes`, `MCReminders` | the ticks of Reminders read on a calendar |
| `Blobs`, `MCBlobs`, `BlobsProofs` | uploads, attachments, the janitor and the counters |
| `ChangeFeed`, `MCChangeFeed`, `ChangeFeedProofs` | the change feed from the transaction to the view in a tab |
| `FracIndex`, `Position` | sort keys, and placing an item in an ordered list |
| `Notes`, `NotesProofs` | notes, parts, histories and the operations of the app on them, extends Position; what each operation keeps, and what it does to a text and its history |
| `Board`, `MCBoard`, `BoardProofs` | pages, categories and a browser that reads a list page by page; extends Notes |
| `Chat`, `MCChat`, `ChatProofs` | ingest and grouping, a bot that repeats itself, the app beside it; extends Notes |
| `Reading`, `MCReading` | searches and exports while others write; extends Board; BoardProofs has its proofs too |
| `Throttle` | the counters that slow down guessing |
| `Accounts`, `Identities`, `Shares` | accounts and sessions; linked chats; share links. Each extends Accounts, which extends Throttle |
| `Access`, `MCAccess`, `AccessProofs` | the three together, with the deletion job and the purging job |
| `Handover` | what a chat bot promises about the messages of its rooms |
| `Normalise`, `MatrixSync`, `MCMatrix` | what the Matrix bot makes of an event; its processes between homeserver and Core |
| `BotProofs` | the proofs about Outbox and MatrixSync, the two ways between Core and a chat |

In each, an action is one transaction, one call to another system or one step of a loop that can be interrupted. A step
that can be interrupted in the code is interruptible in the model. Definitions whose comment begins with "Mutant" are
plausible mistakes, kept next to the definition they are a mistake of; no specification uses them.

### 2.1 Outbox

State: the columns of `bot_outbox` (`state`, `attempts`, `nextAttempt`, `lease`, `created`, `finished`, `reason`), the
items that have rows in `outbox_messages` (`recorded`), the notices about failures (`told`); per bot process what it has
claimed (`hold`, `grant`) and where it is with the current item (`phase`, `cur`, `outcome`, `seen`, and `clock`, the time
its report read first); the expiry job's
rows (`stale`, `telling`); the transaction ids that the homeserver has carried out (`shown`).

| Code | Action |
| --- | --- |
| `Enqueue` and the inserts of reminders, notices and unlinking | `Enqueue` |
| `ClaimOutbox` (`for update skip locked`, so any subset of the claimable rows) | `Claim` |
| the bot's `deliver` up to the answer of the homeserver | `Send`, with the outcomes of `SendOutcomes` |
| `Report`: read the row / update it / insert the notice | `ReportRead` / `MarkDelivered`, `Requeue`, `Fail` / `ReportNotify` |
| the process or Core stops, a call fails, the SDK gives up after ten errors | `BotRestart`, `ReportFails`, `ReportAbandoned` |
| `Expire`: read the rows / one update / one notice | `StaleOutbox` / `ExpireItem` / `TellExpired`, interrupted by `ExpireFails` |
| cancellations of reminders, notes, chats | `Cancel` |
| retention job | `Purge` |

A report reads the clock, then the row, then writes: the time of the next attempt and of the outcome are those of the
clock it read (`clock`), and `Tick` may happen in between, up to `Slow` ticks. A retry that is due a lease after the clock
was read therefore overlaps the lease it follows by as much as the report took, and `LeaseExclusive` says that this is all:
two processes never both hold a lease that has longer to run than `Slow`. The code has no margin for it, since the lease of 60
seconds is as long as the first delay. Several bot processes run at once because a process that lost its leader lock notices it
up to ten seconds late (`leader.go`).

`DeliveryPromise` has two variables, `outcome` and `shown`: an item is asked for once, may appear in the chat from then on
(even after it was given up, when a bot had it in hand), is confirmed only when it did appear, is given up only while it
waits, and stays settled until it is purged. `KeepsPromise` is `Promise!Spec` under the mapping `outcome <- Outcome(i)`; claims, leases, retries and reports are stutters.

### 2.2 Reminders

State: the rows (`row`: state, due time, period, claim, time of the last firing, note), the notes' states, the
occurrences that wait in the outbox, the one whose message is in the chat, the notices, and per run of the job the
claimed batch, its start and the reminder whose firing failed. The history variables `back`, `failedDue` and `answered`
are read by properties only.

`Create`, `Update`, `Snooze`, `Delete`, `Done`, `ReplyDone`, `Dismiss`, `Restore`, `DeletePermanently`, `Merge`,
`SetReminderTarget` and `SetStatus` are the user's calls and their cascades, one locked transaction each. The job is
`Claim` (reserve), `FireOne` (read again, queue, notify and advance in one transaction), `FireFails` with `Defer` (set
aside in a transaction of its own) and `Crash`. `LeaveOutbox` is the outbox as seen from here: the message arrives or is
given up.

Reminders counts in ticks and a recurrence is a period; what the reminders depend on is that `Rule.Next` returns the first
occurrence after a time, which `NextOccurrence` does for a period (and `NextIsLater` proves). `ReminderTimes` joins this
to the calendar: a tick is a number of days on each of a few calendars (`Readings`), and whatever pair of due time and
clock the job, `done`, `snooze` and restoring meet is read there, with `Rule.Next` and `Parse` as `Calendar` and
`TimeParse` translate them. `RecurrenceKeepsItsTime` and `TimeIsUnderstood` compare the results with what the days of a
rule, and the words, say; neither uses the algorithm. An instant is a number of minutes since 1 January of the year 1.
What the code does and the properties allow: a monthly rule that was clamped to a short month stays on that day
(`rrule_test.go` calls it accepted); a local time the clocks skip becomes an hour later and stays there; "29 feb" in a
leap year after that day means 1 March of the next. Zones whose clocks change at midnight: section 4.

### 2.3 Blobs

State: quota and the two counters of `user_storage`, the blobs, the attachments, which attachment each part of a note
uses (`file`), and where each attempt to upload is.
`Begin`, `Stream`, `Publish` and `Abort` are the three transactions of `Upload` and the streaming between them; `Breaks`
and `GiveUp` are the ways it ends early. A commit whose caller is told that it failed is `answered = FALSE`: the upload
is then lost (`Begin`) or aborted although it was published (`Publish`). `RemoveParts` and the janitor share `Discard`,
which does not ask the foreign key of `note_parts`: that no part loses its file is shown (`KeptWhileNeeded`), not assumed.
The janitor compares times of its own clock, at most `Skew` ahead, with times of the database.

### 2.4 ChangeFeed

State: the feed (`seq`, `log`, the running transactions and when they began), the content of every entity as the number
of its last change, per replica the listener and a waiting notification, per tab the handler of its stream (`at`,
`phase`, `last`, `batch`, `more`, `wake`) and the browser (`wire`, `lastId`, `stale`, `view`). `Commit` is `InUserTx` as
far as the feed is concerned. `Subscribe`, `Start`, `Read`, `WriteRow`, `Woken`, `SafetyNet` and `End` follow the handler
of `sse.go`; `Listen`, `WakeAll`, `WakeUser` and `ListenerLost` the hub; `Receive` and `Refetch` the tab.

A transaction that began later may take its numbers first, so a purge, which goes by times, can take a change out of the
middle of the feed (section 4, "A hole in the feed"). The history variable `holes` remembers the numbers of such changes;
no action reads it. `NothingMissed` and `CatchesUp` except what is in it, and nothing else.

### 2.5 FracIndex, Position and Notes

A key is a sequence of digits; `Base` and `MaxLength` are 62 and 48 in the code and small in the runs, so that
rebalancing happens. `Between`, `Midpoint` (with `Halve` for one step of its recursion), `Even`, `Gap` and `Place` follow the functions of the two packages.
Notes is the state of one user's notes: `note`, `part`, `history` (the versions of each text), `category` and `page`
(their keys), `file`, and `view`, what browsers that follow the change feed show. An operation is one action, with the
rows it writes as operators named after the queries (`InsertNoteAt`, `UpdatePartText`, `InsertPartVersion` ...) and the
entities it names in the feed in `Change`.

### 2.6 Board and Reading

Board adds pages and categories and a browser that reads one list (`ReadFirst`, `ReadNext`) by the cursors of
`board.sql`. `stay` is a history variable: the notes that were in the list all the time. Reading has one request at a time:
a search goes through its statements (`SearchFirst`, `SearchNext`, `LoadNotes`, `WithParts`, `AttachLocations`), an export through
`Start`, `WritePages` ... `FinishExport` and then, outside the snapshot, the files one by one. Between any two of them
another device may write (`WriteMeanwhile`). `View` is what a statement sees: the snapshot of the transaction. Its
mutant, what is committed at the moment, breaks `AnswersAgree`.

### 2.7 Chat

The timeline of one conversation (`PostMessage`, `EditMessage`, `DeleteMessage`, `PostCommand`), the bot's position in
it (`BotUpload`, `BotPost`, `BotCrash`; an answer may be lost, the event is then posted again), `Handle` as
`ingest.Handle` with grouping (`Decide`, `Joins`), edits that compare times (`Applied`), deletions and the remind
command, and every operation of Notes as the app's (`App`). An event that was answered before is answered again from
`ingest_events`. The janitor that removes unused uploads is `RemoveUnused`. The bot uploads one file for an event; an
attachment that finds it used, also by an earlier part of the message, becomes a failed part (`Linked`).

### 2.8 Accounts, Identities, Shares and Access

A caller is a handler at work: `call[c]` holds what it has read and which statement is next, so that handlers interleave
statement by statement wherever the code holds no lock. `Attempt`, `CheckPassword`, `Succeed` are the throttled check that
login, confirmation, activation and pairing share. A tab renews the session (`RefreshSession`, `Refresh`, `TabHears`) and
may hear nothing (`TabHearsNothing`); `hiccup` remembers an answer that was lost or late. `Identities` has two clocks:
that of Core and that of the chat's server, at most `MaxBehind` behind. `Shares` looks up link, note and file in three
steps; `seen` is a history of what was in order since the request came. The deletion job (`NextAccount`, `DeleteBatch`, `DeleteFiles`,
`DeleteAccount`) deletes rows of each kind in batches while requests that began before go on adding some.

A behaviour starts in one of `Mixes`: which operations it may have and how often (`left`). One mix per subject keeps the
product small; all of them are initial states of one specification and use the same actions.

### 2.9 MatrixSync and Handover

`timeline` numbers the events of all rooms, `token` is the saved position, `fate` what became of each message, `core`
what Core was given. Per process: whether it holds the lock, the response at hand (of every room its timeline, `window`,
and the member events before it, `state`), the room it is busy with (`queue`), the answers it remembers about rooms
(`dmCache` of the code), and the rooms whose gaps are still to be filled (`todo`). Gaps are filled first, room by room; then
`Dispatch`, and `NextRoom` takes the rooms one by one in any order, as a map of Go gives them, in each the state before
the timeline; when all are `Handled` the token can be saved. `Sync`, `LookUp`, `PassOver`, `Fill`, `HandleMember`,
`LeaveAlone`, `Post`, `Commit` follow `backfill.go`, `rooms_logic.go` and `syncack.go`; `Suffers` are crashes, shutdown,
refusals, errors and lost answers with the retries and limits of `bots/sdk`, and `RoomGone`: the homeserver says that the
bot is not in the room, which counts as a no this once. A homeserver that refuses to show a room's history is like one
that fails (`FillFails`), since the code's test for a refusal never succeeds (section 4). `OutboxAsks` and `OutboxRemembers` are the
delivery loop writing to the same remembered answers. `Handover` is the promise: messages are written and settled, none before an
earlier one of its room. `HandsOver` is `Handover!Spec` and its liveness under the mapping `settled <- messages with a
fate`: tokens, gaps, processes, retries and crashes are stutters.

## 3. What is checked

Where a behaviour ends because the clock, the events or the operations are used up and everything is settled, the
configuration says `CHECK_DEADLOCK FALSE`. In `Outbox` and `ChangeFeed` some step is always possible and deadlock is
checked.

| Run | Bounds | Shows | States |
| --- | --- | --- | --- |
| `Outbox_race` | one item, two bot processes, one failure, clock to 5, a lease of two ticks, a report of up to one | `LeaseExclusive`, `DeliveredIsInTheChat`, `NoFalseAlarm`, `FinalStateKept`, `KeepsPromise`, `EveryItemSettles` | 250 000 |
| `Reminders_all` | one reminder, two notes, two replicas, four calls, one failure, clock to 6, periods 0 and 2; six calendars in Brussels, ten rule texts, eleven expressions | `NoDoubleFiring`, `NothingQueuedForTheRemoved`, `SuspendedIsInTheTrash`, `SilentAfterTheTrash`, `EveryDueFires`, `RecurrenceKeepsItsTime`, `TimeIsUnderstood` | 779 000 |
| `Blobs_all` | two attempts, two identifiers, two parts, two contents of sizes 1 and 2, quotas 2 and 3, clock to 6 | `AccountsExact`, `NoOrphans`, `GrowsWithinQuota`, `KeptWhileNeeded`, `ReservationsEnd` | 295 000 |
| `ChangeFeed_tabs` | one tab, one replica, two writers, two changes to two entities, batches of two, purges, one failure | `NothingMissed`, `InOrder`, `CatchesUp` | 339 000 |
| `Board_all` | two pages, two categories, three notes, two placements or a placement and a tick, three digits, keys rewritten when longer than two, answers of one note | `ReadOnce`, `OthersKeepTheirOrder`, `GoesWhereAsked`, `BrowsersSeeEverything` | 410 000 |
| `Chat_all` | two notes, two parts, one file, two texts, two sessions, events and operations of the app together three, one crash of the bot, clock to 2, chat clocks ahead by at most 1 | `FilesBelongToOnePart`, `LatestEditWins`, `OverwrittenTextIsKept`, `NothingComesBack` | 2 571 000 |
| `Access_all` | a user and an administrator, two handlers, two tabs, one chat, one worker; thirteen mixes of two to eight operations | `GuessesTakeTime`, `ChatHistoryStaysOut`, `DeletionIsComplete`, `ShowsWhatIsShared`, `DeletionEnds`, `RaceSignsNobodyOut` | 454 000 |
| `Matrix_all` | two processes, two rooms, four events, responses of one event per room, two attempts of everything; nine mixes | `NoMessageSkipped`, `HandsOver` | 98 000 |
| `Reading_all` | three notes, one page and category, one file, answers and batches of one note, two writes or ticks, clock to 1, eight searches | `AnswersAgree`, `NothingSkipped`, `ExportIsWhole` | 561 000 |
| `Outbox_lost_notice`, `Reminders_trash`, `Matrix_gap` | as above, one question each | section 4 | |

What the properties say, for those whose names do not:

- *Blobs.* `KeptWhileNeeded`: an attachment loses its row, its blob or its content only when no part is left that uses
  it, and, if none did before, when the client has had `StaleAge` to use it; notes with files of the same content share a
  blob, and what happens to one of them does no harm to the other.
- *ChangeFeed.* `NothingMissed`: a view that is outdated has the news under way, and would get it after any failure. It
  excepts changes that were torn out of the feed, and the run meets such: without the exception TLC finds it violated.
- *Board.* `ReadOnce`: whoever reads a list to its end has read every note that was there all along and did not change
  exactly once, although equal keys and times lie on both sides of a cursor. `OthersKeepTheirOrder` and `GoesWhereAsked`
  are about every placement, with neighbours that are stale or gone and with all keys rewritten. A note dropped between
  two others stands between both, and nothing else does but what another device has put there since (on which side of
  that the note comes, the code leaves to the midpoint); two that are no longer in the order the client saw count as a
  drop behind the first. `BrowsersSeeEverything`: an
  operation names in the feed every entity it changed, including those that a deleted category or page lets go.
- *Chat.* `LatestEditWins`: of all edits of a part, in the app and in the chat, the one made last is shown, whenever it
  arrives; two edits can change places only when they are no further apart than a chat server's clock is ahead.
  `OverwrittenTextIsKept`: only an edit in the app may drop the text it replaces from the history, and only what its own
  session wrote within the window; what another session or the chat wrote stays. `NothingComesBack`: no event takes effect twice, also when what it made was removed in between.
- *Access.* `GuessesTakeTime`: attempts that were let through are as far apart as their number asks for, however many
  run at once. `ChatHistoryStaysOut`: what is stored for a user was written after that user's chat asked to be linked,
  and what is left out as history before. `ShowsWhatIsShared`: each of the three things a visitor's request found out was
  true at some moment of the request. `RaceSignsNobodyOut`: two tabs of a browser, with or without Web Locks, never make
  Core take a renewal for theft, unless an answer was lost or late (with locks any number of tabs, section 5; three
  without, section 4). `DeletionIsComplete`, `DeletionEnds`: nothing of an account
  that is gone is left, every chat was told, and the job gets there while requests that began before still write.
- *Matrix.* `NoMessageSkipped`: nothing behind the saved token is unsettled, and what Core was given is all that was said,
  a lost file leaving a trace. `HandsOver`: section 2.9; like all liveness here it is for a bounded number of failures, and
  a homeserver that refuses a room's history for good is not among them (section 4).
- *Reading.* `AnswersAgree`: notes, parts and places of an answer agree with what made the notes hits. `NothingSkipped`:
  who reads the results to the end has seen each note that was found all the time, by its words or inside them, unless
  others ceased to be found and those behind moved up (offset paging, which the design accepts), and unless it was found
  inside words and is left behind a full page of others (`LeftBehind`). That exception is a fault of the code (section 4),
  and the run meets it: without it TLC finds the property violated. `ExportIsWhole`: an archive that is not cut short has
  every note that existed all the time, with categories, histories and files.

Why the bounds are enough to be worth something:

- *Two of whatever races*: two bot processes, two runs of the job, two uploads, two handlers, two tabs. The races the
  hazards list are between two actors; a third repeats a role. The proofs cover any number where they exist.
- *Times keep their order*: a lease is as long as the first retry delay, expiry comes after a lease, the deadline of an
  upload plus the skew is at most the age of stale uploads, the grace of a superseded token is longer than a prompt
  answer, retention comes last. Only the distances are scaled.
- *One failure more than none, at every place*: failures are drawn from one budget, so TLC tries each at each place.
- *Batches and limits are met*: `Batch = 2` with two changes gives exactly a full batch; pages of one note make every
  list longer than an answer; three digits and two places make keys too long after two placements.
- *Mixes*: Access and MatrixSync have many families of operations. A mix allows a few of each, chosen so that what
  interacts is together: `Leaving` deletes an account while a note is written, an event stored and the worker stopped;
  `Vanishing` deletes it while somebody logs in and links a chat. Interactions of three families that are in no mix are
  not explored.
- For every property `PROJECT.json` lists a change of a definition that TLC finds with the same bounds: a retry without delay breaks
  `LeaseExclusive`, a cursor that compares keys only breaks `ReadOnce`, edits applied whatever their time break
  `LatestEditWins`, links found by the clock of Core break `ChatHistoryStaysOut`, gaps filled only to the exact time of
  Core's newest message break `NoMessageSkipped`, and so on.

`SnoozedNotes` leaves one thing out of `Reminders_all`: snoozing a reminder of a note in the Trash, which breaks
`SilentAfterTheTrash` (run `Reminders_trash`). Each module that keeps state by itself has a `TypeOK`; of Outbox, Reminders,
Blobs, ChangeFeed and Access it is proved (section 5), so their runs do not repeat it.

### Fairness

Safety is checked without fairness. For liveness:

- time passes: `WF(Tick)`;
- River starts the periodic jobs again whatever became of the last run (`jobs.go`): `WF` of the expiry job, of each
  replica's `FireDue`, of the janitor, of each step of the deletion job (Access);
- a bot's loop goes on until its process ends, and then another starts: `WF(Bot(b))`;
- listeners reconnect (`hub.go` retries with a delay), handlers run, `EventSource` reconnects and react-query fetches
  stale views: `WF` of each in ChangeFeed. The poll every thirty seconds (`SafetyNet`) is **not** assumed to happen:
  `CatchesUp` shows that wake-ups alone suffice.

- the Matrix bot's processes go on with what they can do, one of those that wait gets the lock: `WF(Goes(b))`.
  Refusals, errors and crashes (`Suffers`) are not part of it.

Failures are never fair, and neither are the calls of users. The bound on failures is part of the assumption: a system
that fails forever catches nothing up.

## 4. What was found

Each of these runs states what a comment or document of the repository says, and TLC finds a behaviour of the code that
breaks it. `PROJECT.json` quotes the sentences and lines.

| Run | Property | What happens |
| --- | --- | --- |
| `Outbox_lost_notice` | `FailureIsTold` | `Report` fails the row in one transaction and tells the user in another. If Core stops in between, the repeated report finds no claimed row and the user is never told. `Expire` has the same gap. |
| `Reminders_trash` | `SilentAfterTheTrash` | `SnoozeIn` does not look at the note. A reminder snoozed in the Trash comes due there and is sent when the note is restored. |
| `Matrix_gap` | `DirectChatsAreServed` | Gaps are filled before the member events of the same response are handled, so a room that became a two-person chat again is judged by the answer remembered from before, and the messages in the gap are dropped. |

Met while modelling, stated as definitions where a name is given, and not checked by a run:

- *A cancelled item arrives* (`Outbox!CancelledNeverArrives`): a bot that has claimed it sends it all the same.
- *Set aside without having failed* (`Reminders!OnlyFailuresAreSetAside`): `DeferReminder` sets aside whatever the row
  has become; a reminder given a new time after its firing failed is late by up to ten minutes.
- *`done` skips an occurrence* (`Reminders!DoneKeepsTheNext`): firing already moved a recurring reminder on, so answering its
  message with `done` skips one that was never shown (`reminders.go:271`).
- *A hole in the feed*: `created_at` is when the transaction began, the number is taken after waiting for the lock. If a
  transaction that began before another one gets its number after it, a purge between the two times takes the later
  number and leaves the earlier one; `changesLost` looks only at the smallest number that is left, so a tab or cursor
  passes over the hole (`ChangeFeed!Torn`). `NothingMissed` says that no change is missed in any other way.
- *A deletion that is taken back* (`Access!DeletionIsFinal`): `SetDisabled` and `issueActivation` write a status they
  computed from an older one, so they can overwrite a deletion requested meanwhile.
- *Parts without order and notes without parts*: a redaction counts all parts of a message against the note of the first
  one (`ingest.go:659`). When they were split over two notes, a note can lose its last part (requirements.md:136 says a
  note always has one).
- *Clocks put forward at midnight* (west of Greenwich: the Azores, Havana, Santiago): `time.Date` reads the skipped 00:30 as
  23:30 of the day before, so the day `Rule.Next` asked for is not the day it gets (`rrule.go:68`). The next occurrence of
  a daily reminder is on that evening and stays at 23:30; if Core was down over that night, the loop stays on the evening
  until it gives up and returns no time, and the reminder stops recurring. `ZoneAssumption` leaves such zones out of
  `RecurrenceKeepsItsTime`; evaluating `RuleNext` with `Standard = -300` and a change at 05:00 UTC shows both.
- Restoring an account's access: two administrators at once leave two valid activation links; the limit of five pairing codes is
  counted without a lock; a login that was checked before its account was disabled inserts its session afterwards, which
  no request then accepts.
- *Three tabs without Web Locks* sign themselves out although every answer is prompt: the request of one is still on its
  way when the two others have renewed one after the other, and the grace window covers only the last token that was
  superseded. `session.ts:4` and `07-web-app.md:39` call that window the backstop for such races; it is one for two tabs.
  With three tabs in its configuration `Access_all` finds `RaceSignsNobodyOut` violated.
- A due reminder of a note in the Trash is claimed again every minute (`reminders.go:415`); merging ignores
  `MaxPartsPerNote` and `MaxPerNote` and moves reminders without naming them in the feed; `UpdateCategory` ignores
  `MaxCategories`; restoring a note can tie two keys; a chat edit that changes nothing leaves `text_edited_at` unset.
- The bot's outbox loop can write an answer about a room into the cache after a member event invalidated it; a media event
  without a URL loses its caption.
- *A room whose history is refused stops the bot*: `backfill.go:122` means to go on without a gap that the homeserver will not
  show, but asks `errors.As` for a pointer to `mautrix.HTTPError`, while the library returns the value (for which
  `media.go:80` asks). The refusal is tried again like any other failure, `backfillAttempts` times, and then the process
  panics; the next one syncs from the same token and meets the same refusal, and no room is served until somebody
  intervenes. In the model this is `FillFails` without end, which the budget of failures does not allow; so `HandsOver` does
  not speak of it.
- After a database was restored from a backup, `resync` carries no id (`sse.go:100`); two exports started at once can
  exceed the hourly limit; a file deleted while an export runs cuts the archive short after its status was sent.
- *The second page of a substring search is empty* (`Reading!LeftBehind`): when no word begins like the query, `Search` looks
  for it inside words, but only on the first page (`search.go:121`). If that page is full it has a cursor, and the request
  with the cursor looks for words again, finds none and says that this was all.

## 5. What is proved

TLAPS checks the proofs for every value of the constants that satisfies the named assumptions.

| Theorem | Statement | From |
| --- | --- | --- |
| `BotProofs!TypeCorrect` | `[]TypeOK` | `TimesAssumption` |
| `BotProofs!LeasesAreExclusive` | `[]LeaseExclusive` | `BackoffAssumption`: no retry delay is shorter than a lease; `Slow` bounds how long a report takes |
| `BotProofs!DeliveredIsReal` | `[]DeliveredIsInTheChat` | |
| `BotProofs!OutcomesAreFinal` | `FinalStateKept` | |
| `BotProofs!OutboxKeepsPromise` | `KeepsPromise`: Outbox implements DeliveryPromise | `TimesAssumption`, `BackoffAssumption` |
| `BotProofs!AlarmsAreTrue` | `[]NoFalseAlarm` | |
| `BotProofs!NothingIsSkipped` | `SyncSpec => []NoMessageSkipped`, of MatrixSync | `MatrixAssumption`: no clock of a sender is further ahead than a gap is filled back (`Skew <= Overlap + 1`); windows hold an event at least |
| `BotProofs!MatrixHandsOver` | `SyncSpec => Order!Spec`: it implements Handover, the safety half of `HandsOver` | as above |
| `RemindersProofs!TypeCorrect` | `[]TypeOK` | `NoneAssumption` |
| `RemindersProofs!FiresOnce` | `NoDoubleFiring` | `TimesAssumption` |
| `RemindersProofs!NothingQueuedStays` | `[]NothingQueuedForTheRemoved` | |
| `RemindersProofs!SuspendedStaysInTheTrash` | `[]SuspendedIsInTheTrash` | |
| `RemindersProofs!SilentWhenRestored` | `SilentAfterTheTrash` | `SnoozedNotes \subseteq {"active"}` |
| `RemindersProofs!OccurrencesKeepTheirTime` | `[]RecurrenceKeepsItsTime`, of ReminderTimes: any rule `ParseRule` accepts, any occurrence and clock | `ZoneAssumption`: clocks are not put forward after 22:00 or before 01:00; `ReadingsAssumption`: no more days pass than the loop of `Rule.Next` may go on |
| `BlobsProofs!TypeCorrect` | `[]TypeOK` | `Deadline + Skew <= StaleAge`, as all that follow |
| `BlobsProofs!AccountsStayExact` | `[]AccountsExact` | |
| `BlobsProofs!StorageGrowsWithinQuota` | `GrowsWithinQuota` | |
| `BlobsProofs!NothingIsOrphaned` | `[]NoOrphans` | |
| `BlobsProofs!FilesAreKept` | `KeptWhileNeeded` | |
| `ChangeFeedProofs!TypeCorrect` | `[]TypeOK` | |
| `ChangeFeedProofs!ReceivedInOrder` | `InOrder` | |
| `ChangeFeedProofs!NoChangeIsMissed` | `[]NothingMissed` | |
| `BoardProofs!BrowsersShowWhatIsStored` | `Spec => []BrowsersSeeEverything`, of Board | `NotesAssumption`: notes, categories and pages have identifiers of their own |
| `BoardProofs!OthersStay` | `OthersKeepTheirOrder` | `KeysAssumption`: two digits at least; `BoardAssumption`: finite sets of identifiers |
| `BoardProofs!NotesGoWhereAsked` | `GoesWhereAsked` | as above |
| `BoardProofs!ListsAreReadOnce` | `[]ReadOnce` | as above, and no cursor equals `None` |
| `BoardProofs!AccountsMakeSense` | `Init /\ [][Operation]_vars => []Account` | as the first two |
| `BoardProofs!ArchivesAreWhole` | `AnyRequests => []ExportIsWhole`, of Reading | as the first two; `ReadingAssumption`: finitely many parts, no search equals `None` |
| `BoardProofs!SearchesAgree` | `AnyRequests => []AnswersAgree` | as above |
| `BoardProofs!ResultsAreReadOnce` | `AnyRequests => []NothingSkipped` | as above |
| `ChatProofs!FilesAreNotShared` | `Spec => []FilesBelongToOnePart`, of Chat | `NotesAssumption`, `ChatAssumption`, as the three below |
| `ChatProofs!StoredOnce` | `NothingComesBack` | |
| `ChatProofs!TextsAreKept` | `OverwrittenTextIsKept` | |
| `ChatProofs!LatestIsShown` | `[]LatestEditWins` | |
| `AccessProofs!TypesAreKept` | `Spec => []TypeOK`, of Access | `AccountsAssumption`, `ThrottleAssumption`, `IdentitiesAssumption`, `SharesAssumption`, as the five below |
| `AccessProofs!GuessesAreSlowedDown` | `[]GuessesTakeTime` | of those: counters are kept at least `DecayAfter` |
| `AccessProofs!HistoryStaysOut` | `[]ChatHistoryStaysOut` | |
| `AccessProofs!SharesShowWhatIsShared` | `[]ShowsWhatIsShared` | |
| `AccessProofs!DeletionLeavesNothing` | `[]DeletionIsComplete` | |
| `AccessProofs!LocksSignNobodyOut` | `RaceSignsNobodyOut` | `locks`: the browser has the Web Locks API |

The arguments, each around an inductive invariant:

- **Leases.** `LeaseExclusive` is not inductive, because a report does not say whose claim it answers: a late process can
  put an item back into the queue that another has claimed. `GrantsEnd` says why this does no harm: the lease of every
  holder, late or not, ends no later than `Slow` after the row can be claimed again, from `claimed` because the row's lease
  is at least the holder's, from `queued` because the next attempt is due no earlier than that: it is counted from the
  clock the report read, which is at most `Slow` old (`ReportsAreRecent`). The second half needs
  `BackoffAssumption`, a relation between two numbers in two places of the code: the lease of 60 seconds and the first
  retry after one minute. Shorten the delay and the property fails (as TLC shows).
- **Delivered is real.** `SuccessWasSent`: a bot that is about to report `delivered` has its message in the chat.
- **The promise.** Every action of Outbox becomes `Ask`, `Appear`, `Confirm`, `Abandon`, `Forget` or a stutter of
  `Shadow`, the mapped rows.
- **Nothing is skipped.** `SyncInv` says three things. `Behind`: every message up to the saved token is settled, and so is
  every message up to where a process began its response. `Covered`: a process that is not being stopped has lost sight of
  nothing up to where its response ends; an unsettled message is in the room it is busy with, in a window, or in a gap
  still to be filled. When all is handled nothing of that is left, so the new token may be saved, whichever process ended
  where before. `InTurn`: the messages of a room are settled in their order. This is what makes a gap end in the right
  place: the bot asks Core for the time of its newest message of the room and does not fetch what is older than that by
  `Overlap` (`fillGap`). What it leaves out is before a message that Core has, hence settled (`UnwantedIsSettled`), if
  places and times agree up to `Skew`; with `Skew > Overlap + 1` a sender's clock hides messages, and with no overlap at all
  TLC finds one. `InTurn` itself needs that a gap is put before its window and that two processes that sync at
  once each have everything from before their message in the same room already settled or in front of it. Processes that
  are being stopped are left out of `Sound`: events pass through them without effect, and they cannot save a token.
  `ContentInv` adds what Core was given (`Said`, `Kept`).
- **Handing over.** A step of a process settles a set of messages that is closed towards the past of their rooms
  (`Settles`, `Closed`), whether one by one or, for gaps that are given up, many at once; that is `Settle` of Handover or
  a stutter. Writing is `Write`; all else is a stutter.
- **Fires once.** The invariant is pointwise (`RowOK`, for one reminder, its note and what is queued). The decisive part:
  a reminder that can still fire is due after it fired last, and it fired no later than now. Whatever an old batch does,
  firing twice would take a new occurrence.
- **Alarms are true.** Users are told in a step of its own, after the row was failed or expired. `TellersInv` says what
  lies between: whoever is about to tell holds an item that Core gave up, of which nobody has been told and of which
  nobody else is about to tell, because only the step that leaves a live state makes a teller, and no step returns there.
- **Silent after the Trash.** `SilentOK` says of one reminder: if it can fire, its note is active and it is due after
  the note last came back; if it has fired for good, it does not recur, so `done` cannot arm it in the Trash. Every way
  to arm a reminder asks for a later time, and every way but snoozing for an active note. Snoozing does not, which is
  why the theorem needs `SnoozedNotes` and the run `Reminders_trash` finds the exception (section 4).
- **Exact counters.** Sums of sizes are cardinalities of sets of bytes, so that the library's theorems on finite sets do
  the arithmetic. `CommitReservation` gives a reservation back without looking whether the row was still there; that it
  was follows from `Running`: an upload within its deadline is incomplete, because the janitor takes only what is older
  than `StaleAge`, even with a clock that is ahead by `Skew`. This is where `Deadline + Skew <= StaleAge` is used.
- **Files in use.** `Used`: the attachment a part uses is there. Every deletion of an attachment comes either from the
  parts that use it, and two parts never use the same (`AddPart` takes one that is free), or from the janitor, which takes
  only what no part uses. A blob goes only with the last attachment that refers to it (`Unshared`).
- **No change is missed.** `Inv` orders numbers along the way of a change: the browser's last event id, the wire, the
  handler's position, the rows it read, the end of the feed. `News` says that an outdated view is always beyond the last
  link of that chain that does not mention its entity, so some later link does, or the feed still holds the change, or
  has visibly lost it, or it is one of the `holes`. `Order` says of the last change of every entity: the feed
  still has it, or all that is left is later, or a purge tore it out.
- **Files and browsers.** NotesProofs takes the operations on notes one by one and shows two things of each
  (`NotesNextKeeps`). Files: an operation inserts only files that are ready and nobody's, each once, and deletes only files
  of parts that go (`InsertKeeps`, `DeleteKeeps`); that no two parts share a file is itself what makes the second
  harmless. Browsers: the rows outside the entities an operation names stay as they are (`ToldIsEnough`); where a place in
  a list is computed, what Place rewrites is what it names (`PlaceAnswers`). BoardProofs adds the operations on
  categories and pages, with the notes they release, and ChatProofs what ingest does to parts and files: a message uses
  the upload for at most one part (`InputsOfMessage`), however often it is repeated. Neither needs to know how keys
  compare, how grouping decides, or which texts an edit replaces. `BrowsersSeeEverything` is not stated of Chat, where the
  redaction of a message that was split over two notes breaks it (section 4, "Parts without order").
- **Keys.** `Midpoint` is a recursive function on gaps. That there is a function that obeys its equation, and that the key it
  gives is strictly inside its gap (`MidpointInside`), is shown by the least counterexample (`LeastNumber`): of the gaps
  for which it is not so take one with the shortest ends; the code either answers without recursion, or asks for the key
  of a shorter gap, which is inside that one, and puts the digits before it that both ends share (`InsideBehindPrefix`) or
  that the lower end has. What a step of the recursion does is the operator `Halve`, so its cases are lemmas of
  their own. The same argument gives `Pow`; `EncodeIs` and `EncodingsOrdered` say that writing numbers with the same
  number of digits keeps their order, so that the keys of `Even` increase (`EvenIncreases`), including those that get a digit
  more because they would end in the smallest one.
- **Lists.** `Gap`, whose cases are made disjoint in the order the code tries them, answers with two keys between which
  no other key of the list lies (`KeysAreWhereAsked`); `PlaceIs` says that the placed key is strictly between them and
  that the others keep their keys or get even ones in the same order. `OrderInv` is what this needs of the state: whatever
  is in a list has a valid key, and every note has the times by which the Inbox and the Trash are sorted. Two notes may share a key (a note that returns from the Trash keeps
  its own), and then no key lies between them: that is why `GoesWhereAsked` allows for notes with the key of the
  neighbour. Rewriting the keys can tell such notes apart, so the gap that is computed afterwards may be another one than
  before; what stands in it then had the neighbours' key (`StoodBeside`).
- **Reading a list.** `ReaderInv`: a note that stayed has been shown exactly if it is not behind the cursor, at most once,
  and when the end is reached all have. An answer adds what is behind the old cursor up to the new one (`NextPageIs`,
  from `FollowsIsAnOrder`: the order with the identifier as tie-break is total), and what other devices do moves neither the
  cursor nor the notes that stayed.
- **What operations leave.** `Account` says of which states a request can make sense: every note has parts, every category
  and page it names is there, every part is a text or names a stored file, and a text that is shown is in its history. No
  operation leaves a note without parts (`AccountKept`, operation by operation), and a deletion releases or takes all
  that refers to what goes. Board's operations start it from nothing, so it is an invariant of Board
  (`AccountsMakeSense`), and `AnyRequests` starts from any such account instead of the empty one of `ReadingSpec`: requests
  one after the other, and between any two of their steps any operation of the app, or time that passes, without the
  bounds on writes and moves that the run has.
- **Archives.** `ExportInv` relates what is written to the snapshot: of the notes up to the last batch everything is
  there, notes, parts and histories alike; behind it nothing. A batch is never empty while notes are left, since these
  have a first (`NextBatch`, by `LeastNumber`), so an empty one ends it. The notes that stayed were in the snapshot, and
  the snapshot is an `Account`. Files are the exception, read long after it: one that is gone cuts the archive short.
- **Searches.** `AnswerInv` follows one request statement by statement: every statement sees the snapshot that made the
  hits, so what it loads is what made them hits, and their places are places of that snapshot. Scores are cardinalities
  of sets of matching words, so the library's theorems on finite sets give a word that matches for a score above zero.
- **Pages of results.** A page is a piece of the notes found, in the order of the search (`PageOfResults`), and the
  next begins where it ended; between two pages others write. The place of a note among the results is the number of notes
  up to it (`PlaceOf`). A note that is found as before moves forward only if one before it ceases to be found or is found
  with another score, and back only if one comes in (`PlacesStay`). `PagingInv` concludes that a note that stayed, and is not
  among the results seen, is at the next page or behind it, and, where nothing was gained either, seen just once. Of a
  note found inside words it says that it is among the results or a page of them is full (`SubstringIs`); the later pages
  look for words, so they add nothing as long as no word has begun to match.
- **Stored once.** `SourcesKnown`: a part with a source comes from an event that was answered. It holds because Core stores
  the answer in the transaction that makes the parts, the app gives no part a source (`AppKeepsSources`), and a message is
  named after its event (`OwnMessages`); so what an unanswered event makes is new, and within a message the places tell
  the parts apart.
- **Texts are kept.** What any step can do to one part and its versions is one of five things: nothing, delete it, begin
  it, rewrite it in the app, hear of an edit in the chat (`AppTexts`, in NotesProofs because archives need it too,
  `MessageTexts`, `EditTexts`, `DeletionTexts`). The invariant is `TextShown`: the text shown is in the history. Only an
  edit of the app (`InApp`) overwrites a version instead of adding one; either that version is not the one that was shown,
  which stays, or it is, and then the session that edits wrote it within the window (`EditKeepsTexts`, for every session
  whose edit the step can be). That the dialog finds the history needs `NotesOfParts`: a part's note is there, also after a
  merge, a split, and a message that joins the note of an earlier one (`DecisionIsNote`).
- **The latest edit.** `LatestEditWins` compares what is shown with the whole history, but Core only compares a late edit
  with the part's last edit, which an edit that changes nothing does not move. `WaitingIsNewer` fills the gap: of a
  part from the chat, a version is no later than the part's last edit and than now, or no later than any edit that still
  waits to be posted, but for `Ahead`. Edits in the app set the last edit to now, and the bot answers for edits in the
  order they were made (`InTime`: before the event that is next, no edit waits, also after a restart took it back; a
  later event has no earlier time, but for `Ahead`). `Ahead` is how far clocks of chat servers are ahead, and the theorem
  holds for every value of it and of `MaxFutureSkew`, the five minutes up to which Core believes them: an edit in the app
  that follows a message at once is shown, although the version it replaces bears a later time, so the tolerance is
  needed; that it is enough means that clocks never hide an edit behind one made more than `Ahead` before it.
- **Access, step by step.** AccessProofs sorts the steps into families (`Steps`): those that only look and decide what
  their handler does next, those of the throttle, of accounts, of chats, of shares, of the browser and of the jobs. For each
  it proves once what the family leaves alone (`LooksFrame` and so on), so that an invariant is argued only for the
  families that can disturb it. `TypeInv` says besides the types where a handler can be with what it has read; `Phases`
  reads that off from its step.
- **Guessing.** `Counted` ties a counter to the attempts it stands for: as many failures as attempts since the last success,
  the time of the last, and no release before the delay their number asks for; or it is fresh because the purge
  removed it, and then the last attempt is older than `RetainThrottle`. The second case is why counters must be kept at
  least as long as they take to decay. That a refund cannot undo a delay holds because what `Refund` takes back is never
  the guarded key (`KeysLeft`).
- **History.** A handler between `Link` and `LinkChat` knows a time at which the chat asked that is not later than what it
  read (`AskedBefore`); a linked row keeps its chat and time as long as records refer to it, unlinked or not (`Made`).
- **Shares.** `ViewInv` goes along a visitor's request: past the look at the link, the link was seen to be good, past the
  look at the note, also the note was seen to be shared.
- **Deletion.** `DeletionIsComplete` needs that *no* table refers to an account that is gone, and that nothing begins to.
  `GoneInv` says so table by table; every statement that inserts or moves a row to an owner looks at the account in the
  same transaction, by the row it locks or by the foreign key (`Owners`). `GoodbyesSaid`, of conversations of accounts
  that are on their way out, is the half about the bots.
- **Renewing.** With locks, `OneAtATime`: at most one tab has something under way, a request or an answer. Then, unless
  something was lost or late, whatever is under way bears the generation the session has now, and so does the cookie
  unless the answer that replaces it is on its way (`TokensCurrent`); a token that is current is never taken for an
  old one. Sessions that end meanwhile, for whatever reason, keep their generation (`SessionsKeep`), and a new one in the
  cookie was begun (`TokensBegun`: a row that is not in use yet cannot be named by a token).

- **Recurrences.** Five steps lead from offsets to the loop. An instant is in one of two offsets, and since the clocks are
  put forward far enough from midnight, `At(day, minute)` is an instant of that day even when the minute is skipped
  (`OnItsDay`). So `LocalDay` gives back the day, and two Mondays at midnight are a multiple of seven days and at most an
  hour apart, which rounding takes away (`WeeksAre`; without the rounding, the mutant, TLC finds an odd week in spring).
  Years and months are shown to cover the days without gaps or overlaps (`EveryDayHasADate`, `CivilIs`), so that "the
  same day n months later, or the last" is the next day of a monthly rule (`NextOfMonths`); `NextOfDays` and
  `NextOfWeeks` are the other two. One round of the loop then passes over no day of the rule (`NextDayFollows`), and every
  round that has not passed the present is a day further (`Reached`, by induction on the rounds). The loop therefore ends
  behind the present if it may go on for as many rounds as days have passed: 20000 in the code, 54 years. Last,
  `DatesInv`: a row that recurs always has an occurrence to count from, and the clock is within its bound, so that each
  pair the property reads is one of those the loop was followed for.

Only checked, not proved: liveness (`EveryItemSettles`, `EveryDueFires`, `ReservationsEnd`, `CatchesUp`, `DeletionEnds`,
the second half of `HandsOver`), which the prover does not reach because of ENABLED; that two tabs without Web Locks sign
nobody out; the order of parts in a note; and what the words of a chat command mean (`TimeIsUnderstood`), over the words
the run gives. The library's theorems
for induction cannot be used, because they take an operator as a parameter. Where a recursive function is proved about
(`Midpoint`, `Pow`, the loop of `Rule.Next`), the induction is written out as the search for a least counterexample. The provers also do not see
through the sequences and functions of the community modules that take an operator (sorting, filtering) nor `@@`, so
Reading writes out what it needs of them (`Ordered`, `Kept`, `With`) and `ParseRule` reads the parts of a rule with a
recursive function.

## 6. What is not modelled

- Rows of other users: the models are of one user (Outbox: several owners; Access: an administrator besides), because
  locks and feeds are per user.
- Data that no property tells apart: texts, formats, file contents (a content is a model value with a size), wording,
  names, icons, archiving of categories, profiles, labels of sessions, the audit log.
- *Notes*: that an edit based on an old version is answered as stale and that a repeated creation is answered from the
  first one; both change nothing. *Ingest*: notices to unlinked senders, feedback texts, sanitising. The daily purge
  forgets answers to events after 90 days (`PurgeIngestEvents`, `jobs.go:106`), and Chat remembers them: a bot that went
  down before it saved its position and comes back more than 90 days later posts again events that Core no longer
  recognises. What is still stored is not stored twice then (`Created` looks for the message's parts), but what the user
  removed comes back, so `NothingComesBack` holds for bots that are away for less than that.
- *Accounts*: rehashing at login, quotas (Blobs has them), notices about sign-ins. *Bots*: heartbeats, identity domains.
  *Shares*: the switch that turns sharing off, the rate limits of the public listener.
- *Time*: seconds, spelling, fractions of a unit. *Search*: queries of several words, snippets. *Exports*: reminders and
  share links.
- *Matrix bot*: Core that will not tell its newest message of a room (`backfill.go:151`; the gap is then read to the page
  limit), invites, the one-time notice to groups, undecryptable messages, encryption, heartbeats, reply fallbacks,
  files of reminders.
- *Web client*: optimistic updates, the upload queue, views and forms.
- HTTP decoding, rate limits and slots that live in one process, configuration, metrics, deployment: no state that
  another part depends on. Generated code: generated from the API description and the SQL files, which are modelled.
- PostgreSQL: a transaction is atomic and a locked row is waited for or skipped; a read-only transaction is a snapshot.
  River: a periodic job runs again.
- A restore of the database from a backup, after which numbers of the feed are used again for other changes.
- The streams of revoked sessions and the cap on streams; they end streams, which `End` does at any time. The bots' long
  poll, which only shortens the wait between two claims.

## 7. What is left

1. **More proofs**: that the parts of a note keep their order; that two tabs without Web Locks sign nobody out.
2. **The rest of the partly modelled components**: the bots' long poll and the streams of revoked sessions; notices to
   unlinked senders; invites and undecryptable messages in the Matrix bot; the upload queue of the web client.
3. **Composition** of MatrixSync with Chat: that `Handover` and what Chat asks of its bot are one, so that at least once
   on one side and at most once on the other give exactly once.
