# Verification of the Telegram userbot

TLA+ models of the program in this repository, the TLC configurations that
check them on small instances, and TLAPS proofs of what matters most for every
instance. Paths are relative to `src/`; `userbot.go` is
`internal/userbot/userbot.go`.

## The system

One process (`cmd/bot/main.go`) logs in to Telegram as an ordinary user, with
the gotd library. It copies orders that bots post in groups into the same group,
so that they appear under the user's own name, answers the user's `.ping` and
`.status`, and keeps a record of the users and groups it has seen in MongoDB.

| Component | State | Operations | Meets |
|---|---|---|---|
| message policy (`userbot.go`) | none | sender, chat type, order numbers, history cutoff, what to look up, mirror or answer | called by the handler |
| update handler (`userbot.go`) | sender cache, `processStart`, one call per worker | `handleMessage`: look-ups, `registerSeen`, mirror, command | Telegram calls, registrars; concurrent workers of gotd's `updates.Manager` |
| registrars (`internal/feature`), indexes (`internal/store`) | collections `users`, `groups` | `EnsureBaseIndexes`, `EnsureOwner`, `EnsureUser`, `EnsureGroup` | main at the start, handlers afterwards |
| session storage (`session_storage.go`) | one encrypted file, temporary files | `StoreSession`, `LoadSession` | gotd, `Start`'s preflight, a login run beside the container |
| client start and login (`userbot.go`, `auth.go`) | phase of `Start`, the connection's key | preflight, auth or login, owner check, update manager | session storage, registrars, a login beside the container |
| process lifecycle (`main.go`) | `userbotCtx`, `tgDone`, signal, exit code | start, select, shutdown with timeouts | all of the above |
| configuration (`internal/config`) | none | `Load`: runtime variables and `.env` | main, at the start |
| status commands (`userbot.go`), stats (`internal/store`) | timers of the calls in flight | Mongo ping, two counts under one timeout | MongoDB, workers that register meanwhile |
| chat ids (`userbot.go`) | none | two canonical forms in one id space | registrars |
| logging, domain repositories | none | wording; not used by main | |

Hard behaviours: workers of different chats run one handler each, side by side,
over a shared cache and registry; what the userbot posts comes back to it as an
update; a restart forgets memory and may get old messages again; look-ups,
registrations and sends fail independently, and the code mostly logs and goes
on; upserts race on the server; the process may be killed between any two file
operations or database writes; a login may replace the session a running
container uses, main and `Start` race to the end of the process, and MongoDB may
be slow, fail or hang under every call. `PROJECT.json` lists each hazard at its
line with the properties that watch it, or why none does.

## Modules

| Module | What it is |
|---|---|
| `MessagePolicy` | the decisions of `userbot.go`, one operator per Go function, with its name |
| `UpdateHandler` | the handler as a state machine; extends `MessagePolicy` |
| `MirrorService` | abstract: what the userbot promises the readers of its chats |
| `Registry` | the two collections and all their writers |
| `Directory` | abstract: what the two collections promise those who read them |
| `SessionStore` | the encrypted session file, operation by operation |
| `SessionRegister` | abstract: an atomic register |
| `Config` | `config.Load` as a function of the environment and `.env` |
| `Lifecycle` | `main` and `Client.Start`, in several processes; extends `Config` |
| `ChatIds` | the canonical ids of groups and channels |
| `StatusCommand` | `.ping` and `.status` against the clock; extends `ChatIds` |
| `MC...` | small instances for TLC |
| `ServiceProofs`, `LookupProofs` | theorems about `UpdateHandler`: what it posts; what it knows when it posts, and that it posts what is owed |
| `DirectoryProofs` | that `Registry` implements `Directory`; extends `RegistryProofs` |
| other `...Proofs` | theorems about the module they extend |

### UpdateHandler

A worker (`Common` for private chats and basic groups, one per channel, as in
gotd's update manager) takes the next message of its chats and runs
`handleMessage`. The call is cut where it leaves the process, since only there
can another worker come between:

| Action | Code |
|---|---|
| `IgnoreHistorical` | the early return on `isHistoricalMessage` |
| `HandleMessage` | `extractMessageMeta` and `resolveMessageSenderBot` up to its call: the update's entities, then the cache |
| `ResolveMessageSenderBot` | `users.getUsers`, and the cache |
| `ResolveReplyToUserbot` | `getMessageByID` and `messageAuthorUserID` |
| `EnsureUser`, `EnsureGroup` | the two halves of `registerSeen` |
| `MirrorMessageToSamePeer`, `ReplyToCommand`, `IgnoreMessage` | the end of `handleMessage` |
| `Restart` | the process ends anywhere and `NewClient` and `Start` run again |
| `Post`, `Tick` | Telegram and time |

`log` is every message of every chat in Telegram's order. An entry also says
what caused it (`via`, `src`, `start`) and what the call that posted it had
learnt (`target`, `registered`), and which message a reader sees it reply to
(`original`, which a reply across chats takes from another number space); those
fields are read by properties only. A text is the shape of its
first word and the classes of the candidates in it. What can fail outside is
the constant `Faults`, so that each run says in which world it holds. A send
whose answer is lost but which Telegram has carried out is `Send`: the handler
ends either way.

### Registry

An upsert is two steps of the server: look for the document, then modify or
insert; an insert that finds its key taken under a unique index starts over.
`EnsureOwner` is `DemotePreviousOwners` and an upsert; the time a registrar
read travels with its call. The next start may be configured with another
owner. Calls of a process that ends are lost with it.

`KeepsDirectory` says what that amounts to for a reader. In `Directory` there is
no server and no call: a user or chat is met at one stroke and known since then,
titles change, the role of owner is taken from whoever has it and given to the
configured user, and meetings only happen while handlers are served. The
mapping (`Readers`) reads a person or a group off the document with its id,
"known since" off `created_at` or `joined_at`, and `serving` off the phase `ready`.
The insert or modification an upsert makes is the directory's one step; looking
for the document and starting over are stutters, and the times of last sight are
hidden. A call that fails has done its one step or none; where it is the
start's, the process goes down with it and serves nobody.

### SessionStore

`CreateTemp`, `Write` (piecewise), `Close`, `Rename` and the deferred `Remove` of
`StoreSession`; `Open` and `Decrypt` of `LoadSession`. Every one but `Remove`
may fail; `Kill` ends a call anywhere. What fails in `StoreSession` before the
temporary file exists, a cancelled context among it, is a stutter. Files are
inodes, so that a load that has opened the old file is not disturbed by a
rename. The cipher is abstracted to: a complete file opens under the passphrase
it was sealed with.

`LoadSession` ends in one of four ways: with a session; `not_found`
(`session.ErrNotFound`, on which gotd makes a new key and the preflight asks for
`-login`, while any other error ends them); `refused`, the errors of decoding and
decrypting; and `failed`, a cancelled context or any other error of `os.ReadFile`,
which may come at `Open`, whether there is a file or not, and at `Decrypt`, where
the open file is read. `SessionRegister` lets a load fail at any time (`Fail`), as the code does,
but not pass that for an answer: a session is the one that was there, `not_found`
says that there was none, and `refused` that it has another passphrase, never
that a store was under way. Whether loads that fail ever succeed is not promised.

Assumed, and not guaranteed by the code: the machine keeps its power (nothing is
fsynced), and removing a temporary file works (the error is dropped).

### Config

A variable is absent, blank, refused by its parser or has a value; `Load` is the
composition of `resolveAppEnv`, `loadDotEnv` (`Added` is what `godotenv.Load` does:
a variable that is set, if only to blanks, stays) and the checks (`Accepted`).
Which of several errors wins is wording and left out.

### Lifecycle

Each process is a record: where `main` is, where `Start` is in its goroutine,
what `Start` returned into `tgDone`, the key of its Telegram connection, whether a
handler runs. `userbotCtx` is cancelled exactly when `main` has left its select,
so `Cancelled` is not a variable.

| Action | Code |
|---|---|
| `LoadConfig`, `ConnectMongo`, `EnsureBaseIndexes`, `EnsureOwner` | `main` up to the select, each with its exit |
| `OnSignal`, `OnDone` | the two cases of the select; both may be ready |
| `StopWaiting`, `CloseMongo`, `Leave` | the wait of ten seconds at most, `closeMongo`, the end |
| `Preflight` | `Start` reads the session before it connects |
| `Connect`, `SaveSession` | gotd loads the session itself, and stores it when it sees fit |
| `Auth`, `Login`, `Self` | `Status` or `IfNecessary`, the terminal flow, the owner check |
| `RegisterOwner`, `HandlerStarts`, `HandlerEnds` | `EnsureUser`, the update manager at work |
| `RunEnds` | `Run` fails or ends, and `Start` returns `nil` or the error |
| `Signal`, `Kill`, `Launch` | the world; before `NotifyContext` a signal kills |

A session is the passphrase it is sealed with and a key; which account a key is
logged in to is Telegram's knowledge (`auth`). The session file is a register:
`SessionStore` implements one (`ImplementsRegister`). Assumed of what is outside:
a key once logged in stays its account's (a revoked one shows as an error of a
call), `.env` is not edited while a process loads it, and nobody deletes the
session file.

### ChatIds, StatusCommand

`ChatIds` has the two conversions with the offset as a constant, `Prefix` (10^12
in the code). In `StatusCommand` a worker takes a message (`Take`), registers it
without a timeout, and for a command asks MongoDB under `context.WithTimeout`.
A call is carried out on the server (`Server`), and its answer returned
(`Answered`) in another step; or the driver fails (`Fails`), or the deadline
passes (`Expires`). Time is the timers: `Tick` takes one from all that run, and
does not pass one that is over, since what the process does by itself takes no
time worth counting. `met` remembers which chats were registered, so that the
ids in `groups` can be compared with chats.

## Runs

| Run | Shows | Bounds, and why they are enough |
|---|---|---|
| `GroupTalk` | `TypeOK`, `SenderVerdictsAreTrue`, `NeverMirrorsRepliesToUserbot`, `OwedIsPosted` with nothing failing | 3 posts in 2 groups, 2 starts: order, copy and the reply to the copy, while the other worker is busy; a bot the cache knows and one it has forgotten; a command |
| `FaultyWorld` | `MirrorsOnlyBotOrders`, `RegisteredBeforeAnswer`, `MirroredRepliesAreExplained`, and `KeepsService`: the handler implements `MirrorService`; look-ups, Mongo and sends fail at will, the account may post as a channel | 2 posts, 2 starts, 2 ticks: a message answered by one process and redelivered to the next; updates without entities |
| `SelfTalk` | `SelfTrafficSettles`, `RepeatsOnlyWithinGrace`, `TalkIsBounded`, and `AllHandled` under fairness | a bot's order that reads like a command: its copy is answered, the answer is not; 2 starts for the repeats |
| `Registry` | `OneDocumentEach`, `AtMostOneOwner`, `OwnerWhileReady`, `FirstSightIsKept`, `TitleIsKept`, and `KeepsDirectory`: the collections implement `Directory` | 2 users who may be owner, 1 group, 2 handlers, 4 calls, 3 starts: two upserts race, others meet what they left; the owner changes between starts, and back |
| `SessionStore` | `FileIsComplete`, `OnlyKilledLeaveTemps`, `IsRegister` | 2 processes with different passphrases, 3 stores, 2 loads: overlapping stores, a load across a store, a load that fails with and without a file, a kill in each |
| `Lifecycle` | `OnlyOwnerServes`, `MongoOutlivesUserbot`, `DotEnvStaysOut`, `ExitTellsWhy`, `Settles` | 2 processes, 2 launches: a login beside a running process, or a second start after a first; another passphrase, another owner through `.env`, a broken `.env` |
| `StatusCommand` | `ChatsKeptApart`, `CountsAreTrue`, `AnsweredInTime`, `CommandsAnswered` | 2 workers, a basic group and a channel of one number, another group; timeouts 1, 1 and 2, so that the first count may use up all or half of what the two share |
| `LoginTrap` | violated: `OwnersLoginSucceeds` | see findings |
| `PostsAsChannel` | violated: `NeverMirrorsRepliesToUserbot` | see findings |
| `CrossChatReply` | violated: `CopiesReplyToTheOriginal` | see findings |
| `MongoDown` | violated: `MongoErrorAbortsHandler` | see findings |
| `LastSeen` | violated: `LastSeenMovesForward` | see findings |

Every property of a passing run is shown to be sensitive to the code: for each,
`PROJECT.json` names a slip in a modelled definition (the `Mut...` operators)
under which the run fails. `CHECK_DEADLOCK FALSE`: posts, starts, calls and
ticks are bounded, so an instance stops when its budget is spent.

The runs take `Grace = 0`: a tick of the clock takes a message from recent to
historical, so both sides of the cutoff occur within two ticks.

## Fairness

`UpdateHandler!FairSpec`: weak fairness of each worker's `Handle`. Every call out of
the process returns with an answer or an error (gotd and the MongoDB driver give
calls a connection to fail with), and gotd's loops call the handler for the next
message. Nothing is assumed of `Post`, `Tick` or `Restart`. How long a call
takes is not modelled there: a hanging MongoDB does hold up a worker, and
`StatusCommand` lets registrations hang for ever.

`Registry` and `SessionStore` assume no fairness: a call may hang for ever.

`Lifecycle!FairSpec`: weak fairness of `main`'s steps, whose calls all have
timeouts, and of `Start`'s outside the prompt and the updates, whose calls return
or lose their connection. Nothing is assumed of the user at the prompt, of
handlers, of signals or of launches; that a process told to stop ends
(`Settles`) rests on `main` alone.

`StatusCommand!FairSpec`: time passes, and a context whose deadline has passed
ends its call. That MongoDB ever answers, or the driver ever gives up by itself,
is not assumed.

## Findings

- A copy that the account posts to a supergroup as a channel is not recognised
  as its own (`messageAuthorUserID`, `userbot.go:733`), so a bot's reply to it is
  mirrored, against `README.md:42` (`PostsAsChannel`).
- Of a reply header only the number is read (`inputReplyToFromMessage`,
  `userbot.go:875`). A copy of a bot's reply to a message of another chat replies
  to whatever has that number in this chat, against `README.md:44`
  (`CrossChatReply`). Whether the reply is to the account is looked up under the
  same number.
- A failed registration does not abort the handler, against
  `memory-bank/error-handling-guidelines.md:25` (`MongoDown`).
- A message from up to ten seconds before the process start is not ignored
  (`historyCutoffGrace`, `userbot.go:414`; `userbot_test.go:431` wants it so), where
  `README.md:43` says that history "from before the current process start" is.
  `MirrorService!Recent` and `RepeatsOnlyWithinGrace` state what the code keeps, with
  `Grace`; no run is spent on the sentence.
- `last_seen_at` may go back when two workers see the same user, against the
  comment at `internal/feature/user/registrar.go:23` (`LastSeen`).
- `-login` asks for nothing when the stored key is authorized
  (`userbot.go:245`). A login with another account's phone stores that account's
  session before the owner check refuses it, and every later `-login` is refused
  in the same way, against `memory-bank/architecture.md:28`, until the file is
  deleted (`LoginTrap`).

Not counted as findings: the reply check fails open when the look-up fails or
the target is deleted; `NeverMirrorsRepliesToUserbot` is therefore checked where
look-ups succeed and replies stay in their chat, and
`MirroredRepliesAreExplained`, which admits that failure, everywhere else. Of the
three reasons that property admits, replies across chats are left out of
`FaultyWorld`, whose bounds do not hold the three posts they take; the theorem
`RepliesExplained` covers them. Broadcast channels are stored among the groups,
where `memory-bank/architecture.md:31` speaks of groups and supergroups only.

## Proofs

TLAPS proves, for every value of the constants that the modules' `ASSUME`s allow:

- `UpdateHandlerProofs`: `TypeCorrect`, `VerdictsAreTrue` and
  `OnlyBotOrdersMirrored`. That only bot orders are mirrored rests on what the
  call that mirrors believes about its sender, so the inductive invariant adds
  that the cache is true, that a call in flight is about a logged message and
  if it takes that message's sender for a bot, it is one, and that every post names a
  logged source. The claim is then established by the one action that makes
  copies; the others only append to `log` or leave it alone.
- `ServiceProofs`, on top of it: `SelfTalkEnds`, `RepeatsAreRecent`,
  `TalkBound`, and `ServiceIsKept`, the refinement of `MirrorService`. A post's promise is about the
  whole log, so the invariant (`OInv`) says where everyone stands in it: a worker
  only moves on, so the message it is about to answer is later than all that
  this process has answered for it (`TurnsOK`, `AnswersInOrder`); log entries are dated, and those
  of earlier processes are older than this one (`Dated`), so that what a second
  process repeats must have been within the grace. Each step appends one `Sound`
  entry or none; the appended entry is the service's atomic copy or answer,
  everything else is a stutter. `TalkBound` counts: by the same invariant two
  posts differ in the message they are for or in the process that made them
  (`CausesDiffer`), a copy is for a message of somebody else, and an answer for
  one of those or for a copy, so there are no more posts than such pairs.
- `LookupProofs`: `RegisteredFirst`, `RepliesExplained`, `RepliesStayUnmirrored`
  and `NothingOwedIsDropped`. The invariant (`KInv`) says what a call has stored
  (`Stored`) and what it knows of the message replied to (`Learnt`) by each point
  of the handler, and that collections only grow. `RepliesExplained` holds in
  every world: a call that mirrors a reply has looked its target up and either
  failed or read the author that the target still shows. `RepliesStayUnmirrored`
  is its corollary for a `Clean` world: reply targets are in the same chat and can
  be read, and an outgoing message names the account or nobody.
  `NothingOwedIsDropped` is the other direction, without which a userbot that
  posts nothing would satisfy everything else. A worker passes a message by
  ignoring it or by ending its call. It ignores only what is older than the
  process, and what comes to a running process is not (`Fresh`); and by the time a
  call decides about an order that is owed a copy it knows the sender for a bot,
  told by the entities, the cache or the look-up, and its target for not the
  account's (`Ready`). What is owed is said in `OwedCopy` and `OwedAnswer`: the peer
  resolves, Telegram takes what is posted (no fault `send`), and it names the
  sender (no fault `sender`, unless the entities already did); MongoDB and the
  reply look-up may fail at will.
- `RegistryProofs`: `TypeCorrect`, `NoDuplicates`, `NeverTwoOwners`,
  `OwnerOnRecord`, and the action properties `HistoryIsKept` and `TitlesStay`.
  `AtMostOneOwner` is not inductive by itself: the owner's
  upsert could add one. The strengthening says that calls are only in flight in
  the phases that make them, that the unique indexes exist from then on, that a
  call writes to the document it matched, and that from the demotion to the
  end of the bootstrap nobody but the configured owner is an owner. The action
  properties follow because every step of it keeps the collections, sets fields
  of the document a call matched, or appends a document.
- `DirectoryProofs`: `ImplementsDirectory`, the refinement of `Directory`, from the
  invariant of `RegistryProofs`. It needs one fact more, `Dated`: the time a call
  carries is one the clock has shown, so that somebody met is known since a time
  that is not 0 and not to come. That each id has at most one document makes the
  mapping a function of what was written (`PersonIs`, `GroupIs`), and that a call
  writes to the document it matched makes each write one stroke (`OneStroke`).
  The two writes of `EnsureOwner` are `Depose` and `Crown`; that the second finds
  nobody else an owner, which `Crown` demands, is what `RegistryProofs` says of
  the phases in between.
- `SessionStoreProofs`: `TypeCorrect`, `NeverHalfASession`, `StoresCleanUp` and
  `ImplementsRegister`, the refinement of `SessionRegister`. The strengthening:
  a store that has not renamed has its inode to itself; what is to be renamed
  or has been opened is completely written. Under it `Rename` is the register's
  store, `Open` its load, its `NotFound` or its `Fail`, `Decrypt` its reply or its
  `Fail`, `Kill` its forgetting, and the other steps are stutters. That `Decrypt`
  refuses only what has another passphrase is the point where completeness of
  what was opened is needed.
- `LifecycleProofs`: `TypeCorrect`, `ServesTheOwner`, `MongoIsThere`,
  `NothingFromDotEnv`, `ExitCodesTellWhy`. Who is served is decided once, at the
  owner check, by the account of a key; the invariant says that a serving
  process's key is the owner's, and every step keeps the accounts of keys that
  have one (`KeysKept`), whatever other processes do to the file. The exit code
  follows from where `main` came from (`Phased`), MongoDB's state from where it
  is. `RuntimeWins` is about `Load` alone: `.env` can only be added if `APP_ENV` is
  development already, and then it stays so. Required variables of a
  configuration in use are values (`LoadType`), because `Load` refuses blanks.
- `StatusCommandProofs`: `IdsAreDistinct` and `IdsAreCanonical`, for ids between 0
  and the prefix, which is what Telegram gives; `TypeCorrect`, `NoTwoChatsShareAnId` (from
  `IdsAreDistinct`, one registration at a time), `StatusIsTrue` (the collections
  only grow, and a reply was true when the server gave it) and `AlwaysInTime`
  (what a timer has left and what has been spent add up).

Left to TLC: liveness (`AllHandled`, `Settles`, `CommandsAnswered`), which needs
`ENABLED`. Every safety and action property of the passing runs is proved, `NeverMirrorsRepliesToUserbot` for `Clean` worlds, and
so is every refinement.

## Not modelled, and the plan

Not covered by a property, and noted with their hazards: an order lost with its
process or its send, which nothing retries; a post whose chat the update does
not describe; a registration that hangs before a command begins; the size of the
sender cache (it only grows, and no bound is promised), writes of a dead process that
reach the server late, power loss, two processes that both serve. Late writes
and two serving processes need the composition of `Lifecycle` with `Registry`
and `UpdateHandler`, which is the next thing to build; power loss needs a file
system in `SessionStore` that keeps directory entries and contents apart.

Of `Config`, `FormatRedacted` and its masks are wording, and so is which of
several errors is reported. Of logging, only the level check of `Setup` matters
to the process and is part of `LoadConfig`.

Out of scope: the text of the terminal prompts, the domain repositories `main`
does not use, and the insides of gotd, Telegram and MongoDB, which are modelled
from how the code uses them.
