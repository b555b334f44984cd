# A TLA+ model of yma-common

`yma-common` is a Rust workspace of about 35 crates (`yma-*`) that services share:
authentication, CSRF tokens, id generation, rate limiting, events, scheduling,
payments and so on. There is no main program: each crate offers a few types
that a service owns, usually in an `Arc` used by many request handlers at once.
The correctness of the workspace is therefore the correctness of these shared
objects under concurrent callers, over long sequences of calls, and as time
passes. That is what this directory models, checks with TLC and proves with
TLAPS. Paths below are relative to the repository.

1. [Inventory](#1-inventory)
2. [Modules](#2-modules)
3. [How the modules correspond to the code](#3-how-the-modules-correspond-to-the-code)
4. [Runs](#4-runs)
5. [What the code does that its documentation does not say](#5-what-the-code-does-that-its-documentation-does-not-say)
6. [Proofs](#6-proofs)
7. [What is not modelled, and abstractions](#7-what-is-not-modelled-and-abstractions)
8. [Plan](#8-plan)

## 1. Inventory

The crates do not call each other, but for functions without state (page arithmetic
in the audit log and the search client, response codes in pagination, random numbers
in the CSRF store): a service wires them together. Interaction is therefore between
threads or tasks inside one component, between a component and the clock, and
between a component and what lies outside the process (a database, a server, a file
system).

### Security and accounts

| component | state | hard behaviour | what must hold |
|---|---|---|---|
| Session store, `yma-auth/src/session.rs` | two maps behind two locks | two-lock operations in two different orders | the maps agree, the per-user limit holds, counts are right, every call returns |
| Refresh tokens, `session_refresh.rs` | records and per-user lists, `&mut self` | long sequences of rotation, revocation, sweeping, expiry | a dead token stays dead, revoke-all leaves nothing usable, the limit holds |
| CSRF tokens, `yma-csrf` | a `DashMap` from session to token | look-up and removal are two accesses | a spent token is gone; a validation waits for nothing but other look-ups of its entry |
| Challenges, `challenge.rs` | two maps behind two locks | the clock is read before the locks are waited for | solved at most once, the limit holds, open challenges stay |
| Brute-force guard, `brute_force.rs` | records behind one lock | decides under the read lock, acts under the write lock | failures are counted, nobody is locked without enough of them |
| Users and logins, `auth_service.rs`, `user.rs` | users behind a lock | login reads under one lock and writes under another; giving a role is two locks | a login undoes no decision; a token says what the store says |
| Roles and permissions, `role.rs`, `permission.rs`, `rbac.rs` | lists of roles with parents, permissions | any sequence of calls; a recursion over parents | the walk along the parents answers what inheritance says |
| Second factor, sign-on, `mfa.rs`, `totp.rs`, `sso.rs` | secrets, backup codes, states of sign-ons | once-only codes and states, time windows | what is good once is good once |
| API keys, `api_key.rs`, `api_key_store.rs` | records and per-tenant lists | prefixes that collide, expiry, disabling | a tenant is shown its keys; lists and records agree where no prefix was drawn twice |
| Tokens and access rules, `jwt.rs`, `middleware.rs` | none | chains of refreshes, subjects that are no UUID | nobody gains by refreshing |
| Key pool, `yma-crypto/src/key_pool.rs` | pools of keys | expiry against deactivation against capacity | a key out of use stays out |

### Communication and resources

| component | state | hard behaviour | what must hold |
|---|---|---|---|
| Snowflake ids, `yma-id` | last timestamp and sequence | clocks set back, also during a wait | ids increase, no id twice |
| Rate limiter, `yma-rate-limit` | a window per client | one window under several rules, stale clocks | no rule admits more than it allows |
| Scheduler, `yma-scheduler` | table of tasks, cron jobs | overlapping runs, panics, stop that only relabels | Running means run; only a firing takes a task out of Paused; removal stands |
| Event bus, `yma-events` | broadcast channel, history | spawned persistence, bounded channels, lag | a subscription delivers in order, the history is complete |
| WebSocket rooms, `yma-websocket` | a channel per room, two tasks per connection | removal and re-creation, lost clients, clients that stop reading | delivery to a room; places are given back unless a client stops reading |
| P2P node, `yma-p2p` | peers, bounded event queue | state change and event are not atomic, calls dropped in between | events tell who is connected, but for crossed or dropped calls |
| Social graph, `yma-social` | follow edges, blocks, users behind three locks | check-then-act between follow and block | a block severs following, views agree |
| Sandbox, `yma-sandbox` | guest, sampler, peak | racing updates, who ends the sampler | the peak is the largest size |
| Migrations, `yma-migration` | records in a `DashMap`, the database | a guard held across another access, restarts | what is committed is recorded |
| Redis pool, `yma-redis-pool` | the keys on the server | lost replies, expiry | a lock has one holder |
| Health and metrics, `yma-health`, `yma-metrics` | gauges, registries | cancelled requests, changing systems | reports are true |
| File storage, `yma-storage` | files | writes in two steps, overlaps, failures, crashes, colliding names | a read answers what was written |
| Audit log, `yma-audit` | rows | two statements per query | a page is the rows of its place |
| Configuration, `yma-config` | value, channel, file | stores and sends in two steps, coarse file times | subscribers and file are followed |
| Log files, `yma-logging` | files, a counter | writers that roll over at once, restarts | files stay bounded |
| SSH client, `yma-ssh` | one command | messages in any order, lost connections, deadlines | results are those of the command, if the connection held |
| Search client, `yma-search-client` | indexes behind a queue of tasks | lost requests and replies, failed tasks | answered changes are seen |
| API versions, `yma-api-version` | versions | sequences of registrations | there is a current version, answers agree |

### Without state

The word filter and the masks (`yma-sensitive-filter`, `yma-data-masking`),
validators (`yma-validation`), page arithmetic (`yma-pagination`), the layers
around a handler (`yma-xss`, `yma-sql-guard`, `yma-security-headers`,
`yma-upload`, `yma-api-response`), conditions of mails (`yma-email`): modelled
as operators and compared with what they are for. Payments, advertising, the LLM
client, password hashing, the key hierarchy, ciphers and digests are not
modelled (section 7).

## 2. Modules

| module | role |
|---|---|
| `SessionRegistry` | abstract specification: one table of sessions, every operation atomic |
| `SessionStore` | the two maps and two locks of `session.rs`; refines `SessionRegistry` |
| `SessionStoreProofs` | inductive invariant and refinement, proved |
| `RefreshTokens`, `RefreshTokenProofs` | life of refresh tokens; invariants and two action properties, proved |
| `Snowflake` | `next_id` under a clock that jumps; invariants and an action property, proved in `LibraryProofs` |
| `CsrfProtection`, `CsrfProofs` | the two accesses of `validate_token`; invariants proved, and the one-time token where validations do not overlap |
| `ChallengeManager`, `ChallengeProofs` | the two locks and early clock readings of `challenge.rs`; invariants and an action property, proved |
| `BruteForceGuard`, `BruteForceProofs` | the read-decide-write cycle of `brute_force.rs`, with parking_lot's lock; invariants and an action property, proved |
| `RoleStore`, `Accounts` | roles and permissions; users and logins, composed with the roles they name (`Accounts` extends `RoleStore` and lets roles change between the steps of a call) |
| `AccessRules` | collection of inherited permissions, levels, public paths, tokens |
| `LoginFactors` | second factors; states of single sign-on |
| `ApiKeys`, `KeyPools` | keys by prefix and tenant; pools of keys |
| `RateLimiter` | windows, rules and racing checks |
| `Scheduler` | tasks and overlapping runs |
| `EventBus`, `WsRooms`, `P2PNode` | broadcast channels with lag, room life cycle, bounded queue |
| `SocialGraph` | relations and their pages |
| `Sandbox`, `Migrations`, `RedisPool`, `HealthMetrics` | resources and what is outside the process |
| `FileStorage`, `AuditLog`, `ConfigReload`, `LogFiles` | files and rows |
| `SshCommand`, `SearchClient` (extends `AuditLog` for its page arithmetic) | clients of a server that has a mind of its own |
| `TextFilters`, `RequestFilters` | functions on texts, inputs and requests; the versions of the interface |
| `Lists` | what `Vec::retain`, a removal by place and a filtering iterator do to a list |
| `Services` | the components from `Accounts` on side by side, and the functions |
| `ServiceProofs` | theorems about `Scheduler`, `SocialGraph`, `RateLimiter`, `RedisPool`, `Sandbox`, `ConfigReload`, `FileStorage`, `WsRooms`, `LogFiles`, `LoginFactors` (second factors), `SearchClient`, `P2PNode`, `RoleStore` and `EventBus`, and the lemmas about `Lists` |
| `LibraryProofs` | theorems about `Snowflake`, the functions of `TextFilters`, `AccessRules` and `RequestFilters`, the versions of `RequestFilters`, `HealthMetrics`, `AuditLog` and the pages of `SearchClient` |
| `SystemProofs` | theorems about `Accounts`, `LoginFactors` (single sign-on), `ApiKeys`, `KeyPools`, the pages of `SocialGraph`, the types of `Migrations` and `SshCommand`; and about `Services`, from all of them |
| `MC...` | constants for TLC; the symmetry of `SessionStore` (`RefreshTokens` and `ChallengeManager` define their own) |

No module declares `RECURSIVE` operators: what is recursive in the code is a
recursive function here. The bodies `RequestFilters` looks at are trees, and its
functions go down at most `MaxNesting` levels, which is more than the deepest
body of the run has. Operators whose
comment starts with "Mutant of" are plausible mistakes in the code (a dropped
guard, an off-by-one, a lost update). They occur in no specification;
substituting one for the definition it names must make TLC reject the property
it is meant for, which shows that the property can fail.

**The sum of components.** A run of its own for each of twenty-four small
components would say no more than one run of `Services`. They share no
variable and no crate calls another, so a behaviour of all of them side by side
is one behaviour of each. `service` is chosen in the initial state; the actions
of that component alone are enabled, the others stay where they start
(`Others`). The reachable states are thus the disjoint union of the components'
and not their product, and every component is explored completely.
The functions without state are one more component: `input` is an arbitrary
member of the inputs to be looked at, and the property relates what the
functions make of it to a definition of what they are for. A property of
`Services` is a conjunction of the named properties of the components, each
stated and commented in its own module.
Two components have more than one initial state (the size of log files, the
status of a command); `LogStart` and `SshStart` fix one while another
component is looked at.

## 3. How the modules correspond to the code

**Granularity.** A call that holds one lock throughout is one action. A call is
split wherever another thread or task can run with an effect that matters:
between two lock acquisitions, between a clock reading and the lock it
precedes, between a guard that is dropped and the next access, at an await.
The names `...Begin` and `...Finish` mark the halves; `call[t]` and its kin
(`socialCall`, `nodeCall`, `storageCall`, ...) hold the local variables that
live across such a point. Early returns that change nothing are stuttering
disjuncts where a property or a mutant needs them, and left out elsewhere.

**History variables** carry what happened and nothing the code keeps: they are
declared with the comment `history` and no guard reads them (`doubted`,
`told`, `panicked`, `spentCodes`, `decided`, `judged`, `meant`, ...). Most name the
exception a property needs: "unless the two calls ran at the same time". The
property is then exact: what is promised of calls that do not meet, and what
can be left when they do.

**SessionStore.** `sessions` and `user_sessions` are the two maps;
`NoSession` is an absent key, and a user's `Vec` is a set since ids are fresh
(`issued`). `CreateBegin` is lines 73-82 of `session.rs` (lock, limit, push),
`CreateFinish` 82-84; `RemoveBegin` 111-115, `RemoveFinish` 115-121;
`RemoveUserBegin/Finish` 123-134; `CleanupBegin/Finish` 140-156. A step waits
for a lock by a guard on `sessions_lock` or `user_sessions_lock`. The closure
that `update_session` takes is one that extends the time to live: the other
setters write fields no operation reads. `ImplementsRegistry` maps the store to
`SessionRegistry` by keeping `sessions` and computing `retired`: creation takes
effect in `CreateFinish`, removals when the table changes.

**RefreshTokens.** Actions are the methods; `&mut self` makes them atomic.
`rotated` is `rotated_from.is_some()`, `revoked` is `revoked_at.is_some()`;
`Status`, `InGrace` and `Validates` are `get_token_status` (218-230),
`check_rotation_grace` (232-243) and `validate_token` (125-146).
`RotateRefused` is `rotate_token` when `issue_token` fails on the limit: the
mark of lines 174-178 stays.

**CsrfProtection.** A call is idle, `comparing` (it holds the DashMap read
guard of line 104), or `removing` (the guard is dropped and the entry will be
removed, lines 110 or 123). `Guarded(s)` keeps writers of the entry out;
guards of different sessions do not disturb each other, that is, the sessions
are in different shards. `Expire` is the passage of a token's time to live.

**Snowflake.** `next_id` is one action unless the sequence is used up, which is
three: `SequenceExhausted` (127-130), `SpinEnds` (130-139, the loop has read a
later clock and sequence is reset) and the recursive call of line 140, which
reads the clock again. `ClockMoves` is the node's wall clock, which may be set
back for the generators in `Unsteady`. `Packed` keeps the structure of the
64-bit id: timestamp, the node bits as a set of bit positions (so that the
shifts of lines 148-151 overlap as they do in the code) and the sequence.

**ChallengeManager.** `Generate` draws the id and reads the clock, `StoreBegin`
takes `user_challenges`, checks and pushes, `StoreFinish` takes `challenges`
and inserts; `Cleanup` reads the clock, `CleanupBegin` takes `challenges`,
`CleanupFinish` takes `user_challenges` and sweeps. `verify` is `VerifyRight`
or `VerifyWrong`: the answer itself is right or wrong by choice.

**BruteForceGuard.** `since` is the clock a call read before it waited for the
lock. `checking` is the first read lock of `check`; its outcomes are the
actions `Found...`. `FoundNothing` keeps its read guard and `CountRemaining`
takes the second one. `Announce` is a writer queueing in parking_lot, after
which no read lock is given out; the writer proceeds when the readers have left.
`now - first_attempt_at` is an unsigned subtraction that wraps in a release
build when `now` is stale: `InWindow` is false then.

**Accounts, RoleStore.** The users are a sequence, found by the first match, as
in the code. `LoginReads` is the look-up under the read lock and its copy,
`Rewritten` the write of the last login (the user is looked up again by name
and only the time is set), `LoginIssues` the token made from the copy.
`login` asks whether the user is active, `login_handler` does not (`via`).
`AssignReads/AssignWrites` are `add_role_to_user`: the code of the role under one
lock, the user under another. `HasPermissionRecursive` follows parents by an
`Ancestor` function; more steps than there are roles is a cycle, where the code
recurses until the stack ends. `RolesStand` and `WalkAgrees` hold for the
calls as they are: a cycle is reachable and the walk then fails to answer,
which is what the property says.

**LoginFactors, ApiKeys, KeyPools.** A time-based code is the pair of secret and
interval; the window of `verify` counts seconds as the code does. A state of a
sign-on is taken off its list whether it is in time or not. An API key is its
prefix: `validate_key` finds the record by the prefix alone and compares the secret
with nothing, so `WellFormed`, which looks at the lengths of both parts, is all the
rest of a key has to pass. Drawing a prefix that is in use replaces the record and
leaves the entry on the other tenant's list (`drawnTwice` names those keys).
`GetTenantKeys` shows a tenant the records its list leads to, whosever they are.
`GetKey` and `GetKeyTooLate` are the two outcomes of `get_key`, which notices expiry
and takes the key out of use.

**RateLimiter.** `CheckBegin` picks the client and the rule and reads the clock,
`CheckCounts` is `check_memory` under the entry's guard. The rule is any whose
prefix fits, since the table of prefixes is a hash table. The constants pair an
endpoint that has two rules, one of them of a limit given as 0 and raised to 1,
with a default of another window. The rules are those `new` makes (`NewRule`); the
fields are public and a rule can be deserialized, so other limits are possible.

**Scheduler.** A run is a job's future: `Fire` sets Running, `RunEnds` resets it
(conditionally for a cron task, to Failed for a once task), `RunPanics` is a
panic inside the awaited future. `Stop` takes the entries and `StopEntry` relabels
one, so runs end in between; nothing unschedules a job.

**EventBus, WsRooms, P2PNode.** A tokio broadcast channel keeps its last
`Capacity` messages; a receiver further behind skips to the oldest kept and is
told so (`ForwardLags`, `SendLags`; `skipped`). `Forward` is the task of a filtered
subscription, `Persist(i)` the task spawned for event `i`. In `WsRooms`, `log`
counts a channel's messages, a closed channel is one no room holds. The send task of
a connection is at its `select!` or in a write: `SendMessage`, `SendPing` and
`SendTold` (the close frame) begin one, `WriteDone` ends it, and while it lasts, which is
as long as the client does not read, the task looks at nothing else; `WriteFails` is
a connection that was reset. The task ends by `SendSeesClosed`, by `SendTold` or by a
failed write, the receive task by `ReceiveEnds`. In `P2PNode`, `Tell` leaves the call
waiting for room in the queue, `CallDropped` is a call dropped there, whose change stands
and whose event is never sent, and `view` is what a reader of the events believes;
`doubted` holds the peers of whom it may believe something else because two calls
crossed or one was dropped, until a call that runs alone tells of them again.

**SocialGraph.** Each critical section is an action: `FollowBegin` (blocks),
`FollowFinish` (followers), `BlockBegin`, `BlockUnfollowed`, `BlockFinish`. A page
(`PageOf`) is a piece of the ids in some order of the hash table, of which
`filter_map` keeps the registered ones (`Retain`). `EachOnce` says of all the
pages of a list together that they show a set, and each member in one place.

**Sandbox, Migrations.** Both contain steps that are translated as they stand
and can never be taken, because the code waits for itself: `MarkApplied`
(`get_mut` under the call's own read guard, `yma-migration` line 180) and
`SamplerEnds`, `SpawnReturns` (the sampler holds the only sender of its own
shutdown channel, `runtime.rs` 115-141). A restart of the process frees the
guards and loads the files anew.

**FileStorage, ConfigReload, LogFiles.** A write of a file is the truncation and
the filling, with other calls or a crash in between. Each writer has its own
descriptor and fills from the start of the file: one that finds the file empty leaves
its value, one that finds something there leaves a mixture (`Torn`). `CallFails` is a
write or another access that the system refuses, perhaps after a part. A file removed
while it is filled is filled where nobody sees it. Keys are mapped to files by `FileOf`,
which maps two of the three keys of the run to one file. The configuration is
stored, the lock given back, and then sent; the watcher notes the file's time
before it reads. A log line asks the counter, chooses the file, appends and
counts in separate steps. Sizes are lines.

**AuditLog, SearchClient.** A query is `QueryCounts` and `QueryFetches`; `Offset`
wraps at `WordSize`. Rows get increasing times: that two rows of one instant can
come in either order, and that `NOW()` is the start of a transaction, is not
modelled. The search server is a queue of tasks that runs each in
order and may fail any; requests and their answers may be lost
(`PostsTask(arrives, heard)`), and a wait may give up.

**SshCommand.** The server sends output, the exit status and the end of output in
any order it likes and may close the channel. `ConnectionLost` loses what is on its
way; `execute` cannot tell the one from the other and answers with what it has. The
client's loop looks at the deadline between two messages.

**RedisPool.** A command is a function on the value of a key; `...Lost` is a
command carried out whose reply is lost. The lock protocol of the model
(`TakeLock`, `Extend`, `GiveBack`) is the one the documentation of `set_nx`
suggests.

**HealthMetrics.** `check_all` asks its checks one by one while the system
changes (`CheckNext` chooses an answer); `RequestDropped` is the future that is
dropped in `next.run`.

**TextFilters.** A node of the trie is the path that leads to it; failure links are
computed level by level as a recursive function, outputs by adding the link's.
`WordsFound` compares a pass of the automaton with a search for occurrences, for
every list of at most two words of at most three letters and every text of four,
with each of `Replacements` as the sign put in, one of which is a letter. Masks work
on texts in which each character is its own position, so what a masked text still
shows can be read off it.

**TextFilters (validators), RequestFilters, AccessRules.** A body is a tree; a text
is described by what the layers ask of it (which rules match, whether it has a
bracket). Which texts match a pattern is given, never computed. A password is the
number of characters of each class, with the byte length the code uses. A token is
signed or not and its subject a user or no UUID at all, which `FromClaims` makes the
nil user; `Authenticate` runs the handler with the context, runs it without one on a
public path, or answers 401. Versions are compared as numbers; the code sorts their
texts, in which `v10` comes before `v2`.

## 4. Runs

Model values, two or three threads, and a clock of two to five ticks. Every
interesting event needs few of each: a conflict needs two threads (three in the
session store, so that two calls can be half done while a third runs), a limit
of two needs three ids, expiry of a `ttl` needs `ttl` ticks, and a time to live
of 0 or 1 expires while a call waits. The names beginning with `Max` bound
clocks, numbers of drawn ids and of calls; ids and tokens are finite sets of
values that are never drawn twice, so a behaviour ends when they are used up.

| run | states | shows |
|---|---|---|
| `session_mixed` | 7 285 (symmetry) | the five operations in any interleaving: agreement of the maps, the limit, exact counts, refinement of `SessionRegistry` |
| `refresh_tokens` | 43 748 (symmetry) | rotation on and off: the limit, dead tokens stay dead, revoke-all is complete |
| `csrf_concurrent` | 26 514 | three overlapping validations of two sessions: a spent token is gone, a validation returns unless others look its entry up for ever |
| `snowflake_nodes` | 12 960 | three nodes, one with a clock that is set back at will: increasing ids, no repetition under a steady clock, packed ids that collide only for workers that agree modulo 32 |
| `challenge_store` | 131 363 (symmetry) | generators, answers, sweeps: agreement of the maps, the limit, open challenges are not swept |
| `brute_guard` | 1 545 255 | two threads, one identifier shared and one private to a thread: no invented failures, bounded locks; for the private identifier also no lost failures and no lock without `MAX_ATTEMPTS` failures |
| `services` | 705 217 | twenty-three components with state and the functions, each explored by itself: see the table below |
| `ws_places` | 70 419 | liveness of the rooms: a connection that was reset ends its send task and gives its place back, and so does one whose client closed or whose room was removed, unless the client stops reading for ever in the middle of a write |
| `session_deadlock`, `csrf_double_accept`, `snowflake_wide`, `migration_stuck` | | refuted, see the next section |

`MAX_SEQUENCE` is 1 instead of 4095 (two ids per millisecond: one more than the
limit is reached with three calls), and the clocks show two milliseconds; worker and
data-centre ids are real ones. Channels hold two messages and three are sent, so a
receiver can lag; a pool holds two keys and three can be drawn; two tasks run of
each kind that can overlap. `WordSize` is 16 and queries ask for page 7, so that the
offset of a page wraps. Symmetry is used only where the run has no liveness property
and the model values are interchangeable.

What each property of `services` is made of:

| property | from |
|---|---|
| `BusDelivers` | `FilteredDelivery`, `HistoryComplete` |
| `AnswersAreTrue` | `PeakIsLargest` (sandbox), `ReportsAreTrue` (health), `PagesMatchTotal` (audit), `PagesCutUp`, `SearchedPagesAgree` (page arithmetic), `VersionsHold`, `ConfigFollowed`, `LogFilesBounded`, `ChangesAreSeen` (search), `SocialViewsAgree` |
| `AccountsHold` | `LoginsAreFaithful`, `RolesStand`, `WalkAgrees` |
| `CredentialsHold` | `SecondFactorHolds`, `StatesAnsweredOnce`, `PoolsHold` |
| `TextsHold` | `WordsFound`, `MasksHold`, `CheckDigitCatches`, `OctetsHold`, `PasswordsHold`, `InputsCleaned`, `FilenamesHold` |
| `RulesHold` | `RolesCollected`, `TokensHold`, `BodiesHold`, `UploadsHold`, `BatchHolds`, `HeadersHold`, `LevelsAgree`, `StatusesAgree` |
| one component each | `RoomDelivery`, `EventsTellPeers`, `BlockSeversFollowing`, `RunningIsRun`, `OnlyFiringResumes`, `ReadsAreTrue` (storage), `ResultsAreTrue` (SSH), `KeyListsAgree`, `WindowsHold` |

**Fairness.** Safety runs use specifications without fairness. `FairSpec` of the session
store adds strong fairness on the steps that complete a call: a
thread that is running keeps being scheduled, and a thread waiting for a
parking_lot lock gets it eventually if it is released again and again
(parking_lot hands locks over fairly from time to time). The shards of a DashMap
promise a waiting writer nothing of the kind: `FairSpec` of CSRF has weak fairness
only, and with three threads two readers that take turns do keep a removal
waiting for ever. `ValidationReturns` therefore says that a validation returns
unless other requests go on looking its entry up for ever: what it
excludes is a call that waits for a guard of its own, or two that wait for each
other. `WsSpec` has weak fairness on the receive task, which the runtime polls
whenever it can go on, and strong fairness on the branches of the send task:
`tokio::select!` picks among the ready branches at random, so one that is ready
at one select after another is taken. A write on a connection that was reset fails
sooner or later. That any other write is done is owed to nobody: a client need not
read, the code has no time-out, and `PlacesGivenBack` promises nothing for a send
task that stays in a write, nor for a client that is silent. `MigrationSpec` has weak
fairness on the steps of a call that has begun, the failing outcome of a commit
included. Nobody is obliged to start a call and the clock may stand still.

**Deadlock.** `CHECK_DEADLOCK FALSE` stands in the session, challenge and brute
runs because the code can really stop: two calls that hold one lock each
(section 5). It stands in `services` and `ws_places` because behaviours end
when the bounded ids, events and ticks are used up, and because functions take no step
at all. In the others TLC checks that the system never stops.

## 5. What the code does that its documentation does not say

Four statements of a comment or a test are refuted by a run of their own, with
the counterexample TLC finds.

* **`session_deadlock`** (`CallsReturn`). `remove_session` and
  `cleanup_expired` take `sessions` then `user_sessions`; `create_session` and
  `remove_user_sessions` the other way round. Two threads stop for ever, and
  with them everyone who needs either map. `challenge.rs` (127-128 against
  145-151) has the same shape; its model reaches that stop too.
* **`csrf_double_accept`** (`OneTimeToken`). Two overlapping validations of a
  token are both answered true (guard dropped at 120, removal at 123).
* **`snowflake_wide`** (`PackedIdsUnique`). The documentation gives the worker id
  ten bits of its own (`yma-id/src/lib.rs` 37, 56) and `new` admits 0 to 1023; the
  shifts of lines 148-151 leave it five, and the upper five fall on the data
  centre's. Worker 33 of data centre 2 and worker 1 of data centre 3 make the same
  ids. `PackedIdsTell` says which ids can collide at all: those of workers that
  agree modulo 32, and below worker 32 only within one data centre.
* **`migration_stuck`** (`CommittedIsRecorded`). `apply_migration` commits and
  then waits for a write guard that its own read guard keeps away (line 180
  under 139): the migration is in the database, the record never says so, and
  the caller is never answered.

Reachable in the models, or read in the code while modelling, without a run of
their own. The properties of section 4 are stated so that they say what the
code does keep next to these:

* `yma-auth`: `check` of the brute-force guard holds its first read guard while
  `remaining_attempts` asks for a second (`brute_force.rs` 60, then 102): a writer
  that queues in between stops both. `check` acts on what it read before it let go of
  its lock, so it can erase failures recorded since (55) or lock a record that
  was cleared and begun anew (47); the properties of `brute_guard` speak of
  identifiers one thread at a time is about.
* A rotation at the limit marks the old refresh token and fails: no successor
  (`session_refresh.rs` 175 before 180). The grace period runs from the issue of
  the old token (236), the comment (49) says from the rotation;
  `revoke_all_on_replay` (53) is never read; the limit (51) counts revoked
  tokens, which are never swept (251).
* `SnowflakeGenerator`: `sequence` is reset at line 139 while `last_timestamp`
  is still the exhausted millisecond, so a clock set back before the recursive
  call hands out ids of the old millisecond instead of an error; they have been
  used only under an unsteady clock, which is what `NoRepeats` says.
* The CSRF store removes the session's entry even when it has been replaced
  since the comparison (123), and the removal waits as long as there is a reader in
  the entry's shard, for ever if they keep coming.
* `login_handler` asks neither whether the user is active nor for `mfa_code`;
  `refresh` of `jwt.rs` (112) takes an access token as well and hands its permissions
  on, while the pair made from a refresh token has none; a subject that is no UUID
  becomes the nil user (`middleware.rs` 67), so all of those are one user to what
  looks at the id; `add_role` answers a taken code
  with the id of a role that was not added; a cycle of parents is accepted by
  `update_role` and `has_permission_recursive` does not come back from it;
  `collect_permissions` keeps role names and permission keys in one set, so a
  role called like a permission's key hides it, and of two permissions with one
  key (a name may hold a colon) the second is not listed.
* An API key passes by its prefix: the secret is compared with nothing
  (`api_key_store.rs` 87, `api_key.rs` 25), and the text of a deleted key passes again
  once its prefix is drawn anew. With a prefix drawn twice, one tenant is
  shown the other's key.
* `stop` of the scheduler ("停止调度器", `yma-scheduler/src/lib.rs` 275-278) writes
  Paused into the table and says so in the log; the jobs go on firing, and the next
  firing takes the task out of Paused.
* TOTP's window is counted in seconds, not in intervals: a code is good at most
  one second outside its own interval.
* `KeyPool`: the capacity given to `create_pool` is ignored; deactivated keys
  keep their place.
* The rate limiter keeps one window per client for all rules: a request
  under one rule resets or fills the window of another. The documentation's
  `redis-store` (line 6) has no code.
* `api-version`: `is_version_valid` is true of versions past their sunset; versions are
  sorted as texts.
* The audit log numbers the parameters of its filters and never binds a value:
  a query with a filter always fails. Rows of one instant have no order among them,
  so a page may repeat what the one before showed. `Pagination::new` and
  `parse_pagination_params` disagree on a size of 0; the offset wraps.
* File storage maps `/` and `\` to `_`: keys share files, and `list_keys` answers
  with the names of files. Two writes of one file that overlap leave a mixture of
  both values, and a write that failed or a crash during one leaves a part (133-135).
* `yma-websocket`: the time-out for a missing pong (line 135) is not implemented:
  a silent client keeps its place. One that stops reading keeps the send task in
  `sender.send(..).await` (152, 159, 170), also after its room was removed.
* `yma-events`: the history is in the order in which the tasks that persist ran, not
  in that of publication.
* `yma-p2p`: the events of two calls about one peer can come in the other order, and
  that of a call dropped while it waits for room (131) never comes; who follows the
  events then believes in a peer that has gone, or misses one that is there.
* `SandboxRuntime::spawn` never returns once the module has compiled.
* `yma-config`: without a receiver an update is not kept for those who subscribe
  later; of two updates that overlap, the one told last need not be the one in force; a
  rewrite in the tick the watcher has noted is not seen, nor is a file
  whose first reading failed.
* `yma-logging`: files are not split by day although lines 45-47 say so; 10 MB
  is the limit for choosing a file whatever size is asked for; two writers that
  roll over at once count lines of the new file as zero.
* `yma-ssh`: an end of output before the exit status gives status 0, and so does a lost
  connection, of which `execute` says nothing: it answers Ok with the output that
  had come (202); what
  authentication answers is not looked at, so `test_connection` says true; the
  deadline is only seen when a message arrives.
* `yma-search-client`: a failed task is not looked at, so Ok does not say that the
  change was made; `create_index` hands out an existing
  index with another key; with a configured page size above 100 the page
  answered is not the one searched.
* `filter_text` puts in whatever sign it is given: one that occurs in a word can
  leave a word in the text (the words `a` and `xx`, the sign `x`).
* `set_nx` as a lock: `del` does not ask whose lock it is, so a late holder
  gives back another's.

## 6. Proofs

TLAPS checks the following for every value of the constants (any number of
threads, users, ids, tasks, runs, any limit, any time), from the assumptions
named in the modules: limits and times are natural numbers, the "no value"
constants are not values.

**`SessionStoreProofs`.** The limit and the agreement of the maps are not
inductive alone: while a call is between its locks the maps differ. `StoreInv`
adds what ties a half-done call to the rest: `LocksHeldByCalls` (a lock is held
by exactly the call that took it first, so two halves never meet on one map),
`InFlightIdsFresh` (the id of a half-done call is issued, not in the table, and
nobody else's) and `ListsBounded` (the bound is on the lists, finite sets; the
table follows by inclusion). Theorems: `StoreTypeCorrect`, `StoreInvariant`,
`StoreIndexMatchesTable`, `StoreUserCapHolds`, `StoreRemoveUserCountExact` and
`StoreImplementsRegistry`, the refinement. In the refinement, the hard step is
`CreateFinish`: the registry asks for room in the table at the moment of
insertion, the store checked the list earlier (`RoomAtInsertion`: the new id is
already on the list and not in the table, so the table has room).

**`RefreshTokenProofs`.** `TokenInv` (types, lists and records agree, lists
bounded) is inductive; `RefreshTypeCorrect`, `RefreshListMatchesTokens` and
`RefreshTokenLimitHolds` follow. For the limit, the list is a finite set of known
length and the stored tokens are its members. `DeadTokensStayDead` uses the
invariant with two lemmas: a step changes a record only towards death
(`TokensOnlyAge`: marks are never taken back, the times in a record never
change, an issued value is never stored again) and time only advances.
`RevokeAllIsComplete` needs the agreement of lists and records, since revoke-all
visits the list.

**`LibraryProofs`**, the ids. `SnowflakeInv` states that every id of a generator lies
at or before (`last_timestamp`, `sequence`), except after the loop, when the
whole millisecond is used up (`Drained`). From it: `SnowflakeTypeCorrect`,
`SnowflakeIdsIncrease` (new ids increase whatever any clock does) and, with
`ClockAhead` for the generators whose clock does not go back,
`SnowflakeNoRepeats`. `SnowflakePackedIdsTell` is about the bits of the packed id:
a number below 32 is the sum of its five lowest bits, so the worker id modulo 32
can be read off the node field of any id, and the data centre off that of a worker
that fits its five bits.

**`ChallengeProofs`.** `ChallengeInv` has the shape of `StoreInv`.
`LocksHeldByCalls` keeps a generator between its two locks apart from every
sweep, `NewIdsFresh` makes the challenge that is being stored unknown to everyone
else, so list and table differ on it alone (`ChallengeListsMatch`), and the table
never holds more than the list, whose length is checked (`ChallengeCap`).
`SolvedIsUsed` ties the history of right answers to the mark in the table: an
answer sets both under one lock (`ChallengeSolvedOnce`). `ChallengesOpenStay` needs
`SweepsLookBack`: the clock a sweep has read is never ahead of the real one.

**`CsrfProofs`.** A token comes into use when it is generated, for one session,
and from then on the sets of those in use only get smaller (`UseOnlyShrinks`). So
the call that accepts a token removes the one entry that can hold it, although it
removes whatever is there: `CsrfSpentTokensAreGone`. A token can still be accepted
twice, as the run `csrf_double_accept` shows. `CsrfOneTimeWithoutOverlap` says that
this takes two validations which overlap: in every behaviour in which no two
calls that hold the same token do (`NoOverlap` in every state), a token is
accepted at most once. Its inductive invariant adds `SeenAreUnspent`: what a call
has copied and is about to accept has not been accepted.

**`BruteForceProofs`.** `check` decides under one lock and writes under another;
`failure_count` and `is_locked` look in between. For an identifier that at most
one thread is about (`Private`), what was decided stands until the write
(`VerdictsStand`), since others can only clear the record. That a window is found
over which is really over, and not one that began after the clock was read,
needs the order of the clock readings (`WindowsBegunBefore`), and the history of
reported failures has to be tied to the counters (`BurstsCounted`). `GuardInv` is
their conjunction with the types. `BruteForceFailuresCounted` and
`BruteForceLockedOnlyAfterMax` are invariants with a part about identifiers
nobody shares and a part about all of them; `BruteForceLockNeverShortened` is an
action property of the former. Which threads share which identifiers is a
constant, and arbitrary.

**`ServiceProofs`.** Fourteen of the components that `Services` is made of. The
theorems are about the component's own specification (`SchedulerSpec`,
`SocialSpec`, `RedisSpec`, `LimiterSpec`, `SandboxSpec`, `ConfigSpec`,
`StorageSpec`, `LogSpec`, `MfaSpec`, `SearchSpec`, `NodeSpec`, `RolesSpec`, `BusSpec`, and
`WsInit /\ [][WsNext]_wsVars`, since safety needs no fairness); `SystemProofs` carries
them over to the behaviours of `Services`.

* Scheduler: `RunningIsRun` is preserved by every step by itself, given the types:
  a run that ends takes the status with it, whatever other runs do.
  `OnlyFiringResumes` (the end of a run never puts a paused task back, only a firing
  makes one Running, what was removed stays removed) needs `UnusedIsAbsent` besides:
  the one action that puts an entry into the table does so for a task whose job was
  never added.
  `SetStatusFacts` says what the guarded assignment does to the table, entry by
  entry, and `StepKeeps` what a step may do to one task.
* Social graph: a follow looks at the blocks before it writes, a block writes the
  blocks before it removes the follow. `CrossingsNoted`: two such calls of one
  pair under way together are in `crossed`. Given that, a follow that is past
  its check meets a block only if they crossed (`FollowsChecked`), and so does a
  block that has still to remove a follow (`BlocksSever`); each of the two writes
  that could break `BlockSeversFollowing` is covered by one of them.
* Redis: `LocksAreBacked`: as long as a client may rely on its lock, the key is on
  the server, has its value, and has at least as long to live. Two clients that
  may rely on one key would both be its value. A key that a late holder has
  deleted (`late`, section 5) is excepted, in the invariant as in the property.
* Sandbox: an update of the peak loads, compares and stores. While no two overlap,
  there is one at a time and the peak it has loaded is still the peak
  (`LoadedIsCurrent`), so `PeakIsLargest`.
* Configuration: an update that ran alone stored last (`AloneIsLast`), so what it
  sends is in force. The watcher notes the file's time before it reads: what it is
  about to store is in the file unless that was written again in the tick it has
  noted (`StoringIsTheFile`), which `told.missed` records. Together: `ConfigFollowed`.
* File storage: a call that is alone on its file until it ends has met no write there
  (`AloneMeetsNoWrite`), so a write that is alone finds the file empty, as it left it
  (`AloneFillsEmpty`), and a file that nobody is filling is as it was meant to be: the
  last value, or a mixture or a part where writes met or failed (`FilesAreAsMeant`).
  Hence `ReadsAreTrue`, for any mapping of keys to files.
* WebSocket rooms: a room that is made takes a channel nobody has had, so two
  rooms never share one and no connection is on a channel of the future; along its
  channel a connection moves one message at a time or says that it skipped.
  `RoomDelivery` is inductive with the types, `SendersHaveJoined` and
  `WrittenIsLogged` (a message being written is one of the channel's).
* Log files: `RoomForWriters` counts, for each file, the lines it has and the
  writers that head for it. It survives the question "is it full" because the
  counter is behind the current file by less than `FullSize` and the lines that are
  not counted yet (`CounterKeepsUp`): a roll over sets the counter back to zero
  only when it has chosen a file below `FullSize`. That there is such a file follows
  from `LinesWereBegun`, and that files are begun in the order of their numbers from
  `ChosenInOrder`. Together: `LogFilesBounded`. The first free file is a least
  number with a property, `LeastOf`, from the library's theorem that `<` on the
  natural numbers is well-founded.
* Second factors: secrets are numbered, so no two users have one (`SecretsDiffer`);
  the codes drawn move from those left to those spent, one at a time, and the two
  sets stay apart (`CodesKept`). What is left of `SecondFactorHolds` is arithmetic:
  the codes that pass are those of the intervals of `now - 1`, `now` and `now + 1`,
  which are at most two because an interval has at least one second.
* Search client: the server takes the tasks in order (`TasksInOrder`). `Stands` is
  what a task that succeeded still owes to its index, whatever came after it, and
  `TasksStand` says that every one does: the server's step establishes it for the
  task it runs, and for the earlier ones a document that changes is one that is
  `Undone` from now on. A call knows the task it posted (`KnowsItsTask`), even though
  others are posted meanwhile. Together: `ChangesAreSeen`.
* P2P node: `PeersAsTold` is inductive, for the peers that are not `doubted`:
  at most one call is about to tell of the peer, and while none is, the last event
  in the buffer that mentions the peer, or the reader's view if there is none,
  agrees with the set. The lemmas `ToldAfterSending` and `ToldAfterTaking` say what
  sending and taking an event do to that; a call waiting for room in the buffer has
  changed the set and not told yet.
* Roles: an id is given out once (`IdsWereMade`), and `update_role` and
  `remove_role` find the definition they change by the first match of the id, which
  is the only one. `RemovedAt` says what `RemoveAt` leaves. Hence `RolesStand`; a code
  that a caller changes by `update_role` may be one that is taken, so the property
  speaks of codes only while none was given up (`retired`).
  `WalkIsRight`: what the recursion up the parents answers is what holds of the
  roles a chain of parents leads to. The chain is a sequence that exists for any
  number of steps, and as there are no more roles than steps allowed, it has ended
  or gone round by then, so the roles it met are closed under parents.
* Event bus: `CopiedInOrder` says of the task of a filtered subscription, and
  `ReadInOrder` of its subscriber, that what they have is ascending, wanted, and,
  if nobody was told of a lag, complete up to the place they read at;
  `EventsAreKept` that the events published are those in the history and those a
  spawned task has still to write. From these `EventsAreDelivered`, which
  compares whole lists: two ascending lists with the same
  members are the same list (a least place at which they differ).
* Lists: `RetainFacts` says what `Vec::retain` leaves: the members at the places
  kept, in their order and each once. It is proved for any list, by a least length
  at which it failed.
* Rate limiter: `AdmittedWereMade` and `NothingUnkept` tie the history of a window
  to its counter; `OthersCounted` says that a client who is let through is never
  in `check_memory`. `WindowsHold` for arbitrary rules then follows from the
  comparison of the count with the limit of the rule that is asked for.

**`LibraryProofs`**, the functions. What `TextsHold` and `RulesHold` say of a
function they say of the inputs that are constants of `Services`; the proofs are for
any such constants of the types `InputsAssumption` names (any texts, lists of words,
role definitions, bodies, mails, ...). Nearly all of these functions are recursions:
folds over a text or a list, a walk up the parents of roles, an automaton built
level by level, trees. The argument is the same for all:

* `Induction` is membership in a set: a set that holds zero and with every number the
  next one holds all numbers. It is proved from the well-foundedness of `<`.
  `Recursion` says that a function which computes its value at a number from the
  one before exists; `FoldRecursion` and `FoldAlong` turn a fold over a list into
  a sequence of states, one for each element, in which each follows from the one
  before. A property of the result is then an invariant of that sequence.
* Word filter (`WordsAreFound`). A node of the trie is the path that leads to it.
  `Longest` says what a failure link is for: the longest end of the path that is a
  path as well, and shorter. `LinkComputed` is the step of the construction: the
  loop along the links of the parent stops at the longest end that goes on with the
  letter (`EndsOfLongest`, `LongestAfter`); `LinksBuilt` is the induction over the
  levels. `OutputsTell` says that the words collected along the links are those
  that end in the path, `RunFollows` that after `i` letters the automaton stands at the
  longest end of the text read that is a path. Hence the matches are exactly the
  occurrences (`SearchFinds`), and the filtered text has none
  (`NothingIsLeft`): an occurrence in it would be one in the text, whose letters were
  replaced, by a sign that occurs in no word. For other signs `WordsFound` promises
  only that the filtered text differs from the text at the occurrences alone, as the
  code does.
* Masks (`MasksAreSafe`): the shape of each mask, sign by sign, for a text of any
  length; a second masking finds the same ends again.
* Inherited permissions (`RolesAreCollected`). Along the walk `SeenIsListed`, `Whole`
  and `SeenUpTo` say that what was seen is listed and that upwards of what was seen all
  was seen, up to the role the walk stands at; the walk ends after as many steps as
  there are roles because a role that was seen ends it. So the set seen is closed
  under parents when it ends, and is what the roles of the user reach.
* Bodies (`BodiesAlwaysHold`): induction over the depth of nesting, for what the guard
  collects and what the filter makes of a body together (`MadeFrom`). The texts of
  the clean body are the clean texts, in their order, so to clean it again changes
  nothing where no bracket is left.
* Check digits (`CardsChecked`): another digit changes the weighted sum by a product
  of which neither factor is a multiple of eleven (`CheckSumChanged`, `NoneVanishes`).
  Two neighbours that change places change it by the product of their difference
  and the difference of their weights, the same way.
* Octets, passwords, cleaned input, file names, the tables, tokens, headers,
  uploads and mails (`OctetsAreBytes` to `BatchesAreFair`): case by case, with the
  facts about folds where something is counted.

`RolesAreCollected` excepts role definitions with a `Clash` from the half that says
nothing is missing: a permission's key can be the name of a role, and two different
permissions can have one key, since a resource may have a colon in its name
(`doc:x` with `read`, `doc` with `x:read`). Either hides the other in the set of what was
seen. The run has such definitions, and without the exception TLC refutes the
property.

**`LibraryProofs`**, versions, health and pages.

* Versions: `CurrentIsThere` is inductive with the types. That `AllVersions` has each
  version once is a fact about finite sets of numbers: there is exactly one with any
  given number of greater ones.
* Health: `CountsAreRight`: the verdict is that of the answers, all of which came
  in. `GaugeCounts` ties the gauge to the set of requests that run and the number of
  those dropped, `MetricsAreHeld` the registries to one another.
* Audit log: while no row is written, the count of a query is the number of rows
  (`CountsAreOfRows`). The rows of a page come out of arithmetic: the newest first
  list of rows is `n + 1 - i` at place `i`. `PagesAreCutUp` and `SearchedPagesDoAgree`
  need no state: any number of items is cut into pages of any size by division.

**`SystemProofs`**, first part: the other components, again about their own
specifications.

* Accounts: `IdsWereBorn` (ids are given once), `IsDecided` (what is in the store was
  decided last), `CodesAreKnown` (the code of a user, and the one a call is about to
  write, is a role's or was given up) and `CopiesAreTrue` (who logs in is in the
  store as copied, unless the call was told otherwise meanwhile). The roles change
  between the steps of a call, so `RolesInv` is part of `AccountsInv`. With them
  `AccountsLoginsAreFaithful`.
* Single sign-on: a state that was answered waits nowhere (`AnsweredAreGone`), and
  what waits was drawn and waits once. `validate_state` takes a state off the list
  whether it is in time or not, a sweep keeps those in time; both are removals as
  `RemovedAt` and `RetainFacts` describe.
* API keys: `KeysAreShown`: the prefix of every key that is kept is on the list of
  its tenant. `KeysAreListed`: it is there once and on no other, for prefixes drawn
  once. Creation, deletion and the sweep write the map and the lists apart; the
  sweep takes many prefixes from many lists at once.
* Key pools: `KeysGood`: the size, distinct ids, and that a key out of use keeps its
  place with the mark until it is removed. Handing out changes one key and keeps the
  rest.
* Social graph: `SocialAnswers`: every way to list the ids has each place on exactly
  one page, and a page shows the registered users of its places (`PageShown`), so
  the pages together are `EachOnce`.
* Migrations: only the types, `MigrationStepInv`; what goes wrong there is a matter
  of liveness (section 5).
* Remote commands: `PiecesInOrder`, `NoPieceIsLost`, `StatusComes` and `EofEndsOutput`
  say where every piece of output and the status are, on the wire or collected, so
  that nothing is missing when the client stops, unless the connection was lost: then
  what it has is the beginning of the output.

**`SystemProofs`**, second part: the services side by side. `OtherServicesStay` and
`ServicesStep`: a step of `Services` is one of the service that is looked at and
leaves the variables of all others alone, so `ServicesSpec` implies the
specification of each (`ServicesImplyEach`), and what was proved of each holds in
every behaviour. The roles take part in two services; `DecisionsInv` is what holds
of the one that is looked at. Hence `CredentialsHoldForEver`, `AnswersHoldForEver`,
`AccountsHoldForEver` and `TypesHoldForEver`; and, since an input is chosen in the
initial state and stays (`InputStays`), `TextsHoldForEver` and `RulesHoldForEver` from
the lemmas of `LibraryProofs`. With the theorems about one component each these are
all invariants and action properties the run `services` checks.

The assumptions these proofs use say that limits, times and sizes are natural
numbers and the sets that are listed finite (`BusBounds`, `HealthBounds`,
`SshBounds`, `SocialBounds`, `MigrationBounds`, `VersionNamesBounds`, `PoolBounds`,
`SsoBounds`, `ApiKeyBounds`, `AccountBounds`). `AuditBounds` says besides that a
word counts all rows and a page more: the offset may wrap, the number of rows
cannot. For the functions: the names of roles are finitely many (`RolesBounds`),
words and texts are of some length (`WordBounds`), the signs a mask looks for are
told from the others (`NoCharacter`), an input is cut at a natural number
(`InputIsCut`), bodies are nested to some depth (`NestingIsBounded`; `serde_json`
refuses deeper ones), no answer is no body (`NoAnswerIsNoBody`), and the inputs have
their types (`InputsAssumption`). TLC evaluates each of them in the run `services`.

### What stays with TLC

* Liveness: `ValidationReturns` and `PlacesGivenBack`. TLAPS as used
  here reasons about neither fairness nor `ENABLED`.
* Induction over data by the library's theorems, which take an operator. Here it is
  membership in a set of numbers (`Induction`) or a least counterexample: `<` on the
  natural numbers is well-founded, so a list (a walk) for which a fact failed would
  have a shortest one before it. This carries `RetainFacts`, `WalkIsRight`, the
  equality of ascending lists and the proofs about functions. So no safety invariant
  and no action property of a passing run stays with TLC alone.
* The four findings (section 5), which are counterexamples.

The other way round, a few theorems are about properties no run checks, since what
could break them is said by another property of the run or lies in one atomic step:
`RefreshListMatchesTokens`, `ChallengeSolvedOnce`, `BruteForceLockNeverShortened` and
`RedisLockIsExclusive`.

## 7. What is not modelled, and abstractions

* Data no operation decides by: session data, addresses, user agents, last
  access, answers and prefixes of challenges, hash values, contents of messages.
* Random values never collide, with the exception of API-key prefixes; a token
  and its hash are one element; signatures are good or not.
* Regular expressions, formats and encodings: which texts match is an input of
  the model. What is done with the answer is modelled.
* `cleanup_expired` of the session store reads the clock once per session under
  both locks; the model reads it once per sweep.
* Readers that hold one lock for one step are operators of the state and not
  actions; answers put together from two locks are read in one state
  (`get_relation`, `check_permission`), as the modules say.
* `SystemTime` does not go back except in `Snowflake`; a clock before 1970 is
  not considered.
* Arithmetic is unbounded where the code's counters cannot reach their width;
  the subtraction and the product that wrap are modelled (section 3).
* Schedules (a job may fire at any time), the order of hash tables (any), the
  layout of databases (rows).
* `touch_key`, the network meter of the sandbox, the commands of the Redis pool
  that pass an argument on, counters and text of the metrics, the profile of a
  user.
* Payments: a memory provider keeps the status each call sets, and a call is one
  access to its map; no state says that an order was paid.
* Password hashing, the routes and `user_config.rs` (a map of maps under
  `&mut self`), the key hierarchy (hash functions put into a map), ciphers and
  digests, advertising (each operation one lock, once), the LLM client (one
  HTTP request): nothing in them is a matter of state, order or concurrency.

## 8. Plan

1. *Done.* Session store with its abstract registry and refinement; refresh
   tokens; CSRF; Snowflake; challenges; brute-force guard; the services of
   section 1. Every invariant and every action property of the passing runs is a
   theorem (section 6).
2. *Proofs.* A refinement of one more component by an abstract one, as
   `StoreImplementsRegistry` does it: the two maps of the API keys, or the two
   statements of an audit query.
3. *Models.* The order of `check_all`'s callers and the remaining Redis
   commands, if a service comes to depend on them.
