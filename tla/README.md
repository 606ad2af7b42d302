# A TLA+ verification of lvim-keyring

lvim-keyring is a wallet for Neovim. A daemon written in Rust (the *agent*)
keeps the secrets: an encrypted vault file on disk, and its decrypted contents
in memory while unlocked. The editors, in Lua, connect to the agent over a unix
socket, start it when it is not there, and show the prompts. This project models
the parts whose correctness depends on order, overlap and failure, checks them
with TLC on small instances, and proves most of their safety with TLAPS for every
value of the constants.

The agent's binary is also git's credential helper, a short-lived client of a
running agent.

Paths below: `vault.rs`, `server.rs`, `main.rs`, `crypto.rs`, `totp.rs`, `rpc.rs`,
`credential.rs` are in `native/src`, `daemon.lua`, `init.lua`, `import.lua` in
`lua/lvim-keyring`, `prompt.lua` in its `ui`.

## 1. Inventory

| part | source | state | operations |
|---|---|---|---|
| vault file | `vault.rs` | the files vault, `.tmp`, `.bak` | `write`, called by `create`, `save`, `rotate` |
| agent requests | `server.rs` | `session`, `fail_count`, the file | create, unlock, rotate, lock, set, delete, rename, generate, get, totp, list |
| unlock parking | `server.rs` | `unlock_gen`, a condition variable, the blocking pool | `wait_for_unlock`, `unlock_cancel`, `wake_unlock_waiters` |
| agent process | `main.rs`, `server.rs` | flock, socket, client table, linger timers | `serve_socket`, `handle_conn`, exit |
| idle auto-lock | `server.rs`, `main.rs` | `last_activity` | `touch`, `autolock_tick` |
| editor connection | `daemon.lua` | `pipe`, `ready`, `connecting`, `waiters`, `pending`, timers | `ensure`, `request`, `teardown`, `stop` |
| editor cache and prompts | `init.lua`, `prompt.lua` | `unlocked`, the one-prompt flag, the open flows | `on_notify`, `ensure_unlocked`, `unlock`, create, rotate, lock, exit lock |
| migration and import | `init.lua`, `import.lua` | a countdown and an outcome per call | list, skip or set each candidate, report |
| git credential helper | `credential.rs` | none of its own; one connection per request | get, store, erase |
| cryptography | `crypto.rs`, `vault.rs` | key, salt and cost in the session and in the header | `derive_key`, `seal`, `open` |
| TOTP | `totp.rs`, `server.rs` | none | `code`, the time remaining |
| wire format | `rpc.rs` | none | requests, answers, notifications |
| panel, commands, health | `ui/`, `commands.lua`, ... | windows, a clipboard timer | rendering, key maps |

How they interact. An editor's `request` goes through `daemon.lua` to the
socket; `handle_conn` hands each line to `Server::handle`, which runs it on a
thread of tokio's blocking pool. The threads share one `Inner`: several small
mutexes, of which only `session` is ever held over a file operation (in
`with_session`, around `save`). `create`, `unlock` and `rotate` read and write
the file with no mutex at all and install the session at the end. A `secret.*`
call on a locked vault broadcasts `vault.unlock_needed` and parks its thread;
an unlock or a cancel from any editor wakes it. When the last client leaves, its
connection task ends the process. `git` runs the helper before and after it logs
in; the helper never parks (`wait` is false) and never starts an agent.

What is hard, and what makes each part correct:

* **vault file**: a crash, a power loss or an error between any two system
  calls. Correct: the vault is always one complete document, old or new; the
  `.bak` is the one that was replaced.
* **agent requests**: overlapping requests, a save that fails after the body in
  memory was edited, a crash while others are busy. Correct: what a client was
  told is stored is stored, is seen, and opens with the current password.
* **unlock parking**: lost wake-ups, a cancel at the wrong moment, parked
  threads that use up the pool. Correct: whoever should be released is, and
  control requests are always answered.
* **agent process**: several spawned at once, stale sockets, counts that change
  during an `await`. Correct: one agent per socket, its socket is its own, it
  dies with its last editor.
* **editor connection**: callbacks of overlapping attempts, in any order.
  Correct: one socket, each request called back exactly once.
* **editor cache and prompts**: answers and broadcasts are sent outside the
  session mutex, and the agent can die under an open prompt. Correct: the cache
  becomes the agent's lock state, no prompt is stuck, the one-prompt flag goes
  with its prompt.
* **idle auto-lock**: a timer that sleeps on the idle time of one moment, beside
  uses, polls, locks and unlocks it does not see. Correct: an unlocked vault nobody
  uses is locked in time, and a vault in use is not locked.
* **git credential helper**: a lock, an edit or the death of the agent between two
  requests of one git command, notifications on the same connection as the answer.
  Correct: git is never blocked, gets the password that was there all along, and an
  erase takes the one that was rejected.
* **cryptography, TOTP**: a session keeps key, salt and cost apart and seals without
  the password; arithmetic at the edges of a hash and a period. Correct: what is
  sealed opens again; a code always comes back and expires when said.
* **migration and import**: sets sent all at once beside other clients, answered
  in any order, each able to fail. Correct: existing entries are not overwritten,
  what is reported as stored is stored, one complete report.

PROJECT.json lists every hazard at its line, with the properties that cover it. Several
are windows the code really has. The properties beside them exclude those windows by
history variables (`clash`, `blended`, `missed`, `raced`, `late`, `steady`) and would not
report them, so such a hazard names none of them and says what happens there instead.

## 2. Modules

| module | models | extends or instantiates |
|---|---|---|
| `AtomicVault` | what `write` promises: one cell | |
| `VaultFile` | `write` as system calls over inodes and a device | refines `AtomicVault` |
| `VaultFileProofs` | theorems about `VaultFile` | `VaultFile` |
| `UnlockGate` | parking and waking on the blocking pool | |
| `UnlockGateProofs` | theorems about `UnlockGate` | `UnlockGate` |
| `SealedDoc` | keys, header and ciphertext | |
| `Agent` | the requests over session and file | `SealedDoc`'s documents, `AtomicVault`'s actions for the file |
| `AgentProofs` | theorems about `Agent` and `SealedDoc` | `Agent` |
| `AgentLifetime` | processes, flock, socket, connections, exit | |
| `AgentLifetimeProofs` | theorems about `AgentLifetime` | `AgentLifetime` |
| `ClientConn` | the editor's end of the connection | |
| `ClientConnProofs` | theorems about `ClientConn` | `ClientConn` |
| `EditorPrompt` | lock-state cache, prompt flows, exit lock, against the agent's messages | |
| `EditorPromptProofs` | theorems about `EditorPrompt` | `EditorPrompt` |
| `Migrate` | `migrate` and the import's `run` beside other clients | |
| `MigrateProofs` | theorems about `Migrate` | `Migrate` |
| `AutoLock` | the idle time, the tick and its sleep over a bounded clock | |
| `GitHelper` | git's credential helper beside other clients | extends `AutoLock` |
| `Totp` | truncation and period of `totp.rs` | |
| `TimeProofs` | theorems about `AutoLock` and `Totp` | `AutoLock`, `Totp` |
| `MC*` | the instances TLC checks | the module of that name |

Definitions whose comment starts with *Variant* are not part of any
specification: each is an action as a plausible mistake would have it, and
substituting it for the real one makes TLC report the property PROJECT.json
pairs it with.

### VaultFile

`dir` maps the three names to inodes and `data` an inode to its contents, as the
running system sees them; `diskDir` and `disk` are what the device holds. One
action per system call of `write` and one for each way it can fail: open with
truncate, `write_all`, `sync_all`, the copy to `.bak` (open, copy, or fail and
be ignored), rename. `FlushInode` and `FlushDir` write back at any time,
`Crash` ends every thread, `PowerLoss` also goes back to the device's names and
leaves each unflushed inode old or torn. The directory is not fsynced by the
code, so a power loss may undo a rename.

`Serial` is the set of writers whose calls exclude one another. Two `save`s do,
because `with_session` keeps the mutex; a `create` or `rotate` belongs to it only
while no other request writes. With `Serial = Writers` the module is the code as
it runs when requests come one at a time; with a writer outside `Serial` it is
the code under overlap.

### Agent

`session`, `failCount` and the file are the daemon's; each thread has a program
counter and the request it handles. Requests are records as the parameters are;
a step is one critical section of the `session` mutex or one access to the file.
`owner` is the thread keeping the mutex over its save. The file is the cell of
`AtomicVault`, whose `Begin`, `Commit`, `Abort` and `Return` are a call of
`write` that no other overlaps; that this is what `write` does then is theorem
`Refinement`. Calls that overlap are not atomic: all open the same `.tmp` with
truncate (`vault.rs:196-203`), and a `create` or `rotate` holds no mutex that would
keep a save away. `tmp` is the calls that share the temporary, `opened` those that had
opened the one that is now the vault. `CommitShared` is the rename of a shared one: the
file becomes a document of one of them or `Torn`, which nothing opens. `Scribble` is
a call that goes on writing into the file another one has renamed. Which system calls
lead there is `VaultFile`'s subject; `Agent` keeps what they may leave. A document is salt, cost and a ciphertext, as in `SealedDoc`; a salt
is whatever the random source gives, an old one not excluded, and the file of an earlier life may have been written at
another cost than this agent is configured with. `meta` stands for all of an entry's
metadata as one value.

`acked`, `unsure`, `master`, `clash` and `blended` are history. `acked` is what clients were
told is stored, per name; `unsure` the names whose last edit was answered with an
error or died with the process, of which nothing is promised. `clash` becomes
true when a write falls between another request's look at the file and its
install, or two calls of `write` overlap: the code takes no lock over that window.
The durability properties are stated for behaviours without such a clash;
`agent_rotate_loses` shows that without the condition they do not hold, and the
same window lets an overlapping unlock show an older body, a save put the old key
back after a rotate, and a second create replace the vault of the first.
`NeverSealedShut` has a weaker condition, `blended`: the file at the path is a `.tmp`
that another call than the one that renamed it had opened too. Otherwise, also when
requests fall into each other's windows, the file opens with one of the passwords
somebody set, because key, salt and cost always travel together; and the next call of
`write` with a temporary of its own repairs a blended file. Without the condition it
does not hold, as the torn vault of `vault_file_half_written` shows. `EntriesKept` has
the same condition, so that `agent_rotate_loses` is about the stale copy of the
entries and not about a torn file.

### SealedDoc

Argon2id and XChaCha20-Poly1305 are perfect: a key is its inputs (password, salt,
cost), a ciphertext opens with the key and the header it was sealed with and with
nothing else. `Session` and `Document` are what `create`, `unlock`, `rotate` and
`save` put into memory and into the file, `Unlockable` and `Unlocked` what `unlock`
makes of a file. The nonce, the magic number and the version are left out.

### UnlockGate

The threads of `wait_for_unlock` step by step: test, capture of the generation,
compare, sleep on the condition variable, wake, re-acquire. `locked` is all that is
kept of the session. A request is queued and gets one of `PoolSize` threads.
Sleepers wake by `notify_all`, at their deadline, or for no reason. `Install`
covers create, unlock and rotate: all three install, announce and notify.

### AgentLifetime

Processes start, take the flock or defer, clear the path, bind, serve, and end:
decided by a connection task or a timer, by SIGTERM or by a kill. A connection
is in the backlog, open, at end of file, draining (unregistered, waiting for its
writer), over. Ending is two steps, unlink and exit, with other tasks running in
between. The refusal of a peer with another uid and the creation of the socket's
directory are left out: they come before any shared state is touched.
Without a linger time the connection task decides to exit on a client count it read
before an `await` (`main.rs:290-292`), so an agent may leave a client that connected
in between; with one, a client may still register between the timer's count
(`main.rs:308`) and `process::exit`. `CutsOnlyNewcomers` says that in both cases these
are the only ones: whoever was registered when the clients were counted is not cut
off by the process ending itself, up to its last step. Two variables are history for
it, `joined`, who registered since a connection or its timer last counted, and
`cause`, the connection whose count ends the process. That the requests of a client
that is cut off are called back all the same is `RequestAnswered` of `ClientConn`.

### ClientConn

The variables of `daemon.lua`, the sockets and timers it has, and the queue of
`vim.schedule`. libuv callbacks (a connect completes, a timer ticks, bytes arrive)
only append to the queue; the main context takes entries from its head, and API
calls happen between entries. The agent is as much of `AgentLifetime` as a client
sees. Messages are ids; the splitting of the byte stream into lines is left out.
`Follow` says which request's callback, when it is given an error, makes another
one at once, as the callback of a dismissed prompt does (`init.lua:53`). `teardown`
calls the callbacks while it is still running, first those of the pending requests
and then the waiters', so a new request finds the connection's state of that
moment. Its waiter can be failed by the same `teardown` although the
attempt it started goes on; it is still called back exactly once.
Not claimed: that an attempt which fails late leaves the live pipe alone. A surplus
socket of an overlapping attempt reports its failure to the same handler, which
tears down whatever pipe there is (`daemon.lua:344-345`, `389`); the requests on it
are then called back with an error.

### EditorPrompt

Each editor has `unlocked` and `prompting` as in `init.lua` and one stage per
prompt flow of `prompt.lua`; the flow `Signal` is the one `vault.unlock_needed`
opens, the others are opened through the API. A request is a task in the agent
with three steps, since no mutex covers them together: the session is read or
replaced, `vault.state` is broadcast, the answer is sent. `inbox` is the socket,
in order. Connecting is one step that succeeds or fails (`ClientConn` has the
rest). `reader` is one `secret.*` call on the locked vault, by its three steps:
it signals, looks at the generation, and parks; a cancel, an unlock, its deadline
or the agent's death ends it (`UnlockGate` has the mutexes and wake-ups). `heard` is the
editors its signal was sent to.

Abstractions: a password is good or bad; the answers to `vault.lock` and
`unlock_cancel` are ignored by their callers and left out, except on exit; one
step reads both halves of a `status`, because each of its callers uses one half.
The exit lock is the one of `lock.on_exit` without `persist`.

`raced` is history: the session changed while an earlier look at it was still
to be sent. `CacheFollows` is stated for behaviours without that. With it the
property does not hold: a `status` answer computed before an auto-lock can arrive
after the lock's broadcast and leave the cache at "unlocked" until the next
change.

`Prompted` says that a parked reader is not forgotten: each editor it signalled has
the signal still to handle, a prompt open, or a cancel on its way. It excludes four
windows, in each of which the reader really waits for its deadline without a
prompt; leaving out any of the four exclusions makes TLC find that behaviour:

* the signal is sent between a change of the session and its broadcast, so that an
  editor which still believes the vault unlocked ignores it (`init.lua:46`);
* it arrives between a prompt's success and the answer, while the flag is still
  set (`init.lua:46`);
* a cancel falls between the signal and the reader's look at the generation
  (`server.rs:162-165`), so that the reader takes it for an earlier one;
* the prompt's unlock and then a lock both fall between the signal and that look.

### Migrate

`migrate` and the import share their loop and differ in what precedes it, which
`how` selects. The list, the loop (one step: nothing interleaves with Lua code),
each set in the agent, its answer and its callback are separate steps; a lost
connection answers the open sets with an error while the agent may still run
them. The i-th candidate's value is i, so that an overwritten value is seen.
`late` has the names whose entry the list does not vouch for: both flows ignore
the list's error and take the wallet for empty, and another client may store an
entry after the list. In those two cases an existing entry is overwritten, and
`NeverClobbered` excludes them.

### AutoLock

`idle` is the age of `last_activity`, `wakeIn` the time until the timer's sleep
ends. The tick is three critical sections, `is_locked`, the age, `lock`, with
requests in between; it sleeps for whole seconds and at least one. A timer is never
early and at most `Late` behind. `unused` and `fresh` are history: how long ago a
request really used the vault, and how long ago a session was installed. An unlock
counts as use when it is dispatched and installs after the key is derived.

### GitHelper

One host, one git command at a time: `get` asks for `git/<host>` and then for
`forge/<host>`, git logs in, `store` or `erase` follows. Each request has a
connection of its own that is closed after the answer; `inbox` has the unread lines,
answers and notifications mixed. The agent dispatches (which counts as use), checks
the lock, and answers, with the auto-lock, other clients' edits, locks and unlocks
and its own death at any point in between. `steady` is history: the names that were
within reach and unchanged since `get`; the properties about the password are
for those. Not claimed: the password of `forge/<host>` is stored by git under
`git/<host>` after the first login, and from then on hides a later one under
`forge/<host>`.

### Totp

`Offset`, `Bin`, `Modulo`, `Code` are the arithmetic of `code` over any hash of
twenty bytes, `Period`, `Counter`, `Remaining` that of the period. No run
instantiates it: the theorems about it hold for every hash, number of digits and time.

## 3. Runs

| run | checks | shows |
|---|---|---|
| `vault_file` | `TypeOK`, `NeverHalfWritten`, `RollbackKept`, `VaultStays`, `ImplementsAtomicVault` | non-overlapping calls keep the vault whole and implement one cell |
| `vault_file_half_written` | `NeverHalfWritten`, violated | a rotate overlapping a save publishes a truncated temporary |
| `unlock_gate` | `CancelWakes`, `CancelReleases`, `ControlAnswered` | cancels reach parked readers, control requests get through, without deadlines |
| `unlock_gate_pool` | `TypeOK`, `Answered` | a full pool recovers at the deadline |
| `unlock_gate_lost_wakeup` | `UnlockWakes`, violated | an unlock's notify can fall between test and sleep |
| `agent` | `TypeOK`, `SaveMatchesMemory`, `PasswordCurrent`, `AckedDurable`, `AckedVisible`, `NeverSealedShut`, `NothingElseLost` | acknowledged edits and the password survive edits, errors, locks and crashes; the file opens with some password unless it was a shared temporary |
| `agent_rotate_loses` | `EntriesKept`, violated | a set during a rotate's key derivation is lost |
| `agent_lifetime` | `TypeOK`, `OneAgent`, `SocketOwned`, `CutsOnlyNewcomers`, `DiesWithLastEditor` | one agent, its own socket, cuts off only who came after its count, ends with the last editor |
| `client_conn` | `TypeOK`, `NoOrphan`, `CalledOnce`, `PendingAlive`, `RequestAnswered` | overlapping attempts and callbacks that ask again leave one socket and exactly one callback per request |
| `git_helper` | `Exposure`, `LocksOnlyIdle`, `RightPassword`, `NeverBlocks` | the helper never blocks git and handles the right password; an unused vault is locked in time |
| `editor_prompt` | `TypeOK`, `PromptingAlive`, `CacheFollows`, `Prompted`, `FlowMoves` | the cache follows the agent, the flag its prompt, a parked reader has a prompt, and no flow waits for ever, also when the agent is killed |
| `migrate` | `StoredIsThere`, `ReportsOnce`, `NeverClobbered`, `ReportsInTheEnd` | nothing listed is overwritten; one complete, true report |

The three violated properties each state what a comment or a test of the
repository says; the findings in PROJECT.json quote it and describe the behaviour.
None of them needs an I/O error or a crash: two requests at the wrong moment are
enough.

### Bounds

* `vault_file`: two writers (one may still be returning when the next begins),
  two documents (old and new), four inodes (three names, one being replaced). No
  step counter is needed. The proofs remove the bounds.
* `unlock_gate`: two parked readers contend for the generation mutex with one
  canceller and one unlocker; auto-lock supplies any number of relocks. The pool
  of three is one more than the readers, the boundary case. `unlock_gate_pool`
  has the smallest pool, one reader that parks and one that does not, and a
  `vault.lock`. The generation needs no bound: there is one canceller.
* `agent`: two threads, since every window is between one request and one other;
  two names so that a rename has a target; four requests per behaviour
  (`MaxRequests`), enough for unlock, edit, rotate and one more. The run starts
  without a vault or with one that opens with the first password (the second
  comes by a rotate), with nothing in it, one entry, or one under each
  name, the second being only the target of a rename (`SmallInit`). Two costs,
  the default and the one of the repository's tests, and two salts, so that a rotate
  draws the file's or another one.
* `agent_lifetime`: two processes contend for the lock, and a second one finds
  what a killed one left; two connections are the one leaving and the one arriving.
* `client_conn`: two requests, the second made by the user or by the callback of
  the first, two sockets, two timers; `MaxTries` is 25 in the code and 2 here (one
  retry that is not the last, one that is); `MaxBreaks` is two, two exits of the agent or one
  and a `stop`, or one when the agent is too old. `Room` holds an attempt back until
  a socket is free.
* `git_helper`: a timeout of one second, which is two units of the clock so that a
  sleep's rounding shows; a delay (`Late`) of one unit. `Cap` and `FreshCap` are one
  more than the ages the properties compare, beyond which nothing tells them apart.
  Two tokens are a password and another one; one unread notification (`MaxNotes`)
  comes before the answer.
* `editor_prompt`: one editor with two flows, which race in the agent as two
  clients would; the agent may be there already, unlocked by somebody else. Two
  events (`MaxEvents`: calls, reads, auto-locks) are a change and one that
  crosses it, and one death of the agent (`MaxDeaths`) meets every stage.
* `migrate`: three candidates over two names, so that a list has a duplicate,
  entries to skip and entries to store at once; two changes by other clients, one
  before and one after the list.

Deadlock checking is off where a behaviour may really end: all requests made and
answered, all processes gone. `vault_file` has it on: a kill is always possible.

### Fairness

* `UnlockGate`: a thread that can run does (weak fairness), the pool serves its
  queue, and a thread that asks for a mutex which is released again and again gets
  it (strong fairness on acquiring; the standard library's mutex is not strictly
  fair, but does not exclude a waiter for ever). `PromptSpec` has only that;
  `TimedSpec` adds that deadlines pass, as the system clock guarantees. Nobody is
  obliged to unlock, lock or cancel, and no spurious wake-up is relied on.
* `AgentLifetime`: the runtime runs its tasks, requests are answered in the end
  (which is `Answered`), timers fire. Nothing makes an editor connect or leave, a
  signal arrive or a write fail.
* `EditorPrompt`: the event loop handles its inbox and notices the end of a
  stream, the agent's threads run, a dial is decided one way or the other (which
  is `RequestAnswered`). The user need not type, cancel or leave.
* `Migrate`: requests are answered and their callbacks run. The user need not
  agree, and no other client has to act.
* `ClientConn`: the event loop runs, timers tick, a spawned process gets as far as
  the lock and serves, a leaving one ends, a serving one answers. Nothing keeps an
  agent alive.
* `GitHelper`: the helper sends and reads, a serving agent handles its requests.
  Nothing is assumed of git or its user, of other clients, of the timer or of an agent
  that died.

## 4. Proofs

`VaultFileProofs`, for any writers, documents and inodes:

* `TypeCorrect`, `Spec => []TypeOK`, however calls overlap.
* `NoGap`, `Spec => VaultStays`, however calls overlap: a rename is the only
  step that changes the vault's name, and it puts a file there.
* `WholeVault`, `Rollback`, `Refinement`: with `Serial = Writers`,
  `[]NeverHalfWritten`, `RollbackKept` and `AV!Spec`.

"What is at the path is complete" is not inductive: the rename publishes the
temporary, so the temporary's state must be known phase by phase. `IInv` adds
that one thread at a time is inside `write` (`OneWriter`), that a vault inode in
memory or on the device is complete and fsynced (`VaultSettled`; this is what a
power loss relies on), that the inodes opened with truncate are not vault inodes
(`NamesApart`), and how far temporary and backup are in each phase (`TmpReady`,
`BakReady`). For the refinement every system call is a stutter except the
rename, which is `Commit`, the error exits, which are `Abort`, and flushes of the
vault's name, which are `Harden`.

`UnlockGateProofs`, for any requests and any pool: `TypeCorrect`, which contains
that the generation mutex is held exactly by the reader awake in the loop and
that an impatient reader never parks; and `CancelReaches`,
`Spec => []CancelWakes`. `IInv` adds that a reader between its comparison and its
sleep still has the current generation: it holds the mutex that a cancel needs.

`TimeProofs`, about `AutoLock` for any timeout, length of a second, delay and set of methods:
`ExposureBounded`, `Spec => []Exposure`, and `NeverLocksInUse`,
`Spec => []LocksOnlyIdle`. Neither is inductive: how long a vault stays open depends on
the sleep that was chosen earlier. `Inv` adds that `idle` is the real age
(`idle = unused`: only a real use resets it), that a sleep longer than a second ends
before the vault is due (`SleepsShort`), and that at the end of the current sleep the
vault is at most a second overdue or freshly installed (`DueInTime`). Lemma
`SleepBound` is the division in `autolock_tick`. The theorems are about
`AutoLock`'s own specification; `GitHelper` takes its steps beside the helper's, and
its run checks both properties there.

`TimeProofs`, about `Totp`: `CodeInRange`, the truncation never leaves the hash and never overflows a
`u32`, and the code is below 10^digits, for every hash and 1 to 9 digits;
`RemainingExact`, the seconds reported are exactly those until the counter changes.

`AgentProofs`, for any threads, names, values, passwords, salts, costs and number of
requests:

* About `SealedDoc`: `RoundTrip`, the document of a session that is as `create`,
  `unlock` or `rotate` makes it opens with its password and with no other and gives
  the session back, whatever cost is configured; `HeaderAuthenticated`, a ciphertext
  under another salt or cost opens with no password. Both rest on the primitives
  being perfect.
* However requests overlap: `TypeCorrect`; `SavesMemory`, what a `save` writes is what
  is in memory; `EditsLoseNothing`, an edit keeps what it does not name.
* Unless calls of `write` shared the temporary that is now the vault: `AlwaysOpens`,
  `[]NeverSealedShut`.
* Without a clash: `AckedIsDurable`, `AckedIsVisible`, `PasswordInForce`.

None of the last four is inductive. `AlwaysOpens` needs that every session and
document anywhere on its way (in memory, carried by a thread, handed to `write`) is
sealed under the key that its own header gives (`Wholesome`); `RoundTrip` then says
that it opens. Which files may be torn is `Mixture`: a vault that is not blended is not
torn and no running call still has it open, and without a clash nothing is blended. The three without a clash need in addition what the absence of a clash
gives: one request writes at a time, what it wrote is still there when it looks at the
result, and what a create, unlock or rotate carries is what the file holds
(`Windows`); that a session exists only with a file (`FileFirst`); and that file,
session and clients agree on the password except between a rotate's rename and its
answer (`KeysAgree`). The step that establishes `Windows` is where the definition of
a clash is used: a write that begins or commits in another request's window is one.
`StepKinds` sorts the actions by what they may disturb, so that each part has one
case for all requests that only come, wait, read, are refused or fail.

`AgentLifetimeProofs`, for any processes, connections and settings: `TypeCorrect`,
`SingleAgent`, `SocketIsItsOwn`, `NobodyLeftBehind`. That a process which clears,
binds or serves holds the flock (`LockHeld`) is inductive together with the types, and
the flock has one holder; a socket at the path is that holder's or of a process that
is gone. For `NobodyLeftBehind` the invariant follows the count from where it is taken
to the end of the process: whoever is registered while a connection that was the last
one waits for its writer came after its count (`Settled`), and the connection whose
count ends a process belonged to that process and is over, so it does not count again
(`Attributed`).

`MigrateProofs`, for any names, any list of candidates and any number of changes by
others: `NotClobbered`, `StoredTrue`, `OneReport`. `IInv` has that what is not the
flow's own was listed or came late for as long as sets are on their way (`Vouched`),
that a set which was answered Ok is in the wallet (`Kept`), and that the countdown is
the number of sets without an outcome (`Counted`), from which it follows that it
reaches zero once.

`ClientConnProofs`, for any requests, sockets, timers, tries and follow-up requests:
`TypeCorrect`, `OneSocket`, `CalledAtMostOnce`, `PendingIsAlive`. `Once` says that a
request waits, is pending or was called back, one of them; a `teardown` with a
callback that asks again keeps this because the new request is on no list yet.
`PendingIsAlive` needs the sockets nobody reads yet: one whose other end was closed
before its connect was handled has the end of its stream in store (`GoodEnds`), and
so has the pipe unless that end is in the queue already (`PipeEnds`), so a message
`send` loses is made up for by the end of the stream.

`EditorPromptProofs`, for any editors, flows, events and deaths of the agent:
`TypeCorrect`, `FlagFollowsPrompt`, `CacheIsFresh`, `ReaderIsPrompted`. None of the
last three is inductive, and `IInv` adds, in the order in which each needs the one
before it:

* `Handled`: what a handler holds for its answer fits its operation and its caller;
* `Flights`: a flow that waits has one request in the agent or one answer in the
  socket, of the kind its stage is for, and a flow that does not wait has none. An
  answer in the inbox thus moves the flow that asked for it, and a flow that begins
  to wait for an `M.status` makes no older message one that sets the cache;
* `Callers`: the same for the handshake, the lock, the cancel and the exit, and the
  agent works for no editor that is there and not in its client table;
* `Truthful`: without a race what is still to be announced or answered is the case;
* `Cached`: `CacheFollows`, also for an editor whose handshake is answered and not
  handled yet;
* `Listening`: who heard the signal is connected or gone, and a parked reader's vault
  is locked;
* `Remembered`: each of them cancels, or prompts, or has the signal in store behind
  messages that leave its cache at "locked", with no success behind it that would end
  the prompt. The signal is appended when `Cached` holds, and this is where the
  windows `Prompted` excludes are needed.

The properties of the cache are stated with `Shows(e, n, v)`: the cache is `v` once `n`
messages are handled. Handling the first message of `n` leads to `Shows(e, n - 1, v)`
(`ShowsPopped`), and appending one decides `v` or leaves it (`ShowsLast`); the steps of
the agent are sorted by `RunFacts` into looks, changes and refusals, and those of an
editor by `EditorSelf` into those that keep its messages and those that handle one.

The assumptions are the named ones on the constants, which TLC evaluates in every
run, and for three theorems `Serial = Writers`.

Only model-checked: every liveness property (fairness is out of the prover's
reach), and the helper's own steps in `GitHelper`.

## 5. What is not modelled

* The insides of Argon2, the cipher and HMAC, base32, the JSON text of the wire
  format, git's `key=value` text, `.env` and `.json` parsing, name validation,
  timestamps, nonces and generated bytes: computations without shared state, on
  text and bytes that no property tells apart.
* Memory locking and zeroizing: no effect a client can see.
* Time while the machine is suspended: the monotonic clock stands still on Linux, and
  so does `AutoLock`'s.
* The clipboard's clear timers in the panel.
* In `Agent`, `status`, `hello` and a generate without a name: they change
  nothing. What an editor does with a `status` is in `EditorPrompt`.
* File modes, directory creation, peer credentials: they refuse before anything
  shared is touched.
* The panel, the prompts' windows, commands, health report, highlights:
  presentation.
* Agents on two socket paths over one vault file, and the stdio transport beside
  a daemon: the flock is per socket path, so nothing excludes them.

## 6. Plan

Done: `VaultFile` with its abstraction, `UnlockGate`, `Agent` over `SealedDoc`,
`AgentLifetime`, `ClientConn` with callbacks that ask again, `EditorPrompt` with parked
readers, `Migrate`, `AutoLock` and `Totp`, each with its proofs; `GitHelper`.

Next, in this order:

1. An abstract wallet, a map from names to entries that each acknowledged request
   changes at one point, implemented by `Agent` when there is no clash, and the proof
   of that.
2. Proofs about the helper's steps in `GitHelper`.
3. The clipboard's clear timers of two copies.
