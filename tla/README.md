# A verification project for moler

moler is a library for test automation: objects called *connection observers* (commands and
events) are fed with the text that a connection to a device receives, until they find their
result, fail, are cancelled or run out of time.  Devices are made of them: a device walks from
one shell to another by commands, and knows from events where it is.  Nearly everything that is
hard about moler is in the few modules that start observers, feed them, time them and end them,
from several threads at once, and in the walk.  This directory holds TLA+
models of those modules, the instances on which TLC checks them, and proofs that TLAPS checks.

Paths below are relative to the repository.  A name in `code type` is a definition of a module
here or a name in the source.

## 1. Inventory

### The life of an observer

    user thread:   obs.start() ----> CommandScheduler ----> runner.submit(obs)
                   obs.await_done() ------------------> runner.wait_for(obs) --> obs.result()
    scheduler:     a thread per command that has to wait for its connection
    runner:        ThreadPoolExecutorRunner: a feed() thread per observer, which only watches time
                   RunnerSingleThread (the default): one loop that watches the time of all
    connection:    reader thread -> queue per subscriber -> wrapper thread -> secure_data_received
                   -> obs.data_received() -> set_result() / set_exception()

The ends of an observer (`set_result`, `set_exception`, `cancel`, `set_end_of_life`) all go
through the setter of `_is_done`, which for a command calls back into the scheduler to free the
connection.  Four kinds of thread can reach an end at the same moment: the wrapper thread with
an answer, feed() with a timeout, wait_for() with a timeout, and any user or closing thread with
cancel() or connection_closed_handler().

### The walk of a device

    user thread:   dev.goto_state(dest) --> one command per edge, under _goto_state_lock
                   dev.goto_state_bg(dest) --> _queue_states --> the background thread
    wrapper:       Wait4prompts finds a prompt --> callback --> _set_state(), and if a state is
                   kept and this is not it --> _queue_states
    reader:        the connection is lost --> on_connection_lost --> the same

### Components

| Component | State it keeps | Operations | What makes it correct |
|---|---|---|---|
| CommandScheduler (`command_scheduler.py`) | per connection: a lock, `current_cmd`, `queue` | enqueue, wait for a slot, remove, submit | one command runs on a connection; a slot or a queue place is never held by a command that is over; a command that never ran says so |
| ConnectionObserver (`connection_observer.py`), CommandTextualGeneric's outcome (`cmd/commandtextualgeneric.py`) | `_is_done`, `_is_cancelled`, `_result`, `_exception`, `_stored_exception`, the class-wide list of unraised exceptions | set_result, set_exception, cancel, set_end_of_life, result, get_unraised_exceptions | a failure is never lost, the callbacks run once and are the right ones, an outcome is final |
| ThreadPoolExecutorRunner (`runner.py`) | per observer: `observer_lock`, `stop_feeding`, `feed_done`, the future; `in_terminating`, `was_on_timeout_called`; `_in_shutdown` | submit, secure_data_received, feed, wait_for, time_out_observer, shutdown | an observer has a result or an exception, not both; on_timeout once; every observer ends and is unsubscribed; wait_for returns, and returns only when the observer is done |
| ThreadedMolerConnection, ObserverThreadWrapper (`threaded_moler_connection.py`, `observer_thread_wrapper.py`) | `_observer_wrappers`, `_connection_closed_handlers`, `_observers_lock`; per wrapper a queue and `_request_end` | subscribe, unsubscribe, data_received, shutdown, the wrapper's loop | each subscriber gets the chunks of its subscription once and in order; one at most after its end; nobody is dropped untold |
| RunnerSingleThread (`runner_single_thread.py`, `moler_connection_for_single_thread_runner.py`) | a list of observers, its copy, the list to remove; the observer's start time and timeout | submit, the loop, wait_for, shutdown | on_timeout once, and not before the deadline; every observer ends, with a reason, and is unsubscribed, all without any lock of the observer |
| Events (`event.py`, `events/textualevent.py`, `events/lineevent.py`, `events/unix/wait4prompts.py`), the reading of a command's output (`commandtextualgeneric.py`) | occurrences, the incomplete line, the patterns left of a cycle, whether the echo was found | data_received, pause, resume, event_occurred, on_new_line | what is found depends on the text, not on how the connection cuts it |
| TextualDevice (`device/textualdevice.py`, `device/state_machine.py`) | the state machine's state, the queue of states, the kept state, two locks | goto_state, goto_state_bg, remove, recovery of a kept state, the prompts' callback, on_connection_lost | the device is where it believes to be; a request is served; goto_state ends |
| Concrete devices (`device/unixlocal.py`, `proxy_pc*.py`, `unixremote*.py`, `adbremote*.py`, `atremote*.py`, `scpi*.py`, `pdu_aten*.py`, `junipergeneric*.py`) | tables: transitions, hops, commands and prompts, with and without PROXY_PC | merging over the classes, removal of PROXY_PC | every state has a way to every other |
| Commands that log in (`cmd/commandchangingprompt.py`, `cmd/unix/generictelnetssh.py`, `ssh.py`, `telnet.py`, `sudo.py`, `su.py`) | what was sent and for how long that counts, the passwords left, the commands owed to each prompt | on_new_line of each class | an answer is read by the question it is for; the outcome is true; the dialogue ends |
| AsyncioRunner (`asyncio_runner.py`) | as the thread pool's, on an event loop | the same | the same |
| Publisher (`publisher.py`), EventAwaiter (`event_awaiter.py`) | subscribers; none | notify; polling loops over done() | as the connection's; they see what is done |
| Factories, configuration, job scheduler, MolerTest, external IO, concrete commands and parsers, serial proxy | registries, sockets, regular expressions | start-up, I/O, parsing | tested by examples; see section 7 |

### What is hard

* *Interleaving without a lock.*  `set_result`, `set_exception` and `cancel` test `done()`, then
  store, then set `_is_done`.  Some callers hold `observer_lock`, and some (cancel(), a closing
  connection, set_end_of_life()) do not.
* *State that is read and then used.*  `_submit` reads `_is_done` and then submits;
  `secure_data_received` reads `done()` and then waits for a lock.
* *Two clocks for one timeout.*  feed() (or the loop) and wait_for() both time an observer out,
  share `in_terminating`, and count the terminating period from different moments.
* *Ownership that somebody has to give back*: the slot of the connection, a place in its queue,
  the subscription, the wrapper thread.
* *Text that is cut anywhere.*  A prompt, an echo or a failure may lie across two chunks; what is
  kept of an incomplete line is consumed by occurrences and by pause(), from another thread.
* *A dialogue.*  A command that logs in answers what it reads, and what it typed is read later, by
  whatever the host asks then.  It looks at a line again each time the line grows.
* *Belief and fact.*  A device believes what prompts told it; a prompt may come late, be dropped
  while the event is paused, or come from a shell that has fallen back.
* *Identity.*  Subscriptions are keyed by `id()`, and an object may be gone while its key is not.

`PROJECT.json` lists the single hazards with the line where each bites and the property that
would catch it.

## 2. The modules

| Module | Models | How |
|---|---|---|
| `ConnectionSlot` | abstract | what the user of one connection may rely on: commands run one at a time |
| `CommandScheduler` | `command_scheduler.py`, start(), the calls that reach it | one connection; a program counter for each (thread, observer); one step per critical section of the entry's lock |
| `CommandScheduler_proofs` | | its theorems |
| `ConnectionObserver` | `connection_observer.py`, the outcome part of `commandtextualgeneric.py` | each method is entered by one step and goes on by others (`call`, `arg`), so any two callers interleave between the test of done(), the store and the setter |
| `ConnectionObserver_proofs` | | its theorems |
| `ThreadPoolRunner` | `ThreadPoolExecutorRunner` | EXTENDS `ConnectionObserver`: the data thread, feed(), wait_for() and a user's thread call its methods, with `observer_lock` where the code takes it |
| `ThreadPoolRunner_proofs` | | its theorems |
| `SingleThreadRunner` | `RunnerSingleThread` | EXTENDS `ConnectionObserver`: the same without `observer_lock`, with time counted |
| `SingleThreadRunner_proofs` | | its theorems |
| `DataSubscription` | abstract | what subscribing promises |
| `ThreadedConnection` | `ThreadedMolerConnection`, `ObserverThreadWrapper` | a reader, users, a closer and one thread and queue per subscription |
| `ThreadedConnection_proofs` | | its theorems, with the refinement of `DataSubscription` |
| `TextualObserver` | `CommandTextualGeneric`, `TextualEvent`, `LineEvent`, `Wait4prompts` | text as a sequence of tokens that is cut into chunks in every way |
| `TextualObserver_proofs` | | its theorems |
| `LoginCommand` | `CommandChangingPrompt`, `GenericTelnetSsh`, `Ssh`, `Telnet` | the command, its far end, and what is printed and typed between them |
| `LoginCommand_proofs` | | its theorems |
| `DeviceTables` | the tables of the device classes, `helpers.py`'s removal of a state | functions of pairs of states |
| `DeviceStates` | `TextualDevice` | EXTENDS `DeviceTables`: USER, BG, EVENTS and READER move one device |
| `DeviceStates_proofs` | | its theorems |
| `MC...` | | instances for TLC |

### CommandScheduler

`currentCmd` and `queue` are the entry of `_locks`.  The thread of start() is `"starter"`; when
the slot is held it spawns `"waiter"` (`SpawnWaiter`), which is `_add_command_to_connection`
with `wait_for_slot=True`: it tries again (`RetryTakesSlot`, `RetryFindsSlotHeld`), queues
(`AppendToQueue`) and polls (`TakeSlotFromQueue`; a poll that fails changes nothing and is no
step) until it gives up (`GiveUpWaiting`, then set_exception, set_end_of_life and
`_remove_command`).  `CheckBeforeSubmit` and `RunnerSubmit` are the two halves of `_submit`.
Every end of an observer first sets `isDone` and then runs `RemoveCommand`.  The ends that may
come from outside are switched by `Interrupters`: `"canceller"` is cancel(), `"awaiter"` is an
await_done() that runs out of time before the command was submitted.

Not modelled: start() called twice on one observer (the base class refuses it only once the
observer is done), runner.submit() raising.

### ConnectionObserver

`callbacks`, `raised` and `collected` are history: which of on_success and on_failure was called,
which exceptions result() raised and which get_unraised_exceptions() handed out.  `kind` is chosen
once from `Kinds`: a plain observer, a textual command, or a textual command that keeps its
exception (`_stored_exception`) until its prompt comes.  `Outcome` is what result()
would tell.  `SetDone` is the setter of `_is_done` with everything it does under `_lock_is_done`.

### ThreadPoolRunner

`pc[t]` says where thread `t` is in the runner's code and `call[t]` (of `ConnectionObserver`)
where it is in an observer's method that it called; a thread goes on in the runner when its call
is over (`At`).  `"data"` is secure_data_received, `"feed"` is feed() with its loop, `"wait"` is
await_done() with wait_for(), `"user"` a thread that makes one call: cancel(), or a closing of the
connection that ends in connection_closed_handler().  Neither takes `observer_lock`.  `Intruders`
switches what happens from outside: these two, and runner.shutdown().

Time is abstract.  A deadline (`Deadlines`) elapses at some step once its period has begun
(`HasBegun`), in any order that the arithmetic allows; feed() and wait_for() see it at their
next test.  So every race between a timeout and an answer is a behaviour of the model, whatever
the durations.  The tick of the loops and its sleep are a step that changes nothing.
time_out_observer() is steps of its own: `TestTimedOut` looks at `was_on_timeout_called`,
`MarkTimedOut` sets it, `TimeOutObserver` stores the exception and `OnTimeout` calls on_timeout();
only `observer_lock` keeps feed() and wait_for() from passing the test together.

Abstractions: the pool has a free worker; wait_for() has the future (waiting for one is
`AwaiterGivesUp` of `CommandScheduler`); `timeout` is not changed while the observer runs; data
either says nothing, holds the final prompt, shows a failure, or makes data_received() raise.

### SingleThreadRunner

The threads are the starter (`SubmitChecks` to `SubmitAppends`, `SendRaises`), the wrapper's
thread (`DataComes` to `WrapperSetsException`: no lock, no test of done()), the loop
(`LoopCopies` to `LoopRemoves`), wait_for() and a user.  `listLock` is
`_connection_observer_lock`, the only lock; `listed` and `taken` say in which list the observer
is, since shutdown() swaps the list without it.  Each read and each write of `start_time` and
`timeout` is a step, because wait_for() assigns the two one after the other while the loop reads
`start_time`, then the clock, then the timeout (`LoopReadsStart`, `LoopReadsClock`, and the steps of
`LoopCompares`).

Time is counted here (`now`), in units of one second, because `_get_max_time()` keeps the loop and
wait_for() apart by a margin of one second (`Margin`) and not by a lock.  `Tick` assumes that the
loop, which sleeps a millisecond, goes round in each unit, and that the two assignments of
wait_for() take no time; without that assumption the margin protects nothing.  `Scenarios`
names a kind of observer, the timeout wait_for() is given, if any, and at most one trouble
(`Troubles`).

What `ThreadPoolRunner` has and this does not: `ResultXorException` and `OutcomeIsFinal`.  Both are
false here by design, for an answer and a timeout meet in the observer with no lock between them;
the run asks what is left to rely on.

Abstractions: one observer.  The only tie between two is the loop thread, which on_timeout(),
on_inactivity() or the timeout path of one may hold up for all: on_inactivity() that raises is
caught, on_timeout() that raises would end the loop thread, which is not modelled.  The path
in which wait_for() waits for an observer that is still in the scheduler's queue is `AwaiterGivesUp`
of `CommandScheduler`.

### ThreadedConnection

A subscription is a pair of an observer key and a round, and stands for the wrapper that
subscribe() creates.  `wrappers` and `closedHandlers` are the two tables.  The reader copies the
wrappers under the lock (`SnapshotSubscribers`) and feeds them one by one (`FeedWrapper`).
`CheckRequestEnd`, `GetFromQueue`, `GetTimesOut` and `CallObserver` are the wrapper's loop; the observer
returns, raises (`ObserverRaises`, then `HandleError`), or turns out to be gone (`ObserverIsGone`).
shutdown() holds `_observers_lock` across the handlers (`ShutdownLocks` to `StopWrappers`); one that
raises breaks it off and leaves the tables and the connection as they are (`ClosedHandlerRaises`).
`GarbageCollect` drops an observer that is still subscribed, which the code supports with weak
proxies; `NewObserver` gives its id() to another (`IdsReused`).

### TextualObserver

A text is a sequence of tokens and a regular expression a piece of text to be found in a line;
`Newline` stands for each of the three line ends.  `Receive` takes the next chunk of any text;
`CutLines` is the first half of TextualEvent.data_received() (split, complete the first line with
the fragment kept, keep the last), `ProcessLine` one turn of its loop with on_new_line() and
event_occurred(); Wait4prompts goes backwards (`InOrder`) and breaks off when it has found one.
A command cuts piece by piece (`CutPieces`, `ProcessPiece`), joins lines until it has found its
echo (`DetectStart`), and then looks for its prompt and its failures (`OnNewLine`).  `Pause` and
`Resume` come from another thread at any step; `PauseCutsLines` is the pause between the test of
the fragment and its use, which puts the text "None" before the line, as formatting None does.

`dropped`, `everPaused` and `late` are history.  `dropped` says that an occurrence in a full line
consumed the fragment of the next one, and `EveryMatchOccurs` excepts it; a pause drops the text
that comes during it, so it excepts that as well.  `OccurrencesAreReal` asks that what is reported
is in a line of the text as it was sent, each line in its turn, and that each cycle of all or
sequence is whole (`CyclesAreWhole`).

Abstractions: a pattern matches one line and says no more than that it was found; the prompt of a
command is looked for in the whole line; the echo is the command string as a piece of text.
Not modelled: commands with `newline_after_command_string = False`, `check_against_all_prompts`,
change_prompts() while text is read.

### LoginCommand

`cmd` holds the attributes of the command: `sent`, `sentLogin`, `resizeSent` and `sentContinue` are
its `_sent...` flags, `whenPrompt` and `afterLogin` the commands it owes the local prompt and the
prompt after the login, `stored` whether there is a `_stored_exception`.  What is printed is a
sequence of tokens, one for each text that a regular expression of the classes tells apart, and
`Receive` delivers a chunk of any length: it looks at the line so far through the three chains of
tests, `SshLooks`, `GenericLooks` and `PromptLooks`, in the order of the calls of on_new_line() to
the bases.  In each chain the first test that answers ends the chain (ParsingDone) and the next
chain looks at the same line.  `ForgetSent` is the end of a full line.

The far end is not in the repository but the sessions it is to be expected to hold are, in the
samples at the end of `ssh.py` and `telnet.py`: a host key that is unknown, known or has changed,
several passwords in a row, a denial after which it asks again or one that names its methods, a
banner before or after the login, a terminal that asks for its size, two prompts.  `far.at` is its
phase, and each input names the phase it was typed for (`for`), so that `misread` can say it was
read in another.  `lost` is a loss of the connection at any moment.

`excused` is history and names what the command is known not to cope with: a chunk that ends after
"Last login:" or after "Permission denied", and an Enter, sent without a question, that is read
where Enter is an answer.  Section 6 has what follows from each.

Not modelled: Telnet's own commands before and after the connection, prompts with anchors (which
make `_detect_prompts_without_anchors` send an Enter), the choice between rm and ssh-keygen, and
options that are off by default.

### DeviceTables, DeviceStates

`Tables` holds, for each device class in each of its generations (`proxy_pc.py`, `proxy_pc2.py`,
`proxy_pc3.py` and so on), with and without PROXY_PC, on a local or a remote io, which edge is
crossed by which command or by opening and closing the connection, the hops (to go from `a` to
`b`, go to `c` first), and by which edge's expected prompt a state is recognised.  They are built
as the code builds them: `Extend` is update_dict() over the classes, `WithoutProxyPc` is the
removal of a state (`remove_state_from_sm`, `remove_state_hops_from_sm`).
UnixLocal's `_prepare_state_hops` returns its hops and its callers drop them, hence `UnixLocalHops`.

`DeviceStates` is one device.  `state` is what it believes, `actual` where its shell is, `shown` the
prompts on their way to the callback.  USER calls goto_state(), goto_state_bg() and remove(); BG is
`_goto_state_thread`; EVENTS runs `_prompts_observer_callback`; READER runs on_connection_lost.
`holder` is `_goto_state_lock`, `manipulator` is `_goto_state_thread_manipulation_lock`.
goto_state() is `GotoState` (what was kept is kept no longer), `Connect` and `Connected`
(establish_connection() without the lock), `Look` (is the device there already?), `KeepHere` or
`TakeLock`: a prompt's callback and BG may come between any two of them.  A walk goes through
`Choose` (the next hop), the edge (`MakeCommand`, `StartCommand`, `CommandDone`, `CommandFails`,
`CommandSlow`, `CommandElsewhere`, or `OpenConnection`, `CloseConnection`), `Enter`, `Failed` with
its reruns, `Arrive`, `TimeIsOver` and, after the sleep, `Return`, which keeps the state.  A command
that is typed into another shell than it was made for fails there, or does what it says: it enters
its next state or falls back to an earlier shell, as `exit` does (`CommandElsewhere`).  Whatever
sets the state (`SetState`) may owe a request for the kept state (`RecoverState`).  `Kick` is a
shell that falls back to one it was entered from, `ConnectionLost` the loss of the connection.
`pauses` is `pause_prompts_event_on_state_change`, whose default is False in `unixlocal.py`.

`upset`, `missed`, `overlooked` and `crossed` are history, and say where the code gives up a promise:

* `upset`: the belief may be wrong for good.  The far end moved the shell during a walk, the
  connection was lost, it was opened or closed without `_goto_state_lock` while a walk or the
  prompts' callback was under way, or the prompt that would have told was dropped by a paused event
  or overtaken by the end of a command, its own or one typed into another shell.
* `missed`: the kept state was given up: an attempt to return failed, ran out of time or was dropped
  for another goto_state; the last goto_state() was called while a request or an edge of BG was
  still to come; or goto_state_bg() was called without keeping, or during a goto_state().
* `overlooked`: the state was left before it was kept (`Keep`): during the sleep after the walk
  arrived, or between the comparison and the assignment.  `_kept_state` was still None, so nobody
  asks for it.
* `crossed`: the connection was opened without `_goto_state_lock`: by goto_state() or remove() while
  BG was walking, which may have closed it just before and sets NOT_CONNECTED; or by BG while a
  remove() that could not go to NOT_CONNECTED closes it without the lock.
* `BlocksItself`: BG opens or closes the connection with a state kept, the callback asks for that
  state in BG itself, and takes the lock BG holds.

Not modelled: making the observers of a state (get_cmd(), get_event() and their refusal in another
state), command parameters, newline tables, the choice of a device by its name.

## 3. The runs

| Run | Instance | Question |
|---|---|---|
| `scheduler_interrupted` | 3 commands, both interrupters | Do two commands ever run together?  Is every queue entry served?  Does the scheduler implement `ConnectionSlot`? |
| `scheduler_undisturbed` | 3 commands, 1 event, nobody interrupts | Is the slot ever left behind, a command sent while another runs, a queue stuck?  Does every enqueued command end, and say why when it never ran? |
| `observer_races` | all three kinds, 2 callers, 2 exceptions | Is a failure lost, or a callback called twice or never? |
| `runner_races` | all three kinds, 2 chunks, wait_for(timeout) | The outcome of a race of answer, feed() and wait_for(): one outcome, final, with a reason; on_timeout once; the observer ends and is unsubscribed. |
| `runner_intruded` | plain observer, 1 chunk, cancel() or a closing, shutdown(), feed() may die | Is the failure accounted for, the observer unsubscribed, the waiting thread released, when the end comes from outside? |
| `single_thread` | a plain observer or a waiting command, 1 chunk, wait_for() with or without a timeout of 1 s, each trouble in turn | Without a lock: on_timeout() once, and not before the deadline but by a torn read; every end with a reason, unsubscribed, wait_for() returns only when done. |
| `connection_delivery` | 2 observers, 2 chunks, 2 closings, ids reused | Does each subscription implement `DataSubscription`?  Is anybody dropped untold by shutdown()? |
| `connection_progress` | 1 observer, 2 rounds, 3 chunks, 1 closing | One wrapper serves; each chunk comes, whatever the observer raises. |
| `textual_observer` | texts of 6 tokens over 2 tokens and the newline, every cut, every kind of reader, 1 pause | Does what an event or a command finds depend on where the text is cut?  What does a pause do? |
| `login_dialogue` | Ssh and Telnet, 7 accounts with each state of the key, 3 settings with each banner, every cut, 3 logins, 1 loss | Is an answer read where it was meant to be?  Is a result a login, and a failure a refusal?  Does the dialogue end? |
| `device_goto` | UnixLocal with trouble; all 39 devices without; two calls | One walk at a time; requests served; belief is fact; a kept state is returned to; every state reached; remove() leaves nothing open; with prompts paused goto_state, remove() and the background thread end. |
| `scheduler_slot_leak` | 2 commands, cancel() | Violation: the slot of a cancelled command is never given back. |

The violation run contradicts a line of the repository, quoted in `PROJECT.json`; section 6
explains it, and the disagreements that have no run of their own.

The module of `device_goto` also has TLC evaluate four facts about the tables of all 39 devices:
`TablesAreComplete` (every command edge has its command, every state a prompt it is recognised by),
`TrimmedIsTwin` (removing PROXY_PC from a class's tables gives the edges and hops that its later twin
writes down), and the two the proofs about a device start from: `TablesAreSound` (which edges open
and close the connection) and `TablesLead` (there is always an edge to the next hop).

### Bounds, and why they suffice

* *Commands*: the queue matters from three commands on (one runs, one is head, one is behind), so
  both passing runs have three; the event passes by the queue and one is enough.
* *Callers of an observer*: a race is between two; every method has at most three steps.
* *Exceptions*: two, so that one replaces the other.  The runner's instance has one of each
  origin (timeout, parse, closed).
* *Chunks*: two for the runner (one is parsed while another waits for the lock); three for the
  connection's progress (one is being delivered, one is queued, one is on its way).
* *Rounds*: two, so that an old wrapper overlaps with a new one.
* *Closings*: two in `connection_delivery`, so that a shutdown() follows one that a handler broke off;
  else one, and open() follows it, so the connection can be used again.
* *Time* (`single_thread`): six units, for a timeout of two, a terminating period of one, the margin
  of one in wait_for() and a wait_for() that comes at time 1 at the latest: every deadline
  passes within the bound.
* *Text*: six tokens hold an echo, its newline and a prompt, or three lines, cut anywhere.
* *Logins* (`MaxSessions`): three.  After a refusal the command removes the key and logs in again,
  and the host asks to confirm a second time; in the third it may refuse again.  A password may be
  wrong twice.  Accounts (right, wrong, too few, repeated) vary with the keys and the protocol,
  settings and prompts with the banners: the first are read before the shell, the second in it.
* *Calls of a device* (`TwoCalls`): two of goto_state() or remove(), with one goto_state_bg() or with two
  troubles; or one of each and two troubles.  All properties were also run with two calls, one
  request and one trouble, and the safety properties with two calls, one request and two troubles,
  with one call, two requests and two troubles, and with two calls and three troubles.  The disturbed
  device is UnixLocal: the walk does not depend on the table, and its three states already have
  an edge of each kind and a chain.  goto_state_bg() is asked for UNIX_LOCAL_ROOT, which is the state
  that a walk leaves and passes.  A call that keeps the state has a timeout and the others have
  none; remove() is rerun once instead of five times.

### Fairness, and why the code justifies it

* `CommandScheduler`: weak fairness of a thread that is in start() or waits for the slot, of
  `RemoveCommand`, and of the runner's end of a submitted observer.  Threads of the operating
  system go on; the wait is bounded by `cmd.timeout`; the last is what `ObserverEnds` of the
  runner establishes.  Taking the lock of the entry needs no strong fairness, because no
  thread holds it across steps.
* `ThreadPoolRunner`: weak fairness of the data thread once it is inside secure_data_received,
  of feed(), of wait_for(), and of each deadline (time passes).  No data has to come, nobody has
  to call wait_for(), cancel() or shutdown().  A thread that waits for `observer_lock` polls for
  it; `WF` of the whole thread step is enough because the holder releases it for good or comes
  back to take it a bounded number of times.
* `SingleThreadRunner`: weak fairness of every thread once inside, of the loop, and of `Tick`.  The
  loop sleeps for a tick at a time; nobody has to call wait_for(), cancel() or shutdown().
* `DeviceStates`: weak fairness of USER and BG.  Nothing is assumed of EVENTS and READER, for a prompt
  may wait for ever; a call, a kick or a loss need never come.  A
  command's fate is a choice of the far end and some fate comes, since each command has a timeout.
  Weak fairness of USER is enough although it waits for `_goto_state_lock`, because the
  troubles that make BG take it again are bounded.
* `LoginCommand`: what was printed is delivered, and the far end reads what was typed (`Receive`,
  `FarEnd`).  The connection need not be lost, and no timeout is assumed: the dialogue ends by itself.
* `TextualObserver`: none; its properties are of what was found, not of when.
* `ThreadedConnection`: a notification that has begun goes on, wrapper threads run, and
  shutdown() goes on once begun.  Nobody has to subscribe or to send.

## 4. What is proved

All proofs are for every value of the constants, under the named assumptions of the modules
(`SchedulerAssumption`, `ObserverAssumption`, `ConnectionAssumption` and so on), which say of what
type the constants are and that the sets of model values are disjoint.

**CommandScheduler_proofs.**  `TypeCorrect`: `Spec => []TypeOK`.
`MutualExclusion`: `Spec => []OneCommandRuns`.  `OneCommandRuns` is not inductive: that a command
is submitted says nothing of the slot.  The inductive invariant `SchedulerInv` adds that a command
is submitted by one thread (`OneThreadSubmits`: the waiter exists only after start() is over),
that `_remove_command` runs after `is_done` is set (`DequeueAfterDone`), and the heart of the
matter, `LiveOwnerIsCurrent`: whoever is on its way to the runner, or in it, and is not done *is*
`current_cmd`.  An interrupter breaks the hold of a command on the slot only by making it done, so
two live commands would both be `current_cmd`.  `QueueServed` is a part of the same invariant.

`SchedulerImplementsSlot`: the specification implements `ConnectionSlot` under the mapping that
forgets the slot, the queue and the threads: each action is a step `Request`, `Run` or `End` of it
or leaves the phases alone.  The only hard case is `RunnerSubmit`, which maps to `Run` and needs
`LiveOwnerIsCurrent` to know that nobody else runs.

`SendsAloneUndisturbed` and `SlotKeptByLiveCommand` need `Interrupters = {}`; the run
`scheduler_slot_leak` shows what a canceller does to the slot.  They rest on `LiveUntilSubmitted`,
which says that without interrupters nothing ends a command before it is submitted except its own
waiter giving up.

`NeverEndsSilently` (`NoSilentEnd`) says that a command that never ran and was not cancelled has an
exception.  It holds with a canceller, but not with an awaiter: await_done() of a command that
still queues ends it without one.

**ConnectionObserver_proofs.**  `ObserverTypeCorrect`, `FailureAccounted` and `CalledBackOnce`,
each `Spec => []Inv` for any number of callers.  `FailureIsAccounted` is inductive together with
the types: the list of unraised exceptions and `_exception` change together under
`_exceptions_lock`, and each step that takes an exception out of the list records who has it.

**ThreadPoolRunner_proofs.**  `TimedOutOnce` (`OnTimeoutOnce`) holds whatever interferes: who has
found `was_on_timeout_called` unset, has set it, or calls on_timeout() holds `observer_lock`
(`LockHeld`), so it is still unset when it is set and nobody has called on_timeout() before.
`AnswerXorTimeout` (`ResultXorException`), `NoEndWithoutReason` (`EndHasReason`) and `FinalOutcome`
(`OutcomeIsFinal`, an action property) need `Undisturbed`: nobody cancels, closes or shuts down,
feed() lives and wait_for() has a timeout of its own.  Each condition is needed, see section 6.  The
inductive invariant `RunnerInv` says, besides shapes, that whoever is at a place inside the lock
holds it (`LockHeld`), that each method of the observer is called from the places the code calls it
from (`CallPlace`), and what these places know: who stores a result or an exception does so with the
lock, after finding the observer undone.  Two threads end an observer without the lock (the end of a
terminating period in feed() and in wait_for()); they come only after it was timed out (`TimedOut`),
so its exception is there, or `_stored_exception` becomes it, and the outcome is what it was.

**ThreadedConnection_proofs.**  `ConnectionInv` joins the types with three facts: a subscription
that has not begun has left no trace (`Untouched`), the table has one wrapper of an observer and
every wrapper that was not asked to end (`OneInTable`), and what the reader and the wrappers pass
on is a chunk (`ChunksCome`).  From it follows `OneServes` (`OneWrapperServes`).  `SubscriberServed`
(`SubscriberIsServed`, for `IdsReused = FALSE`) adds `ServedInv`: a wrapper in the table whose
thread was asked to end belongs to an observer that is gone, and whoever asked to be served is in
the table; with ids that are reused it is false (section 6), so no run has it.
`ToldBeforeStop` (`ToldBeforeStopped`, an action property) adds `ToldInv`: while
shutdown() tells the handlers it has `_observers_lock`, and has told or will tell each of them.
`SubscriptionImplementsPromise` is the refinement: each subscription implements `DataSubscription`,
under the mapping that forgets tables, locks, copies and threads and keeps what was received and
what the observer was given.  It rests on `StreamInv`: what was delivered, what the wrapper holds,
what is queued and what the reader is about to queue are, in this order, the chunks since the
subscription began.  The hard step is `CallObserver` after unsubscribe(): a wrapper that passed the
test of `_request_end` delivers one more chunk, and no more than one.

**SingleThreadRunner_proofs.**  No lock keeps the loop and wait_for() apart, so the proofs are about
time.  `SingleInv` has the arithmetic: from the moment an observer is late (`Late`), the loop has
until the end of that unit to find it and to time it out or end it (`LoopIsInTimeInv`: it looks at
the observer, `Looking`, or will not look at it again, `Through`).  wait_for() gives up a margin
later, when the loop is `Through` (`GivesUpLate`); so the two never time it out together (`Apart`),
and `OnTimeoutOnceHolds` (`OnTimeoutOnce`) follows by `Once`.  wait_for() moves `start_time` and
`timeout` in two assignments; `Settled`, `Await` and `Clock` say what the loop may read between
them.  `EndReasonHolds` says that a done observer has a result, an exception or was cancelled, in
every scenario (`Reason`: whoever is on the way to the end has stored one of them before).
`EndHasReasonHolds` (`EndHasReason`) adds that wait_for() returns only from a done observer, which
needs a hypothesis (`~Abandons`): not a command that waits for its prompt, met by shutdown(), which
is the one case where wait_for() does leave it undone; the others are in `Stopping` and `Ends`.
`NotTimedOutEarlyHolds` (`NotTimedOutEarly`, an action property) says that no observer is timed out
before its deadline (`Deadline`: its own timeout, and from a wait_for() on the one in force then),
but for a loop that has read `start_time` before wait_for() and the timeout after it (`TornRead`);
even that one does not time out before the time given to wait_for() has passed since start().  It
rests on `EarlyInv`: while the observer has not been timed out, the start the loop has read is the
present one or 0 (`OnTime`), and what wait_for() has assigned adds up to the deadline.  All four are
for any timeouts, terminating period, scenarios and number of chunks, where TLC has a few; what they
take from the model is that the loop goes round in each unit (`Tick`), as section 2 says, and the
margin of one unit, which is the code's constant.

**DeviceStates_proofs.**  For every device, every `Budgets` and every set of requests.
`EveryRequestIsServed` (`RequestIsServed`): the put into `_queue_states`
and the test whether the thread lives, and the thread's last look into the queue and its end, are all
under `_goto_state_thread_manipulation_lock`, so a request never lies there with nobody to take it.
`OneWalkAtATime` (`OneWalk`): whoever is in goto_state's loop holds `_goto_state_lock`, whatever
fails; the invariant `LockInv` ties `holder` and `manipulator` to where the two walkers are.

`BeliefIsTrue` (`StateIsActual`).  That belief and shell agree at rest is far from inductive: in
between they differ nearly always.  `Belief` says what makes up for it, unless `upset`: if prompts are
on their way to the callback, the last of them tells where the shell is (`Tells`); if none is, the
state is right or a walk is about to enter it (`Knows`, `AtDoor`); and belief and shell agree at every
moment on whether there is a connection at all (`Named`, `Quiet`, `Opens`, `Closes`).  `Plan` says
what a walk knows of the edge it crosses, which comes from `TablesAreSound`.

`NothingStaysOpen` (`RemoveLeavesNothingOpen`, an action property): whoever has closed the connection,
or found it closed, is at a place where it stays closed (`Seals`, `ClosingInv`): a walk there holds
`_goto_state_lock`, and who opens a connection without it is named by `crossed`.

`TheKeptStateIsReturnedTo` (`KeptIsReturnedTo`): whoever sets another state than the kept one owes a
request for that one, in the same step; `KeepInv` follows the request from the debt (`owed`) over the
queue to BG's walk, which returns there or is seen to have given up (`missed`).  A walk that arrived
sleeps before it keeps the state, and the state may be gone by then, with nobody to ask for it: `KeepInv`
says that a missing state is being returned to (`Returned`) unless `overlooked`, which `Keep` sets in
just this case.  A walk that has arrived is not `missed`: no other loss of its state is excused.

`UndisturbedArrives` (`GotoArrives`): a walk of a device that meets no trouble stays on the way that the
tables lay out (`ArrivesInv`).  What it needs of the tables is `TablesLead`, an assumption which
TLC evaluates for all 39; it names the devices whose hops the code drops.

**TextualObserver_proofs.**  For every text, every cut of it and every pause.  `PausedEventBreaksOff`
(`OneLineWhilePaused`): an event reports at most the line it was looking at when it was paused.
`OccurrencesAreWholeCycles` (`CyclesAreWhole`, a conjunct of the next): the lines gathered
and the patterns that are pending are at every moment the two parts of one order of the patterns
(`InCycle`); taking the i-th pending pattern moves it to the front of the pending part (`Moved`), and
a cycle that has none pending is whole.  The pattern a line takes is the first that matches, and
that there is a first is `Smallest`, which is proved from the well-foundedness of the numbers.

`OccurrencesComeFromTheDevice` (`OccurrencesAreReal`) needs to know what lines are.  `Up(s, i)`
counts the newlines in the first i tokens; it goes up one by one (`UpSteps`, `UpReaches`), so each
number of a line is one stretch of the text, and `Pieces` says what `SplitLines` makes of a chunk:
the k-th piece lies between two neighbouring newlines.  `Behind` places the chunk in what was sent
and `UpBehind` adds their newlines, so a piece is a stretch of what was sent and bears the number of
its line (`PieceIsStretch`); the first one goes on where the kept fragment ends (`StretchIsJoined`).
The inductive invariant `EventInv` has three parts.  `SourceInv`: the chunk is what was sent last.
`PartsInv`: each line that is yet to be looked at, gathered or reported is a fragment of one line of
what was sent (`Fragment`, with the "None" that may have got before it), and the kept fragment ends
exactly where the chunk begins; that is why a paused event must not keep it, for the chunks that
come meanwhile are not looked at.  `NumbersInv`: what was taken comes before what is to come, and
nothing comes after the line that was read last; for Wait4prompts, whose lines come backwards, it is
the end of the round with the first occurrence that keeps the order.  `LiesInLine` takes the
fragment back to `LineOf`, the definition the property uses.  The proof uses no bound, and of the
constants only that tokens, `Newline` and `None` differ and that `MaxChunk` is a number.

`EveryMatchIsReported` (`EveryMatchOccurs`) is the converse: nothing that matches is missed.  A
fragment is not enough here, a line must be looked at whole: `WholeLine` says that a fragment which
begins and ends where a line does is `LineOf`, `LineStays` that a line which has ended does not
change, and `StretchEnds` what the last line of a chunk leaves behind.  `WholeInv` says, while
nothing was paused or consumed (`Quiet`), that each line to look at is whole (`IsLine`), that
what is kept is the whole beginning of the line to come (`KeptInv`), and that a line which was
read and matches was reported or is still to be looked at; each but for a line that
has been reported already (`Covered`), whose rest may come without its beginning.  For Wait4prompts a
line is covered by the report of a later one, since its lines come backwards (`Descend`) and it
breaks off at the first that matches.  The theorem has a hypothesis, `NoEmpty`: an empty pattern
would be found in a line the device has not begun to send, which the code never looks at.

`CutsDoNotMatter` (`CommandIsWhole`) is about commands, which are not paused but join lines.  `ReadInv`
names a place p in what was sent: the pieces to come lie behind it, one after the other
(`Placed`, `PieceIsRead`), and what the command knows is what the text up to p says.
Before the echo (`BeforeEcho`) it has kept all of that text without its newlines, and no line that
ends there holds the echo; so the first full line that does is found by the piece that ends it
(`EchoIsSought`).  For this `WithoutNewlines` must respect the joining of pieces (`JoinedIs`): the
tokens that are left are counted by `Others`, as `Up` counts newlines, so the k-th is found at one
place (`OthersDiffer`, `LeftOver`).  It is defined by that place, since the prover can say nothing of a
recursive selection; TLC compares it with SelectSeq on all texts of up to five tokens.  After
the echo (`AfterEcho`) the output is the text behind it (`Rest`, `Behind`), whose lines are numbered
anew; `GoesOnFrom` says that the fragment kept begins where a line of the output does and holds no
prompt, that no line before it had one, and that `failed` says whether one of them had a failure;
`IsOver` says what has been found when the command is done.  `LineIsRead` takes one line from the one to
the other.  A failure of a line that is not full does not count until it is; a prompt does,
which is why the fragment must hold none.  `PromptAssumption`: an empty prompt would be found in
the line that has not begun.

**LoginCommand_proofs.**  For every set of hosts, passwords, settings and banners, and every cut of what
is printed; no bound is used, not even `MaxSessions`.  The assumption, `SetupsAssumption`, says of
what type a setup is, that a host asks for a password at least once (the far end of a command that
logs in with none is not modelled), that ctrl+c is not a password it accepts, and that no password
or setting is the text `"ssh"`, which stands for the command itself when it is typed again
(`_cmd_line_when_prompt`).  `DialogueInvariant` proves `LoginInv`, which has four parts.

* `TypeInv`: the types, and that a password which is asked for is one of those the host has.
* `TextInv`: what was printed and not yet got past (`Text`, the line that is looked at and what is to
  come) is a chain of lines of the far end (`Follows`), and while the far end waits it ends in the
  prompt of its phase.  Hence a line, or a beginning of one, is one of the few in `LineTexts`
  (`LineShape`), whatever the cut; and on each of these at most one of the command's searches finds
  something that it answers, by what the line begins with (`Tests`, `SshAnswers`, `GenericAnswers`,
  `PromptAnswers`, put together in `LineIsAnswered`).
* `ConnectedInv`, while the connection lasts and nothing is excused.  `TokensFit`: a token that asks for
  an answer is the last of the text, where the far end waits for just that answer (`Newest`), or
  the line it begins has been answered and the flag that says so (`_sent`, `_sent_login`,
  `_sent_continue_connecting`) is still set (`Answered`).  `TypedFits`: in the phases that ask for a
  confirmation or a password, and at the local prompt after a changed key, at most one answer is
  typed and unread, and when it is, everything printed has been delivered; so nothing can be
  answered a second time before it is read (`OneAnswerIsRead`).  `CommandFits`: what `_stored_exception`,
  `_commands_to_send_when_expected_prompt` and the outcome say of the far end.
* `LostInv`, after a loss: "Connection closed" is in the text before any local prompt that the
  command has not answered, so it learns of the loss before it could type the login again
  at the local shell, and ends there.

Neither property is inductive: that no answer is misread now says nothing of the answer that is
typed next, which needs what is printed (`TokensFit`), and that needs which answers are on their way
(`TypedFits`).  `Receive` keeps the invariant by `ReceiveIs`, which brings every delivery down to
one line that ended or is looked at (`LineEnds`), and by `ReceiveKeepsTokens` and
`ReceiveKeepsAnswers`, which go through the ways a line is answered; `FarEnd` by `FarEndTurns`,
which gives every answer of the far end one form (`Turn`: it reads one input, and shows lines and a
prompt), and by `TurnKeepsTokens` and `TurnKeepsAnswers`; `ConnectionLost` by `LossKeeps`.  The
proof showed why `excused` has to name what it names: at a chunk that ends after "Last login:" the
line is the one of `LineTexts` on which the search for a login finds something that nobody asked
for.

`NobodyWaits` is the safety core of `DialogueEnds`: when all that was printed has been looked at
and all that was typed has been read, the command is done, or the dialogue has come to one of its
known ends (`NeitherWaits`).  It needs the converse of the above, that nothing is left
*un*answered: of each question that is on its way either the text is still to be looked at, or its
answer is still to be read, or the flag that keeps the command from answering was set by an answer
the far end has gone on from. `ProgressInv` says so, phase by phase: a login that `_sent_login`
stands for is typed and unread while the far end asks for one (`LoginLeft`), the last setting is
owed, typed or read (`SettingsLeft`), the local prompt follows a refusal the command is still to
be told of, or has been (`LocalLeft`, `PasswordLeft`), and a line not looked at yet is not `_sent`
(`WordsLeft`).  `Responds` is what on_new_line() adds: a beginning of a line that it passes over
is one that `_sent`, `_sent_login` or their like forbid, or no question (`Ignores`).
`ReceiveWaits` puts the two together at the one step that can end in silence, the delivery of the
last token.  The theorem assumes `HostsAnswer`, which TLC evaluates on the instance and without
which the command does wait for ever: a telnet host does not ask for the terminal's size or name
ssh's methods (only `Ssh` answers those), a prompt after the login that differs from the expected
one becomes the expected one by the last setting and by no other, and no password is ctrl+c.

## 5. What is only model-checked

* Liveness, which is out of the prover's reach: `EnqueuedEnds`, `SlotIsGivenBack`, `ObserverEnds`,
  `WaitForReturns`, `DoneIsUnsubscribed`, `EveryChunkComes`, `GotoEnds`, `DialogueEnds`.  Of the
  last, `NobodyWaits` proves that the dialogue cannot stand still; that it does not go round for
  ever is TLC's.
* That `ThreadPoolRunner` and `SingleThreadRunner` free the slot which `CommandScheduler` gives: each
  is checked with the other abstracted.

## 6. Where the code and its words disagree

The first of these disagreements is a run that ends in a counterexample.  TLC finds the others too
when the exception or the condition that names them is taken away:

* `scheduler_slot_leak`: a command that is cancelled between its validation and taking the slot takes
  the slot afterwards, is skipped by `_submit`, and is never removed.
* *The slot taken over* (`command_scheduler.py:247`): cancel() between the test in `_submit` and runner.submit() gives the slot to
  the next command, and the cancelled one is sent beside it.  With the canceller of `scheduler_slot_leak`, `SendsAlone` is
  violated; `scheduler_undisturbed` has no interrupters.
* *The torn read* (`runner_single_thread.py:281`): the loop reads `start_time`, wait_for(timeout) assigns `start_time` and
  `timeout`, and the loop goes on with the new timeout: it times the observer out although neither the
  deadline it was started with nor the one it was given has come.  `NotTimedOutEarly` excepts this
  read (`TornRead`) and bounds what it does.
* *The id() of another* (`threaded_moler_connection.py:115`): the table is keyed by id(), and an observer that is garbage collected
  leaves its wrapper there.  A new observer with the same id() is taken to be subscribed, and never
  called.  `SubscriberIsServed` is violated when ids are reused, and proved when they are not.
* *The state kept too late* (`textualdevice.py:634`): goto_state(keep_state=True) sleeps half a second after it has arrived,
  and sets `_kept_state` only then.  If the state is left during the sleep,
  or between 473 and 475 when the device was there already, no callback asks for it, and it is kept
  all the same, although line 462 says that the device tries to return to it.
  `KeptIsReturnedTo` excepts this (`overlooked`).

The others were met while modelling and show as conditions on instances or as exceptions in
properties:

* *Scheduler.*  await_done() of a command that still queues ends it without an exception; for this
  and the two cases above `scheduler_undisturbed` has no interrupters.  start() twice on a command
  that is not done enqueues it twice (`connection_observer.py:208` refuses only a done one).
* *Outcome.*  on_success is called for a failed command: the setter of `_is_done` clears
  `_stored_exception` before it tests it (`commandtextualgeneric.py:233` and 239), so `CallbackOnce`
  says that a callback is called once and not which one.  set_exception() tests done() and then
  keeps the exception without a lock (`commandtextualgeneric.py:524`), so an exception may be kept
  for a command that is done.  `KeepException` makes that test and that assignment one step; no
  property is about `_stored_exception` alone.
* *Thread pool.*  done() is tested before `observer_lock` is taken (`runner.py:485`), so a chunk that
  waited for the lock reaches a done observer, against the comment on the next line.  wait_for()
  that comes after the timeout but before feed() has noticed it ends the observer without an
  exception (`runner.py:421`), so await_done() returns None where a test expects a timeout: hence
  `AwaitTimeouts = {TRUE}` in `runner_races`.  cancel() takes no lock, so it can change what
  result() says of a done observer: hence no intruders there.  feed() may die only in
  `runner_intruded`, because wait_for() then returns although the observer is not done.  The
  pool has 1000 workers (`runner.py:219`): the next observer has no clock but wait_for()'s.
* *Single thread.*  wait_for() without a timeout gives the observer its whole timeout again
  (`runner_single_thread.py:102`), against the comment at line 83.  A waiting command that is not
  submitted, since the runner shuts down, is left undone by wait_for().  An on_timeout() that raises
  ends the loop of all observers.  submit() after shutdown() took the list adds to a list
  nobody watches.
* *Connection.*  shutdown() calls the handlers under a lock that is not reentrant
  (`threaded_moler_connection.py:174`): a handler that subscribes waits for itself.  One that raises
  leaves the connection open, and its subscribers subscribed.  A ReferenceError of the observer's own
  counts as its end (`observer_thread_wrapper.py:78`); this is not modelled.
* *Text.*  An occurrence in a full line clears the fragment that was kept of the next line
  (`events/textualevent.py:33`, where line 135 says "Clear already parsed fragment of line to not
  parse it twice"), so a prompt that was cut there is never seen: `EveryMatchOccurs` excepts
  `dropped`.
* *Login.*  "Last login:" at the end of a chunk is taken for a request and the login is typed into
  the shell, where `generictelnetssh.py:241` says "Sends login if requested by server".  A chunk
  that ends after "Permission denied" fails the command although the host asks again.  Both, and an
  Enter that counts as an empty password, are `excused`: `_just_connected` and `_id_dsa` have no guard
  and send an Enter each time the line is looked at.  `_permission_denied_key_pass_keyboard` adds its
  two commands at each look, too.  `_sent_continue_connecting` is never reset, so that after
  ssh-keygen has removed the key the second "(yes/no)" is not answered and the command waits for its
  timeout (`ConfirmsNoMore`).  A host that names its methods after each wrong password makes a
  command that repeats it log in for ever (`at = "stopped"`).  The Enter after the connection shows
  the shell's prompt twice, so that the command may end before its last setting was carried out:
  `OutcomeIsTrue` asks for a login and not for the settings.
* *Device.*  BG that opens or closes the connection with a state kept takes a lock it holds
  (`textualdevice.py:521`).  goto_state_bg() "returns immediately" by its docstring, and waits for the
  walk of BG.  Prompts that are not paused can keep BG busy for ever: it goes to one state while
  another is kept, whose prompt's callback asks for the kept one.  goto_state() and remove() open the
  connection before they take the lock, so BG may close it under them and leave the belief wrong
  or the connection open.  A remove() that cannot go to NOT_CONNECTED closes the connection without
  the lock, and a BG that opens it in between leaves it open.  A prompt that comes while the event is
  paused for a command is dropped, and if it told of another shell than the command's the belief
  stays wrong (`upset`).  After a loss of the connection `_established` stays TRUE, and the next
  goto_state() does not connect.  UnixLocal's hops are returned and dropped, so from
  UNIX_LOCAL_ROOT a device without tables of its own cannot go to NOT_CONNECTED.

## 7. What is not modelled

* AsyncioRunner: it calls feed() with parameters that feed() does not take any more and uses parts of
  asyncio that are gone, so it shows no behaviour that could be translated.
* Publisher: the key scheme of the connection without threads.  EventAwaiter: polling over done().
* External IO: sockets, terminals and processes, which call data_received() from one thread per
  connection; this is the reader of `ThreadedConnection`.
* Sudo and Su, which feed a command inside a command, and Telnet's command mode.
* Other concrete commands, parsers and converters: regular expressions over text.  A command is
  abstracted to what its parsing does to its outcome.  They are most of the repository by lines:
  `moler/cmd` and `moler/events` hold some 40,000 of the 62,000 lines of `moler/`, each file tested
  by the samples it carries.  This is why the map covers less than a tenth of all lines though it
  covers most of the modules above; regular expressions are data here, and transcribing them would
  say nothing.
* Factories, configuration, logging: registries filled at start-up.
* Devices that a user configures with tables of his own, and the making of observers for a state.
* A command that requires a result and has none when its prompt comes (`ret_required`,
  `commandtextualgeneric.py:406`) goes on past it; the commands of `TextualObserver` end there.
* The job scheduler is a thin layer over a library; the serial proxy is a script of its own.

## 8. Plan

1. Done: `ConnectionSlot`, `CommandScheduler`; `ConnectionObserver`; `ThreadPoolRunner`,
   `SingleThreadRunner`; `DataSubscription`, `ThreadedConnection`; `TextualObserver`;
   `LoginCommand`; `DeviceTables`, `DeviceStates`; the proofs of section 4.
2. A composition of `CommandScheduler` with a runner in place of its `RunnerFinish`, so that the
   slot is given back by the runner that is really there, and with runner.submit() that raises.
3. Several observers in `SingleThreadRunner`, where one may hold up the loop of all.
4. Sudo and Su: the command they carry is fed by them, ends before them and shares their prompt.
