--------------------------- MODULE CommandScheduler ---------------------------
(***************************************************************************)
(* moler/command_scheduler.py with the part of ConnectionObserver.start(), *)
(* cancel(), set_end_of_life() and of the _is_done setter that calls it.   *)
(*                                                                         *)
(* The scheduler keeps one entry per connection: a lock, the command that  *)
(* holds the connection and the queue of the commands that wait for it.    *)
(* Entries of different connections share nothing, so the module models    *)
(* one connection.  Each critical section of the entry's lock is a step.   *)
(***************************************************************************)
EXTENDS Naturals, Sequences, SequencesExt

CONSTANTS
    Cmds,          \* commands created on the connection
    Events,        \* observers that are not commands: the scheduler never queues them
    NoCmd,         \* Python's None in "current_cmd"
    Interrupters   \* which threads may end an observer that its runner still serves

\* The user's thread in start(), the thread enqueue_starting_on_connection spawns, the
\* runner, a thread that calls cancel(), and a thread whose await_done() gives up.
Threads == {"starter", "waiter", "runner", "canceller", "awaiter"}

ASSUME SchedulerAssumption ==
    /\ NoCmd \notin Cmds
    /\ Cmds \cap Events = {}
    /\ Interrupters \subseteq {"canceller", "awaiter"}

Observers == Cmds \cup Events

Labels == {"new", "enqueue", "retry", "append", "poll", "except", "finish",
           "submit", "send", "dequeue", "over", "raised"}

VARIABLES
    currentCmd,    \* _locks[connection]["current_cmd"]
    queue,         \* _locks[connection]["queue"]
    isDone,        \* life_status.is_done of each observer
    isCancelled,   \* life_status.is_cancelled
    hasException,  \* _exception is not None
    submitted,     \* runner.submit() subscribed the observer and sent its command string
    inShutdown,    \* runner._in_shutdown
    pc             \* where each thread is, for each observer

vars == <<currentCmd, queue, isDone, isCancelled, hasException, submitted, inShutdown, pc>>
slot == <<currentCmd, queue>>
life == <<isDone, isCancelled, hasException>>

Init ==
    /\ currentCmd = NoCmd
    /\ queue = <<>>
    /\ isDone = [o \in Observers |-> FALSE]
    /\ isCancelled = [o \in Observers |-> FALSE]
    /\ hasException = [o \in Observers |-> FALSE]
    /\ submitted = [o \in Observers |-> FALSE]
    /\ inShutdown = FALSE
    /\ pc = [p \in Threads \X Observers |-> "new"]

At(t, o, label) == pc[<<t, o>>] = label
Goto(t, o, label) == pc' = [pc EXCEPT ![<<t, o>>] = label]

-----------------------------------------------------------------------------
(* start(): the observer is validated, then enqueued in the same thread.    *)

\* start() of an observer that is already done raises WrongUsage and changes nothing else.
Start(o) ==
    /\ At("starter", o, "new")
    /\ Goto("starter", o, IF isDone[o] THEN "raised" ELSE "enqueue")
    /\ UNCHANGED <<slot, life, submitted, inShutdown>>

\* enqueue_starting_on_connection of an observer that is not a command: straight to _submit.
EnqueueEvent(e) ==
    /\ At("starter", e, "enqueue")
    /\ Goto("starter", e, "submit")
    /\ UNCHANGED <<slot, life, submitted, inShutdown>>

\* Mutant: the slot is taken without looking whether it is free.
EnqueueCommandInAnySlot(c) ==
    /\ At("starter", c, "enqueue")
    /\ currentCmd' = c
    /\ Goto("starter", c, "submit")
    /\ UNCHANGED <<queue, life, submitted, inShutdown>>

\* _add_command_to_connection(wait_for_slot=False): the free slot is taken, whoever queues for it.
EnqueueCommandInFreeSlot(c) ==
    /\ At("starter", c, "enqueue")
    /\ currentCmd = NoCmd
    /\ currentCmd' = c
    /\ Goto("starter", c, "submit")
    /\ UNCHANGED <<queue, life, submitted, inShutdown>>

\* The slot is held: the "CommandScheduler" thread is started and start() returns.
SpawnWaiter(c) ==
    /\ At("starter", c, "enqueue")
    /\ currentCmd # NoCmd
    /\ pc' = [pc EXCEPT ![<<"starter", c>>] = "over", ![<<"waiter", c>>] = "retry"]
    /\ UNCHANGED <<slot, life, submitted, inShutdown>>

-----------------------------------------------------------------------------
(* The waiter thread: _add_command_to_connection(wait_for_slot=True).       *)

\* Mutant: current_cmd is not tested again under the lock.
RetryTakesAnySlot(c) ==
    /\ At("waiter", c, "retry")
    /\ currentCmd' = c
    /\ Goto("waiter", c, "submit")
    /\ UNCHANGED <<queue, life, submitted, inShutdown>>

RetryTakesSlot(c) ==
    /\ At("waiter", c, "retry")
    /\ currentCmd = NoCmd
    /\ currentCmd' = c
    /\ Goto("waiter", c, "submit")
    /\ UNCHANGED <<queue, life, submitted, inShutdown>>

RetryFindsSlotHeld(c) ==
    /\ At("waiter", c, "retry")
    /\ currentCmd # NoCmd
    /\ Goto("waiter", c, "append")
    /\ UNCHANGED <<slot, life, submitted, inShutdown>>

AppendToQueue(c) ==
    /\ At("waiter", c, "append")
    /\ queue' = Append(queue, c)
    /\ Goto("waiter", c, "poll")
    /\ UNCHANGED <<currentCmd, life, submitted, inShutdown>>

\* Mutant: the head of the queue does not wait for the slot to be free.
TakeAnySlotFromQueue(c) ==
    /\ At("waiter", c, "poll")
    /\ queue # <<>> /\ Head(queue) = c
    /\ queue' = Tail(queue)
    /\ currentCmd' = c
    /\ Goto("waiter", c, "submit")
    /\ UNCHANGED <<life, submitted, inShutdown>>

\* _wait_for_slot_for_command: a poll that succeeds (one that fails changes nothing).
TakeSlotFromQueue(c) ==
    /\ At("waiter", c, "poll")
    /\ currentCmd = NoCmd
    /\ queue # <<>> /\ Head(queue) = c
    /\ queue' = Tail(queue)
    /\ currentCmd' = c
    /\ Goto("waiter", c, "submit")
    /\ UNCHANGED <<life, submitted, inShutdown>>

\* Mutant: the command is ended without its CommandTimeout.
GiveUpWaitingSilently(c) ==
    /\ At("waiter", c, "poll")
    /\ Goto("waiter", c, "finish")
    /\ UNCHANGED <<slot, life, submitted, inShutdown>>

\* cmd.timeout passed since the waiter began to poll.
GiveUpWaiting(c) ==
    /\ At("waiter", c, "poll")
    /\ Goto("waiter", c, "except")
    /\ UNCHANGED <<slot, life, submitted, inShutdown>>

\* set_exception(CommandTimeout): only logged when the command is done already...
StoreTimeout(c) ==
    /\ At("waiter", c, "except")
    /\ hasException' = [hasException EXCEPT ![c] = @ \/ ~isDone[c]]
    /\ Goto("waiter", c, "finish")
    /\ UNCHANGED <<slot, isDone, isCancelled, submitted, inShutdown>>

\* Mutant: neither set_exception() nor set_end_of_life() is reached.
LeaveTimedOut(c) ==
    /\ At("waiter", c, "finish")
    /\ Goto("waiter", c, "dequeue")
    /\ UNCHANGED <<slot, life, submitted, inShutdown>>

\* ... but it ends the command in any case, and so does set_end_of_life() after it.
FinishTimedOut(c) ==
    /\ At("waiter", c, "finish")
    /\ isDone' = [isDone EXCEPT ![c] = TRUE]
    /\ Goto("waiter", c, "dequeue")
    /\ UNCHANGED <<slot, isCancelled, hasException, submitted, inShutdown>>

-----------------------------------------------------------------------------
(* _submit, by the thread that took the slot (or the event's own thread).   *)

CheckBeforeSubmit(t, o) ==
    /\ t \in {"starter", "waiter"}
    /\ At(t, o, "submit")
    /\ Goto(t, o, IF isDone[o] \/ inShutdown THEN "over" ELSE "send")
    /\ UNCHANGED <<slot, life, submitted, inShutdown>>

\* runner.submit(): subscribes the observer and sends the command string; it does not
\* look at _is_done again.
RunnerSubmit(t, o) ==
    /\ t \in {"starter", "waiter"}
    /\ At(t, o, "send")
    /\ submitted' = [submitted EXCEPT ![o] = TRUE]
    /\ Goto(t, o, "over")
    /\ UNCHANGED <<slot, life, inShutdown>>

-----------------------------------------------------------------------------
(* The ends of an observer.  Every one sets is_done and then, for a command, *)
(* _remove_command runs under the lock of the entry.                        *)

AfterDone(o) == IF o \in Cmds THEN "dequeue" ELSE "over"

\* The runner has its result, its timeout or a closed connection.
RunnerFinish(o) ==
    /\ submitted[o] /\ ~isDone[o]
    /\ isDone' = [isDone EXCEPT ![o] = TRUE]
    /\ \E failed \in BOOLEAN : hasException' = [hasException EXCEPT ![o] = failed]
    /\ Goto("runner", o, AfterDone(o))
    /\ UNCHANGED <<slot, isCancelled, submitted, inShutdown>>

Cancel(o) ==
    /\ "canceller" \in Interrupters
    /\ ~isDone[o]
    /\ isCancelled' = [isCancelled EXCEPT ![o] = TRUE]
    /\ isDone' = [isDone EXCEPT ![o] = TRUE]
    /\ Goto("canceller", o, AfterDone(o))
    /\ UNCHANGED <<slot, hasException, submitted, inShutdown>>

\* await_done(timeout) on an observer that is not submitted yet: when the time is over the
\* runner calls set_end_of_life(), without an exception.
AwaiterGivesUp(o) ==
    /\ "awaiter" \in Interrupters
    /\ At("starter", o, "over")
    /\ ~submitted[o] /\ ~isDone[o]
    /\ isDone' = [isDone EXCEPT ![o] = TRUE]
    /\ Goto("awaiter", o, AfterDone(o))
    /\ UNCHANGED <<slot, isCancelled, hasException, submitted, inShutdown>>

IsQueued(c) == \E i \in DOMAIN queue : queue[i] = c
Position(c) == CHOOSE i \in DOMAIN queue : queue[i] = c

\* Mutants: only the slot is freed; only the queue is cleaned.
FreeSlotOnly(t, c) ==
    /\ At(t, c, "dequeue")
    /\ currentCmd' = IF currentCmd = c THEN NoCmd ELSE currentCmd
    /\ Goto(t, c, "over")
    /\ UNCHANGED <<queue, life, submitted, inShutdown>>

CleanQueueOnly(t, c) ==
    /\ At(t, c, "dequeue")
    /\ queue' = IF IsQueued(c) THEN RemoveAt(queue, Position(c)) ELSE queue
    /\ Goto(t, c, "over")
    /\ UNCHANGED <<currentCmd, life, submitted, inShutdown>>

\* _remove_command: frees the slot if c holds it and takes c out of the queue.  The calls
\* that set_exception, set_end_of_life and the waiter itself repeat find nothing to remove.
RemoveCommand(t, c) ==
    /\ At(t, c, "dequeue")
    /\ currentCmd' = IF currentCmd = c THEN NoCmd ELSE currentCmd
    /\ queue' = IF IsQueued(c) THEN RemoveAt(queue, Position(c)) ELSE queue
    /\ Goto(t, c, "over")
    /\ UNCHANGED <<life, submitted, inShutdown>>

RunnerShutdown ==
    /\ ~inShutdown
    /\ inShutdown' = TRUE
    /\ UNCHANGED <<slot, life, submitted, pc>>

-----------------------------------------------------------------------------

StarterStep(o) ==
    \/ o \in Events /\ EnqueueEvent(o)
    \/ o \in Cmds /\ (EnqueueCommandInFreeSlot(o) \/ SpawnWaiter(o))
    \/ CheckBeforeSubmit("starter", o)
    \/ RunnerSubmit("starter", o)

WaiterStep(c) ==
    \/ RetryTakesSlot(c) \/ RetryFindsSlotHeld(c)
    \/ AppendToQueue(c)
    \/ TakeSlotFromQueue(c) \/ GiveUpWaiting(c)
    \/ StoreTimeout(c) \/ FinishTimedOut(c)
    \/ CheckBeforeSubmit("waiter", c)
    \/ RunnerSubmit("waiter", c)

Next ==
    \/ \E o \in Observers : \/ Start(o) \/ StarterStep(o)
                            \/ RunnerFinish(o) \/ Cancel(o) \/ AwaiterGivesUp(o)
    \/ \E c \in Cmds : WaiterStep(c)
    \/ \E t \in Threads, c \in Cmds : RemoveCommand(t, c)
    \/ RunnerShutdown

\* Threads that run keep running; every wait is bounded by a timeout, so the waiter gives up
\* and the runner finishes.  Nobody has to call start(), cancel() or await_done().
Fairness ==
    /\ \A o \in Observers : WF_vars(StarterStep(o)) /\ WF_vars(RunnerFinish(o))
    /\ \A c \in Cmds : WF_vars(WaiterStep(c))
    /\ \A t \in Threads, c \in Cmds : WF_vars(RemoveCommand(t, c))

Spec == Init /\ [][Next]_vars
FairSpec == Spec /\ Fairness

-----------------------------------------------------------------------------

TypeOK ==
    /\ currentCmd \in Cmds \cup {NoCmd}
    /\ queue \in Seq(Cmds)
    /\ isDone \in [Observers -> BOOLEAN]
    /\ isCancelled \in [Observers -> BOOLEAN]
    /\ hasException \in [Observers -> BOOLEAN]
    /\ submitted \in [Observers -> BOOLEAN]
    /\ inShutdown \in BOOLEAN
    /\ pc \in [Threads \X Observers -> Labels]

Runs(c) == submitted[c] /\ ~isDone[c]

\* Two commands never run on the connection at the same time, whoever cancels them, gives up
\* awaiting them or times them out, and at whatever point of another thread's start()
\* ("runs command when no other command is in run mode").
OneCommandRuns == \A c, d \in Cmds : Runs(c) /\ Runs(d) => c = d

\* The queue holds a command once, and only while the thread that queued it has still to take
\* it out or to give up: an entry nobody serves would block all commands behind it.
QueueIsServed ==
    /\ \A i, j \in DOMAIN queue : queue[i] = queue[j] => i = j
    /\ \A i \in DOMAIN queue :
          pc[<<"waiter", queue[i]>>] \in {"poll", "except", "finish", "dequeue"}

\* A command that is done holds the slot only until the thread that ended it, or a thread
\* that still has to run _submit's check, has passed through the scheduler.
SlotIsNotLeaked ==
    currentCmd # NoCmd =>
        \/ ~isDone[currentCmd]
        \/ \E t \in Threads : pc[<<t, currentCmd>>] = "dequeue"

\* The inductive invariant behind the two of them.
\* The waiter exists only after start() returned; nobody submits a command twice.
OneThreadSubmits ==
    \A c \in Cmds :
        /\ pc[<<"starter", c>>] # "over" => pc[<<"waiter", c>>] = "new"
        /\ submitted[c] => /\ pc[<<"starter", c>>] = "over"
                           /\ pc[<<"waiter", c>>] \in {"new", "over"}

\* The setter runs _remove_command after it has set is_done.
DequeueAfterDone ==
    \A t \in Threads, c \in Cmds : pc[<<t, c>>] = "dequeue" => isDone[c]

OwnsSlot(c) ==
    \/ submitted[c]
    \/ \E t \in {"starter", "waiter"} : pc[<<t, c>>] \in {"submit", "send"}

\* Whoever is on the way to the runner, or in it, is the current command until it is done.
LiveOwnerIsCurrent == \A c \in Cmds : OwnsSlot(c) /\ ~isDone[c] => currentCmd = c

SchedulerInv ==
    TypeOK /\ OneThreadSubmits /\ DequeueAfterDone /\ LiveOwnerIsCurrent /\ QueueIsServed

\* When nobody interrupts, a command that is on its way to the runner is not done, and the
\* slot is held by a command that is not done or is about to be removed.
LiveUntilSubmitted ==
    \A c \in Cmds :
        (\/ pc[<<"starter", c>>] # "over"
         \/ pc[<<"waiter", c>>] \notin {"new", "dequeue", "over"}) => ~isDone[c]

\* A command string goes out only when no other command runs on the connection.
SendsAlone ==
    [][\A c \in Cmds : submitted'[c] /\ ~submitted[c] =>
          \A d \in Cmds \ {c} : ~Runs(d)]_vars

\* A command that was never submitted and was not cancelled does not end without an exception:
\* whoever asks for its result learns that it never ran.
NoSilentEnd ==
    \A c \in Cmds : isDone[c] /\ ~submitted[c] /\ ~isCancelled[c] => hasException[c]

\* Every command that start() enqueues ends, even when the slot never becomes free again.
EnqueuedEnds ==
    \A c \in Cmds : At("starter", c, "enqueue") ~> (isDone[c] \/ inShutdown)

\* The slot does not stay with a command that is done.
SlotIsGivenBack ==
    \A c \in Cmds : (currentCmd = c /\ isDone[c]) ~> (currentCmd # c)

\* What the scheduler promises the connection: commands run one at a time (ConnectionSlot).
Phase(c) ==
    IF isDone[c] THEN "over"
    ELSE IF submitted[c] THEN "running"
    ELSE IF At("starter", c, "new") THEN "idle" ELSE "waiting"

Slot == INSTANCE ConnectionSlot WITH phase <- [c \in Cmds |-> Phase(c)]
ImplementsSlot == Slot!Spec

=============================================================================
