-------------------------- MODULE SingleThreadRunner --------------------------
(***************************************************************************)
(* RunnerSingleThread of moler/runner_single_thread.py, the default runner, *)
(* serving one observer: the thread that submits it, the wrapper's thread   *)
(* that calls data_received() (no lock, no test of done()), the one loop    *)
(* that watches the time of all observers, a thread in wait_for(), and a    *)
(* user thread that cancels, closes the connection or shuts the runner down. *)
(*                                                                         *)
(* Time is counted: wait_for() moves the observer's start and timeout while *)
(* the loop reads them.                                                     *)
(***************************************************************************)
EXTENDS ConnectionObserver, Integers

CONSTANTS
    Timeout,       \* the timeout the observer is started with
    Terminating,   \* terminating_timeout of a command
    Scenarios,     \* which observer, the timeout that wait_for() is given (0 is none), and what
                   \* else happens: see Troubles
    Chunks,        \* chunks the connection delivers (bound)
    LastAwait,     \* wait_for() is called at this time at the latest (bound)
    MaxTime        \* (bound)

Troubles == {"cancel",      \* the user cancels,
             "close",       \* or closes the connection,
             "shutdown",    \* or shuts the runner down
             "send",        \* send_command() raises
             "inactivity"}  \* on_inactivity() raises

ASSUME SingleThreadAssumption ==
    /\ Timeout \in Nat \ {0} /\ Terminating \in Nat
    /\ Scenarios \subseteq [kind : Kinds, given : Nat, troubles : SUBSET Troubles]
    /\ Chunks \in Nat /\ LastAwait \in Nat /\ MaxTime \in Nat
    /\ Callers = {"start", "data", "loop", "wait", "user"}
    /\ {"timeout", "parse", "closed", "send", "inactivity"} \subseteq Exceptions

Margin == 1         \* _time_to_wait_for_connection_observer_done, in seconds
NoThread == "nobody"

VARIABLES
    scenario,           \* one of Scenarios
    pc,                 \* where each thread is; the loop is inside while its copy of the list
                        \* has the observer
    listLock,           \* who holds _connection_observer_lock across steps
    listed,             \* is the observer in _connections_observers?
    taken,              \* ... in the list that shutdown() took?
    subscribed,         \* is its data_received subscribed to the connection?
    inShutdown,         \* _in_shutdown
    stopLoop,           \* _stop_loop_runner
    startTime, timeout, \* life_status
    inTerminating, wasOnTimeoutCalled,
    readStart,          \* start_time as the loop has read it,
    readClock,          \* and the clock (0 when it needs them no more)
    await,              \* wait_for(): its timeout, when it began, the start it read or chose
    chunksLeft,
    timeouts,           \* history: calls of on_timeout()
    now,
    lap                 \* has the loop begun or ended an iteration in this unit of time?

flags == <<listLock, listed, taken, subscribed, inShutdown, stopLoop>>
lifeStatus == <<startTime, timeout, inTerminating, wasOnTimeoutCalled>>
reads == <<readStart, readClock>>
locals == <<scenario, reads, await>>
bounds == <<chunksLeft, timeouts, now, lap>>
vars == <<observerVars, pc, flags, lifeStatus, locals, bounds>>

SingleInit ==
    /\ ObserverInit
    /\ scenario \in Scenarios /\ scenario.kind = kind
    /\ pc = [t \in Callers |-> IF t = "loop" THEN "copy" ELSE "begin"]
    /\ listLock = NoThread
    /\ listed = FALSE /\ taken = FALSE /\ subscribed = FALSE
    /\ inShutdown = FALSE /\ stopLoop = FALSE
    /\ startTime = 0 /\ timeout = Timeout
    /\ inTerminating = FALSE /\ wasOnTimeoutCalled = FALSE
    /\ readStart = 0 /\ readClock = 0
    /\ await = [given |-> scenario.given, since |-> 0, start |-> 0]
    /\ chunksLeft = Chunks /\ timeouts = 0
    /\ now = 0 /\ lap = "none"

At(t, label) == pc[t] = label /\ Idle(t)
Goto(t, label) == pc' = [pc EXCEPT ![t] = label]
Moves(t, from, to) == At(t, from) /\ Goto(t, to)

OnlyObserver == UNCHANGED <<flags, lifeStatus, locals, bounds>>
OnlyPc == UNCHANGED observerVars /\ OnlyObserver

\* A thread inside set_result, set_exception or cancel finishes that first.
ProceedInCall(t) == Proceed(t) /\ UNCHANGED <<pc, flags, lifeStatus, locals, bounds>>

-----------------------------------------------------------------------------
(* The starter: CommandScheduler._submit and submit().                      *)

SubmitChecks ==
    /\ At("start", "begin")
    /\ Goto("start", IF isDone \/ inShutdown THEN "over" ELSE "submit")
    /\ OnlyPc

\* _connection_observer_lock is held from here until the command is sent.
SubmitSubscribes ==
    /\ Moves("start", "submit", "append")
    /\ listLock = NoThread
    /\ listLock' = "start"
    /\ subscribed' = TRUE
    /\ UNCHANGED <<observerVars, listed, taken, inShutdown, stopLoop, lifeStatus, locals,
                   bounds>>

SubmitAppends ==
    /\ Moves("start", "append", "over")
    /\ listLock' = NoThread
    /\ listed' = TRUE
    /\ UNCHANGED <<observerVars, taken, subscribed, inShutdown, stopLoop, lifeStatus,
                   locals, bounds>>

\* send_command() raises: the observer stays in the list.  start() stores the exception in it
\* unless the main thread called it.
SendRaises(isMain) ==
    /\ "send" \in scenario.troubles
    /\ Moves("start", "append", "over")
    /\ listLock' = NoThread
    /\ listed' = TRUE
    /\ IF isMain THEN UNCHANGED observerVars ELSE SetException("start", "send")
    /\ UNCHANGED <<taken, subscribed, inShutdown, stopLoop, lifeStatus, locals, bounds>>

-----------------------------------------------------------------------------
(* The wrapper's thread, which goes on with what is queued when the observer *)
(* is unsubscribed.                                                         *)

DataComes ==
    /\ Moves("data", "begin", "parse")
    /\ pc["start"] \in {"append", "over"}
    /\ subscribed \/ isDone
    /\ chunksLeft > 0
    /\ chunksLeft' = chunksLeft - 1
    /\ UNCHANGED <<observerVars, flags, lifeStatus, locals, timeouts, now, lap>>

ParsePart ==
    /\ Moves("data", "parse", "begin")
    /\ OnlyPc

\* As in on_new_line(): a stored exception ends the command, else its result does; a command
\* that is done takes neither, and another observer raises ResultAlreadySet.
ParseFinal(r) ==
    /\ At("data", "parse")
    /\ IF Textual /\ storedException # None
       THEN SetEndOfLife("data") /\ Goto("data", "begin")
       ELSE IF CannotSetResult
       THEN UNCHANGED observerVars /\ Goto("data", IF Textual THEN "begin" ELSE "raised")
       ELSE SetResult("data", r) /\ Goto("data", "begin")
    /\ OnlyObserver

ParseFailure ==
    /\ Moves("data", "parse", "begin")
    /\ SetException("data", "parse")
    /\ OnlyObserver

ParseRaises ==
    /\ Moves("data", "parse", "raised")
    /\ OnlyPc

\* _handle_unexpected_error_from_observer
WrapperSetsException ==
    /\ Moves("data", "raised", "begin")
    /\ SetException("data", "parse")
    /\ OnlyObserver


-----------------------------------------------------------------------------
(* _timeout_observer, by the loop and by wait_for(), without a lock.        *)

\* The test and the assignment of was_on_timeout_called are apart: only Margin keeps the loop and
\* wait_for() from passing it together.
TestTimedOut(t) ==
    /\ At(t, "flag")
    /\ Goto(t, IF wasOnTimeoutCalled THEN "timed out" ELSE "mark")
    /\ OnlyPc

MarkTimedOut(t) ==
    /\ At(t, "mark")
    /\ wasOnTimeoutCalled' = TRUE
    /\ Goto(t, IF isDone THEN "timed out" ELSE "raise")
    /\ UNCHANGED <<observerVars, flags, startTime, timeout, inTerminating, locals, bounds>>

TimeOutObserver(t) ==
    /\ Moves(t, "raise", "on timeout")
    /\ SetException(t, "timeout")
    /\ OnlyObserver

OnTimeout(t) ==
    /\ Moves(t, "on timeout", "timed out")
    /\ timeouts' = timeouts + 1
    /\ UNCHANGED <<observerVars, flags, lifeStatus, locals, chunksLeft, now, lap>>

-----------------------------------------------------------------------------
(* The loop: copy, inactivity, timeouts, removal.                           *)

LoopStops ==
    /\ Moves("loop", "copy", "over")
    /\ stopLoop
    /\ OnlyPc

\* An iteration counts for the unit of time in which it began.
BeginLap == lap' = IF lap = "none" THEN "begun" ELSE lap
EndLap == lap' = IF lap = "begun" THEN "ended" ELSE lap

LoopCopies ==
    /\ Moves("loop", "copy", "start")
    /\ ~stopLoop
    /\ listLock = NoThread
    /\ listed
    /\ BeginLap
    /\ UNCHANGED <<observerVars, flags, lifeStatus, locals, chunksLeft, timeouts, now>>

LoopHasNothing ==
    /\ At("loop", "copy")
    /\ ~stopLoop
    /\ listLock = NoThread
    /\ ~listed
    /\ lap' = "ended"
    /\ UNCHANGED <<observerVars, pc, flags, lifeStatus, locals, chunksLeft, timeouts, now>>

\* An on_inactivity() that raises ends the observer; done() is not asked.
InactivityRaises ==
    /\ "inactivity" \in scenario.troubles
    /\ Moves("loop", "start", "watch")
    /\ SetException("loop", "inactivity")
    /\ OnlyObserver

\* The loop reads start_time, then the clock, and after them the timeout.
LoopReadsStart ==
    /\ At("loop", "start") \/ At("loop", "watch")
    /\ readStart' = startTime
    /\ Goto("loop", "clock")
    /\ UNCHANGED <<observerVars, flags, lifeStatus, scenario, readClock, await, bounds>>

LoopReadsClock ==
    /\ Moves("loop", "clock", "timeout")
    /\ readClock' = now
    /\ UNCHANGED <<observerVars, flags, lifeStatus, scenario, readStart, await, bounds>>

\* A plain observer has none.
TerminatingTimeout == IF Textual THEN Terminating ELSE 0

Limit == IF inTerminating THEN TerminatingTimeout ELSE timeout

IsOver == readClock - readStart >= Limit

LoopCompares(to) ==
    /\ Moves("loop", "timeout", to)
    /\ readStart' = 0 /\ readClock' = 0
    /\ UNCHANGED <<flags, lifeStatus, scenario, await, bounds>>

LoopIsInTime ==
    /\ LoopCompares("done")
    /\ ~IsOver
    /\ UNCHANGED observerVars

\* Mutant: the observer is ended without being timed out.
LoopEndsInstead ==
    /\ LoopCompares("done")
    /\ IsOver /\ ~inTerminating
    /\ SetEndOfLife("loop")

LoopTimesOut ==
    /\ LoopCompares("flag")
    /\ IsOver /\ ~inTerminating
    /\ UNCHANGED observerVars

\* Mutant: the end of the terminating period is only logged.
LoopForgivesTerminating ==
    /\ LoopCompares("done")
    /\ IsOver /\ inTerminating
    /\ UNCHANGED observerVars

LoopEndsTerminating ==
    /\ LoopCompares("done")
    /\ IsOver /\ inTerminating
    /\ SetEndOfLife("loop")

\* The start of the observer is moved, to count its terminating_timeout from now on.
LoopStartsTerminating ==
    /\ Moves("loop", "timed out", "done")
    /\ TerminatingTimeout > 0
    /\ startTime' = now
    /\ inTerminating' = TRUE
    /\ UNCHANGED <<observerVars, flags, timeout, wasOnTimeoutCalled, locals, bounds>>

LoopEndsLife ==
    /\ Moves("loop", "timed out", "done")
    /\ TerminatingTimeout = 0
    /\ SetEndOfLife("loop")
    /\ OnlyObserver

LoopFindsDone ==
    /\ Moves("loop", "done", "remove")
    /\ isDone
    /\ OnlyPc

LoopFindsUndone ==
    /\ Moves("loop", "done", "copy")
    /\ ~isDone
    /\ EndLap
    /\ UNCHANGED <<observerVars, flags, lifeStatus, locals, chunksLeft, timeouts, now>>

\* Mutant: the observer is taken from the list only.
LoopDelists ==
    /\ Moves("loop", "remove", "copy")
    /\ listLock = NoThread
    /\ listed' = FALSE
    /\ EndLap
    /\ UNCHANGED <<observerVars, listLock, taken, subscribed, inShutdown, stopLoop, lifeStatus,
                   locals, chunksLeft, timeouts, now>>

LoopRemoves ==
    /\ Moves("loop", "remove", "copy")
    /\ listLock = NoThread
    /\ listed' = FALSE
    /\ subscribed' = FALSE
    /\ EndLap
    /\ UNCHANGED <<observerVars, listLock, taken, inShutdown, stopLoop, lifeStatus, locals,
                   chunksLeft, timeouts, now>>

-----------------------------------------------------------------------------
(* await_done() and wait_for().                                             *)

WaitFindsDone ==
    /\ Moves("wait", "begin", "returned")
    /\ isDone
    /\ OnlyPc

\* Without a timeout of its own it takes the observer's, and its start.  (A command that has
\* not got to the runner yet is in the hands of the CommandScheduler.)
WaitBegins ==
    /\ Moves("wait", "begin", "set start")
    /\ pc["start"] = "over"
    /\ ~isDone
    /\ now <= LastAwait
    /\ LET given == scenario.given # 0 IN
       await' = [given |-> IF given THEN scenario.given ELSE timeout,
                 since |-> now,
                 start |-> IF given THEN now ELSE startTime]
    /\ UNCHANGED <<observerVars, flags, lifeStatus, scenario, reads, bounds>>

WaitSetsStart ==
    /\ Moves("wait", "set start", "set timeout")
    /\ startTime' = await.start
    /\ UNCHANGED <<observerVars, flags, timeout, inTerminating, wasOnTimeoutCalled, locals, bounds>>

\* Mutant: the time that has passed is taken from the timeout.
WaitSetsRemainingTime ==
    /\ Moves("wait", "set timeout", "await")
    /\ timeout' = await.start + await.given - await.since
    /\ UNCHANGED <<observerVars, flags, startTime, inTerminating, wasOnTimeoutCalled, locals, bounds>>

\* Either way the observer has its timeout from now on.
WaitSetsTimeout ==
    /\ Moves("wait", "set timeout", "await")
    /\ timeout' = await.since + await.given - await.start
    /\ UNCHANGED <<observerVars, flags, startTime, inTerminating, wasOnTimeoutCalled, locals, bounds>>

\* Mutant: neither the time that the observer has to terminate nor the margin is waited for.
MaxWaitForTimeout == startTime + timeout

MaxWait == startTime + timeout + TerminatingTimeout + Margin

WaitSeesDone ==
    /\ Moves("wait", "await", "returned")
    /\ isDone
    /\ OnlyPc

WaitGivesUp ==
    /\ Moves("wait", "await", "flag")
    /\ ~isDone
    /\ now >= MaxWait
    /\ OnlyPc

WaitReturns ==
    /\ Moves("wait", "timed out", "returned")
    /\ OnlyPc

\* await_done() asks for the result.
UserReadsResult ==
    /\ Moves("wait", "returned", "over")
    /\ ReadResult
    /\ OnlyObserver

-----------------------------------------------------------------------------
(* The user's one other call.                                               *)

UserCancels ==
    /\ "cancel" \in scenario.troubles
    /\ Moves("user", "begin", "over")
    /\ Cancel("user")
    /\ OnlyObserver

\* connection_closed_handler
ConnectionCloses ==
    /\ "close" \in scenario.troubles
    /\ Moves("user", "begin", "cancel")
    /\ subscribed
    /\ IF isDone THEN UNCHANGED observerVars ELSE SetException("user", "closed")
    /\ OnlyObserver

\* shutdown() swaps the list without _connection_observer_lock, then tells the loop.
ShutdownSwaps ==
    /\ "shutdown" \in scenario.troubles
    /\ Moves("user", "begin", "stop")
    /\ inShutdown' = TRUE
    /\ taken' = listed
    /\ listed' = FALSE
    /\ UNCHANGED <<observerVars, listLock, subscribed, stopLoop, lifeStatus, locals, bounds>>

ShutdownStops ==
    /\ At("user", "stop")
    /\ stopLoop' = TRUE
    /\ Goto("user", IF taken THEN "cancel" ELSE "over")
    /\ UNCHANGED <<observerVars, listLock, listed, taken, subscribed, inShutdown,
                   lifeStatus, locals, bounds>>

CloserCancels ==
    /\ Moves("user", "cancel", "unsubscribe")
    /\ Cancel("user")
    /\ OnlyObserver

CloserUnsubscribes ==
    /\ Moves("user", "unsubscribe", "over")
    /\ subscribed' = FALSE
    /\ UNCHANGED <<observerVars, listLock, listed, taken, inShutdown, stopLoop, lifeStatus,
                   locals, bounds>>

\* start() takes no time, nor do the assignments of wait_for(), and the loop goes round in each
\* unit of time.
Tick ==
    /\ now < MaxTime
    /\ At("start", "over")
    /\ pc["wait"] \notin {"set start", "set timeout"}
    /\ lap = "ended" \/ pc["loop"] = "over"
    /\ now' = now + 1
    /\ lap' = "none"
    /\ UNCHANGED <<observerVars, pc, flags, lifeStatus, locals, chunksLeft, timeouts>>

-----------------------------------------------------------------------------

StartStep ==
    \/ SubmitChecks \/ SubmitSubscribes \/ SubmitAppends
    \/ \E isMain \in BOOLEAN : SendRaises(isMain)
    \/ ProceedInCall("start")

DataInside ==
    \/ ParsePart \/ ParseFailure \/ ParseRaises \/ WrapperSetsException
    \/ \E r \in Results : ParseFinal(r)
    \/ ProceedInCall("data")

TimeOutStep(t) == TestTimedOut(t) \/ MarkTimedOut(t) \/ TimeOutObserver(t) \/ OnTimeout(t)

LoopStep ==
    \/ LoopStops \/ LoopCopies \/ LoopHasNothing \/ InactivityRaises
    \/ LoopReadsStart \/ LoopReadsClock \/ LoopIsInTime \/ LoopTimesOut \/ LoopEndsTerminating
    \/ LoopStartsTerminating \/ LoopEndsLife
    \/ LoopFindsDone \/ LoopFindsUndone \/ LoopRemoves
    \/ TimeOutStep("loop")
    \/ ProceedInCall("loop")

WaitInside ==
    \/ WaitSetsStart \/ WaitSetsTimeout \/ WaitSeesDone \/ WaitGivesUp \/ WaitReturns
    \/ UserReadsResult
    \/ TimeOutStep("wait")
    \/ ProceedInCall("wait")

UserInside ==
    \/ ShutdownStops \/ CloserCancels \/ CloserUnsubscribes
    \/ ProceedInCall("user")

SingleNext ==
    \/ StartStep
    \/ DataComes \/ DataInside
    \/ LoopStep
    \/ WaitFindsDone \/ WaitBegins \/ WaitInside
    \/ UserCancels \/ ConnectionCloses \/ ShutdownSwaps \/ UserInside
    \/ Tick

SingleSpec == SingleInit /\ [][SingleNext]_vars

\* Threads run and time passes.  No data, wait_for(), cancel(), closing or shutdown has to come.
SingleFairSpec ==
    /\ SingleSpec
    /\ WF_vars(StartStep) /\ WF_vars(DataInside) /\ WF_vars(LoopStep) /\ WF_vars(WaitInside)
    /\ WF_vars(UserInside) /\ WF_vars(Tick)

-----------------------------------------------------------------------------

\* However the loop and wait_for() race for the same timeout, on_timeout() is called once.
OnTimeoutOnce == timeouts <= 1

\* wait_for() returns only when the observer is done, and an observer that is done has a result,
\* an exception or has been cancelled: running out of time never looks like a result of None.
EndHasReason ==
    /\ At("wait", "returned") => isDone
    /\ isDone => result # None \/ exception # None \/ isCancelled

LoopFindsTimeOver == At("loop", "timeout") /\ pc'["loop"] = "flag" /\ ~isDone

\* "We count timeout from now if timeout is given" (wait_for): an observer has the timeout it was
\* started with, and from a wait_for() on the one that is in force then, counted from there.
Waited == pc["wait"] \notin {"begin", "set start", "set timeout"}
Deadline == IF Waited THEN await.since + await.given ELSE Timeout

\* However wait_for() and the loop move start_time and timeout, no observer that is not done is
\* timed out before its deadline: the loop may read one of the two before wait_for() changes it
\* and the other after.  One such torn read is excepted, and does time out early:
\* start_time read before, the timeout after.  Even then the given time has passed since start().
TornRead == Waited /\ readStart # startTime
NotTimedOutEarly ==
    [][LoopFindsTimeOver => now >= IF TornRead THEN await.given ELSE Deadline]_vars

\* While the runner is not shut down, however an observer ends, it is unsubscribed from its
\* connection.
DoneIsUnsubscribed == isDone ~> ~subscribed \/ inShutdown

\* A submitted observer ends, whatever data comes or not and even when nobody waits for it.
ObserverEnds == listed ~> isDone \/ inShutdown

=============================================================================
