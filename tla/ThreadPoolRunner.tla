--------------------------- MODULE ThreadPoolRunner ---------------------------
(***************************************************************************)
(* ThreadPoolExecutorRunner of moler/runner.py serving one observer that    *)
(* has been submitted: the thread that feeds it data, the background feed() *)
(* thread that watches its time, a thread in wait_for(), and a user thread  *)
(* that calls cancel() or closes the connection.                            *)
(*                                                                         *)
(* Time is abstract: each deadline elapses at some moment (Elapse), in any  *)
(* order the arithmetic of the code allows.                                 *)
(***************************************************************************)
EXTENDS ConnectionObserver, FiniteSets

CONSTANTS
    Chunks,        \* how many chunks of data the connection delivers (bound)
    Terminates,    \* terminating_timeout > 0 (otherwise it is 0)
    AwaitTimeouts, \* may wait_for() be given a timeout?  A set of booleans
    Intruders,     \* what may happen without the lock: "cancel" (the user calls cancel()),
                   \* "close" (he closes the connection), "shutdown" (of the runner)
    FeedMayDie     \* may on_inactivity() raise inside feed()?

ASSUME RunnerAssumption ==
    /\ Chunks \in Nat
    /\ Terminates \in BOOLEAN /\ FeedMayDie \in BOOLEAN
    /\ AwaitTimeouts \subseteq BOOLEAN
    /\ Intruders \subseteq {"cancel", "close", "shutdown"}
    /\ Callers = {"data", "feed", "wait", "user"}
    /\ {"timeout", "parse", "closed"} \subseteq Exceptions

Deadlines == {"life",        \* start_time + timeout
              "eol",         \* start_time + timeout + terminating_timeout, of wait_for()
              "term",        \* feed()'s terminating_timeout, counted from its time out
              "await",       \* the timeout given to wait_for()
              "awaitTerm"}   \* wait_for()'s terminating_timeout after that

NoThread == "nobody"

VARIABLES
    pc,                 \* where each thread is
    observerLock,       \* who holds observer_lock
    subscribed,         \* is secure_data_received subscribed to the connection?
    feedDone,           \* event feed_done
    stopFeeding,        \* event stop_feeding
    futureDone,         \* is the future of feed() done?
    wasOnTimeoutCalled, \* life_status.was_on_timeout_called
    inTerminating,      \* life_status.in_terminating
    inShutdown,         \* runner._in_shutdown
    elapsed,            \* deadlines in the past
    maxTimeout,         \* was wait_for() given a timeout?
    chunksLeft,         \* chunks still to come
    timeouts            \* history: calls of on_timeout()

runnerVars == <<pc, observerLock, subscribed, feedDone, stopFeeding, futureDone,
                wasOnTimeoutCalled, inTerminating, inShutdown, elapsed, maxTimeout, chunksLeft,
                timeouts>>
vars == <<observerVars, runnerVars>>

RunnerInit ==
    /\ ObserverInit
    /\ pc = [t \in Callers |-> "start"]
    /\ observerLock = NoThread
    /\ subscribed = TRUE
    /\ feedDone = FALSE /\ stopFeeding = FALSE /\ futureDone = FALSE
    /\ wasOnTimeoutCalled = FALSE /\ inTerminating = FALSE /\ inShutdown = FALSE
    /\ elapsed = {}
    /\ maxTimeout \in AwaitTimeouts
    /\ chunksLeft = Chunks
    /\ timeouts = 0

At(t, label) == pc[t] = label /\ Idle(t)
Goto(t, label) == pc' = [pc EXCEPT ![t] = label]

\* Mutant: with several locks of one observer nobody excludes anybody.
AcquireNothing(t) == t \in Callers /\ UNCHANGED observerLock

Acquire(t) == observerLock = NoThread /\ observerLock' = t
Release(t) == observerLock = t /\ observerLock' = NoThread

\* A thread inside set_result, set_exception or cancel finishes that first.
ProceedInCall(t) == Proceed(t) /\ UNCHANGED runnerVars

flags == <<subscribed, feedDone, stopFeeding, futureDone, wasOnTimeoutCalled,
           inTerminating, inShutdown, elapsed, maxTimeout>>

-----------------------------------------------------------------------------
(* secure_data_received, in the thread that the connection feeds.           *)

\* done() is tested before the lock is taken.  A chunk that was queued before the
\* unsubscription may still come.
DataComes ==
    /\ At("data", "start")
    /\ chunksLeft > 0
    /\ chunksLeft' = chunksLeft - 1
    /\ Goto("data", IF isDone \/ inShutdown THEN "start" ELSE "lock")
    /\ UNCHANGED <<observerVars, observerLock, flags, timeouts>>

DataLocks ==
    /\ At("data", "lock")
    /\ Acquire("data")
    /\ Goto("data", "parse")
    /\ UNCHANGED <<observerVars, flags, chunksLeft, timeouts>>

\* data_received() finds nothing that ends the observer.
ParsePart ==
    /\ At("data", "parse")
    /\ Release("data")
    /\ Goto("data", "start")
    /\ UNCHANGED <<observerVars, flags, chunksLeft, timeouts>>

\* A textual command sees its prompt: a stored exception ends it, else its result does, and
\* a command that is done already takes neither.  Another observer just calls set_result.
ParseFinal(r) ==
    /\ At("data", "parse")
    /\ IF Textual /\ storedException # None
       THEN SetEndOfLife("data") /\ Goto("data", "parsed")
       ELSE IF CannotSetResult
       THEN UNCHANGED observerVars /\ Goto("data", IF Textual THEN "parsed" ELSE "raised")
       ELSE SetResult("data", r) /\ Goto("data", "parsed")
    /\ UNCHANGED <<observerLock, flags, chunksLeft, timeouts>>

\* data_received() finds a failure and calls set_exception itself: failure_indiction() of a
\* command does.
ParseFailure ==
    /\ At("data", "parse")
    /\ SetException("data", "parse")
    /\ Goto("data", "parsed")
    /\ UNCHANGED <<observerLock, flags, chunksLeft, timeouts>>

ParseRaises ==
    /\ At("data", "parse")
    /\ Goto("data", "raised")
    /\ UNCHANGED <<observerVars, observerLock, flags, chunksLeft, timeouts>>

DataUnlocks ==
    /\ At("data", "parsed")
    /\ Release("data")
    /\ Goto("data", "start")
    /\ UNCHANGED <<observerVars, flags, chunksLeft, timeouts>>

\* Mutant: the lock is not released when data_received() raises.
DataKeepsLockToReport ==
    /\ At("data", "raised")
    /\ Goto("data", "report")
    /\ UNCHANGED <<observerVars, observerLock, flags, chunksLeft, timeouts>>

\* The lock is released by the exception and taken again to report it.
DataUnlocksToReport ==
    /\ At("data", "raised")
    /\ Release("data")
    /\ Goto("data", "report")
    /\ UNCHANGED <<observerVars, flags, chunksLeft, timeouts>>

DataReports ==
    /\ At("data", "report")
    /\ Acquire("data")
    /\ SetException("data", "parse")
    /\ Goto("data", "parsed")
    /\ UNCHANGED <<flags, chunksLeft, timeouts>>

-----------------------------------------------------------------------------
(* time_out_observer, under observer_lock, by feed() or by wait_for().      *)

\* The flag of life_status is tested, and set in a step of its own.
TestTimedOut(t) == Goto(t, IF wasOnTimeoutCalled THEN "unlock" ELSE "mark")

MarkTimedOut(t) ==
    /\ At(t, "mark")
    /\ wasOnTimeoutCalled' = TRUE
    /\ Goto(t, IF isDone THEN "unlock" ELSE "fail")
    /\ UNCHANGED <<observerVars, observerLock, subscribed, feedDone, stopFeeding, futureDone,
                   inTerminating, inShutdown, elapsed, maxTimeout, chunksLeft, timeouts>>

TimeOutObserver(t) ==
    /\ At(t, "fail")
    /\ SetException(t, "timeout")
    /\ Goto(t, "on timeout")
    /\ UNCHANGED <<observerLock, flags, chunksLeft, timeouts>>

OnTimeout(t) ==
    /\ At(t, "on timeout")
    /\ timeouts' = timeouts + 1
    /\ Goto(t, "unlock")
    /\ UNCHANGED <<observerVars, observerLock, flags, chunksLeft>>

TimeOutInside(t) == MarkTimedOut(t) \/ TimeOutObserver(t) \/ OnTimeout(t)

-----------------------------------------------------------------------------
(* feed() and _feed_loop().                                                 *)

FeedLeavesLoop ==
    /\ At("feed", "start")
    /\ stopFeeding \/ isDone
    /\ Goto("feed", "stop")
    /\ UNCHANGED <<observerVars, observerLock, flags, chunksLeft, timeouts>>

FeedDeadline == IF inTerminating THEN "term" ELSE "life"

\* Mutant: the terminating period has no end.
FeedSeesFirstDeadline ==
    /\ At("feed", "start")
    /\ ~stopFeeding /\ ~isDone
    /\ FeedDeadline \in elapsed
    /\ Goto("feed", IF inTerminating THEN "tick" ELSE "lock")
    /\ UNCHANGED <<observerVars, observerLock, flags, chunksLeft, timeouts>>

\* The loop reads in_terminating, which wait_for() sets as well, before it compares the time.
FeedSeesDeadline ==
    /\ At("feed", "start")
    /\ ~stopFeeding /\ ~isDone
    /\ FeedDeadline \in elapsed
    /\ IF inTerminating
       THEN SetEndOfLife("feed") /\ Goto("feed", "tick")
       ELSE Goto("feed", "lock") /\ UNCHANGED observerVars
    /\ UNCHANGED <<observerLock, flags, chunksLeft, timeouts>>

FeedIsInTime ==
    /\ At("feed", "start")
    /\ ~stopFeeding /\ ~isDone
    /\ FeedDeadline \notin elapsed
    /\ Goto("feed", "tick")
    /\ UNCHANGED <<observerVars, observerLock, flags, chunksLeft, timeouts>>

FeedTimesOut ==
    /\ At("feed", "lock")
    /\ Acquire("feed")
    /\ TestTimedOut("feed")
    /\ UNCHANGED <<observerVars, flags, chunksLeft, timeouts>>

\* start_time of the loop is set anew: its terminating period begins now.
FeedStartsTerminating ==
    /\ At("feed", "unlock")
    /\ inTerminating' = TRUE
    /\ elapsed' = elapsed \ {"term"}
    /\ Release("feed")
    /\ Goto("feed", "tick")
    /\ UNCHANGED <<observerVars, subscribed, feedDone, stopFeeding, futureDone,
                   wasOnTimeoutCalled, inShutdown, maxTimeout, chunksLeft, timeouts>>

FeedEndsTick ==
    /\ At("feed", "tick")
    /\ IF inShutdown THEN Cancel("feed") ELSE UNCHANGED observerVars
    /\ Goto("feed", "start")
    /\ UNCHANGED <<observerLock, flags, chunksLeft, timeouts>>

\* on_inactivity() raises: the future is done with that exception, and its done callback
\* stops the feeding as feed() would have done.
FeedDies ==
    /\ FeedMayDie
    /\ At("feed", "start")
    /\ ~stopFeeding /\ ~isDone
    /\ FeedDeadline \notin elapsed
    /\ futureDone' = TRUE
    /\ Goto("feed", "stop")
    /\ UNCHANGED <<observerVars, observerLock, subscribed, feedDone, stopFeeding,
                   wasOnTimeoutCalled, inTerminating, inShutdown, elapsed, maxTimeout,
                   chunksLeft, timeouts>>

\* Mutant: feed_done is set, but nobody unsubscribes.
StopWithoutUnsubscribing ==
    /\ At("feed", "stop")
    /\ observerLock = NoThread
    /\ feedDone' = TRUE
    /\ futureDone' = TRUE
    /\ Goto("feed", "over")
    /\ UNCHANGED <<observerVars, observerLock, subscribed, stopFeeding, wasOnTimeoutCalled,
                   inTerminating, inShutdown, elapsed, maxTimeout, chunksLeft, timeouts>>

\* _stop_feeding unsubscribes under the lock; the done callback of the future calls it once
\* more and finds feed_done set.
StopFeeding ==
    /\ At("feed", "stop")
    /\ observerLock = NoThread
    /\ subscribed' = FALSE
    /\ feedDone' = TRUE
    /\ futureDone' = TRUE
    /\ Goto("feed", "over")
    /\ UNCHANGED <<observerVars, observerLock, stopFeeding, wasOnTimeoutCalled, inTerminating,
                   inShutdown, elapsed, maxTimeout, chunksLeft, timeouts>>

-----------------------------------------------------------------------------
(* wait_for(), with the future of the submitted observer.                   *)

\* _cancel_submitted_future: a running future is told to stop.
CancelFuture == stopFeeding' = (stopFeeding \/ ~futureDone)

WaitFindsDone ==
    /\ At("wait", "start")
    /\ isDone
    /\ CancelFuture
    /\ Goto("wait", "returned")
    /\ UNCHANGED <<observerVars, observerLock, subscribed, feedDone, futureDone, timeouts,
                   wasOnTimeoutCalled, inTerminating, inShutdown, elapsed, maxTimeout, chunksLeft>>

\* wait([future], timeout) wakes up when feed() is over; that the observer is done is seen
\* when the timeout is, which without a timeout of wait_for() is the next tick.
WaitReturns ==
    /\ \/ At("wait", "poll") /\ (futureDone \/ isDone)
       \/ /\ At("wait", "await") \/ At("wait", "awaitTerm")
          /\ futureDone \/ (isDone /\ pc["wait"] \in elapsed)
    /\ CancelFuture
    /\ Goto("wait", "returned")
    /\ UNCHANGED <<observerVars, observerLock, subscribed, feedDone, futureDone, timeouts,
                   wasOnTimeoutCalled, inTerminating, inShutdown, elapsed, maxTimeout, chunksLeft>>

\* Too late, it waits for the end of the observer without timing it out.
WaitBegins ==
    /\ At("wait", "start")
    /\ ~isDone
    /\ Goto("wait", IF maxTimeout THEN "await" ELSE IF "life" \in elapsed THEN "late" ELSE "poll")
    /\ UNCHANGED <<observerVars, observerLock, flags, chunksLeft, timeouts>>

WaitedTooLate ==
    /\ At("wait", "late")
    /\ isDone \/ "awaitTerm" \in elapsed
    /\ Goto("wait", "eol")
    /\ UNCHANGED <<observerVars, observerLock, flags, chunksLeft, timeouts>>

\* Mutant: the end of the time given to wait_for() ends the observer without timing it out.
WaitSkipsTimeOut ==
    /\ \/ At("wait", "await") /\ "await" \in elapsed
       \/ At("wait", "poll") /\ "life" \in elapsed
    /\ ~isDone /\ ~futureDone
    /\ Goto("wait", "eol")
    /\ UNCHANGED <<observerVars, observerLock, flags, chunksLeft, timeouts>>

\* The timeout given to wait_for() is over; without one, that of the observer is (and every
\* tick of the loop that follows repeats it).
WaitSeesDeadline ==
    /\ \/ At("wait", "await") /\ "await" \in elapsed
       \/ At("wait", "poll") /\ "life" \in elapsed
    /\ ~isDone /\ ~futureDone
    /\ Goto("wait", "lock")
    /\ UNCHANGED <<observerVars, observerLock, flags, chunksLeft, timeouts>>

WaitTimesOut ==
    /\ At("wait", "lock")
    /\ Acquire("wait")
    /\ TestTimedOut("wait")
    /\ UNCHANGED <<observerVars, flags, chunksLeft, timeouts>>

\* With a timeout in_terminating is set only if there is a terminating_timeout.  feed() then
\* measures its terminating_timeout from the start of the observer.
WaitStartsTerminating ==
    /\ At("wait", "unlock")
    /\ Release("wait")
    /\ inTerminating' = (inTerminating \/ ~maxTimeout \/ Terminates)
    /\ Goto("wait", IF ~maxTimeout THEN "poll2" ELSE IF Terminates THEN "awaitTerm" ELSE "eol")
    /\ UNCHANGED <<observerVars, subscribed, feedDone, stopFeeding, futureDone,
                   wasOnTimeoutCalled, inShutdown, elapsed, maxTimeout, chunksLeft, timeouts>>

\* The loop goes on while eol_remain_time > 0.
WaitPollsOn ==
    /\ At("wait", "poll2")
    /\ Goto("wait", IF "eol" \in elapsed THEN "eol" ELSE "poll")
    /\ UNCHANGED <<observerVars, observerLock, flags, chunksLeft, timeouts>>

WaitTerminatingOver ==
    /\ At("wait", "awaitTerm")
    /\ "awaitTerm" \in elapsed
    /\ ~isDone /\ ~futureDone
    /\ Goto("wait", "eol")
    /\ UNCHANGED <<observerVars, observerLock, flags, chunksLeft, timeouts>>

\* _end_of_life_of_future_and_connection_observer
WaitEndsLife ==
    /\ At("wait", "eol")
    /\ CancelFuture
    /\ SetEndOfLife("wait")
    /\ Goto("wait", "returned")
    /\ UNCHANGED <<observerLock, subscribed, feedDone, futureDone, wasOnTimeoutCalled,
                   inTerminating, inShutdown, elapsed, maxTimeout, chunksLeft, timeouts>>

-----------------------------------------------------------------------------
(* Those that do not take observer_lock: the user's one call of cancel() or  *)
(* of the connection's shutdown(), and the shutdown of the runner.           *)

UserCancels ==
    /\ "cancel" \in Intruders
    /\ At("user", "start")
    /\ Cancel("user")
    /\ Goto("user", "over")
    /\ UNCHANGED <<observerLock, flags, chunksLeft, timeouts>>

\* ThreadedMolerConnection.shutdown() calls connection_closed_handler of what is subscribed:
\* an exception for an observer that is not done, then cancel().
ConnectionCloses ==
    /\ "close" \in Intruders
    /\ At("user", "start")
    /\ subscribed
    /\ IF isDone THEN UNCHANGED observerVars ELSE SetException("user", "closed")
    /\ Goto("user", "cancel")
    /\ UNCHANGED <<observerLock, flags, chunksLeft, timeouts>>

CloserCancels ==
    /\ At("user", "cancel")
    /\ Cancel("user")
    /\ Goto("user", "unsubscribe")
    /\ UNCHANGED <<observerLock, flags, chunksLeft, timeouts>>

CloserUnsubscribes ==
    /\ At("user", "unsubscribe")
    /\ subscribed' = FALSE
    /\ Goto("user", "over")
    /\ UNCHANGED <<observerVars, observerLock, feedDone, stopFeeding, futureDone,
                   wasOnTimeoutCalled, inTerminating, inShutdown, elapsed, maxTimeout,
                   chunksLeft, timeouts>>

RunnerShutdown ==
    /\ "shutdown" \in Intruders
    /\ ~inShutdown
    /\ inShutdown' = TRUE
    /\ UNCHANGED <<observerVars, pc, observerLock, subscribed, feedDone, stopFeeding, futureDone,
                   wasOnTimeoutCalled, inTerminating, elapsed, maxTimeout, chunksLeft, timeouts>>

\* A deadline may elapse once its period has begun.
HasBegun(d) ==
    CASE d = "life" -> TRUE
      [] d = "eol" -> "life" \in elapsed /\ ~maxTimeout
      [] d = "term" -> inTerminating
      [] d = "await" -> At("wait", "await")
      [] d = "awaitTerm" -> At("wait", "awaitTerm") \/ At("wait", "late")

Elapse(d) ==
    /\ d \in Deadlines \ elapsed
    /\ HasBegun(d)
    /\ elapsed' = elapsed \cup {d}
    /\ UNCHANGED <<observerVars, pc, observerLock, subscribed, feedDone, stopFeeding, futureDone,
                   wasOnTimeoutCalled, inTerminating, inShutdown, maxTimeout, chunksLeft, timeouts>>

\* The user asks for the result once wait_for() has returned (await_done does).
UserReadsResult ==
    /\ At("wait", "returned")
    /\ ReadResult
    /\ Goto("wait", "over")
    /\ UNCHANGED <<observerLock, flags, chunksLeft, timeouts>>

-----------------------------------------------------------------------------

DataInside ==
    \/ DataLocks \/ ParsePart \/ ParseFailure \/ ParseRaises
    \/ \E r \in Results : ParseFinal(r)
    \/ DataUnlocks \/ DataUnlocksToReport \/ DataReports
    \/ ProceedInCall("data")

FeedStep ==
    \/ FeedLeavesLoop \/ FeedSeesDeadline \/ FeedIsInTime \/ FeedTimesOut \/ TimeOutInside("feed")
    \/ FeedStartsTerminating \/ FeedEndsTick \/ FeedDies \/ StopFeeding
    \/ ProceedInCall("feed")

WaitInside ==
    \/ WaitReturns \/ WaitedTooLate \/ WaitSeesDeadline \/ WaitTimesOut \/ TimeOutInside("wait")
    \/ WaitStartsTerminating \/ WaitPollsOn \/ WaitTerminatingOver \/ WaitEndsLife
    \/ UserReadsResult
    \/ ProceedInCall("wait")

IntruderInside ==
    \/ CloserCancels \/ CloserUnsubscribes
    \/ ProceedInCall("user")

RunnerNext ==
    \/ DataComes \/ DataInside
    \/ FeedStep
    \/ WaitFindsDone \/ WaitBegins \/ WaitInside
    \/ UserCancels \/ ConnectionCloses \/ IntruderInside
    \/ RunnerShutdown
    \/ \E d \in Deadlines : Elapse(d)

RunnerSpec == RunnerInit /\ [][RunnerNext]_vars

\* A thread that runs goes on and every deadline comes, but no data, wait_for(), cancel(),
\* closing or shutdown has to.
RunnerFairSpec ==
    /\ RunnerSpec
    /\ WF_vars(DataInside) /\ WF_vars(FeedStep) /\ WF_vars(WaitInside) /\ WF_vars(IntruderInside)
    /\ \A d \in Deadlines : WF_vars(Elapse(d))

-----------------------------------------------------------------------------

\* However feed() and wait_for() race for the same timeout, on_timeout() is called at most once:
\* was_on_timeout_called is tested and then set, and only observer_lock keeps the other thread
\* from its test between the two.
OnTimeoutOnce == timeouts <= 1

\* observer_lock is there "against threads race write-access to observer": an answer that
\* comes at the moment of a timeout leaves the observer with one of the two, never both.
ResultXorException == ~(result # None /\ exception # None)

\* What result() says of a done observer it says for ever: an observer that answered is not
\* timed out, cancelled or answered again afterwards.
OutcomeIsFinal == [][isDone => Outcome' = Outcome]_vars

\* wait_for() returns only when the observer is done, and an observer that is done has a result,
\* an exception or has been cancelled: running out of time never looks like a result of None.
EndHasReason ==
    /\ At("wait", "returned") => isDone
    /\ isDone => result # None \/ exception # None \/ isCancelled

\* However an observer ends, and even when feed() dies, it is unsubscribed from its connection.
DoneIsUnsubscribed == isDone ~> ~subscribed

\* A submitted observer ends, whatever data comes or not and even when nobody waits for it.
ObserverEnds == <>isDone

\* wait_for() returns, however the observer ends and even when feed() dies.
WaitForReturns == pc["wait"] # "start" ~> pc["wait"] = "over"

=============================================================================
