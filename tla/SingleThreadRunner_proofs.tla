----------------------- MODULE SingleThreadRunner_proofs -----------------------
(***************************************************************************)
(* What the margin of wait_for() is for (SingleThreadRunner): no lock keeps   *)
(* the loop and wait_for() apart, but when wait_for() gives up, the loop has  *)
(* had a whole iteration to time the observer out and to end it.  For every   *)
(* kind of observer, every timeout, terminating_timeout and trouble.          *)
(***************************************************************************)
EXTENDS SingleThreadRunner, TLAPS

Shape ==
    /\ DOMAIN pc = Callers /\ DOMAIN call = Callers /\ DOMAIN arg = Callers
    /\ \A t \in Callers : /\ call[t] = "assign" => arg[t] \in Results
                          /\ call[t] \in {"keep", "store"} => arg[t] \in Exceptions
    /\ isDone \in BOOLEAN
    /\ scenario \in Scenarios /\ scenario.kind = kind

\* Nothing starts after now, and no timeout is zero.
Times ==
    /\ now \in Nat /\ startTime \in Nat /\ timeout \in Nat
    /\ readStart \in Nat /\ readClock \in Nat
    /\ startTime <= now /\ readStart <= now /\ readClock <= now /\ timeout > 0
Starting == pc["start"] # "over" => now = 0 /\ pc["loop"] \in {"copy", "over"} /\ ~listed

\* wait_for() moves them in no time.
Settled == pc["wait"] \notin {"set start", "set timeout"}
Await(given, since, start) ==
    /\ given \in Nat /\ since \in Nat /\ start \in Nat
    /\ given > 0 /\ since = now /\ start <= now
    /\ pc["wait"] = "set timeout" => start <= startTime
Awaiting == ~Settled => Await(await.given, await.since, await.start)
Clock == Times /\ Starting /\ Awaiting

\* The loop will not look at the observer any more.
Through == pc["start"] = "over" /\ (pc["loop"] = "over" \/ (pc["loop"] = "copy" /\ ~listed))

\* The loop looks at the observer in an iteration that finds its time over.
TimingOut == {"flag", "mark", "raise", "on timeout", "timed out"}
Looking ==
    \/ pc["loop"] \in {"start", "watch"}
    \/ pc["loop"] = "clock" /\ readStart = startTime
    \/ pc["loop"] = "timeout" /\ readStart = startTime /\ readClock = now
    \/ pc["loop"] \in TimingOut /\ ~inTerminating
    \/ pc["loop"] = "done" /\ call["loop"] = "done"

\* From this time on the next iteration that begins will time the observer out, or end it: when
\* that unit of time is over, the loop has removed it.
Late == IF inTerminating THEN startTime + timeout + TerminatingTimeout ELSE startTime + timeout
LoopIsInTimeInv ==
    Settled /\ ~isDone /\ now >= Late =>
        /\ now > Late \/ lap = "ended" => Through
        /\ lap = "begun" => Looking \/ Through

Apart == pc["wait"] \in TimingOut => Through

Once ==
    /\ timeouts \in {0, 1}
    /\ timeouts = 1 => wasOnTimeoutCalled
    /\ \A t \in {"loop", "wait"} :
          /\ pc[t] = "mark" => ~wasOnTimeoutCalled
          /\ pc[t] \in {"raise", "on timeout"} => wasOnTimeoutCalled /\ timeouts = 0

SingleInv == Shape /\ Clock /\ LoopIsInTimeInv /\ Apart /\ Once

HasReason == result # None \/ exception # None \/ isCancelled
Backed == HasReason \/ storedException # None
Reason ==
    /\ isDone => HasReason
    /\ inTerminating => Backed
    /\ \A t \in Callers : call[t] = "done" => Backed
    /\ \A t \in {"loop", "wait"} :
          /\ pc[t] = "timed out" => Backed
          /\ pc[t] = "on timeout" => Backed \/ call[t] \in {"keep", "store"}
    /\ wasOnTimeoutCalled => Backed \/ \E t \in {"loop", "wait"} : pc[t] \in {"raise", "on timeout"}

Stopping ==
    /\ inShutdown => "shutdown" \in scenario.troubles
    /\ stopLoop \/ pc["user"] = "stop" => inShutdown
    /\ pc["loop"] = "over" => stopLoop
    /\ pc["start"] = "over" /\ ~listed /\ ~inShutdown => isDone
    /\ pc["loop"] = "remove" => isDone
    /\ pc["wait"] \in TimingOut => inShutdown

Keeping == \A t \in Callers : call[t] = "keep" => WaitsForPrompt
Ends ==
    /\ Keeping
    /\ ~WaitsForPrompt =>
          /\ wasOnTimeoutCalled => \/ isDone
                                   \/ \E t \in {"loop", "wait"} :
                                        \/ pc[t] = "raise"
                                        \/ pc[t] = "on timeout" /\ call[t] # "idle"
          /\ pc["wait"] = "timed out" => isDone
    /\ pc["wait"] = "returned" => isDone
Abandons == \E s \in Scenarios : s.kind = "waiting command" /\ "shutdown" \in s.troubles

\* While the observer has not been timed out, wait_for() alone moves its time, and what it chose
\* adds up to the deadline.
OnTime ==
    /\ readStart \in {0, startTime}
    /\ pc["wait"] \in {"begin", "set start"} => startTime = 0 /\ timeout = Timeout
    /\ pc["wait"] = "set timeout" => startTime = await.start /\ timeout = Timeout
    /\ Waited => startTime = await.start /\ timeout + await.start = await.since + await.given
EarlyInv ==
    /\ await.given \in Nat /\ await.since \in Nat /\ await.start \in Nat
    /\ await.start <= await.since
    /\ ~inTerminating /\ ~isDone => OnTime

-----------------------------------------------------------------------------
(* Steps. *)

LEMMA Names ==
    /\ Callers = {"start", "data", "loop", "wait", "user"}
    /\ None \notin Results \cup Exceptions
    /\ {"timeout", "parse", "closed", "send", "inactivity"} \subseteq Exceptions
BY SingleThreadAssumption, ObserverAssumption

LEMMA Moved ==
    ASSUME NEW t \in Callers, NEW label, Shape, Goto(t, label)
    PROVE  /\ DOMAIN pc' = Callers /\ pc'[t] = label
           /\ \A u \in Callers \ {t} : pc'[u] = pc[u]
BY DEF Shape, Goto

LEMMA ShapeInit == SingleInit => Shape
BY Names DEF SingleInit, ObserverInit, Shape

LEMMA ShapeStep == ASSUME Shape, [SingleNext]_vars PROVE Shape'
<1> USE Names DEF Shape, Moves, At, Goto, OnlyPc, OnlyObserver, flags, lifeStatus, locals,
        reads, bounds
<1> USE DEF Idle, Enter, Leave, SetException, SetResult, SetEndOfLife, Cancel, ReadResult,
        ProceedInCall, Proceed, AssignResult, KeepException, StoreException, MarkCancelled,
        SetDone
<1>1. CASE StartStep
  BY <1>1, ZenonT(60) DEF StartStep, SubmitChecks, SubmitSubscribes, SubmitAppends, SendRaises,
     observerVars
<1>2. CASE DataComes \/ DataInside
  BY <1>2, ZenonT(60) DEF DataComes, DataInside, ParsePart, ParseFinal, ParseFailure,
     ParseRaises, WrapperSetsException, observerVars
<1>3. ASSUME NEW t \in Callers, TimeOutStep(t) PROVE Shape'
  BY <1>3, ZenonT(60) DEF TimeOutStep, TestTimedOut, MarkTimedOut, TimeOutObserver, OnTimeout,
     observerVars
<1>4. CASE LoopStep
  BY <1>3, <1>4, ZenonT(60) DEF LoopStep, LoopStops, LoopCopies, LoopHasNothing,
     InactivityRaises, LoopReadsStart, LoopReadsClock, LoopCompares, LoopIsInTime, LoopTimesOut,
     LoopEndsTerminating, LoopStartsTerminating, LoopEndsLife, LoopFindsDone, LoopFindsUndone,
     LoopRemoves, observerVars
<1>5. CASE WaitFindsDone \/ WaitBegins \/ WaitInside
  BY <1>3, <1>5, ZenonT(60) DEF WaitFindsDone, WaitBegins, WaitInside, WaitSetsStart,
     WaitSetsTimeout, WaitSeesDone, WaitGivesUp, WaitReturns, UserReadsResult, observerVars
<1>6. CASE UserCancels \/ ConnectionCloses \/ ShutdownSwaps \/ UserInside
  BY <1>6, ZenonT(60) DEF UserCancels, ConnectionCloses, ShutdownSwaps, UserInside,
     ShutdownStops, CloserCancels, CloserUnsubscribes, observerVars
<1>7. CASE Tick \/ UNCHANGED vars
  BY <1>7 DEF Tick, vars, observerVars
<1> QED
  BY <1>1, <1>2, <1>4, <1>5, <1>6, <1>7 DEF SingleNext


\* Whose step it is: the others stay where they are.
Only(t) ==
    /\ \A u \in Callers \ {t} : pc'[u] = pc[u] /\ call'[u] = call[u]
    /\ kind' = kind /\ (isDone => isDone')

\* A step beside the loop and wait_for(), of the starter, the data or the user.
Aside(t) ==
    /\ t \in {"start", "data", "user"} /\ Only(t)
    /\ UNCHANGED <<lifeStatus, locals, timeouts, now, lap>>
    /\ pc["start"] = "over" => pc'["start"] = "over"
    /\ listed' => listed \/ pc["start"] # "over"
    /\ listed' => listed \/ pc'["start"] = "over"

BesideStep ==
    \/ StartStep \/ DataComes \/ DataInside
    \/ UserCancels \/ ConnectionCloses \/ ShutdownSwaps \/ UserInside

LEMMA StepsAside ==
    ASSUME Shape
    PROVE  /\ StartStep => Aside("start")
           /\ DataComes \/ DataInside => Aside("data")
           /\ UserCancels \/ ConnectionCloses \/ ShutdownSwaps \/ UserInside => Aside("user")
           /\ BesideStep => \E t \in {"start", "data", "user"} : Aside(t)
<1> USE Names DEF Shape, Aside, Only, Moves, At, Goto, OnlyPc, OnlyObserver, lifeStatus, flags,
        locals, reads, bounds
<1> USE DEF Idle, Enter, Leave, SetException, SetResult, SetEndOfLife, Cancel, ProceedInCall,
        Proceed, AssignResult, KeepException, StoreException, MarkCancelled, SetDone
<1>1. ASSUME StartStep PROVE Aside("start")
  BY <1>1 DEF StartStep, SubmitChecks, SubmitSubscribes, SubmitAppends, SendRaises, observerVars
<1>2. ASSUME DataComes \/ DataInside PROVE Aside("data")
  BY <1>2 DEF DataComes, DataInside, ParsePart, ParseFinal, ParseFailure, ParseRaises,
     WrapperSetsException, observerVars
<1>3. ASSUME UserCancels \/ ConnectionCloses \/ ShutdownSwaps \/ UserInside PROVE Aside("user")
  BY <1>3 DEF UserCancels, ConnectionCloses, ShutdownSwaps, UserInside, ShutdownStops,
     CloserCancels, CloserUnsubscribes, observerVars
<1> QED
  BY <1>1, <1>2, <1>3 DEF BesideStep

LEMMA OnlyLoop == ASSUME Shape, LoopStep PROVE Only("loop")
<1> USE Names DEF Shape, Only, Moves, At, Goto, OnlyPc, OnlyObserver, lifeStatus, flags, locals,
        reads, bounds
<1> USE DEF Idle, Enter, Leave, SetException, SetEndOfLife, ProceedInCall, Proceed,
        AssignResult, KeepException, StoreException, MarkCancelled, SetDone
<1> QED
  BY DEF LoopStep, LoopStops, LoopCopies, LoopHasNothing, InactivityRaises, LoopReadsStart,
         LoopReadsClock, LoopCompares, LoopIsInTime, LoopTimesOut, LoopEndsTerminating,
         LoopStartsTerminating, LoopEndsLife, LoopFindsDone, LoopFindsUndone, LoopRemoves,
         TimeOutStep, TestTimedOut, MarkTimedOut, TimeOutObserver, OnTimeout, observerVars

LEMMA OnlyWait ==
    ASSUME Shape, WaitFindsDone \/ WaitBegins \/ WaitInside
    PROVE  Only("wait")
<1> USE Names DEF Shape, Only, Moves, At, Goto, OnlyPc, OnlyObserver, lifeStatus, flags, locals,
        reads, bounds
<1> USE DEF Idle, Enter, Leave, SetException, ReadResult, ProceedInCall, Proceed, AssignResult,
        KeepException, StoreException, MarkCancelled, SetDone
<1> QED
  BY DEF WaitFindsDone, WaitBegins, WaitInside, WaitSetsStart, WaitSetsTimeout, WaitSeesDone,
         WaitGivesUp, WaitReturns, UserReadsResult, TimeOutStep, TestTimedOut, MarkTimedOut,
         TimeOutObserver, OnTimeout, observerVars

\* The limits are times.
LEMMA LateIsTime ==
    ASSUME Clock
    PROVE  /\ TerminatingTimeout \in Nat /\ Late \in Nat /\ startTime < Late
           /\ MaxWait \in Nat /\ Late < MaxWait
           /\ pc["start"] # "over" => now < Late
<1>1. TerminatingTimeout \in Nat
  BY SingleThreadAssumption DEF TerminatingTimeout, Textual
<1>2. startTime \in Nat /\ timeout \in Nat /\ timeout > 0
  BY DEF Clock, Times
<1>3. /\ Late \in Nat /\ startTime < Late
      /\ Late <= startTime + timeout + TerminatingTimeout
  BY <1>1, <1>2 DEF Late
<1>4. MaxWait = startTime + timeout + TerminatingTimeout + 1
  BY <1>1, <1>2 DEF MaxWait, Margin
<1>5. pc["start"] # "over" => now < Late
  BY <1>2, <1>3 DEF Clock, Starting
<1> QED
  BY <1>1, <1>2, <1>3, <1>4, <1>5

LEMMA AsideKeeps ==
    ASSUME SingleInv, NEW t, Aside(t)
    PROVE  Clock' /\ LoopIsInTimeInv' /\ Apart' /\ Once'
<1>1. /\ pc'["loop"] = pc["loop"] /\ call'["loop"] = call["loop"] 
      /\ pc'["wait"] = pc["wait"] /\ call'["wait"] = call["wait"]
  BY Names DEF Aside, Only
<1>2. Clock'
  BY <1>1 DEF Aside, SingleInv, Clock, Times, Starting, Awaiting, Await, Settled, locals, reads,
     lifeStatus
<1>3. Late' = Late
  BY DEF Aside, Only, Late, TerminatingTimeout, Textual, lifeStatus
<1>4. Settled' = Settled
  BY <1>1 DEF Settled
<1>5. Through => Through'
  BY <1>1 DEF Aside, Through
<1>6. Looking => Looking'
  BY <1>1 DEF Aside, Looking, lifeStatus, locals, reads
<1>7. LoopIsInTimeInv'
  BY <1>3, <1>4, <1>5, <1>6, LateIsTime DEF Aside, Only, SingleInv, LoopIsInTimeInv
<1>8. Apart'
  BY <1>1, <1>5 DEF SingleInv, Apart
<1>9. Once'
  BY <1>1 DEF SingleInv, Once, Aside, lifeStatus
<1> QED
  BY <1>2, <1>7, <1>8, <1>9

-----------------------------------------------------------------------------
(* The loop. *)

\* Between two iterations it has nothing to do with the observer.
LEMMA BetweenIterations ==
    ASSUME LoopStep, pc["loop"] \in {"copy", "over"}
    PROVE  LoopStops \/ LoopCopies \/ LoopHasNothing \/ ProceedInCall("loop")
BY DEF LoopStep, InactivityRaises, LoopReadsStart, LoopReadsClock, LoopCompares, LoopIsInTime,
       LoopTimesOut, LoopEndsTerminating, LoopStartsTerminating, LoopEndsLife, LoopFindsDone,
       LoopFindsUndone, LoopRemoves, TimeOutStep, TestTimedOut, MarkTimedOut, TimeOutObserver,
       OnTimeout, Moves, At

LEMMA LoopStaysOut ==
    ASSUME Shape, LoopStep, pc["loop"] \in {"copy", "over"}, ~listed
    PROVE  pc'["loop"] \in {pc["loop"], "over"} /\ ~listed'
BY BetweenIterations, Names DEF Shape, LoopStops, LoopCopies, LoopHasNothing, ProceedInCall,
   Moves, At, Goto, OnlyPc, OnlyObserver, flags, lifeStatus, locals, reads, bounds

LEMMA LoopKeepsClock == ASSUME SingleInv, LoopStep PROVE Clock'
<1>1. pc'["wait"] = pc["wait"] /\ pc'["start"] = pc["start"]
  BY Names, OnlyLoop DEF SingleInv, Only
<1>2. Settled' = Settled
  BY <1>1 DEF Settled
<1>3. UNCHANGED <<now, timeout, await>>
  BY DEF LoopStep, LoopStops, LoopCopies, LoopHasNothing, InactivityRaises, LoopReadsStart,
         LoopReadsClock, LoopCompares, LoopIsInTime, LoopTimesOut, LoopEndsTerminating,
         LoopStartsTerminating, LoopEndsLife, LoopFindsDone, LoopFindsUndone, LoopRemoves,
         TimeOutStep, TestTimedOut, MarkTimedOut, TimeOutObserver, OnTimeout, ProceedInCall,
         OnlyPc, OnlyObserver, flags, lifeStatus, locals, reads, bounds
<1>4. /\ startTime' \in {startTime, now}
      /\ readStart' \in {readStart, startTime, 0}
      /\ readClock' \in {readClock, now, 0}
  BY DEF LoopStep, LoopStops, LoopCopies, LoopHasNothing, InactivityRaises, LoopReadsStart,
         LoopReadsClock, LoopCompares, LoopIsInTime, LoopTimesOut, LoopEndsTerminating,
         LoopStartsTerminating, LoopEndsLife, LoopFindsDone, LoopFindsUndone, LoopRemoves,
         TimeOutStep, TestTimedOut, MarkTimedOut, TimeOutObserver, OnTimeout, ProceedInCall,
         OnlyPc, OnlyObserver, flags, lifeStatus, locals, reads, bounds
<1>5. Starting'
  BY <1>1, <1>3, LoopStaysOut DEF SingleInv, Clock, Starting
<1>6. Times'
  BY <1>3, <1>4 DEF SingleInv, Clock, Times
<1>7. Awaiting'
  <2>1. SUFFICES ASSUME ~Settled PROVE Await(await.given, await.since, await.start)'
    BY <1>2 DEF Awaiting
  <2>2. Await(await.given, await.since, await.start)
    BY <2>1 DEF SingleInv, Clock, Awaiting
  <2>3. CASE startTime' = startTime
    BY <1>1, <1>3, <2>2, <2>3 DEF Await
  <2>4. CASE startTime' = now
    BY <1>1, <1>3, <2>2, <2>4 DEF Await
  <2> QED
    BY <1>4, <2>3, <2>4
<1> QED
  BY <1>5, <1>6, <1>7 DEF Clock

LEMMA LoopStaysThrough == ASSUME Shape, LoopStep, Through PROVE Through'
<1>1. pc'["start"] = pc["start"]
  BY Names, OnlyLoop DEF Only
<1> QED
  BY <1>1, LoopStaysOut, BetweenIterations, Names DEF Through, Shape, LoopStops, LoopCopies,
     LoopHasNothing, ProceedInCall, Moves, At, Goto

\* An observer that is late, and not done, is looked at before the iteration ends.
LEMMA LoopKeepsTime == ASSUME SingleInv, LoopStep PROVE LoopIsInTimeInv'
<1>1. SUFFICES ASSUME Settled', ~isDone', now' >= Late', ~Through'
               PROVE  ~(now' > Late') /\ lap' # "ended" /\ (lap' = "begun" => Looking')
  BY DEF LoopIsInTimeInv
<1>2. ~Through /\ ~isDone /\ Settled
  BY <1>1, LoopStaysThrough, OnlyLoop, Names DEF SingleInv, Only, Settled
<1>3. ~LoopStartsTerminating
  <2>1. SUFFICES ASSUME LoopStartsTerminating PROVE FALSE
    OBVIOUS
  <2>2. startTime' = now /\ now' = now /\ timeout' = timeout /\ inTerminating'
    BY <2>1 DEF LoopStartsTerminating, bounds
  <2>3. Late' = now + timeout + TerminatingTimeout
    BY <2>2, OnlyLoop DEF SingleInv, Only, Late, TerminatingTimeout, Textual
  <2>4. now < now + timeout + TerminatingTimeout
    BY LateIsTime DEF SingleInv, Clock, Times
  <2> QED
    BY <1>1, <2>2, <2>3, <2>4, LateIsTime DEF SingleInv, Clock, Times
<1>4. UNCHANGED <<now, startTime, timeout, inTerminating>>
  BY <1>3 DEF LoopStep, LoopStops, LoopCopies, LoopHasNothing, InactivityRaises, LoopReadsStart,
     LoopReadsClock, LoopCompares, LoopIsInTime, LoopTimesOut, LoopEndsTerminating,
     LoopEndsLife, LoopFindsDone, LoopFindsUndone, LoopRemoves, TimeOutStep, TestTimedOut,
     MarkTimedOut, TimeOutObserver, OnTimeout, ProceedInCall, OnlyPc, OnlyObserver, flags,
     lifeStatus, locals, reads, bounds
<1>5. now >= Late /\ Late' = Late
  BY <1>1, <1>4, OnlyLoop DEF SingleInv, Only, Late, TerminatingTimeout, Textual
<1>6. ~(now > Late) /\ lap # "ended" /\ (lap = "begun" => Looking)
  BY <1>2, <1>5 DEF SingleInv, LoopIsInTimeInv
<1>7. readStart = startTime /\ readClock = now => IsOver
  BY LateIsTime, <1>5 DEF SingleInv, Clock, Times, Late, Limit, IsOver
<1>8. pc["start"] = "over"
  BY LateIsTime, <1>5 DEF SingleInv, Clock, Times
<1> SUFFICES lap' # "ended" /\ (lap' = "begun" => Looking')
  BY <1>1, <1>4, <1>5, <1>6
<1> USE <1>2, <1>4, <1>6, Names DEF SingleInv, Shape, Looking, TimingOut, Moves, At, Goto
<1>9. CASE LoopStops
  BY <1>9 DEF LoopStops, OnlyPc, OnlyObserver, bounds
<1>10. CASE LoopCopies
  BY <1>10 DEF LoopCopies, BeginLap
<1>11. CASE LoopHasNothing
  BY <1>11, <1>8 DEF LoopHasNothing, Through
<1>12. CASE InactivityRaises
  BY <1>12 DEF InactivityRaises, OnlyObserver, bounds
<1>13. CASE LoopReadsStart
  BY <1>13 DEF LoopReadsStart, LoopReadsClock, bounds, lifeStatus
<1>23. CASE LoopReadsClock
  BY <1>23 DEF LoopReadsClock, bounds, lifeStatus
<1>14. CASE LoopIsInTime
  BY <1>14, <1>7 DEF LoopIsInTime, LoopCompares, lifeStatus, bounds
<1>15. CASE LoopTimesOut
  BY <1>15 DEF LoopTimesOut, LoopCompares, lifeStatus, bounds
<1>16. CASE LoopEndsTerminating
  BY <1>16 DEF LoopEndsTerminating, LoopCompares, lifeStatus, bounds, SetEndOfLife, Enter
<1>17. CASE LoopEndsLife
  BY <1>17 DEF LoopEndsLife, OnlyObserver, bounds, SetEndOfLife, Enter
<1>18. CASE LoopFindsDone
  BY <1>18 DEF LoopFindsDone
<1>19. CASE LoopFindsUndone
  BY <1>19 DEF LoopFindsUndone, EndLap, Idle
<1>20. CASE LoopRemoves
  BY <1>20 DEF LoopRemoves, EndLap
<1>21. CASE TimeOutStep("loop")
  BY <1>21 DEF TimeOutStep, TestTimedOut, MarkTimedOut, TimeOutObserver, OnTimeout, OnlyPc,
     OnlyObserver, bounds
<1>22. CASE ProceedInCall("loop")
  <2>1. call["loop"] # "done"
    BY <1>1, <1>22 DEF ProceedInCall, Proceed, AssignResult, KeepException, StoreException,
       MarkCancelled, SetDone
  <2> QED
    BY <1>22, <2>1 DEF ProceedInCall, bounds, locals, reads
<1> QED
  BY <1>3, <1>9, <1>10, <1>11, <1>12, <1>13, <1>14, <1>15, <1>16, <1>17, <1>18, <1>19, <1>20,
     <1>21, <1>22, <1>23 DEF LoopStep

-----------------------------------------------------------------------------
(* _timeout_observer: the loop and wait_for() are never both in it. *)

LEMMA NeverBoth ==
    ASSUME SingleInv
    PROVE  pc["loop"] \notin TimingOut \/ pc["wait"] \notin TimingOut
BY DEF SingleInv, Apart, Through, TimingOut

LEMMA OnceKept ==
    ASSUME SingleInv, UNCHANGED <<timeouts, wasOnTimeoutCalled>>,
           \A t \in {"loop", "wait"} :
               pc'[t] \in {"mark", "raise", "on timeout"} => pc'[t] = pc[t]
    PROVE  Once'
BY DEF SingleInv, Once

LEMMA TimeOutKeepsOnce ==
    ASSUME SingleInv, NEW t \in {"loop", "wait"}, TimeOutStep(t)
    PROVE  Once'
<1> USE Names DEF SingleInv, Shape, Moves, At, Goto
<1>1. CASE TestTimedOut(t)
  BY <1>1 DEF TestTimedOut, Once, OnlyPc, OnlyObserver, lifeStatus, bounds
<1>2. CASE MarkTimedOut(t)
  BY <1>2, NeverBoth DEF MarkTimedOut, Once, TimingOut, bounds
<1>3. CASE TimeOutObserver(t)
  BY <1>3 DEF TimeOutObserver, Once, OnlyObserver, lifeStatus, bounds
<1>4. CASE OnTimeout(t)
  <2>1. timeouts = 0 /\ wasOnTimeoutCalled
    BY <1>4 DEF OnTimeout, Once
  <2> timeouts + 1 = 1
    BY <2>1
  <2>2. timeouts' = 1 /\ wasOnTimeoutCalled'
    BY <1>4, <2>1, Zenon DEF OnTimeout, lifeStatus
  <2>3. \A u \in {"loop", "wait"} : pc'[u] \notin {"mark", "raise", "on timeout"}
    BY <1>4, NeverBoth DEF OnTimeout, TimingOut
  <2> QED
    BY <2>2, <2>3 DEF Once
<1> QED
  BY <1>1, <1>2, <1>3, <1>4 DEF TimeOutStep

LEMMA LoopKeepsOnce == ASSUME SingleInv, LoopStep PROVE Once'
<1>1. CASE TimeOutStep("loop")
  BY <1>1, TimeOutKeepsOnce
<1>2. CASE ~TimeOutStep("loop")
  <2>1. UNCHANGED <<timeouts, wasOnTimeoutCalled>>
    BY <1>2 DEF LoopStep, LoopStops, LoopCopies, LoopHasNothing, InactivityRaises,
       LoopReadsStart, LoopReadsClock, LoopCompares, LoopIsInTime, LoopTimesOut,
       LoopEndsTerminating, LoopStartsTerminating, LoopEndsLife, LoopFindsDone, LoopFindsUndone,
       LoopRemoves, ProceedInCall, OnlyPc, OnlyObserver, flags, lifeStatus, locals, reads,
       bounds
  <2>2. pc'["loop"] \in {"mark", "raise", "on timeout"} => pc'["loop"] = pc["loop"]
    BY <1>2, Names DEF SingleInv, Shape, LoopStep, LoopStops, LoopCopies, LoopHasNothing,
       InactivityRaises, LoopReadsStart, LoopReadsClock, LoopCompares, LoopIsInTime,
       LoopTimesOut, LoopEndsTerminating, LoopStartsTerminating, LoopEndsLife, LoopFindsDone,
       LoopFindsUndone, LoopRemoves, ProceedInCall, Moves, At, Goto
  <2> QED
    BY <2>1, <2>2, OnceKept, OnlyLoop, Names DEF SingleInv, Only
<1> QED
  BY <1>1, <1>2

LEMMA LoopKeeps == ASSUME SingleInv, LoopStep PROVE SingleInv'
<1>1. Shape'
  BY ShapeStep DEF SingleInv, SingleNext
<1>2. Apart'
  BY LoopStaysThrough, OnlyLoop, Names DEF SingleInv, Only, Apart
<1> QED
  BY <1>1, <1>2, LoopKeepsClock, LoopKeepsTime, LoopKeepsOnce DEF SingleInv

-----------------------------------------------------------------------------
(* wait_for(). *)

WaitStep == WaitFindsDone \/ WaitBegins \/ WaitInside

LEMMA WaitStaysThrough == ASSUME Shape, WaitStep PROVE (Through => Through') /\ listed' = listed
<1>1. pc'["loop"] = pc["loop"] /\ pc'["start"] = pc["start"]
  BY OnlyWait, Names DEF WaitStep, Only
<1>2. listed' = listed
  BY DEF WaitStep, WaitFindsDone, WaitBegins, WaitInside, WaitSetsStart, WaitSetsTimeout,
         WaitSeesDone, WaitGivesUp, WaitReturns, UserReadsResult, TimeOutStep, TestTimedOut,
         MarkTimedOut, TimeOutObserver, OnTimeout, ProceedInCall, OnlyPc, OnlyObserver, flags,
         lifeStatus, locals, reads, bounds
<1> QED
  BY <1>1, <1>2 DEF Through

\* All that wait_for() does to the time of the observer, it does at its beginning.
WaitKeepsTimes ==
    /\ UNCHANGED <<now, lap, startTime, timeout, inTerminating, readStart, readClock, await>>
    /\ Settled' = Settled
    /\ pc'["wait"] = "set timeout" => pc["wait"] = "set timeout"

LEMMA WaitTimes ==
    ASSUME SingleInv, WaitStep
    PROVE  WaitBegins \/ WaitSetsStart \/ WaitSetsTimeout \/ WaitKeepsTimes
<1> USE Names DEF SingleInv, Shape, WaitKeepsTimes, Settled, Moves, At, Goto, OnlyPc,
        OnlyObserver, lifeStatus, locals, reads, bounds, flags
<1>1. CASE TimeOutStep("wait")
  BY <1>1 DEF TimeOutStep, TestTimedOut, MarkTimedOut, TimeOutObserver, OnTimeout
<1>2. CASE ProceedInCall("wait")
  BY <1>2 DEF ProceedInCall
<1>3. CASE WaitFindsDone \/ WaitSeesDone \/ WaitGivesUp \/ WaitReturns \/ UserReadsResult
  BY <1>3 DEF WaitFindsDone, WaitSeesDone, WaitGivesUp, WaitReturns, UserReadsResult
<1> QED
  BY <1>1, <1>2, <1>3 DEF WaitStep, WaitInside

LEMMA WaitKeepsStarting == ASSUME SingleInv, WaitStep PROVE Starting'
<1>1. now' = now
  BY DEF WaitStep, WaitFindsDone, WaitBegins, WaitInside, WaitSetsStart, WaitSetsTimeout,
         WaitSeesDone, WaitGivesUp, WaitReturns, UserReadsResult, TimeOutStep, TestTimedOut,
         MarkTimedOut, TimeOutObserver, OnTimeout, ProceedInCall, OnlyPc, OnlyObserver, flags,
         lifeStatus, locals, reads, bounds
<1>2. pc'["loop"] = pc["loop"] /\ pc'["start"] = pc["start"]
  BY OnlyWait, Names DEF SingleInv, WaitStep, Only
<1> QED
  BY <1>1, <1>2, WaitStaysThrough DEF SingleInv, Clock, Starting

LEMMA Awaited ==
    ASSUME SingleInv, WaitSetsStart \/ WaitSetsTimeout
    PROVE  \E g, s, a \in Nat : /\ g = await.given /\ s = await.since /\ a = await.start
                                /\ g > 0 /\ s = now /\ a <= now
                                /\ WaitSetsTimeout => a <= startTime
<1>1. Await(await.given, await.since, await.start)
  BY DEF SingleInv, Clock, Awaiting, Settled, WaitSetsStart, WaitSetsTimeout, Moves, At
<1> QED
  BY <1>1 DEF Await, WaitSetsTimeout, Moves, At

LEMMA WaitKeepsClock == ASSUME SingleInv, WaitStep PROVE Clock'
<1>1. CASE WaitBegins
  <2>1. UNCHANGED <<now, startTime, timeout, readStart, readClock>> /\ pc'["wait"] = "set start"
    BY <1>1, Names DEF SingleInv, Shape, WaitBegins, Moves, Goto, reads, lifeStatus, bounds
  <2>2. PICK g \in Nat, a \in Nat : /\ await' = [given |-> g, since |-> now, start |-> a]
                                    /\ g > 0 /\ a <= now
    <3>1. PICK g \in Nat : g = scenario.given
      BY SingleThreadAssumption DEF SingleInv, Shape
    <3>2. CASE scenario.given # 0
      <4>1. g > 0 /\ now \in Nat /\ now <= now
        BY <3>1, <3>2 DEF SingleInv, Clock, Times
      <4>2. await' = [given |-> g, since |-> now, start |-> now]
        BY <1>1, <3>1, <3>2 DEF WaitBegins
      <4> QED
        BY <4>1, <4>2
    <3>3. CASE scenario.given = 0
      BY <1>1, <3>3 DEF WaitBegins, SingleInv, Clock, Times
    <3> QED
      BY <3>2, <3>3
  <2>3. await'.given = g /\ await'.since = now /\ await'.start = a
    BY <2>2
  <2>4. Await(await.given, await.since, await.start)'
    BY <2>1, <2>2, <2>3 DEF SingleInv, Clock, Times, Await
  <2>5. Times'
    BY <2>1 DEF SingleInv, Clock, Times
  <2> QED
    BY <2>4, <2>5, WaitKeepsStarting DEF Clock, Awaiting
<1>2. CASE WaitSetsStart
  <2>1. /\ UNCHANGED <<now, timeout, readStart, readClock, await>> /\ startTime' = await.start
        /\ pc["wait"] = "set start" /\ pc'["wait"] = "set timeout"
    BY <1>2, Names DEF SingleInv, Shape, WaitSetsStart, Moves, At, Goto, bounds, locals, reads
  <2>2. PICK g, s, a \in Nat : /\ g = await.given /\ s = await.since /\ a = await.start
                               /\ g > 0 /\ s = now /\ a <= now
    BY <1>2, Awaited
  <2>3. a <= a
    BY <2>2
  <2>4. Times'
    BY <2>1, <2>2 DEF SingleInv, Clock, Times
  <2>5. Await(g, s, a)'
    BY <2>1, <2>2, <2>3 DEF Await
  <2>6. Awaiting'
    BY <2>1, <2>2, <2>5 DEF Awaiting
  <2> QED
    BY <2>4, <2>6, WaitKeepsStarting DEF Clock
<1>3. CASE WaitSetsTimeout
  <2>1. /\ UNCHANGED <<now, startTime, readStart, readClock>>
        /\ timeout' = await.since + await.given - await.start
        /\ pc["wait"] = "set timeout" /\ pc'["wait"] = "await"
    BY <1>3, Names DEF SingleInv, Shape, WaitSetsTimeout, Moves, At, Goto, bounds, locals, reads
  <2>2. PICK g, s, a \in Nat : /\ g = await.given /\ s = await.since /\ a = await.start
                               /\ g > 0 /\ s = now /\ a <= now
    BY <1>3, Awaited
  <2>3. PICK t \in Nat : t = s + g - a /\ t > 0
    BY <2>2
  <2>4. timeout' = t
    BY <2>1, <2>2, <2>3
  <2>5. Times'
    BY <2>1, <2>3, <2>4 DEF SingleInv, Clock, Times
  <2> QED
    BY <2>1, <2>5, WaitKeepsStarting DEF Clock, Awaiting, Settled
<1>4. CASE WaitKeepsTimes
  <2>1. Times'
    BY <1>4 DEF WaitKeepsTimes, SingleInv, Clock, Times
  <2>2. Awaiting'
    BY <1>4 DEF WaitKeepsTimes, SingleInv, Clock, Awaiting, Await
  <2> QED
    BY <2>1, <2>2, WaitKeepsStarting DEF Clock
<1> QED
  BY <1>1, <1>2, <1>3, <1>4, WaitTimes

LEMMA WaitKeepsTime == ASSUME SingleInv, WaitStep PROVE LoopIsInTimeInv'
<1>1. CASE WaitBegins \/ WaitSetsStart
  BY <1>1, Names DEF SingleInv, Shape, WaitBegins, WaitSetsStart, Moves, Goto, Settled,
     LoopIsInTimeInv
<1>2. CASE WaitSetsTimeout
  <2>1. PICK g, s, a \in Nat : /\ g = await.given /\ s = await.since /\ a = await.start
                               /\ g > 0 /\ s = now /\ a <= startTime
    BY <1>2, Awaited
  <2>2. /\ timeout' = s + g - a /\ UNCHANGED <<now, startTime, inTerminating>>
        /\ TerminatingTimeout' = TerminatingTimeout
    BY <1>2, <2>1 DEF WaitSetsTimeout, bounds, observerVars, TerminatingTimeout, Textual
  <2>3. now < startTime + (s + g - a) /\ now < startTime + (s + g - a) + TerminatingTimeout
    BY <2>1, LateIsTime DEF SingleInv, Clock, Times
  <2>4. ~(now >= Late')
    <3>1. CASE inTerminating
      <4>1. Late' = startTime + (s + g - a) + TerminatingTimeout
        BY <2>2, <3>1 DEF Late
      <4> QED
        BY <4>1, <2>1, <2>3, LateIsTime DEF SingleInv, Clock, Times
    <3>2. CASE ~inTerminating
      <4>1. Late' = startTime + (s + g - a)
        BY <2>2, <3>2 DEF Late
      <4> QED
        BY <4>1, <2>1, <2>3 DEF SingleInv, Clock, Times
    <3> QED
      BY <3>1, <3>2
  <2> QED
    BY <2>2, <2>4 DEF LoopIsInTimeInv
<1>3. CASE WaitKeepsTimes
  <2>1. Only("wait")
    BY OnlyWait DEF SingleInv, WaitStep
  <2>2. Late' = Late
    BY <1>3, <2>1 DEF WaitKeepsTimes, Only, Late, TerminatingTimeout, Textual
  <2>3. Looking => Looking'
    BY <1>3, <2>1, Names DEF WaitKeepsTimes, Only, Looking
  <2> QED
    BY <1>3, <2>1, <2>2, <2>3, WaitStaysThrough DEF WaitKeepsTimes, Only, SingleInv,
       LoopIsInTimeInv
<1> QED
  BY <1>1, <1>2, <1>3, WaitTimes

\* wait_for() gives up so late that the loop is through.
LEMMA GivesUpLate == ASSUME SingleInv, WaitGivesUp PROVE Through
<1>1. now >= MaxWait /\ ~isDone /\ Settled
  BY DEF WaitGivesUp, Moves, At, Settled
<1>2. now > Late
  BY <1>1, LateIsTime DEF SingleInv, Clock, Times
<1> QED
  BY <1>1, <1>2, LateIsTime DEF SingleInv, Clock, Times, LoopIsInTimeInv

LEMMA WaitKeepsApart == ASSUME SingleInv, WaitStep PROVE Apart'
<1>1. SUFFICES ASSUME pc'["wait"] \in TimingOut, pc["wait"] \notin TimingOut
               PROVE  WaitGivesUp
  BY GivesUpLate, WaitStaysThrough DEF SingleInv, Apart
<1> QED
  BY <1>1, Names DEF SingleInv, Shape, TimingOut, WaitStep, WaitFindsDone, WaitBegins,
     WaitInside, WaitSetsStart, WaitSetsTimeout, WaitSeesDone, WaitReturns, UserReadsResult,
     TimeOutStep, TestTimedOut, MarkTimedOut, TimeOutObserver, OnTimeout, ProceedInCall, Moves,
     At, Goto

LEMMA WaitKeepsOnce == ASSUME SingleInv, WaitStep PROVE Once'
<1>1. CASE TimeOutStep("wait")
  BY <1>1, TimeOutKeepsOnce
<1>2. CASE ~TimeOutStep("wait")
  <2>1. UNCHANGED <<timeouts, wasOnTimeoutCalled>>
    BY <1>2 DEF WaitStep, WaitFindsDone, WaitBegins, WaitInside, WaitSetsStart, WaitSetsTimeout,
       WaitSeesDone, WaitGivesUp, WaitReturns, UserReadsResult, ProceedInCall, OnlyPc,
       OnlyObserver, flags, lifeStatus, locals, reads, bounds
  <2>2. pc'["wait"] \in {"mark", "raise", "on timeout"} => pc'["wait"] = pc["wait"]
    BY <1>2, Names DEF SingleInv, Shape, WaitStep, WaitFindsDone, WaitBegins, WaitInside,
       WaitSetsStart, WaitSetsTimeout, WaitSeesDone, WaitGivesUp, WaitReturns, UserReadsResult,
       ProceedInCall, Moves, At, Goto
  <2> QED
    BY <2>1, <2>2, OnceKept, OnlyWait, Names DEF SingleInv, WaitStep, Only
<1> QED
  BY <1>1, <1>2

LEMMA WaitKeeps == ASSUME SingleInv, WaitStep PROVE SingleInv'
<1>1. Shape'
  BY ShapeStep DEF SingleInv, SingleNext, WaitStep
<1> QED
  BY <1>1, WaitKeepsClock, WaitKeepsTime, WaitKeepsApart, WaitKeepsOnce DEF SingleInv

-----------------------------------------------------------------------------

LEMMA TickKeeps == ASSUME SingleInv, Tick PROVE SingleInv'
<1>1. /\ UNCHANGED <<pc, call, kind, isDone, lifeStatus, readStart, readClock, timeouts, listed>>
      /\ now' = now + 1 /\ lap' = "none" /\ pc["start"] = "over"
  BY DEF Tick, observerVars, locals, reads, flags, At
<1>2. Shape'
  BY ShapeStep DEF SingleInv, SingleNext
<1>3. now \in Nat /\ now + 1 \in Nat /\ \A t \in Nat : t <= now => t <= now + 1
  BY DEF SingleInv, Clock, Times
<1>4. Times'
  BY <1>1, <1>3 DEF SingleInv, Clock, Times, lifeStatus
<1>5. Starting' /\ Awaiting'
  BY <1>1 DEF Tick, Starting, Awaiting, Settled
<1>6. Late' = Late /\ Late \in Nat
  BY <1>1, LateIsTime DEF SingleInv, Late, TerminatingTimeout, Textual, lifeStatus
<1>7. Through' <=> Through
  BY <1>1 DEF Through
<1>8. LoopIsInTimeInv'
  <2>1. SUFFICES ASSUME ~isDone, now + 1 > Late PROVE Through
    BY <1>1, <1>6, <1>7 DEF LoopIsInTimeInv
  <2>2. now >= Late
    BY <1>3, <1>6, <2>1
  <2> QED
    BY <1>1, <2>1, <2>2 DEF Tick, Settled, SingleInv, LoopIsInTimeInv, Through
<1>9. Apart' /\ Once'
  BY <1>1, <1>7 DEF SingleInv, Apart, Once, lifeStatus
<1> QED
  BY <1>2, <1>4, <1>5, <1>8, <1>9 DEF SingleInv, Clock

LEMMA InvInit == ASSUME SingleInit PROVE SingleInv
<1> USE DEF SingleInit
<1>1. /\ pc["start"] = "begin" /\ pc["loop"] = "copy" /\ pc["wait"] = "begin"
      /\ call["loop"] = "idle"
      /\ now = 0 /\ startTime = 0 /\ readStart = 0 /\ readClock = 0
      /\ timeout = Timeout /\ ~listed
      /\ timeouts = 0 /\ ~wasOnTimeoutCalled
  BY Names DEF ObserverInit
<1>2. Clock
  BY <1>1, SingleThreadAssumption DEF Clock, Times, Starting, Awaiting, Settled
<1>3. ~(now >= Late)
  BY <1>1, <1>2, LateIsTime DEF Clock, Times
<1>4. Apart
  BY <1>1 DEF Apart, TimingOut
<1>5. \A t \in {"loop", "wait"} : pc[t] \notin {"mark", "raise", "on timeout"}
  BY <1>1
<1>6. Once
  <2>1. timeouts \in {0, 1} /\ timeouts # 1
    BY <1>1
  <2> QED
    BY <1>5, <2>1 DEF Once
<1> QED
  BY <1>2, <1>3, <1>4, <1>6, ShapeInit DEF SingleInv, LoopIsInTimeInv

LEMMA InvStep == ASSUME SingleInv, [SingleNext]_vars PROVE SingleInv'
<1>1. CASE BesideStep
  <2>1. PICK t \in Callers : Aside(t)
    BY <1>1, StepsAside, Names DEF SingleInv
  <2>2. Shape'
    BY ShapeStep DEF SingleInv
  <2> QED
    BY <2>1, <2>2, AsideKeeps DEF SingleInv
<1>2. CASE UNCHANGED vars
  <2>1. Shape' /\ Clock' /\ Apart' /\ Once'
    BY <1>2 DEF SingleInv, Shape, Clock, Times, Starting, Awaiting, Await, Settled, Apart,
       Through, Once, vars, observerVars, flags, lifeStatus, locals, reads, bounds
  <2>2. LoopIsInTimeInv'
    BY <1>2 DEF SingleInv, LoopIsInTimeInv, Settled, Late, TerminatingTimeout, Textual, Looking,
       Through, vars, observerVars, flags, lifeStatus, locals, reads, bounds
  <2> QED
    BY <2>1, <2>2 DEF SingleInv
<1> QED
  BY <1>1, <1>2, LoopKeeps, WaitKeeps, TickKeeps DEF SingleNext, WaitStep, BesideStep

LEMMA InvAlways == SingleSpec => []SingleInv
BY InvInit, InvStep, PTL DEF SingleSpec

\* However the loop and wait_for() race for the same timeout, on_timeout() is called once.
THEOREM OnTimeoutOnceHolds == SingleSpec => []OnTimeoutOnce
<1>1. \A n \in {0, 1} : n <= 1
  OBVIOUS
<1>2. SingleInv => OnTimeoutOnce
  BY <1>1 DEF SingleInv, Once, OnTimeoutOnce
<1> QED
  BY <1>2, InvAlways, PTL

-----------------------------------------------------------------------------
(* No observer ends without a reason. *)

Outcomes == <<kind, isDone, isCancelled, result, exception, storedException>>

\* What a step of a method that was entered leaves behind.
LEMMA Proceeds ==
    ASSUME Shape, Reason, NEW t \in Callers, ProceedInCall(t)
    PROVE  /\ HasReason => HasReason'
           /\ Backed => Backed'
           /\ isDone' => HasReason'
           /\ call'[t] = "done" => Backed'
           /\ call[t] \in {"keep", "store"} => Backed'
<1> USE Names DEF Shape, HasReason, Backed, Enter
<1>1. CASE AssignResult(t)
  BY <1>1 DEF AssignResult, Reason
<1>2. CASE KeepException(t)
  BY <1>2 DEF KeepException, Reason, Leave
<1>3. CASE StoreException(t)
  BY <1>3 DEF StoreException, ReplaceUnraised, Reason
<1>4. CASE MarkCancelled(t)
  BY <1>4 DEF MarkCancelled, Reason
<1>5. CASE SetDone(t)
  BY <1>5 DEF SetDone, PublishStoredException, ReplaceUnraised, Reason, Leave
<1> QED
  BY <1>1, <1>2, <1>3, <1>4, <1>5 DEF ProceedInCall, Proceed

\* Nobody sets _is_done without an exception, a result or a reason of his own.
HasEnded == storedException # None \/ inTerminating \/ pc["loop"] = "timed out"
Enters(t) ==
    \/ \E e \in Exceptions : SetException(t, e)
    \/ \E r \in Results : SetResult(t, r)
    \/ Cancel(t)
    \/ SetEndOfLife(t) /\ HasEnded

LEMMA EnteringSteps ==
    ASSUME [SingleNext]_vars, \A t \in Callers : ~ProceedInCall(t)
    PROVE  UNCHANGED <<Outcomes, call>> \/ \E t \in Callers : Enters(t)
<1> USE Names DEF Enters, HasEnded, OnlyPc, OnlyObserver, observerVars, Outcomes
<1>1. CASE StartStep
  BY <1>1 DEF StartStep, SubmitChecks, SubmitSubscribes, SubmitAppends, SendRaises
<1>2. CASE DataComes \/ DataInside
  BY <1>2 DEF DataComes, DataInside, ParsePart, ParseFinal, ParseFailure, ParseRaises,
     WrapperSetsException
<1>3. ASSUME NEW t \in {"loop", "wait"}, TimeOutStep(t)
      PROVE  UNCHANGED <<Outcomes, call>> \/ \E u \in Callers : Enters(u)
  BY <1>3 DEF TimeOutStep, TestTimedOut, MarkTimedOut, TimeOutObserver, OnTimeout
<1>4. CASE LoopStep
  BY <1>3, <1>4 DEF LoopStep, LoopStops, LoopCopies, LoopHasNothing, InactivityRaises,
     LoopReadsStart, LoopReadsClock, LoopCompares, LoopIsInTime, LoopTimesOut,
     LoopEndsTerminating, LoopStartsTerminating, LoopEndsLife, LoopFindsDone, LoopFindsUndone,
     LoopRemoves, Moves, At
<1>5. CASE WaitFindsDone \/ WaitBegins \/ WaitInside
  BY <1>3, <1>5 DEF WaitFindsDone, WaitBegins, WaitInside, WaitSetsStart, WaitSetsTimeout,
     WaitSeesDone, WaitGivesUp, WaitReturns, UserReadsResult, ReadResult
<1>6. CASE UserCancels \/ ConnectionCloses \/ ShutdownSwaps \/ UserInside
  BY <1>6 DEF UserCancels, ConnectionCloses, ShutdownSwaps, UserInside, ShutdownStops,
     CloserCancels, CloserUnsubscribes
<1>7. CASE Tick \/ UNCHANGED vars
  BY <1>7 DEF Tick, vars
<1> QED
  BY <1>1, <1>2, <1>4, <1>5, <1>6, <1>7 DEF SingleNext

LEMMA OtherSteps ==
    ASSUME Shape, Reason, [SingleNext]_vars, \A t \in Callers : ~ProceedInCall(t)
    PROVE  /\ UNCHANGED Outcomes
           /\ \A t \in Callers : call'[t] = "done" => Backed
<1>1. CASE UNCHANGED <<Outcomes, call>>
  BY <1>1 DEF Reason
<1>2. ASSUME NEW t \in Callers, Enters(t)
      PROVE  UNCHANGED Outcomes /\ \A u \in Callers : call'[u] = "done" => Backed
  <2> USE DEF Shape, Enter, Outcomes
  <2>1. CASE \E e \in Exceptions : SetException(t, e)
    BY <2>1 DEF SetException, Reason, Backed
  <2>2. CASE \E r \in Results : SetResult(t, r)
    BY <2>2 DEF SetResult, Reason
  <2>3. CASE Cancel(t)
    BY <2>3 DEF Cancel, Reason
  <2>4. CASE SetEndOfLife(t) /\ HasEnded
    BY <2>4 DEF SetEndOfLife, HasEnded, Reason, Backed
  <2> QED
    BY <1>2, <2>1, <2>2, <2>3, <2>4 DEF Enters
<1> QED
  BY <1>1, <1>2, EnteringSteps

LEMMA TimeOutKeepsReason ==
    ASSUME SingleInv, Reason, NEW t \in {"loop", "wait"}, TimeOutStep(t)
    PROVE  Reason'
<1> USE Names DEF SingleInv, Shape, Moves, At, Goto
<1>1. \A u \in Callers : ~ProceedInCall(u)
  BY DEF TimeOutStep, TestTimedOut, MarkTimedOut, TimeOutObserver, OnTimeout, ProceedInCall
<1>2. [SingleNext]_vars
  BY DEF TimeOutStep, SingleNext, LoopStep, WaitInside
<1>3. UNCHANGED Outcomes /\ \A u \in Callers : call'[u] = "done" => Backed
  BY <1>1, <1>2, OtherSteps
<1>4. (Backed' <=> Backed) /\ (HasReason' <=> HasReason)
  BY <1>3 DEF Outcomes, Backed, HasReason
<1>5. inTerminating' = inTerminating
  BY DEF TimeOutStep, TestTimedOut, MarkTimedOut, TimeOutObserver, OnTimeout, OnlyPc,
         OnlyObserver, lifeStatus
<1>6. \A u \in {"loop", "wait"} \ {t} :
          pc'[u] = pc[u] /\ call'[u] = call[u] /\ pc[u] \notin TimingOut
  BY NeverBoth, OnlyLoop, OnlyWait DEF Only, TimeOutStep, LoopStep, WaitInside, TestTimedOut,
     MarkTimedOut, TimeOutObserver, OnTimeout, TimingOut
<1>7. /\ pc'[t] = "timed out" => Backed
      /\ pc'[t] = "on timeout" => Backed \/ call'[t] \in {"keep", "store"}
      /\ wasOnTimeoutCalled' => Backed \/ pc'[t] \in {"raise", "on timeout"}
  <2>1. CASE TestTimedOut(t)
    BY <1>6, <2>1 DEF TestTimedOut, Reason, OnlyPc, OnlyObserver, lifeStatus, TimingOut
  <2>2. CASE MarkTimedOut(t)
    BY <2>2 DEF MarkTimedOut, Reason, Backed
  <2>3. CASE TimeOutObserver(t)
    BY <2>3 DEF TimeOutObserver, SetException, Enter, Reason, Backed
  <2>4. CASE OnTimeout(t)
    BY <2>4, <1>6 DEF OnTimeout, Reason, lifeStatus, Idle, TimingOut
  <2> QED
    BY <2>1, <2>2, <2>3, <2>4 DEF TimeOutStep
<1> QED
  BY <1>3, <1>4, <1>5, <1>6, <1>7, ZenonT(60) DEF Reason, Outcomes, TimingOut

\* A step of a method that was entered.
LEMMA ProceedKeepsReason ==
    ASSUME SingleInv, Reason, NEW t \in Callers, ProceedInCall(t)
    PROVE  Reason'
<1>1. /\ Backed => Backed'
      /\ isDone' => HasReason'
      /\ call'[t] = "done" => Backed'
      /\ call[t] \in {"keep", "store"} => Backed'
  BY Proceeds DEF SingleInv
<1>2. \A u \in Callers \ {t} : call'[u] = call[u]
  BY Names DEF SingleInv, Shape, ProceedInCall, Proceed, AssignResult, KeepException,
     StoreException, MarkCancelled, SetDone, Enter, Leave
<1>3. UNCHANGED <<pc, inTerminating, wasOnTimeoutCalled>>
  BY DEF ProceedInCall, lifeStatus
<1> QED
  BY <1>1, <1>2, <1>3, Names DEF Reason

\* What the other steps leave alone of a timing out, and of what comes of it.
LEMMA OutsideTimeOut ==
    ASSUME SingleInv, [SingleNext]_vars,
           \A t \in Callers : ~ProceedInCall(t), \A t \in {"loop", "wait"} : ~TimeOutStep(t)
    PROVE  /\ wasOnTimeoutCalled' = wasOnTimeoutCalled
           /\ inTerminating' => inTerminating \/ pc["loop"] = "timed out"
           /\ \A t \in {"loop", "wait"} :
                  pc[t] \in {"raise", "on timeout"} \/ pc'[t] \in {"on timeout", "timed out"} =>
                      pc'[t] = pc[t] /\ call'[t] = call[t]
<1>1. CASE BesideStep
  <2>1. PICK t \in {"start", "data", "user"} : Aside(t)
    BY <1>1, StepsAside DEF SingleInv
  <2> QED
    BY <2>1, Names DEF Aside, Only, lifeStatus
<1>2. CASE Tick \/ UNCHANGED vars
  <2>1. UNCHANGED <<pc, call, wasOnTimeoutCalled, inTerminating>>
    BY <1>2 DEF Tick, vars, observerVars, lifeStatus
  <2> QED
    BY <2>1
<1>3. CASE LoopStep
  <2>1. Only("loop")
    BY <1>3, OnlyLoop DEF SingleInv
  <2> USE <1>3, Names DEF SingleInv, Shape, LoopStep, LoopStops, LoopCopies, LoopHasNothing,
          InactivityRaises, LoopReadsStart, LoopReadsClock, LoopCompares, LoopIsInTime,
          LoopTimesOut, LoopEndsTerminating, LoopStartsTerminating, LoopEndsLife, LoopFindsDone,
          LoopFindsUndone, LoopRemoves, Moves, At, Goto
  <2>2. wasOnTimeoutCalled' = wasOnTimeoutCalled
    BY DEF OnlyPc, OnlyObserver, lifeStatus
  <2>3. inTerminating' => inTerminating \/ pc["loop"] = "timed out"
    BY DEF OnlyPc, OnlyObserver, lifeStatus
  <2>4. /\ pc'["loop"] \notin {"timed out", "on timeout"}
        /\ pc["loop"] \notin {"raise", "on timeout"}
    OBVIOUS
  <2> QED
    BY ONLY <2>1, <2>2, <2>3, <2>4, Names DEF Only
<1>4. CASE WaitStep
  <2>1. Only("wait")
    BY <1>4, OnlyWait DEF SingleInv, WaitStep
  <2> USE <1>4, Names DEF SingleInv, Shape, WaitStep, WaitFindsDone, WaitBegins, WaitInside,
          WaitSetsStart, WaitSetsTimeout, WaitSeesDone, WaitGivesUp, WaitReturns,
          UserReadsResult, Moves, At, Goto
  <2>2. UNCHANGED <<wasOnTimeoutCalled, inTerminating>>
    BY DEF OnlyPc, OnlyObserver, lifeStatus
  <2>3. /\ pc'["wait"] \notin {"timed out", "on timeout"}
        /\ pc["wait"] \notin {"raise", "on timeout"}
    OBVIOUS
  <2> QED
    BY ONLY <2>1, <2>2, <2>3, Names DEF Only
<1> QED
  BY <1>1, <1>2, <1>3, <1>4 DEF SingleNext, WaitStep, BesideStep

LEMMA ReasonStep == ASSUME SingleInv, Reason, [SingleNext]_vars PROVE Reason'
<1>1. CASE \E t \in Callers : ProceedInCall(t)
  BY <1>1, ProceedKeepsReason
<1>2. CASE \E t \in {"loop", "wait"} : TimeOutStep(t)
  BY <1>2, TimeOutKeepsReason
<1>3. CASE (\A t \in Callers : ~ProceedInCall(t)) /\ (\A t \in {"loop", "wait"} : ~TimeOutStep(t))
  <2>1. UNCHANGED Outcomes /\ \A u \in Callers : call'[u] = "done" => Backed
    BY <1>3, OtherSteps DEF SingleInv
  <2>2. (Backed' <=> Backed) /\ (HasReason' <=> HasReason)
    BY <2>1 DEF Outcomes, Backed, HasReason
  <2>3. /\ wasOnTimeoutCalled' = wasOnTimeoutCalled
        /\ inTerminating' => inTerminating \/ pc["loop"] = "timed out"
        /\ \A t \in {"loop", "wait"} :
              pc[t] \in {"raise", "on timeout"} \/ pc'[t] \in {"on timeout", "timed out"} =>
                  pc'[t] = pc[t] /\ call'[t] = call[t]
    BY <1>3, OutsideTimeOut
  <2>4. wasOnTimeoutCalled' =>
            Backed \/ \E t \in {"loop", "wait"} : pc'[t] \in {"raise", "on timeout"}
    BY <2>3 DEF Reason
  <2>5. \A t \in {"loop", "wait"} :
            /\ pc'[t] = "timed out" => Backed
            /\ pc'[t] = "on timeout" => Backed \/ call'[t] \in {"keep", "store"}
    BY <2>3 DEF Reason
  <2>6. (inTerminating' => Backed) /\ (isDone' => HasReason)
    BY <2>1, <2>3 DEF Reason, Outcomes
  <2> QED
    BY <2>1, <2>2, <2>4, <2>5, <2>6 DEF Reason
<1> QED
  BY <1>1, <1>2, <1>3

-----------------------------------------------------------------------------
(* Only a shutdown takes an observer that is not done out of the loop's hands. *)

\* Only the user shuts the runner down.
LEMMA OthersGoOn ==
    /\ StartStep \/ DataComes \/ DataInside => UNCHANGED <<scenario, inShutdown, stopLoop>>
    /\ LoopStep \/ WaitStep \/ Tick \/ UNCHANGED vars =>
           UNCHANGED <<scenario, inShutdown, stopLoop>>
<1> USE DEF OnlyPc, OnlyObserver, flags, lifeStatus, locals, reads, bounds, ProceedInCall
<1>1. ASSUME StartStep \/ DataComes \/ DataInside PROVE UNCHANGED <<scenario, inShutdown, stopLoop>>
  BY <1>1 DEF StartStep, SubmitChecks, SubmitSubscribes, SubmitAppends, SendRaises, DataComes,
     DataInside, ParsePart, ParseFinal, ParseFailure, ParseRaises, WrapperSetsException
<1>2. ASSUME LoopStep PROVE UNCHANGED <<scenario, inShutdown, stopLoop>>
  BY <1>2 DEF LoopStep, LoopStops, LoopCopies, LoopHasNothing, InactivityRaises, LoopReadsStart,
     LoopReadsClock, LoopCompares, LoopIsInTime, LoopTimesOut, LoopEndsTerminating,
     LoopStartsTerminating, LoopEndsLife, LoopFindsDone, LoopFindsUndone, LoopRemoves,
     TimeOutStep, TestTimedOut, MarkTimedOut, TimeOutObserver, OnTimeout
<1>3. ASSUME WaitStep PROVE UNCHANGED <<scenario, inShutdown, stopLoop>>
  BY <1>3 DEF WaitStep, WaitFindsDone, WaitBegins, WaitInside, WaitSetsStart, WaitSetsTimeout,
     WaitSeesDone, WaitGivesUp, WaitReturns, UserReadsResult, TimeOutStep, TestTimedOut,
     MarkTimedOut, TimeOutObserver, OnTimeout
<1>4. ASSUME Tick \/ UNCHANGED vars PROVE UNCHANGED <<scenario, inShutdown, stopLoop>>
  BY <1>4 DEF Tick, vars
<1> QED
  BY <1>1, <1>2, <1>3, <1>4

LEMMA StoppingStep == ASSUME SingleInv, Stopping, [SingleNext]_vars PROVE Stopping'
<1>1. CASE StartStep
  <2>1. Aside("start")
    BY <1>1, StepsAside DEF SingleInv
  <2>2. UNCHANGED <<inShutdown, stopLoop, scenario>>
    BY <1>1, OthersGoOn
  <2>3. pc'["start"] = "over" /\ ~listed' =>
            (pc["start"] = "over" /\ ~listed) \/ isDone \/ inShutdown
    BY <1>1, Names DEF SingleInv, Shape, StartStep, SubmitChecks, SubmitSubscribes,
       SubmitAppends, SendRaises, ProceedInCall, OnlyPc, OnlyObserver, flags, Moves, At, Goto
  <2> QED
    BY <2>1, <2>2, <2>3, Names DEF Aside, Only, Stopping
<1>2. CASE DataComes \/ DataInside
  <2>1. Aside("data")
    BY <1>2, StepsAside DEF SingleInv
  <2>2. UNCHANGED <<inShutdown, stopLoop, scenario, listed>>
    BY <1>2 DEF DataComes, DataInside, ParsePart, ParseFinal, ParseFailure, ParseRaises,
       WrapperSetsException, ProceedInCall, OnlyPc, OnlyObserver, flags, locals, reads
  <2> QED
    BY <2>1, <2>2, Names DEF Aside, Only, Stopping
<1>3. CASE LoopStep
  <2>1. Only("loop") /\ UNCHANGED <<inShutdown, stopLoop, scenario>>
    BY <1>3, OnlyLoop, OthersGoOn DEF SingleInv
  <2> USE <1>3, Names DEF SingleInv, Shape, LoopStep, LoopStops, LoopCopies, LoopHasNothing,
          InactivityRaises, LoopReadsStart, LoopReadsClock, LoopCompares, LoopIsInTime,
          LoopTimesOut, LoopEndsTerminating, LoopStartsTerminating, LoopEndsLife, LoopFindsDone,
          LoopFindsUndone, LoopRemoves, TimeOutStep, TestTimedOut, MarkTimedOut,
          TimeOutObserver, OnTimeout, ProceedInCall, Moves, At, Goto
  <2>2. listed' = listed \/ pc["loop"] = "remove"
    BY DEF OnlyPc, OnlyObserver, flags
  <2>3. pc'["loop"] = "over" => pc["loop"] = "over" \/ stopLoop
    OBVIOUS
  <2>4. pc'["loop"] = "remove" => pc["loop"] = "remove" \/ LoopFindsDone
    OBVIOUS
  <2>5. LoopFindsDone => isDone
    BY ONLY DEF LoopFindsDone
  <2> QED
    BY <2>1, <2>2, <2>3, <2>4, <2>5 DEF Only, Stopping
<1>4. CASE WaitStep
  <2>1. Only("wait") /\ UNCHANGED <<inShutdown, stopLoop, scenario, listed>>
    BY <1>4, OnlyWait, OthersGoOn, WaitStaysThrough DEF SingleInv, WaitStep
  <2>2. pc'["wait"] \in TimingOut => pc["wait"] \in TimingOut \/ WaitGivesUp
    BY <1>4, Names DEF SingleInv, Shape, TimingOut, WaitStep, WaitFindsDone, WaitBegins,
       WaitInside, WaitSetsStart, WaitSetsTimeout, WaitSeesDone, WaitReturns, UserReadsResult,
       TimeOutStep, TestTimedOut, MarkTimedOut, TimeOutObserver, OnTimeout, ProceedInCall,
       Moves, At, Goto
  <2>3. WaitGivesUp => inShutdown
    BY GivesUpLate DEF Through, Stopping, WaitGivesUp
  <2> QED
    BY <2>1, <2>2, <2>3, Names DEF Only, Stopping
<1>5. CASE UserCancels \/ ConnectionCloses \/ ShutdownSwaps \/ UserInside
  <2>1. Aside("user")
    BY <1>5, StepsAside DEF SingleInv
  <2>2. scenario' = scenario
    BY <1>5 DEF UserCancels, ConnectionCloses, ShutdownSwaps, UserInside, ShutdownStops,
       CloserCancels, CloserUnsubscribes, ProceedInCall, OnlyObserver, locals, reads
  <2>3. CASE ShutdownSwaps
    BY <2>1, <2>2, <2>3, Names DEF Aside, Only, Stopping, ShutdownSwaps
  <2>4. CASE ShutdownStops
    BY <2>1, <2>2, <2>4, Names DEF Aside, Only, SingleInv, Shape, Stopping, ShutdownStops, At,
       Goto
  <2>5. CASE ~ShutdownSwaps /\ ~ShutdownStops
    <3>1. /\ UNCHANGED <<inShutdown, stopLoop, listed>>
          /\ pc'["user"] = "stop" => pc["user"] = "stop"
      BY <1>5, <2>5, Names DEF SingleInv, Shape, UserCancels, ConnectionCloses, UserInside,
         CloserCancels, CloserUnsubscribes, ProceedInCall, OnlyObserver, flags, Moves, At, Goto
    <3> QED
      BY <2>1, <2>2, <3>1, Names DEF Aside, Only, Stopping
  <2> QED
    BY <2>3, <2>4, <2>5
<1>6. CASE Tick \/ UNCHANGED vars
  <2>1. UNCHANGED <<scenario, pc, inShutdown, stopLoop, listed, isDone>>
    BY <1>6 DEF Tick, vars, observerVars, flags, locals, reads
  <2> QED
    BY <2>1 DEF Stopping
<1> QED
  BY <1>1, <1>2, <1>3, <1>4, <1>5, <1>6 DEF SingleNext, WaitStep, BesideStep

-----------------------------------------------------------------------------
(* wait_for() returns only when the observer is done. *)

\* Only a command that waits for its prompt keeps an exception.
LEMMA WhoKeeps == ASSUME Shape, Keeping, [SingleNext]_vars PROVE Keeping'
<1>1. CASE \E t \in Callers : ProceedInCall(t)
  BY <1>1 DEF Keeping, WaitsForPrompt, Shape, ProceedInCall, Proceed, AssignResult,
     KeepException, StoreException, MarkCancelled, SetDone, Enter, Leave
<1>2. CASE UNCHANGED <<Outcomes, call>>
  BY <1>2 DEF Keeping, WaitsForPrompt, Outcomes
<1>3. ASSUME NEW t \in Callers, Enters(t) PROVE Keeping'
  <2> USE DEF Keeping, WaitsForPrompt, Shape, Enter
  <2>1. CASE \E e \in Exceptions : SetException(t, e)
    BY <2>1 DEF SetException
  <2>2. CASE (\E r \in Results : SetResult(t, r)) \/ Cancel(t) \/ SetEndOfLife(t)
    BY <2>2 DEF SetResult, Cancel, SetEndOfLife
  <2> QED
    BY <1>3, <2>1, <2>2 DEF Enters
<1> QED
  BY <1>1, <1>2, <1>3, EnteringSteps

\* A step of a method that was entered brings its caller to the end of the observer.
LEMMA ProceedKeepsEnds ==
    ASSUME SingleInv, Ends, NEW t \in Callers, ProceedInCall(t)
    PROVE  Ends'
<1> USE Names
<1>1. UNCHANGED <<pc, wasOnTimeoutCalled, kind>> /\ \A u \in Callers \ {t} : call'[u] = call[u]
  BY DEF SingleInv, Shape, ProceedInCall, Proceed, AssignResult, KeepException, StoreException,
         MarkCancelled, SetDone, Enter, Leave, lifeStatus
<1>2. isDone => isDone'
  BY DEF ProceedInCall, Proceed, AssignResult, KeepException, StoreException, MarkCancelled,
         SetDone
<1>3. ~WaitsForPrompt => isDone' \/ call'[t] # "idle"
  BY DEF Ends, Keeping, SingleInv, Shape, ProceedInCall, Proceed, AssignResult, KeepException,
         StoreException, MarkCancelled, SetDone, Enter
<1>4. Keeping'
  BY WhoKeeps DEF Ends, SingleInv, SingleNext, StartStep, DataInside, LoopStep, WaitInside,
     UserInside
<1>5. WaitsForPrompt' = WaitsForPrompt
  BY <1>1 DEF WaitsForPrompt
<1> QED
  BY <1>1, <1>2, <1>3, <1>4, <1>5 DEF Ends

LEMMA TimeOutKeepsEnds ==
    ASSUME SingleInv, Stopping, Ends, NEW t \in {"loop", "wait"}, TimeOutStep(t)
    PROVE  Ends'
<1>1. Keeping'
  BY WhoKeeps DEF Ends, SingleInv, SingleNext, TimeOutStep, LoopStep, WaitInside
<1>2. UNCHANGED <<kind, isDone>> /\ WaitsForPrompt' = WaitsForPrompt
  BY DEF TimeOutStep, TestTimedOut, MarkTimedOut, TimeOutObserver, OnTimeout, OnlyPc,
         SetException, observerVars, WaitsForPrompt
<1> DEFINE Timing(u) == pc[u] = "raise" \/ (pc[u] = "on timeout" /\ call[u] # "idle")
<1>3. \A u \in {"loop", "wait"} \ {t} : pc'[u] = pc[u] /\ call'[u] = call[u] /\ ~Timing(u)
  BY NeverBoth, OnlyLoop, OnlyWait, Names DEF SingleInv, Only, TimeOutStep, LoopStep,
     WaitInside, TestTimedOut, MarkTimedOut, TimeOutObserver, OnTimeout, Moves, At, TimingOut
<1>4. pc[t] = "on timeout" => wasOnTimeoutCalled
  BY DEF SingleInv, Once
<1>5. ~WaitsForPrompt => /\ wasOnTimeoutCalled' => isDone \/ Timing(t)'
                         /\ pc'[t] = "timed out" => isDone
  <2> USE Names DEF SingleInv, Shape, Moves, At, Goto
  <2>1. CASE TestTimedOut(t)
    BY <1>3, <2>1 DEF TestTimedOut, Ends, OnlyPc, OnlyObserver, lifeStatus
  <2>2. CASE MarkTimedOut(t)
    BY <2>2 DEF MarkTimedOut
  <2>3. CASE TimeOutObserver(t)
    BY <2>3 DEF TimeOutObserver, SetException, Enter
  <2>4. CASE OnTimeout(t)
    BY <1>3, <1>4, <2>4 DEF OnTimeout, Ends, Idle
  <2> QED
    BY <2>1, <2>2, <2>3, <2>4 DEF TimeOutStep
<1>6. pc'["wait"] = "returned" => pc["wait"] = "returned"
  BY <1>3, Names DEF SingleInv, Shape, TimeOutStep, TestTimedOut, MarkTimedOut,
     TimeOutObserver, OnTimeout, Moves, At, Goto
<1>7. pc'["wait"] = "timed out" => t = "wait" \/ pc["wait"] = "timed out"
  BY <1>3
<1> QED
  BY <1>1, <1>2, <1>5, <1>6, <1>7 DEF Ends

\* wait_for() gives an observer up undone only when the runner shuts down: then the loop has not
\* ended it, and wait_for() itself can not end a command that waits for its prompt.
LEMMA EndsStep ==
    ASSUME ~Abandons, SingleInv, Stopping, Ends, [SingleNext]_vars
    PROVE  Ends'
<1>1. CASE \E t \in Callers : ProceedInCall(t)
  BY <1>1, ProceedKeepsEnds
<1>2. CASE \E t \in {"loop", "wait"} : TimeOutStep(t)
  BY <1>2, TimeOutKeepsEnds
<1>3. CASE (\A t \in Callers : ~ProceedInCall(t)) /\ (\A t \in {"loop", "wait"} : ~TimeOutStep(t))
  <2>1. Keeping'
    BY WhoKeeps DEF SingleInv, Ends
  <2>2. UNCHANGED <<isDone, kind>> /\ WaitsForPrompt' = WaitsForPrompt
    <3>1. \A t \in Callers : Enters(t) => UNCHANGED Outcomes
      BY DEF Enters, SetException, SetResult, Cancel, SetEndOfLife, Outcomes
    <3>2. UNCHANGED Outcomes
      BY <1>3, <3>1, EnteringSteps
    <3> QED
      BY <3>2 DEF Outcomes, WaitsForPrompt
  <2>3. /\ wasOnTimeoutCalled' = wasOnTimeoutCalled
        /\ \A t \in {"loop", "wait"} :
              pc[t] \in {"raise", "on timeout"} \/ pc'[t] \in {"on timeout", "timed out"} =>
                  pc'[t] = pc[t] /\ call'[t] = call[t]
    BY <1>3, OutsideTimeOut
  <2>4. pc'["wait"] = "returned" => isDone
    <3>1. pc'["wait"] = "returned" =>
              pc["wait"] = "returned" \/ WaitFindsDone \/ WaitSeesDone \/ WaitReturns
      <4>1. CASE WaitStep
        BY <1>3, <4>1, Names DEF SingleInv, Shape, WaitStep, WaitBegins, WaitInside,
           WaitSetsStart, WaitSetsTimeout, WaitGivesUp, UserReadsResult, Moves, At, Goto
      <4>2. CASE LoopStep
        BY <4>2, OnlyLoop, Names DEF SingleInv, Only
      <4>3. CASE BesideStep
        BY <4>3, StepsAside, Names DEF SingleInv, Aside, Only
      <4>4. CASE Tick \/ UNCHANGED vars
        BY <4>4 DEF Tick, vars
      <4> QED
        BY <4>1, <4>2, <4>3, <4>4 DEF SingleNext, WaitStep, BesideStep
    <3>2. pc["wait"] = "timed out" => isDone
      <4>1. WaitsForPrompt /\ inShutdown => FALSE
        BY DEF SingleInv, Shape, Stopping, Abandons, WaitsForPrompt
      <4> QED
        BY <4>1 DEF Stopping, Ends, TimingOut
    <3> QED
      BY <3>1, <3>2 DEF Ends, WaitFindsDone, WaitSeesDone, WaitReturns, Moves, At
  <2> QED
    BY <2>1, <2>2, <2>3, <2>4 DEF Ends
<1> QED
  BY <1>1, <1>2, <1>3
LEMMA ReasonsInit == ASSUME SingleInit PROVE Reason /\ Stopping /\ Ends
<1>1. /\ \A t \in {"start", "data", "wait", "user"} : pc[t] = "begin"
      /\ pc["loop"] = "copy" /\ \A t \in Callers : call[t] = "idle"
      /\ ~isDone /\ ~inTerminating /\ ~wasOnTimeoutCalled /\ ~inShutdown /\ ~stopLoop
  BY Names DEF SingleInit, ObserverInit
<1>2. \A t \in {"loop", "wait"} : pc[t] \notin TimingOut
  BY <1>1 DEF TimingOut
<1>3. Reason
  BY <1>1, <1>2, Names DEF Reason, TimingOut
<1>4. Stopping
  BY <1>1, <1>2 DEF Stopping
<1>5. Ends
  BY <1>1 DEF Ends, Keeping
<1> QED
  BY <1>3, <1>4, <1>5

\* Running out of time never looks like a result of None: whoever ends the observer has given it
\* an exception before, whatever else happens.
THEOREM EndReasonHolds == SingleSpec => [](isDone => HasReason)
<1>1. SingleInit => SingleInv /\ Reason
  BY InvInit, ReasonsInit
<1>2. SingleInv /\ Reason /\ [SingleNext]_vars => (SingleInv /\ Reason)'
  BY InvStep, ReasonStep
<1>3. SingleInv /\ Reason => (isDone => HasReason)
  BY DEF Reason
<1> QED
  BY <1>1, <1>2, <1>3, PTL DEF SingleSpec

\* wait_for() returns only when the observer is done, and an observer that is done has a result,
\* an exception or has been cancelled.  (But for a command that waits for its prompt when the runner
\* is shut down: nobody ends it.)
THEOREM EndHasReasonHolds == ASSUME ~Abandons PROVE SingleSpec => []EndHasReason
<1> DEFINE Inv == SingleInv /\ Reason /\ Stopping /\ Ends
<1>1. SingleInit => Inv
  BY InvInit, ReasonsInit
<1>2. Inv /\ [SingleNext]_vars => Inv'
  BY InvStep, ReasonStep, StoppingStep, EndsStep
<1>3. Inv => EndHasReason
  BY DEF Reason, Ends, HasReason, EndHasReason, At
<1> QED
  BY <1>1, <1>2, <1>3, PTL DEF SingleSpec

-----------------------------------------------------------------------------
(* Not before its time. *)

LEMMA EarlyInit == ASSUME SingleInit PROVE EarlyInv
<1>1. /\ pc["wait"] = "begin" /\ startTime = 0 /\ readStart = 0 /\ timeout = Timeout
      /\ scenario \in Scenarios
      /\ await = [given |-> scenario.given, since |-> 0, start |-> 0]
  BY Names DEF SingleInit
<1>2. scenario.given \in Nat
  BY <1>1, SingleThreadAssumption
<1>3. await.given \in Nat /\ await.since = 0 /\ await.start = 0
  BY <1>1, <1>2
<1> QED
  BY <1>1, <1>3 DEF EarlyInv, OnTime, Waited

LEMMA LoopKeepsEarly == ASSUME SingleInv, EarlyInv, LoopStep PROVE EarlyInv'
<1>1. pc'["wait"] = pc["wait"] /\ Waited' = Waited /\ (isDone => isDone')
  BY OnlyLoop, Names DEF SingleInv, Only, Waited
<1>2. UNCHANGED <<timeout, await>>
  BY DEF LoopStep, LoopStops, LoopCopies, LoopHasNothing, InactivityRaises, LoopReadsStart,
         LoopReadsClock, LoopCompares, LoopIsInTime, LoopTimesOut, LoopEndsTerminating,
         LoopStartsTerminating, LoopEndsLife, LoopFindsDone, LoopFindsUndone, LoopRemoves,
         TimeOutStep, TestTimedOut, MarkTimedOut, TimeOutObserver, OnTimeout, ProceedInCall,
         OnlyPc, OnlyObserver, flags, lifeStatus, locals, reads, bounds
<1> USE DEF LoopStep, LoopStops, LoopCopies, LoopHasNothing, InactivityRaises, LoopReadsStart,
        LoopReadsClock, LoopCompares, LoopIsInTime, LoopTimesOut, LoopEndsTerminating,
        LoopEndsLife, LoopFindsDone, LoopFindsUndone, LoopRemoves, TimeOutStep, TestTimedOut,
        MarkTimedOut, TimeOutObserver, OnTimeout, ProceedInCall, OnlyPc, OnlyObserver, flags,
        lifeStatus, locals, reads, bounds
<1>3. readStart' \in {readStart, startTime, 0}
  BY DEF LoopStartsTerminating
<1>4. LoopStartsTerminating \/ UNCHANGED <<inTerminating, startTime>>
  OBVIOUS
<1>5. LoopStartsTerminating => inTerminating'
  BY ONLY DEF LoopStartsTerminating
<1>6. ~inTerminating' /\ ~isDone' => OnTime /\ startTime' = startTime
  BY ONLY EarlyInv, <1>1, <1>4, <1>5 DEF EarlyInv
<1> QED
  BY ONLY EarlyInv, <1>1, <1>2, <1>3, <1>6 DEF EarlyInv, OnTime

LEMMA WaitKeepsEarly == ASSUME SingleInv, EarlyInv, WaitStep PROVE EarlyInv'
<1>1. isDone => isDone'
  BY OnlyWait DEF SingleInv, WaitStep, Only
<1>2. CASE WaitBegins
  <2>1. /\ UNCHANGED <<startTime, timeout, inTerminating, readStart>> /\ pc["wait"] = "begin"
        /\ pc'["wait"] = "set start"
    BY <1>2, Names DEF SingleInv, Shape, WaitBegins, Moves, At, Goto, lifeStatus, reads
  <2>2. PICK g \in Nat, a \in {now, startTime} :
            await' = [given |-> g, since |-> now, start |-> a]
    <3>1. scenario.given \in Nat /\ timeout \in Nat
      BY SingleThreadAssumption DEF SingleInv, Shape, Clock, Times
    <3> QED
      BY <1>2, <3>1 DEF WaitBegins
  <2>3. await'.given = g /\ await'.since = now /\ await'.start = a
    BY <2>2
  <2>4. now \in Nat /\ a \in Nat /\ a <= now
    BY <2>2 DEF SingleInv, Clock, Times
  <2> QED
    BY <1>1, <2>1, <2>3, <2>4 DEF EarlyInv, OnTime, Waited
<1>3. CASE WaitSetsStart
  <2>1. /\ UNCHANGED <<timeout, inTerminating, readStart, await>> /\ startTime' = await.start
        /\ pc["wait"] = "set start" /\ pc'["wait"] = "set timeout"
    BY <1>3, Names DEF SingleInv, Shape, WaitSetsStart, Moves, At, Goto, locals, reads
  <2>2. OnTime /\ pc["wait"] = "set start" => readStart = 0 /\ timeout = Timeout
    BY DEF OnTime
  <2> QED
    BY <1>1, <2>1, <2>2 DEF EarlyInv, OnTime, Waited
<1>4. CASE WaitSetsTimeout
  <2>1. /\ UNCHANGED <<startTime, inTerminating, readStart, await>>
        /\ timeout' = await.since + await.given - await.start
        /\ pc["wait"] = "set timeout" /\ pc'["wait"] = "await"
    BY <1>4, Names DEF SingleInv, Shape, WaitSetsTimeout, Moves, At, Goto, locals, reads
  <2>2. PICK g \in Nat, u \in Nat, a \in Nat :
            g = await.given /\ u = await.since /\ a = await.start
    BY DEF EarlyInv
  <2>3. (u + g - a) + a = u + g
    OBVIOUS
  <2>4. timeout' + await.start = await.since + await.given
    BY <2>1, <2>2, <2>3
  <2> QED
    BY <1>1, <2>1, <2>4 DEF EarlyInv, OnTime, Waited
<1>5. CASE WaitKeepsTimes
  <2>1. UNCHANGED <<startTime, timeout, inTerminating, readStart, await>>
    BY <1>5 DEF WaitKeepsTimes
  <2>2. /\ pc'["wait"] = "set timeout" => pc["wait"] = "set timeout"
        /\ pc["wait"] = "set timeout" => pc'["wait"] \in {"set start", "set timeout"}
        /\ pc["wait"] = "set start" => pc'["wait"] \in {"set start", "set timeout"}
    BY <1>5 DEF WaitKeepsTimes, Settled
  <2>3. /\ pc'["wait"] = "set start" => pc["wait"] \in {"begin", "set start"}
        /\ pc'["wait"] = "begin" => pc["wait"] = "begin"
        /\ Waited' => Waited \/ isDone
    BY <1>5, Names DEF SingleInv, Shape, Waited, WaitKeepsTimes, Settled, WaitStep,
       WaitFindsDone, WaitBegins, WaitInside, WaitSetsStart, WaitSetsTimeout, WaitSeesDone,
       WaitGivesUp, WaitReturns, UserReadsResult, TimeOutStep, TestTimedOut, MarkTimedOut,
       TimeOutObserver, OnTimeout, ProceedInCall, Moves, At, Goto
  <2> QED
    BY <1>1, <2>1, <2>2, <2>3 DEF EarlyInv, OnTime
<1> QED
  BY <1>2, <1>3, <1>4, <1>5, WaitTimes

LEMMA EarlyStep == ASSUME SingleInv, EarlyInv, [SingleNext]_vars PROVE EarlyInv'
<1>1. CASE BesideStep
  <2>1. PICK t \in {"start", "data", "user"} : Aside(t)
    BY <1>1, StepsAside DEF SingleInv
  <2>2. UNCHANGED <<lifeStatus, locals>> /\ pc'["wait"] = pc["wait"] /\ (isDone => isDone')
    BY <2>1, Names DEF Aside, Only
  <2> QED
    BY <2>2 DEF EarlyInv, OnTime, Waited, lifeStatus, locals, reads
<1>2. CASE Tick \/ UNCHANGED vars
  <2>1. UNCHANGED <<lifeStatus, locals, pc, isDone>>
    BY <1>2 DEF Tick, vars, observerVars
  <2> QED
    BY <2>1 DEF EarlyInv, OnTime, Waited, lifeStatus, locals, reads
<1> QED
  BY <1>1, <1>2, LoopKeepsEarly, WaitKeepsEarly DEF SingleNext, WaitStep, BesideStep

LEMMA TimesOutLate ==
    ASSUME SingleInv, EarlyInv, [SingleNext]_vars, LoopFindsTimeOver
    PROVE  now >= IF TornRead THEN await.given ELSE Deadline
<1>1. LoopTimesOut
  <2>1. LoopStep
    <3>1. ~(WaitStep /\ pc'["loop"] # pc["loop"])
      BY OnlyWait, Names DEF SingleInv, WaitStep, Only
    <3>2. ~(\E t \in {"start", "data", "user"} : Aside(t))
      BY Names DEF Aside, Only, LoopFindsTimeOver, At
    <3>3. ~Tick /\ ~UNCHANGED vars
      BY DEF Tick, vars, LoopFindsTimeOver, At
    <3> QED
      BY <3>1, <3>2, <3>3, StepsAside DEF SingleNext, WaitStep, BesideStep, SingleInv,
         LoopFindsTimeOver, At
  <2> QED
    BY <2>1, Names DEF SingleInv, Shape, LoopStep, LoopStops, LoopCopies, LoopHasNothing,
       InactivityRaises, LoopReadsStart, LoopReadsClock, LoopCompares, LoopIsInTime,
       LoopEndsTerminating, LoopStartsTerminating, LoopEndsLife, LoopFindsDone,
       LoopFindsUndone, LoopRemoves, TimeOutStep, TestTimedOut, MarkTimedOut, TimeOutObserver,
       OnTimeout, ProceedInCall, LoopFindsTimeOver, Moves, At, Goto
<1>2. /\ readClock - readStart >= timeout
      /\ OnTime
  BY <1>1 DEF LoopTimesOut, IsOver, Limit, EarlyInv, LoopFindsTimeOver
<1>3. /\ now \in Nat /\ readClock \in Nat /\ readStart \in Nat /\ readClock <= now
      /\ startTime \in Nat /\ timeout \in Nat
  BY DEF SingleInv, Clock, Times
<1>4. PICK g \in Nat, s \in Nat, a \in Nat :
          g = await.given /\ s = await.since /\ a = await.start /\ a <= s
  BY DEF EarlyInv
<1>5. now >= readStart + timeout
  BY <1>2, <1>3
<1>6. CASE Waited
  <2>1. startTime = a /\ timeout + a = s + g
    BY <1>2, <1>4, <1>6 DEF OnTime
  <2>2. CASE readStart = startTime
    <3>1. now >= s + g
      BY <1>3, <1>4, <1>5, <2>1, <2>2
    <3> QED
      BY <1>4, <1>6, <2>2, <3>1 DEF TornRead, Deadline
  <2>3. CASE readStart # startTime
    <3>1. now >= g
      BY <1>3, <1>4, <1>5, <2>1
    <3> QED
      BY <1>4, <1>6, <2>3, <3>1 DEF TornRead
  <2> QED
    BY <2>2, <2>3
<1>7. CASE ~Waited
  <2>1. timeout = Timeout
    BY <1>2, <1>7 DEF OnTime, Waited
  <2>2. now >= Timeout
    BY <1>3, <1>5, <2>1
  <2> QED
    BY <1>7, <2>2 DEF TornRead, Deadline
<1> QED
  BY <1>6, <1>7

\* However wait_for() and the loop move start_time and timeout, no observer that is not done is
\* timed out before its deadline, but by a torn read, and then not before the time that wait_for()
\* was given has passed since start().
THEOREM NotTimedOutEarlyHolds == SingleSpec => NotTimedOutEarly
<1>1. SingleInit => SingleInv /\ EarlyInv
  BY InvInit, EarlyInit
<1>2. SingleInv /\ EarlyInv /\ [SingleNext]_vars => (SingleInv /\ EarlyInv)'
  BY InvStep, EarlyStep
<1>3. SingleInv /\ EarlyInv /\ [SingleNext]_vars =>
          [LoopFindsTimeOver => now >= IF TornRead THEN await.given ELSE Deadline]_vars
  BY TimesOutLate
<1> QED
  BY <1>1, <1>2, <1>3, PTL DEF SingleSpec, NotTimedOutEarly

=============================================================================
