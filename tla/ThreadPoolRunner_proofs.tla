------------------------ MODULE ThreadPoolRunner_proofs ------------------------
(***************************************************************************)
(* What observer_lock is for (ThreadPoolRunner): data, feed() and wait_for()  *)
(* race for one observer, and nobody interferes without the lock.  For every  *)
(* kind of observer, any number of chunks and results, and whether there is a *)
(* terminating_timeout or not.  (That on_timeout() is called once needs no    *)
(* such peace, only the lock: TimedOutOnce.)                               *)
(***************************************************************************)
EXTENDS ThreadPoolRunner, TLAPS

\* Nobody calls cancel(), closes the connection or shuts the runner down, feed() lives, and
\* wait_for() has a timeout of its own (without one, it may come too late: see WaitedTooLate).
Undisturbed == Intruders = {} /\ ~FeedMayDie /\ AwaitTimeouts = {TRUE}

Places == {"start", "lock", "parse", "parsed", "raised", "report", "mark", "fail", "on timeout",
           "unlock", "tick", "stop", "over", "await", "awaitTerm", "eol", "returned"}

Shape ==
    /\ pc \in [Callers -> Places]
    /\ call \in [Callers -> {"idle", "assign", "keep", "store", "done"}]
    /\ arg \in [Callers -> Results \cup Exceptions \cup {None}]
    /\ \A t \in Callers : /\ call[t] = "assign" => arg[t] \in Results
                          /\ call[t] \in {"keep", "store"} => arg[t] \in Exceptions
    /\ isDone \in BOOLEAN /\ ~isCancelled /\ ~inShutdown /\ maxTimeout
    /\ kind \in Kinds

\* Who is where the lock is held holds it, and each method of the observer is called from the
\* places the code calls it from: under the lock, but for the end of a terminating period.
Holds(t) ==
    \/ t = "data" /\ pc[t] \in {"parse", "parsed", "raised"}
    \/ t \in {"feed", "wait"} /\ pc[t] \in {"mark", "fail", "on timeout", "unlock"}
LockHeld == \A t \in Callers : observerLock = t <=> Holds(t)
CallPlace ==
    /\ call["data"] # "idle" => pc["data"] = "parsed"
    /\ call["feed"] # "idle" =>
           pc["feed"] = "on timeout" \/ (pc["feed"] = "tick" /\ call["feed"] = "done")
    /\ call["wait"] # "idle" =>
           pc["wait"] = "on timeout" \/ (pc["wait"] = "returned" /\ call["wait"] = "done")
    /\ call["user"] = "idle"
    /\ \A t \in Callers : call[t] = "assign" => t = "data"

\* The terminating period begins when the observer has been timed out: it is done, or keeps its
\* exception till its prompt comes.  So its end takes no answer by surprise, though without lock.
Over == isDone \/ storedException # None
TimingOut(t) ==
    pc[t] = "fail" \/ (pc[t] = "on timeout" /\ call[t] \in {"keep", "store", "done"})
TimedOut ==
    /\ inTerminating => Over
    /\ pc["wait"] \in {"awaitTerm", "eol"} => Over
    /\ pc["feed"] = "tick" /\ call["feed"] = "done" => Over
    /\ pc["wait"] = "returned" /\ call["wait"] = "done" => Over
    /\ wasOnTimeoutCalled => Over \/ TimingOut("feed") \/ TimingOut("wait")
    /\ \A t \in {"feed", "wait"} :
          pc[t] \in {"fail", "on timeout", "unlock"} => wasOnTimeoutCalled

\* A method that is to write the outcome finds none; only its caller, with the lock, may be
\* between the write and _is_done.
NoOutcome == result = None /\ exception = None
OneOutcome ==
    /\ result = None \/ exception = None
    /\ WaitsForPrompt \/ storedException = None
    /\ \A t \in Callers :
          /\ call[t] = "keep" => WaitsForPrompt /\ (~isDone => NoOutcome) /\ result = None
          /\ call[t] = "store" => ~WaitsForPrompt
          /\ call[t] \in {"assign", "store"} => ~Over /\ NoOutcome
          /\ call[t] = "done" => Over \/ ~NoOutcome
    /\ storedException # None /\ ~isDone => NoOutcome
    /\ isDone => ~NoOutcome
    /\ ~NoOutcome => isDone \/ \E t \in Callers : observerLock = t /\ call[t] = "done"

\* feed() stops for the end of the observer or because wait_for() has returned.
FeedStops ==
    /\ pc["feed"] \in {"stop", "over"} \/ futureDone => isDone \/ stopFeeding
    /\ stopFeeding => pc["wait"] \in {"returned", "over"}
    /\ pc["wait"] = "returned" => isDone \/ call["wait"] = "done"

RunnerInv == Shape /\ LockHeld /\ CallPlace /\ TimedOut /\ OneOutcome /\ FeedStops

\* What a step does to the threads: one of them moves, and may enter a method of the observer.
Outcomes == <<kind, isDone, isCancelled, result, exception, storedException>>
Flags == <<stopFeeding, futureDone, wasOnTimeoutCalled, inTerminating, inShutdown, maxTimeout>>
Calls == <<call, arg>>
Steps == {"idle", "assign", "keep", "store", "done"}
Values == Results \cup Exceptions \cup {None}
Moves(t, from, to) ==
    /\ pc[t] \in from /\ call[t] = "idle"
    /\ pc' \in [Callers -> Places]
    /\ pc'[t] \in to
    /\ \A u \in Callers \ {t} : pc'[u] = pc[u]
Calling(t) ==
    /\ call' \in [Callers -> Steps] /\ arg' \in [Callers -> Values]
    /\ \A u \in Callers \ {t} : call'[u] = call[u] /\ arg'[u] = arg[u]

LEMMA Names ==
    /\ Callers = {"data", "feed", "wait", "user"}
    /\ NoThread \notin Callers
    /\ None \notin Results \cup Exceptions
    /\ {"timeout", "parse"} \subseteq Exceptions
BY RunnerAssumption, ObserverAssumption DEF NoThread

LEMMA Moved ==
    ASSUME NEW t \in Callers, NEW place \in Places, Shape, At(t, pc[t]), Goto(t, place)
    PROVE  Moves(t, {pc[t]}, {place})
BY DEF Shape, At, Idle, Goto, Moves

LEMMA Entered ==
    ASSUME NEW t \in Callers, NEW step \in Steps, NEW value \in Values, Shape,
           Enter(t, step, value)
    PROVE  Calling(t) /\ call'[t] = step /\ arg'[t] = value
BY DEF Shape, Enter, Calling, Steps, Values

LEMMA Untouched ==
    ASSUME RunnerInv, UNCHANGED <<pc, observerLock, Outcomes, Calls, Flags>>
    PROVE  RunnerInv'
<1>1. Shape'
  BY DEF RunnerInv, Shape, Outcomes, Calls, Flags
<1>2. LockHeld' /\ CallPlace' /\ FeedStops'
  BY DEF RunnerInv, LockHeld, Holds, CallPlace, FeedStops, Outcomes, Calls, Flags
<1>3. TimedOut'
  BY DEF RunnerInv, TimedOut, TimingOut, Over, Outcomes, Calls, Flags
<1>4. OneOutcome'
  BY DEF RunnerInv, OneOutcome, NoOutcome, Over, WaitsForPrompt, Outcomes, Calls, Flags
<1> QED
  BY <1>1, <1>2, <1>3, <1>4 DEF RunnerInv

\* Who is about to write the outcome has the lock.
LEMMA WriterHolds ==
    ASSUME RunnerInv, NEW t \in Callers, call[t] \in {"assign", "keep", "store"}
    PROVE  observerLock = t
BY Names DEF RunnerInv, CallPlace, LockHeld, Holds

\* Nothing was written to an observer that is not done, for who has just taken the lock.
LEMMA NothingWritten ==
    ASSUME RunnerInv, ~isDone, NEW t \in Callers, call[t] = "idle", observerLock \in {t, NoThread}
    PROVE  NoOutcome
BY Names DEF RunnerInv, OneOutcome

\* A method of the observer begins.
LEMMA MethodBegins ==
    ASSUME RunnerInv, UNCHANGED Outcomes,
           NEW t \in Callers, call[t] = "idle", Calling(t),
           observerLock' = observerLock \/ observerLock = NoThread,
           \/ call'[t] = "done" /\ Over
           \/ call'[t] = "assign" /\ ~Over /\ NoOutcome
           \/ call'[t] = "store" /\ ~Over /\ NoOutcome /\ ~WaitsForPrompt
           \/ call'[t] = "keep" /\ NoOutcome /\ WaitsForPrompt
    PROVE  OneOutcome'
<1> USE DEF Outcomes, Calling
<1>1. UNCHANGED <<Over, NoOutcome, WaitsForPrompt>>
  BY DEF Over, NoOutcome, WaitsForPrompt
<1>2. \A u \in Callers :
         /\ call'[u] = "keep" => WaitsForPrompt /\ (~isDone => NoOutcome) /\ result = None
         /\ call'[u] = "store" => ~WaitsForPrompt
         /\ call'[u] \in {"assign", "store"} => ~Over /\ NoOutcome
         /\ call'[u] = "done" => Over \/ ~NoOutcome
  <2> SUFFICES ASSUME NEW u \in Callers
               PROVE  /\ call'[u] = "keep" =>
                             WaitsForPrompt /\ (~isDone => NoOutcome) /\ result = None
                      /\ call'[u] = "store" => ~WaitsForPrompt
                      /\ call'[u] \in {"assign", "store"} => ~Over /\ NoOutcome
                      /\ call'[u] = "done" => Over \/ ~NoOutcome
    OBVIOUS
  <2>1. CASE u = t
    BY <2>1 DEF NoOutcome
  <2>2. CASE u # t
    BY <2>2 DEF RunnerInv, OneOutcome
  <2> QED
    BY <2>1, <2>2
<1>3. ASSUME ~NoOutcome, ~isDone
      PROVE  \E u \in Callers : observerLock' = u /\ call'[u] = "done"
  <2>1. PICK u \in Callers : observerLock = u /\ call[u] = "done"
    BY <1>3 DEF RunnerInv, OneOutcome
  <2> QED
    BY <2>1, Names
<1> QED
  BY <1>1, <1>2, <1>3 DEF RunnerInv, OneOutcome, NoOutcome

\* secure_data_received.
LEMMA DataKeeps ==
    ASSUME Undisturbed, RunnerInv,
           \/ DataComes \/ DataLocks \/ ParsePart \/ ParseFailure \/ ParseRaises
           \/ \E r \in Results : ParseFinal(r)
           \/ DataUnlocks \/ DataUnlocksToReport \/ DataReports
    PROVE  RunnerInv'
<1>1. CASE DataComes
  <2>1. /\ Moves("data", {"start"}, {"start", "lock"})
        /\ UNCHANGED <<Outcomes, Calls, Flags, observerLock>>
    BY <1>1, Names, Moved DEF RunnerInv, Moves, DataComes, At, Idle, Goto, Shape, Places,
       Outcomes, Flags, Calls, observerVars, flags
  <2>2. Shape'
    BY <2>1, Names DEF RunnerInv, Shape, Steps, Values, Moves, Outcomes, Flags, Calls
  <2>3. LockHeld'
    BY <2>1, Names DEF RunnerInv, LockHeld, Holds, NoThread, Moves, Outcomes, Flags, Calls
  <2>4. CallPlace'
    BY <2>1, Names DEF RunnerInv, CallPlace, Moves, Outcomes, Flags, Calls
  <2>5. TimedOut'
    BY <2>1, Names DEF RunnerInv, TimedOut, TimingOut, Over, Moves, Outcomes, Flags, Calls
  <2>6. OneOutcome'
    BY <2>1, Names DEF RunnerInv, OneOutcome, NoOutcome, Over, WaitsForPrompt, Moves, Outcomes,
       Flags, Calls
  <2>7. FeedStops'
    BY <2>1, Names DEF RunnerInv, FeedStops, Moves, Outcomes, Flags, Calls
  <2> QED
    BY <2>2, <2>3, <2>4, <2>5, <2>6, <2>7 DEF RunnerInv
<1>2. CASE DataLocks
  <2>1. /\ Moves("data", {"lock"}, {"parse"})
        /\ observerLock = NoThread /\ observerLock' = "data"
        /\ UNCHANGED <<Outcomes, Calls, Flags>>
    BY <1>2, Names, Moved DEF RunnerInv, Moves, DataLocks, Acquire, At, Idle, Goto, Shape, Places,
       Outcomes, Flags, Calls, observerVars, flags
  <2>2. Shape'
    BY <2>1, Names DEF RunnerInv, Shape, Steps, Values, Moves, Outcomes, Flags, Calls
  <2>3. LockHeld'
    BY <2>1, Names DEF RunnerInv, LockHeld, Holds, NoThread, Moves, Outcomes, Flags, Calls
  <2>4. CallPlace'
    BY <2>1, Names DEF RunnerInv, CallPlace, Moves, Outcomes, Flags, Calls
  <2>5. TimedOut'
    BY <2>1, Names DEF RunnerInv, TimedOut, TimingOut, Over, Moves, Outcomes, Flags, Calls
  <2>6. OneOutcome'
    BY <2>1, Names DEF RunnerInv, LockHeld, Holds, NoThread, OneOutcome, NoOutcome, Over,
       WaitsForPrompt, Moves, Outcomes, Flags, Calls
  <2>7. FeedStops'
    BY <2>1, Names DEF RunnerInv, FeedStops, Moves, Outcomes, Flags, Calls
  <2> QED
    BY <2>2, <2>3, <2>4, <2>5, <2>6, <2>7 DEF RunnerInv
<1>3. CASE ParseRaises
  <2>1. /\ Moves("data", {"parse"}, {"raised"})
        /\ UNCHANGED <<Outcomes, Calls, Flags, observerLock>>
    BY <1>3, Names, Moved DEF RunnerInv, Moves, ParseRaises, At, Idle, Goto, Shape, Places,
       Outcomes, Flags, Calls, observerVars, flags
  <2>2. Shape'
    BY <2>1, Names DEF RunnerInv, Shape, Steps, Values, Moves, Outcomes, Flags, Calls
  <2>3. LockHeld'
    BY <2>1, Names DEF RunnerInv, LockHeld, Holds, NoThread, Moves, Outcomes, Flags, Calls
  <2>4. CallPlace'
    BY <2>1, Names DEF RunnerInv, CallPlace, Moves, Outcomes, Flags, Calls
  <2>5. TimedOut'
    BY <2>1, Names DEF RunnerInv, TimedOut, TimingOut, Over, Moves, Outcomes, Flags, Calls
  <2>6. OneOutcome'
    BY <2>1, Names DEF RunnerInv, OneOutcome, NoOutcome, Over, WaitsForPrompt, Moves, Outcomes,
       Flags, Calls
  <2>7. FeedStops'
    BY <2>1, Names DEF RunnerInv, FeedStops, Moves, Outcomes, Flags, Calls
  <2> QED
    BY <2>2, <2>3, <2>4, <2>5, <2>6, <2>7 DEF RunnerInv
<1>4. CASE DataUnlocks \/ ParsePart \/ DataUnlocksToReport
  <2>1. /\ Moves("data", {"parse", "parsed", "raised"}, {"start", "report"})
        /\ observerLock = "data" /\ observerLock' = NoThread
        /\ UNCHANGED <<Outcomes, Calls, Flags>>
    BY <1>4, Names, Moved DEF RunnerInv, Moves, DataUnlocks, ParsePart, DataUnlocksToReport,
       Release, At, Idle, Goto, Shape, Places, Outcomes, Flags, Calls, observerVars, flags
  <2>2. Shape'
    BY <2>1, Names DEF RunnerInv, Shape, Steps, Values, Moves, Outcomes, Flags, Calls
  <2>3. LockHeld'
    BY <2>1, Names DEF RunnerInv, LockHeld, Holds, NoThread, Moves, Outcomes, Flags, Calls
  <2>4. CallPlace'
    BY <2>1, Names DEF RunnerInv, CallPlace, Moves, Outcomes, Flags, Calls
  <2>5. TimedOut'
    BY <2>1, Names DEF RunnerInv, TimedOut, TimingOut, Over, Moves, Outcomes, Flags, Calls
  <2>6. OneOutcome'
    BY <2>1, Names DEF RunnerInv, OneOutcome, NoOutcome, Over, WaitsForPrompt, Moves, Outcomes,
       Flags, Calls
  <2>7. FeedStops'
    BY <2>1, Names DEF RunnerInv, FeedStops, Moves, Outcomes, Flags, Calls
  <2> QED
    BY <2>2, <2>3, <2>4, <2>5, <2>6, <2>7 DEF RunnerInv
<1>5. CASE \E r \in Results : ParseFinal(r)
  <2>0. PICK r \in Results : ParseFinal(r)
    BY <1>5
  <2>1. /\ Moves("data", {"parse"}, {"parsed", "raised"})
        /\ observerLock = "data"
        /\ UNCHANGED <<Outcomes, Flags, observerLock>>
    <3>1. At("data", "parse") /\ UNCHANGED <<Outcomes, Flags, observerLock>>
      BY <2>0 DEF ParseFinal, SetEndOfLife, SetResult, Outcomes, Flags, observerVars, flags
    <3>2. Goto("data", "parsed") \/ Goto("data", "raised")
      BY <2>0 DEF ParseFinal
    <3>3. observerLock = "data"
      BY <3>1, Names DEF RunnerInv, LockHeld, Holds, At
    <3> QED
      BY <3>1, <3>2, <3>3, Names, Moved DEF RunnerInv, Moves, At, Places
  <2>2. \/ UNCHANGED Calls
        \/ Calling("data") /\ call'["data"] = "done" /\ Over /\ pc'["data"] = "parsed"
        \/ /\ Calling("data") /\ call'["data"] = "assign" /\ arg'["data"] = r
           /\ ~Over /\ NoOutcome /\ pc'["data"] = "parsed"
    <3>pc. Goto("data", "parsed") => pc'["data"] = "parsed"
      BY Names DEF Goto, RunnerInv, Shape
    <3>1. CASE Textual /\ storedException # None
      BY <2>0, <3>1, <3>pc, Names, Entered
         DEF ParseFinal, SetEndOfLife, RunnerInv, Over, Steps, Values
    <3>2. CASE ~(Textual /\ storedException # None) /\ isDone
      BY <2>0, <3>2 DEF ParseFinal, CannotSetResult, observerVars, Calls
    <3>3. CASE ~(Textual /\ storedException # None) /\ ~isDone
      <4>1. SetResult("data", r) /\ Goto("data", "parsed")
        BY <2>0, <3>3 DEF ParseFinal, CannotSetResult
      <4>2. storedException = None
        BY <3>3 DEF RunnerInv, OneOutcome, WaitsForPrompt, Textual
      <4>3. NoOutcome
        BY <2>1, <3>3, Names, NothingWritten DEF Moves
      <4> QED
        BY <4>1, <4>2, <4>3, <3>3, <3>pc, Names, Entered
           DEF SetResult, RunnerInv, Over, Steps, Values
    <3> QED
      BY <3>1, <3>2, <3>3 DEF RunnerInv, Shape
  <2>3. Shape'
    BY <2>1, <2>2, Names DEF RunnerInv, Shape, Steps, Values, Moves, Calling, Outcomes, Flags,
       Calls
  <2>4. LockHeld'
    BY <2>1, <2>2, Names DEF RunnerInv, LockHeld, Holds, NoThread, Moves, Calling, Outcomes,
       Flags, Calls
  <2>5. CallPlace'
    BY <2>1, <2>2, Names DEF RunnerInv, CallPlace, Moves, Calling, Outcomes, Flags, Calls
  <2>6. TimedOut'
    BY <2>1, <2>2, Names DEF RunnerInv, TimedOut, TimingOut, Over, Moves, Calling, Outcomes,
       Flags, Calls
  <2>7. OneOutcome'
    <3>1. CASE UNCHANGED Calls
      BY <2>1, <3>1 DEF RunnerInv, OneOutcome, NoOutcome, Over, WaitsForPrompt, Outcomes, Calls
    <3>2. CASE ~UNCHANGED Calls
      BY <2>1, <2>2, <3>2, Names, MethodBegins DEF Moves
    <3> QED
      BY <3>1, <3>2
  <2>8. FeedStops'
    BY <2>1, <2>2, Names DEF RunnerInv, FeedStops, Moves, Calling, Outcomes, Flags, Calls
  <2> QED
    BY <2>3, <2>4, <2>5, <2>6, <2>7, <2>8 DEF RunnerInv
<1>6. CASE ParseFailure \/ DataReports
  <2>1. /\ Moves("data", {"parse", "report"}, {"parsed"})
        /\ IF pc["data"] = "parse" THEN observerLock = "data" /\ UNCHANGED observerLock
                                   ELSE observerLock = NoThread /\ observerLock' = "data"
        /\ UNCHANGED <<Outcomes, Flags>>
        /\ Calling("data") /\ arg'["data"] = "parse"
        /\ call'["data"] = IF isDone THEN "done" ELSE IF WaitsForPrompt THEN "keep" ELSE "store"
    BY <1>6, Names, Moved, Entered DEF RunnerInv, Moves, Steps, Values, ParseFailure, DataReports,
       Acquire, SetException, LockHeld, Holds, At, Idle, Goto, Shape, Places, Outcomes, Flags,
       flags
  <2>2. Shape'
    BY <2>1, Names DEF RunnerInv, Shape, Steps, Values, Moves, Calling, Outcomes, Flags
  <2>3. LockHeld'
    <3>1. CASE pc["data"] = "parse"
      BY <2>1, <3>1, Names DEF RunnerInv, LockHeld, Holds, NoThread, Moves
    <3>2. CASE pc["data"] = "report"
      BY <2>1, <3>2, Names DEF RunnerInv, LockHeld, Holds, NoThread, Moves
    <3> QED
      BY <2>1, <3>1, <3>2 DEF Moves
  <2>4. CallPlace'
    BY <2>1, Names DEF RunnerInv, CallPlace, Moves, Calling, Outcomes, Flags
  <2>5. TimedOut'
    BY <2>1, Names DEF RunnerInv, TimedOut, TimingOut, Over, Moves, Calling, Outcomes, Flags
  <2>6. OneOutcome'
    <3>1. ~isDone => NoOutcome
      BY <2>1, Names, NothingWritten DEF Moves
    <3>2. ~isDone /\ ~WaitsForPrompt => ~Over
      BY DEF RunnerInv, OneOutcome, Over
    <3> QED
      BY <2>1, <3>1, <3>2, Names, MethodBegins DEF Moves, Over
  <2>7. FeedStops'
    BY <2>1, Names DEF RunnerInv, FeedStops, Moves, Calling, Outcomes, Flags
  <2> QED
    BY <2>2, <2>3, <2>4, <2>5, <2>6, <2>7 DEF RunnerInv
<1> QED
  BY <1>1, <1>2, <1>3, <1>4, <1>5, <1>6

\* time_out_observer, by feed() or by wait_for().
LEMMA TimeOutKeeps ==
    ASSUME Undisturbed, RunnerInv, NEW t \in {"feed", "wait"},
           \/ t = "feed" /\ FeedTimesOut
           \/ t = "wait" /\ WaitTimesOut
           \/ TimeOutInside(t)
    PROVE  RunnerInv'
<1>t. t \in Callers
  BY Names
<1>1. ASSUME \/ t = "feed" /\ FeedTimesOut
             \/ t = "wait" /\ WaitTimesOut
      PROVE  RunnerInv'
  <2>1. /\ Moves(t, {"lock"}, {"unlock", "mark"})
        /\ pc'[t] = "unlock" => wasOnTimeoutCalled
        /\ observerLock = NoThread /\ observerLock' = t
        /\ UNCHANGED <<Outcomes, Calls, Flags>>
    BY <1>1, <1>t, Names, Moved
       DEF RunnerInv, Moves, FeedTimesOut, WaitTimesOut, TestTimedOut, Acquire, At, Idle, Goto,
           Shape, Places, Outcomes, Flags, Calls, observerVars, flags
  <2>2. Shape'
    BY <1>t, <2>1, Names
       DEF RunnerInv, Shape, Steps, Values, Moves, Outcomes, Flags, Calls
  <2>3. LockHeld'
    BY <1>t, <2>1, Names
       DEF RunnerInv, LockHeld, Holds, NoThread, Steps, Values, Moves, Outcomes, Flags, Calls
  <2>4. CallPlace'
    BY <1>t, <2>1, Names
       DEF RunnerInv, CallPlace, Steps, Values, Moves, Outcomes, Flags, Calls
  <2>5. TimedOut'
    BY <1>t, <2>1, Names
       DEF RunnerInv, TimedOut, TimingOut, Over, LockHeld, Holds, NoThread, Steps, Values,
           Moves, Outcomes, Flags, Calls
  <2>6. OneOutcome'
    BY <1>t, <2>1, Names
       DEF RunnerInv, OneOutcome, NoOutcome, Over, WaitsForPrompt, Steps, Values,
           Moves, Outcomes, Flags, Calls
  <2>7. FeedStops'
    BY <1>t, <2>1, Names
       DEF RunnerInv, FeedStops, Steps, Values, Moves, Outcomes, Flags, Calls
  <2> QED
    BY <2>2, <2>3, <2>4, <2>5, <2>6, <2>7 DEF RunnerInv
<1>2. CASE MarkTimedOut(t)
  <2>1. /\ Moves(t, {"mark"}, {"unlock", "fail"})
        /\ pc'[t] = "fail" \/ isDone
        /\ wasOnTimeoutCalled' = TRUE
        /\ UNCHANGED <<Outcomes, Calls, observerLock, stopFeeding, futureDone, inTerminating,
                       inShutdown, maxTimeout>>
    BY <1>2, <1>t, Names, Moved
       DEF RunnerInv, Moves, MarkTimedOut, At, Idle, Goto, Shape, Places, Outcomes, Calls,
           observerVars
  <2>2. Shape'
    BY <1>t, <2>1, Names
       DEF RunnerInv, Shape, Steps, Values, Moves, Outcomes, Calls
  <2>3. LockHeld'
    BY <1>t, <2>1, Names
       DEF RunnerInv, LockHeld, Holds, NoThread, Steps, Values, Moves, Outcomes, Calls
  <2>4. CallPlace'
    BY <1>t, <2>1, Names
       DEF RunnerInv, CallPlace, Steps, Values, Moves, Outcomes, Calls
  <2>5. TimedOut'
    BY <1>t, <2>1, Names
       DEF RunnerInv, TimedOut, TimingOut, Over, LockHeld, Holds, NoThread, Steps, Values,
           Moves, Outcomes, Calls
  <2>6. OneOutcome'
    BY <1>t, <2>1, Names
       DEF RunnerInv, OneOutcome, NoOutcome, Over, WaitsForPrompt, Steps, Values,
           Moves, Outcomes, Calls
  <2>7. FeedStops'
    BY <1>t, <2>1, Names
       DEF RunnerInv, FeedStops, Steps, Values, Moves, Outcomes, Calls
  <2> QED
    BY <2>2, <2>3, <2>4, <2>5, <2>6, <2>7 DEF RunnerInv
<1>3. CASE TimeOutObserver(t)
  <2>1. /\ Moves(t, {"fail"}, {"on timeout"})
        /\ UNCHANGED <<Outcomes, Flags, observerLock>>
        /\ Calling(t) /\ arg'[t] = "timeout"
        /\ call'[t] = IF isDone THEN "done" ELSE IF WaitsForPrompt THEN "keep" ELSE "store"
    <3>1. At(t, "fail") /\ Goto(t, "on timeout") /\ SetException(t, "timeout")
      BY <1>3 DEF TimeOutObserver
    <3>2. Moves(t, {"fail"}, {"on timeout"})
      BY <1>t, <3>1, Moved DEF RunnerInv, Moves, At, Places
    <3>3. UNCHANGED <<Outcomes, Flags, observerLock>>
      BY <1>3, <3>1 DEF TimeOutObserver, SetException, Outcomes, Flags, flags
    <3>4. PICK step \in Steps :
             /\ step = IF isDone THEN "done" ELSE IF WaitsForPrompt THEN "keep" ELSE "store"
             /\ Enter(t, step, "timeout")
      BY <3>1 DEF SetException, Steps
    <3> QED
      BY <1>t, <3>2, <3>3, <3>4, Entered, Names DEF RunnerInv, Values
  <2>2. Shape'
    BY <1>t, <2>1, Names
       DEF RunnerInv, Shape, Steps, Values, Moves, Calling, Outcomes, Flags
  <2>3. LockHeld'
    BY <1>t, <2>1, Names
       DEF RunnerInv, LockHeld, Holds, NoThread, Steps, Values, Moves, Calling, Outcomes, Flags
  <2>4. CallPlace'
    BY <1>t, <2>1, Names
       DEF RunnerInv, CallPlace, Steps, Values, Moves, Calling, Outcomes, Flags
  <2>5. TimedOut'
    BY <1>t, <2>1, Names
       DEF RunnerInv, TimedOut, TimingOut, Over, LockHeld, Holds, NoThread, Steps, Values,
           Moves, Calling, Outcomes, Flags
  <2>6. FeedStops'
    BY <1>t, <2>1, Names
       DEF RunnerInv, FeedStops, Steps, Values, Moves, Calling, Outcomes, Flags
  <2>7. OneOutcome'
    <3>1. ~isDone => NoOutcome
      BY <1>t, <2>1, Names, NothingWritten DEF Moves, RunnerInv, LockHeld, Holds
    <3>2. ~isDone /\ ~WaitsForPrompt => ~Over
      BY DEF RunnerInv, OneOutcome, Over
    <3> QED
      BY <1>t, <2>1, <3>1, <3>2, Names, MethodBegins DEF Moves, Over
  <2> QED
    BY <2>2, <2>3, <2>4, <2>5, <2>6, <2>7 DEF RunnerInv
<1>4. CASE OnTimeout(t)
  <2>1. /\ Moves(t, {"on timeout"}, {"unlock"})
        /\ UNCHANGED <<Outcomes, Calls, Flags, observerLock>>
    BY <1>4, <1>t, Names, Moved
       DEF RunnerInv, Moves, OnTimeout, At, Idle, Goto, Shape, Places, Outcomes, Flags, Calls,
           observerVars, flags
  <2>2. Shape'
    BY <1>t, <2>1, Names
       DEF RunnerInv, Shape, Steps, Values, Moves, Outcomes, Flags, Calls
  <2>3. LockHeld'
    BY <1>t, <2>1, Names
       DEF RunnerInv, LockHeld, Holds, NoThread, Steps, Values, Moves, Outcomes, Flags, Calls
  <2>4. CallPlace'
    BY <1>t, <2>1, Names
       DEF RunnerInv, CallPlace, Steps, Values, Moves, Outcomes, Flags, Calls
  <2>5. TimedOut'
    BY <1>t, <2>1, Names
       DEF RunnerInv, TimedOut, TimingOut, Over, LockHeld, Holds, NoThread, Steps, Values,
           Moves, Outcomes, Flags, Calls
  <2>6. OneOutcome'
    BY <1>t, <2>1, Names
       DEF RunnerInv, OneOutcome, NoOutcome, Over, WaitsForPrompt, Steps, Values,
           Moves, Outcomes, Flags, Calls
  <2>7. FeedStops'
    BY <1>t, <2>1, Names
       DEF RunnerInv, FeedStops, Steps, Values, Moves, Outcomes, Flags, Calls
  <2> QED
    BY <2>2, <2>3, <2>4, <2>5, <2>6, <2>7 DEF RunnerInv
<1>5. ASSUME TimeOutInside(t) PROVE RunnerInv'
  BY <1>2, <1>3, <1>4, <1>5 DEF TimeOutInside
<1> QED
  BY <1>1, <1>5

\* feed() and _feed_loop().
LEMMA FeedKeeps ==
    ASSUME Undisturbed, RunnerInv,
           \/ FeedLeavesLoop \/ FeedSeesDeadline \/ FeedIsInTime \/ FeedStartsTerminating
           \/ FeedEndsTick \/ FeedDies \/ StopFeeding
    PROVE  RunnerInv'
<1>1. CASE FeedLeavesLoop
  <2>1. /\ Moves("feed", {"start"}, {"stop"}) /\ (stopFeeding \/ isDone)
        /\ UNCHANGED <<Outcomes, Calls, Flags, observerLock>>
    BY <1>1, Names, Moved DEF RunnerInv, Moves, FeedLeavesLoop, At, Idle, Goto, Shape, Places,
       Outcomes, Flags, Calls, observerVars, flags
  <2>2. Shape'
    BY <2>1, Names DEF RunnerInv, Shape, Steps, Values, Moves, Outcomes, Flags, Calls
  <2>3. LockHeld'
    BY <2>1, Names DEF RunnerInv, LockHeld, Holds, NoThread, Moves, Outcomes, Flags, Calls
  <2>4. CallPlace'
    BY <2>1, Names DEF RunnerInv, CallPlace, Moves, Outcomes, Flags, Calls
  <2>5. TimedOut'
    BY <2>1, Names DEF RunnerInv, TimedOut, TimingOut, Over, Moves, Outcomes, Flags, Calls
  <2>6. OneOutcome'
    BY <2>1, Names DEF RunnerInv, OneOutcome, NoOutcome, Over, WaitsForPrompt, Moves, Outcomes,
       Flags, Calls
  <2>7. FeedStops'
    BY <2>1, Names DEF RunnerInv, FeedStops, Moves, Outcomes, Flags, Calls
  <2> QED
    BY <2>2, <2>3, <2>4, <2>5, <2>6, <2>7 DEF RunnerInv
<1>2. CASE FeedIsInTime \/ FeedEndsTick
  <2>1. /\ Moves("feed", {"start", "tick"}, {"start", "tick"})
        /\ UNCHANGED <<Outcomes, Calls, Flags, observerLock>>
    BY <1>2, Names, Moved DEF RunnerInv, Moves, FeedIsInTime, FeedEndsTick, At, Idle, Goto, Shape,
       Places, Outcomes, Flags, Calls, observerVars, flags
  <2>2. Shape'
    BY <2>1, Names DEF RunnerInv, Shape, Steps, Values, Moves, Outcomes, Flags, Calls
  <2>3. LockHeld'
    BY <2>1, Names DEF RunnerInv, LockHeld, Holds, NoThread, Moves, Outcomes, Flags, Calls
  <2>4. CallPlace'
    BY <2>1, Names DEF RunnerInv, CallPlace, Moves, Outcomes, Flags, Calls
  <2>5. TimedOut'
    BY <2>1, Names DEF RunnerInv, TimedOut, TimingOut, Over, Moves, Outcomes, Flags, Calls
  <2>6. OneOutcome'
    BY <2>1, Names DEF RunnerInv, OneOutcome, NoOutcome, Over, WaitsForPrompt, Moves, Outcomes,
       Flags, Calls
  <2>7. FeedStops'
    BY <2>1, Names DEF RunnerInv, FeedStops, Moves, Outcomes, Flags, Calls
  <2> QED
    BY <2>2, <2>3, <2>4, <2>5, <2>6, <2>7 DEF RunnerInv
<1>3. CASE StopFeeding
  <2>1. /\ Moves("feed", {"stop"}, {"over"})
        /\ UNCHANGED <<Outcomes, Calls, observerLock, stopFeeding, wasOnTimeoutCalled,
                       inTerminating, inShutdown, maxTimeout>>
    BY <1>3, Names, Moved DEF RunnerInv, Moves, StopFeeding, At, Idle, Goto, Shape, Places,
       Outcomes, Flags, Calls, observerVars, flags
  <2>2. Shape'
    BY <2>1, Names DEF RunnerInv, Shape, Steps, Values, Moves, Outcomes, Calls
  <2>3. LockHeld'
    BY <2>1, Names DEF RunnerInv, LockHeld, Holds, NoThread, Moves, Outcomes, Calls
  <2>4. CallPlace'
    BY <2>1, Names DEF RunnerInv, CallPlace, Moves, Outcomes, Calls
  <2>5. TimedOut'
    BY <2>1, Names DEF RunnerInv, TimedOut, TimingOut, Over, Moves, Outcomes, Calls
  <2>6. OneOutcome'
    BY <2>1, Names DEF RunnerInv, OneOutcome, NoOutcome, Over, WaitsForPrompt, Moves, Outcomes,
       Calls
  <2>7. FeedStops'
    BY <2>1, Names DEF RunnerInv, FeedStops, Moves, Outcomes, Calls
  <2> QED
    BY <2>2, <2>3, <2>4, <2>5, <2>6, <2>7 DEF RunnerInv
<1>4. CASE FeedStartsTerminating
  <2>1. /\ Moves("feed", {"unlock"}, {"tick"})
        /\ observerLock = "feed" /\ observerLock' = NoThread
        /\ UNCHANGED <<Outcomes, Calls, stopFeeding, futureDone, wasOnTimeoutCalled, inShutdown,
                       maxTimeout>>
    BY <1>4, Names, Moved DEF RunnerInv, Moves, FeedStartsTerminating, Release, At, Idle, Goto,
       Shape, Places, Outcomes, Flags, Calls, observerVars, flags
  <2>2. Shape'
    BY <2>1, Names DEF RunnerInv, Shape, Steps, Values, Moves, Outcomes, Calls
  <2>3. LockHeld'
    BY <2>1, Names DEF RunnerInv, LockHeld, Holds, NoThread, Moves, Outcomes, Calls
  <2>4. CallPlace'
    BY <2>1, Names DEF RunnerInv, CallPlace, Moves, Outcomes, Calls
  <2>5. TimedOut'
    BY <2>1, Names DEF RunnerInv, LockHeld, Holds, NoThread, TimedOut, TimingOut, Over, Moves,
       Outcomes, Calls
  <2>6. OneOutcome'
    BY <2>1, Names DEF RunnerInv, OneOutcome, NoOutcome, Over, WaitsForPrompt, Moves, Outcomes,
       Calls
  <2>7. FeedStops'
    BY <2>1, Names DEF RunnerInv, FeedStops, Moves, Outcomes, Calls
  <2> QED
    BY <2>2, <2>3, <2>4, <2>5, <2>6, <2>7 DEF RunnerInv
<1>5. CASE FeedSeesDeadline
  <2>1. /\ Moves("feed", {"start"}, {"lock", "tick"})
        /\ \/ UNCHANGED Calls /\ pc'["feed"] = "lock"
           \/ Over /\ Calling("feed") /\ call'["feed"] = "done" /\ pc'["feed"] = "tick"
        /\ UNCHANGED <<Outcomes, Flags, observerLock>>
    BY <1>5, Names, Moved, Entered DEF RunnerInv, Moves, TimedOut, Steps, Values,
       FeedSeesDeadline, SetEndOfLife, At, Idle, Goto, Shape, Places, Outcomes, Flags, Calls,
       observerVars, flags
  <2>2. Shape'
    BY <2>1, Names DEF RunnerInv, Shape, Steps, Values, Moves, Outcomes, Flags, Calls, Calling
  <2>3. LockHeld'
    BY <2>1, Names DEF RunnerInv, LockHeld, Holds, NoThread, Moves, Outcomes, Flags, Calls,
       Calling
  <2>4. CallPlace'
    BY <2>1, Names DEF RunnerInv, CallPlace, Moves, Outcomes, Flags, Calls, Calling
  <2>5. TimedOut'
    BY <2>1, Names DEF RunnerInv, CallPlace, TimedOut, TimingOut, Over, Moves, Outcomes, Flags,
       Calls, Calling
  <2>6. OneOutcome'
    <3>1. CASE UNCHANGED Calls
      BY <2>1, <3>1 DEF RunnerInv, OneOutcome, NoOutcome, Over, WaitsForPrompt, Outcomes, Calls
    <3>2. CASE ~UNCHANGED Calls
      BY <2>1, <3>2, Names, MethodBegins DEF Moves
    <3> QED
      BY <3>1, <3>2
  <2>7. FeedStops'
    BY <2>1, Names DEF RunnerInv, FeedStops, Moves, Outcomes, Flags, Calls, Calling
  <2> QED
    BY <2>2, <2>3, <2>4, <2>5, <2>6, <2>7 DEF RunnerInv
<1>6. ~FeedDies
  BY DEF Undisturbed, FeedDies
<1> QED
  BY <1>1, <1>2, <1>3, <1>4, <1>5, <1>6

\* wait_for(), and result() after it.
LEMMA WaitKeeps ==
    ASSUME Undisturbed, RunnerInv,
           \/ WaitFindsDone \/ WaitBegins \/ WaitReturns \/ WaitedTooLate \/ WaitSeesDeadline
           \/ WaitStartsTerminating \/ WaitPollsOn \/ WaitTerminatingOver \/ WaitEndsLife
           \/ UserReadsResult
    PROVE  RunnerInv'
<1>1. CASE WaitFindsDone \/ WaitReturns
  <2>1. /\ Moves("wait", {"start", "await", "awaitTerm"}, {"returned"})
        /\ isDone \/ futureDone
        /\ UNCHANGED <<Outcomes, Calls, observerLock, futureDone, wasOnTimeoutCalled,
                       inTerminating, inShutdown, maxTimeout>>
    BY <1>1, Names, Moved DEF RunnerInv, Moves, WaitFindsDone, WaitReturns, At, Idle, Goto, Shape,
       Places, Outcomes, Flags, Calls, observerVars, flags
  <2>2. Shape'
    BY <2>1, Names DEF RunnerInv, Shape, Steps, Values, Moves, Outcomes, Calls
  <2>3. LockHeld'
    BY <2>1, Names DEF RunnerInv, LockHeld, Holds, NoThread, Moves, Outcomes, Calls
  <2>4. CallPlace'
    BY <2>1, Names DEF RunnerInv, CallPlace, Moves, Outcomes, Calls
  <2>5. TimedOut'
    BY <2>1, Names DEF RunnerInv, TimedOut, TimingOut, Over, Moves, Outcomes, Calls
  <2>6. OneOutcome'
    BY <2>1, Names DEF RunnerInv, OneOutcome, NoOutcome, Over, WaitsForPrompt, Moves, Outcomes,
       Calls
  <2>7. FeedStops'
    BY <2>1, Names DEF RunnerInv, FeedStops, Moves, Outcomes, Calls
  <2> QED
    BY <2>2, <2>3, <2>4, <2>5, <2>6, <2>7 DEF RunnerInv
<1>2. CASE WaitBegins \/ WaitSeesDeadline
  <2>1. /\ Moves("wait", {"start", "await"}, {"await", "lock"})
        /\ UNCHANGED <<Outcomes, Calls, Flags, observerLock>>
    BY <1>2, Names, Moved DEF RunnerInv, Moves, WaitBegins, WaitSeesDeadline, At, Idle, Goto,
       Shape, Places, Outcomes, Flags, Calls, observerVars, flags
  <2>2. Shape'
    BY <2>1, Names DEF RunnerInv, Shape, Steps, Values, Moves, Outcomes, Flags, Calls
  <2>3. LockHeld'
    BY <2>1, Names DEF RunnerInv, LockHeld, Holds, NoThread, Moves, Outcomes, Flags, Calls
  <2>4. CallPlace'
    BY <2>1, Names DEF RunnerInv, CallPlace, Moves, Outcomes, Flags, Calls
  <2>5. TimedOut'
    BY <2>1, Names DEF RunnerInv, TimedOut, TimingOut, Over, Moves, Outcomes, Flags, Calls
  <2>6. OneOutcome'
    BY <2>1, Names DEF RunnerInv, OneOutcome, NoOutcome, Over, WaitsForPrompt, Moves, Outcomes,
       Flags, Calls
  <2>7. FeedStops'
    BY <2>1, Names DEF RunnerInv, FeedStops, Moves, Outcomes, Flags, Calls
  <2> QED
    BY <2>2, <2>3, <2>4, <2>5, <2>6, <2>7 DEF RunnerInv
<1>3. CASE WaitTerminatingOver
  <2>1. /\ Moves("wait", {"awaitTerm"}, {"eol"})
        /\ UNCHANGED <<Outcomes, Calls, Flags, observerLock>>
    BY <1>3, Names, Moved DEF RunnerInv, Moves, WaitTerminatingOver, At, Idle, Goto, Shape,
       Places, Outcomes, Flags, Calls, observerVars, flags
  <2>2. Shape'
    BY <2>1, Names DEF RunnerInv, Shape, Steps, Values, Moves, Outcomes, Flags, Calls
  <2>3. LockHeld'
    BY <2>1, Names DEF RunnerInv, LockHeld, Holds, NoThread, Moves, Outcomes, Flags, Calls
  <2>4. CallPlace'
    BY <2>1, Names DEF RunnerInv, CallPlace, Moves, Outcomes, Flags, Calls
  <2>5. TimedOut'
    BY <2>1, Names DEF RunnerInv, TimedOut, TimingOut, Over, Moves, Outcomes, Flags, Calls
  <2>6. OneOutcome'
    BY <2>1, Names DEF RunnerInv, OneOutcome, NoOutcome, Over, WaitsForPrompt, Moves, Outcomes,
       Flags, Calls
  <2>7. FeedStops'
    BY <2>1, Names DEF RunnerInv, FeedStops, Moves, Outcomes, Flags, Calls
  <2> QED
    BY <2>2, <2>3, <2>4, <2>5, <2>6, <2>7 DEF RunnerInv
<1>4. CASE WaitStartsTerminating
  <2>1. /\ Moves("wait", {"unlock"}, {"awaitTerm", "eol"})
        /\ observerLock = "wait" /\ observerLock' = NoThread
        /\ UNCHANGED <<Outcomes, Calls, stopFeeding, futureDone, wasOnTimeoutCalled, inShutdown,
                       maxTimeout>>
    BY <1>4, Names, Moved DEF RunnerInv, Moves, WaitStartsTerminating, Release, At, Idle, Goto,
       Shape, Places, Outcomes, Flags, Calls, observerVars, flags
  <2>2. Shape'
    BY <2>1, Names DEF RunnerInv, Shape, Steps, Values, Moves, Outcomes, Calls
  <2>3. LockHeld'
    BY <2>1, Names DEF RunnerInv, LockHeld, Holds, NoThread, Moves, Outcomes, Calls
  <2>4. CallPlace'
    BY <2>1, Names DEF RunnerInv, CallPlace, Moves, Outcomes, Calls
  <2>5. TimedOut'
    BY <2>1, Names DEF RunnerInv, LockHeld, Holds, NoThread, TimedOut, TimingOut, Over, Moves,
       Outcomes, Calls
  <2>6. OneOutcome'
    BY <2>1, Names DEF RunnerInv, OneOutcome, NoOutcome, Over, WaitsForPrompt, Moves, Outcomes,
       Calls
  <2>7. FeedStops'
    BY <2>1, Names DEF RunnerInv, FeedStops, Moves, Outcomes, Calls
  <2> QED
    BY <2>2, <2>3, <2>4, <2>5, <2>6, <2>7 DEF RunnerInv
<1>5. CASE WaitEndsLife
  <2>1. /\ Moves("wait", {"eol"}, {"returned"})
        /\ Over /\ Calling("wait") /\ call'["wait"] = "done"
        /\ UNCHANGED <<Outcomes, observerLock, futureDone, wasOnTimeoutCalled, inTerminating,
                       inShutdown, maxTimeout>>
    BY <1>5, Names, Moved, Entered DEF RunnerInv, Moves, TimedOut, Steps, Values, WaitEndsLife,
       SetEndOfLife, At, Idle, Goto, Shape, Places, Outcomes, Flags, Calls, observerVars, flags
  <2>2. Shape'
    BY <2>1, Names DEF RunnerInv, Shape, Steps, Values, Moves, Outcomes, Calling
  <2>3. LockHeld'
    BY <2>1, Names DEF RunnerInv, LockHeld, Holds, NoThread, Moves, Outcomes, Calling
  <2>4. CallPlace'
    BY <2>1, Names DEF RunnerInv, CallPlace, Moves, Outcomes, Calling
  <2>5. TimedOut'
    BY <2>1, Names DEF RunnerInv, CallPlace, TimedOut, TimingOut, Over, Moves, Outcomes, Calling
  <2>6. OneOutcome'
    BY <2>1, Names, MethodBegins DEF Moves
  <2>7. FeedStops'
    BY <2>1, Names DEF RunnerInv, FeedStops, Moves, Outcomes, Calling
  <2> QED
    BY <2>2, <2>3, <2>4, <2>5, <2>6, <2>7 DEF RunnerInv
<1>6. CASE UserReadsResult
  <2>1. /\ Moves("wait", {"returned"}, {"over"})
        /\ UNCHANGED <<Outcomes, Calls, Flags, observerLock>>
    BY <1>6, Names, Moved DEF RunnerInv, Moves, UserReadsResult, ReadResult, At, Idle, Goto,
       Shape, Places, Outcomes, Flags, Calls, observerVars, flags
  <2>2. Shape'
    BY <2>1, Names DEF RunnerInv, Shape, Steps, Values, Moves, Outcomes, Flags, Calls
  <2>3. LockHeld'
    BY <2>1, Names DEF RunnerInv, LockHeld, Holds, NoThread, Moves, Outcomes, Flags, Calls
  <2>4. CallPlace'
    BY <2>1, Names DEF RunnerInv, CallPlace, Moves, Outcomes, Flags, Calls
  <2>5. TimedOut'
    BY <2>1, Names DEF RunnerInv, TimedOut, TimingOut, Over, Moves, Outcomes, Flags, Calls
  <2>6. OneOutcome'
    BY <2>1, Names DEF RunnerInv, OneOutcome, NoOutcome, Over, WaitsForPrompt, Moves, Outcomes,
       Flags, Calls
  <2>7. FeedStops'
    BY <2>1, Names DEF RunnerInv, FeedStops, Moves, Outcomes, Flags, Calls
  <2> QED
    BY <2>2, <2>3, <2>4, <2>5, <2>6, <2>7 DEF RunnerInv
<1>7. ~WaitedTooLate /\ ~WaitPollsOn
  BY Names DEF RunnerInv, Shape, Places, WaitedTooLate, WaitPollsOn, At
<1> QED
  BY <1>1, <1>2, <1>3, <1>4, <1>5, <1>6, <1>7

\* The rest of a method that was entered: nobody else is between a test of the outcome and the
\* write of it.
LEMMA WritesAlone ==
    ASSUME RunnerInv, NEW t \in Callers, call[t] # "idle",
           NEW u \in Callers \ {t}, call[u] \in {"assign", "store"}
    PROVE  FALSE
<1>1. observerLock = u
  BY WriterHolds
<1>2. call[t] = "done"
  BY <1>1, WriterHolds DEF RunnerInv, Shape
<1>3. Over
  BY <1>1, <1>2, Names DEF RunnerInv, CallPlace, LockHeld, Holds, TimedOut
<1> QED
  BY <1>3 DEF RunnerInv, OneOutcome

LEMMA ProceedKeeps ==
    ASSUME Undisturbed, RunnerInv, NEW t \in Callers, ProceedInCall(t)
    PROVE  RunnerInv'
<1>frame. UNCHANGED <<pc, observerLock, Flags>>
  BY DEF ProceedInCall, runnerVars, Flags
<1>lock. LockHeld'
  BY <1>frame DEF RunnerInv, LockHeld, Holds
<1>others. \A u \in Callers \ {t} : call[t] # "idle" => call[u] \notin {"assign", "store"}
  BY WritesAlone
<1>1. CASE AssignResult(t)
  <2>1. /\ Calling(t) /\ call[t] = "assign" /\ call'[t] = "done" /\ arg'[t] = None
        /\ result' = arg[t] /\ arg[t] \in Results
        /\ UNCHANGED <<kind, isDone, isCancelled, exception, storedException>>
    BY <1>1, Entered DEF AssignResult, RunnerInv, Shape, Steps, Values
  <2>2. t = "data" /\ observerLock = t /\ ~Over /\ NoOutcome
    BY <2>1, WriterHolds DEF RunnerInv, CallPlace, OneOutcome
  <2>3. Shape'
    BY <1>frame, <2>1, Names DEF RunnerInv, Shape, Steps, Values, Calling, Flags
  <2>4. CallPlace'
    BY <1>frame, <2>1, <2>2, Names DEF RunnerInv, CallPlace, Calling
  <2>5. TimedOut'
    BY <1>frame, <2>1, <2>2, Names DEF RunnerInv, TimedOut, TimingOut, Over, Calling, Flags
  <2>6. OneOutcome'
    BY <1>frame, <1>others, <2>1, <2>2, Names, WriterHolds
       DEF RunnerInv, OneOutcome, NoOutcome, Over, WaitsForPrompt, Calling
  <2>7. FeedStops'
    BY <1>frame, <2>1, <2>2, Names DEF RunnerInv, FeedStops, Calling, Flags
  <2> QED
    BY <1>lock, <2>3, <2>4, <2>5, <2>6, <2>7 DEF RunnerInv
<1>2. CASE StoreException(t)
  <2>1. /\ Calling(t) /\ call[t] = "store" /\ call'[t] = "done" /\ arg'[t] = None
        /\ exception' = arg[t] /\ arg[t] \in Exceptions
        /\ UNCHANGED <<kind, isDone, isCancelled, result, storedException>>
    BY <1>2, Entered DEF StoreException, ReplaceUnraised, RunnerInv, Shape, Steps, Values
  <2>2. observerLock = t /\ ~Over /\ NoOutcome
    BY <2>1, WriterHolds DEF RunnerInv, OneOutcome
  <2>3. Shape'
    BY <1>frame, <2>1, Names DEF RunnerInv, Shape, Steps, Values, Calling, Flags
  <2>4. CallPlace'
    BY <1>frame, <2>1, <2>2, Names DEF RunnerInv, CallPlace, Calling
  <2>5. TimedOut'
    BY <1>frame, <2>1, <2>2, Names DEF RunnerInv, TimedOut, TimingOut, Over, CallPlace, Calling,
       Flags
  <2>6. OneOutcome'
    BY <1>frame, <1>others, <2>1, <2>2, Names, WriterHolds
       DEF RunnerInv, OneOutcome, NoOutcome, Over, WaitsForPrompt, Calling
  <2>7. FeedStops'
    BY <1>frame, <2>1, <2>2, Names DEF RunnerInv, FeedStops, CallPlace, Calling, Flags
  <2> QED
    BY <1>lock, <2>3, <2>4, <2>5, <2>6, <2>7 DEF RunnerInv
<1>3. CASE KeepException(t)
  <2>1. /\ call[t] = "keep" /\ call' = [call EXCEPT ![t] = "idle"] /\ arg' = arg
        /\ arg[t] \in Exceptions
        /\ storedException' = IF storedException = None THEN arg[t] ELSE storedException
        /\ UNCHANGED <<kind, isDone, isCancelled, result, exception>>
    BY <1>3 DEF KeepException, Leave, RunnerInv, Shape
  <2>2. /\ call' \in [Callers -> Steps] /\ call'[t] = "idle"
        /\ \A u \in Callers \ {t} : call'[u] = call[u]
    BY <2>1 DEF RunnerInv, Shape, Steps
  <2>3. observerLock = t /\ Over'
    BY <2>1, WriterHolds, Names DEF Over
  <2>4. Shape'
    BY <1>frame, <2>1, <2>2, Names DEF RunnerInv, Shape, Steps, Values, Flags
  <2>5. CallPlace'
    BY <1>frame, <2>2, Names DEF RunnerInv, CallPlace
  <2>6. TimedOut'
    BY <1>frame, <2>3 DEF RunnerInv, TimedOut, Flags
  <2>7. OneOutcome'
    BY <1>frame, <1>others, <2>1, <2>2, <2>3, Names
       DEF RunnerInv, OneOutcome, NoOutcome, Over, WaitsForPrompt
  <2>8. FeedStops'
    BY <1>frame, <2>1, <2>2, Names DEF RunnerInv, FeedStops, CallPlace, Flags
  <2> QED
    BY <1>lock, <2>4, <2>5, <2>6, <2>7, <2>8 DEF RunnerInv
<1>4. CASE SetDone(t)
  <2>1. /\ call[t] = "done" /\ call' = [call EXCEPT ![t] = "idle"] /\ arg' = arg
        /\ isDone' /\ storedException' = None
        /\ exception' = IF storedException # None /\ ~isDone THEN storedException ELSE exception
        /\ UNCHANGED <<kind, isCancelled, result>>
    BY <1>4 DEF SetDone, Leave, PublishStoredException, ReplaceUnraised
  <2>2. /\ call' \in [Callers -> Steps] /\ call'[t] = "idle"
        /\ \A u \in Callers \ {t} : call'[u] = call[u]
    BY <2>1 DEF RunnerInv, Shape, Steps
  <2>3. Over' /\ isDone' \in BOOLEAN
    BY <1>4 DEF SetDone, Over
  <2>4. Shape'
    BY <1>frame, <2>1, <2>2, <2>3, Names DEF RunnerInv, Shape, Steps, Values, Flags
  <2>5. CallPlace'
    BY <1>frame, <2>2, Names DEF RunnerInv, CallPlace
  <2>6. TimedOut'
    BY <1>frame, <2>3 DEF RunnerInv, TimedOut, Flags
  <2>7. OneOutcome'
    <3>1. ~NoOutcome' /\ (result' = None \/ exception' = None)
      BY <2>1 DEF RunnerInv, OneOutcome, NoOutcome, Over
    <3>2. \A u \in Callers : call'[u] \notin {"assign", "store"}
      BY <1>others, <2>1, <2>2
    <3> QED
      BY <2>1, <2>2, <2>3, <3>1, <3>2 DEF RunnerInv, OneOutcome, WaitsForPrompt
  <2>8. FeedStops'
    BY <1>frame, <2>1 DEF RunnerInv, FeedStops, Flags
  <2> QED
    BY <1>lock, <2>4, <2>5, <2>6, <2>7, <2>8 DEF RunnerInv
<1>5. ~MarkCancelled(t)
  BY DEF MarkCancelled, RunnerInv, Shape
<1> QED
  BY <1>1, <1>2, <1>3, <1>4, <1>5 DEF ProceedInCall, Proceed

LEMMA RunnerInvInit == ASSUME Undisturbed, RunnerInit PROVE RunnerInv
<1> USE DEF RunnerInit, ObserverInit
<1>1. Shape
  BY Names DEF Undisturbed, Shape, Places
<1>2. LockHeld /\ CallPlace /\ FeedStops
  BY Names DEF LockHeld, Holds, CallPlace, FeedStops
<1>3. TimedOut
  BY Names DEF TimedOut, TimingOut, Over
<1>4. OneOutcome
  BY Names DEF OneOutcome, NoOutcome, Over
<1> QED
  BY <1>1, <1>2, <1>3, <1>4 DEF RunnerInv

LEMMA RunnerInvNext == ASSUME Undisturbed, RunnerInv, [RunnerNext]_vars PROVE RunnerInv'
<1>1. CASE DataComes \/ DataInside
  BY <1>1, DataKeeps, ProceedKeeps, Names DEF DataInside
<1>2. CASE FeedStep
  BY <1>2, FeedKeeps, TimeOutKeeps, ProceedKeeps, Names DEF FeedStep
<1>3. CASE WaitFindsDone \/ WaitBegins \/ WaitInside
  BY <1>3, WaitKeeps, TimeOutKeeps, ProceedKeeps, Names DEF WaitInside
<1>4. ~(UserCancels \/ ConnectionCloses \/ RunnerShutdown)
  BY DEF Undisturbed, UserCancels, ConnectionCloses, RunnerShutdown
<1>5. CASE IntruderInside
  <2>1. pc["user"] \in Places
    BY Names DEF RunnerInv, Shape
  <2>2. ~CloserCancels /\ ~CloserUnsubscribes
    BY <2>1 DEF CloserCancels, CloserUnsubscribes, At, Places
  <2> QED
    BY <1>5, <2>2, ProceedKeeps, Names DEF IntruderInside
<1>6. ASSUME NEW d \in Deadlines, Elapse(d) PROVE RunnerInv'
  BY <1>6, Untouched DEF Elapse, Outcomes, Calls, Flags, observerVars
<1>7. CASE UNCHANGED vars
  BY <1>7, Untouched DEF vars, observerVars, runnerVars, Outcomes, Calls, Flags
<1> QED
  BY <1>1, <1>2, <1>3, <1>4, <1>5, <1>6, <1>7 DEF RunnerNext

\* An outcome that is there when the observer is done stays.
LEMMA OutcomeStays ==
    ASSUME Undisturbed, RunnerInv, [RunnerNext]_vars, isDone
    PROVE  isDone' /\ UNCHANGED <<result, exception, isCancelled>>
<1>1. ASSUME NEW t \in Callers, Proceed(t)
      PROVE  isDone' /\ UNCHANGED <<result, exception, isCancelled>>
  <2>1. call[t] \notin {"assign", "store", "mark"}
    BY DEF RunnerInv, OneOutcome, Over, Shape
  <2>2. KeepException(t) \/ SetDone(t)
    BY <1>1, <2>1 DEF Proceed, AssignResult, StoreException, MarkCancelled
  <2> QED
    BY <2>2 DEF KeepException, SetDone, PublishStoredException
<1> USE DEF observerVars, SetResult, SetException, SetEndOfLife, Cancel
<1>2. CASE DataComes \/ DataInside
  BY <1>1, <1>2, Names
     DEF DataComes, DataInside, DataLocks, ParsePart, ParseFailure, ParseRaises, ParseFinal,
         DataUnlocks, DataUnlocksToReport, DataReports, ProceedInCall
<1>3. CASE FeedStep
  BY <1>1, <1>3, Names
     DEF FeedStep, FeedLeavesLoop, FeedSeesDeadline, FeedIsInTime, FeedTimesOut, TimeOutObserver,
         TimeOutInside, MarkTimedOut, OnTimeout, FeedStartsTerminating, FeedEndsTick, FeedDies,
         StopFeeding, ProceedInCall
<1>4. CASE WaitFindsDone \/ WaitBegins \/ WaitInside
  BY <1>1, <1>4, Names
     DEF WaitFindsDone, WaitBegins, WaitInside, WaitReturns, WaitedTooLate, WaitSeesDeadline,
         WaitTimesOut, TimeOutInside, MarkTimedOut, TimeOutObserver, OnTimeout,
         WaitStartsTerminating, WaitPollsOn, WaitTerminatingOver, WaitEndsLife, UserReadsResult,
         ReadResult, ProceedInCall
<1>5. CASE UserCancels \/ ConnectionCloses \/ RunnerShutdown
  BY <1>5 DEF Undisturbed, UserCancels, ConnectionCloses, RunnerShutdown
<1>6. CASE IntruderInside
  BY <1>1, <1>6, Names DEF IntruderInside, CloserCancels, CloserUnsubscribes, ProceedInCall
<1>7. ASSUME NEW d \in Deadlines, Elapse(d)
      PROVE  isDone' /\ UNCHANGED <<result, exception, isCancelled>>
  BY <1>7 DEF Elapse
<1>8. CASE UNCHANGED vars
  BY <1>8 DEF vars
<1> QED
  BY <1>2, <1>3, <1>4, <1>5, <1>6, <1>7, <1>8 DEF RunnerNext

-----------------------------------------------------------------------------

LEMMA RunnerInvAlways == ASSUME Undisturbed PROVE RunnerSpec => []RunnerInv
BY RunnerInvInit, RunnerInvNext, PTL DEF RunnerSpec

\* Who is inside time_out_observer has observer_lock, so nobody else is there: who found
\* was_on_timeout_called unset is the one that sets it, and on_timeout() was not called before.
AllPlaces == Places \cup {"poll", "poll2", "late", "cancel", "unsubscribe"}
Inside(t) == pc[t] \in {"mark", "fail", "on timeout"}
OnceInv ==
    /\ pc \in [Callers -> AllPlaces]
    /\ timeouts \in {0, 1}
    /\ timeouts = 1 => wasOnTimeoutCalled
    /\ \A t \in Callers :
          /\ Inside(t) => observerLock = t /\ timeouts = 0
          /\ pc[t] = "mark" => ~wasOnTimeoutCalled
          /\ pc[t] \in {"fail", "on timeout"} => wasOnTimeoutCalled

\* A step of a thread that neither enters nor leaves time_out_observer.
LEMMA OnceElsewhere ==
    ASSUME OnceInv, NEW t \in Callers, NEW place \in AllPlaces, ~Inside(t),
           \/ pc' = pc
           \/ /\ pc' = [pc EXCEPT ![t] = place]
              /\ place \notin {"mark", "fail", "on timeout"},
           observerLock' = observerLock \/ Acquire(t) \/ Release(t),
           UNCHANGED <<timeouts, wasOnTimeoutCalled>>
    PROVE  OnceInv'
BY Names DEF OnceInv, Inside, Acquire, Release

\* However feed() and wait_for() race for the same timeout, on_timeout() is called at most once:
\* time_out_observer tests was_on_timeout_called and then sets it, and observer_lock keeps
\* everybody else out between the two, whoever interferes without it.
THEOREM TimedOutOnce == RunnerSpec => []OnTimeoutOnce
<1>1. RunnerInit => OnceInv
  BY DEF RunnerInit, OnceInv, Inside, AllPlaces, Places
<1>2. ASSUME OnceInv, [RunnerNext]_vars PROVE OnceInv'
  <2> USE DEF At, Goto
  <2>1. ASSUME NEW t \in {"feed", "wait"}, TimeOutInside(t) PROVE OnceInv'
    <3>1. t \in Callers
      BY Names
    <3>2. CASE MarkTimedOut(t)
      <4>1. PICK place \in {"unlock", "fail"} :
               /\ pc[t] = "mark" /\ Goto(t, place) /\ wasOnTimeoutCalled' = TRUE
               /\ UNCHANGED <<observerLock, timeouts>>
        BY <3>2 DEF MarkTimedOut
      <4> QED
        BY <1>2, <3>1, <4>1 DEF OnceInv, Inside, AllPlaces, Places
    <3>3. CASE TimeOutObserver(t)
      BY <1>2, <3>1, <3>3 DEF TimeOutObserver, flags, OnceInv, Inside, AllPlaces, Places
    <3>4. CASE OnTimeout(t)
      <4>1. /\ pc[t] = "on timeout" /\ Goto(t, "unlock")
            /\ UNCHANGED <<observerLock, wasOnTimeoutCalled>>
        BY <3>4 DEF OnTimeout, flags
      <4>2. wasOnTimeoutCalled
        BY <1>2, <3>1, <4>1 DEF OnceInv
      <4>3. timeouts' = 1
        <5>1. timeouts = 0
          BY <1>2, <3>1, <4>1 DEF OnceInv, Inside
        <5>2. timeouts' = timeouts + 1
          BY <3>4 DEF OnTimeout
        <5> QED
          BY <5>1, <5>2
      <4>4. pc' \in [Callers -> AllPlaces] /\ pc'[t] = "unlock"
        BY <1>2, <3>1, <4>1 DEF OnceInv, AllPlaces, Places
      <4>5. \A u \in Callers \ {t} : pc'[u] = pc[u] /\ ~Inside(u)
        BY <1>2, <3>1, <4>1 DEF OnceInv, Inside
      <4> QED
        BY <1>2, <3>1, <4>1, <4>2, <4>3, <4>4, <4>5 DEF OnceInv, Inside
    <3> QED
      BY <2>1, <3>2, <3>3, <3>4 DEF TimeOutInside
  <2>2. ASSUME NEW t \in {"feed", "wait"}, pc[t] = "lock", Acquire(t), TestTimedOut(t),
               UNCHANGED <<timeouts, wasOnTimeoutCalled>>
        PROVE OnceInv'
    BY <1>2, <2>2, Names
       DEF TestTimedOut, Acquire, OnceInv, Inside, AllPlaces, Places
  <2>3. CASE UNCHANGED <<pc, observerLock, timeouts, wasOnTimeoutCalled>>
    BY <1>2, <2>3 DEF OnceInv, Inside
  <2> USE DEF flags
  <2>4. CASE DataComes \/ DataInside
    <3>1. CASE ProceedInCall("data")
      BY <2>3, <3>1 DEF ProceedInCall, runnerVars
    <3>2. CASE DataComes \/ DataLocks \/ DataReports
      BY <1>2, <3>2, OnceElsewhere, Names
         DEF DataComes, DataLocks, DataReports, Inside, AllPlaces, Places
    <3>3. CASE ParsePart \/ DataUnlocks \/ DataUnlocksToReport
      BY <1>2, <3>3, OnceElsewhere, Names
         DEF ParsePart, DataUnlocks, DataUnlocksToReport, Inside, AllPlaces, Places
    <3>4. CASE ParseFailure \/ ParseRaises
      BY <1>2, <3>4, OnceElsewhere, Names
         DEF ParseFailure, ParseRaises, Inside, AllPlaces, Places
    <3>5. ASSUME NEW r \in Results, ParseFinal(r) PROVE OnceInv'
      <4>1. PICK place \in {"parsed", "raised"} : pc["data"] = "parse" /\ Goto("data", place)
        BY <3>5 DEF ParseFinal
      <4>2. UNCHANGED <<observerLock, timeouts, wasOnTimeoutCalled>>
        BY <3>5 DEF ParseFinal
      <4> QED
        BY <1>2, <4>1, <4>2, OnceElsewhere, Names DEF Inside, AllPlaces, Places
    <3> QED
      BY <2>4, <3>1, <3>2, <3>3, <3>4, <3>5 DEF DataInside
  <2>5. CASE FeedStep
    <3>1. CASE ProceedInCall("feed")
      BY <2>3, <3>1 DEF ProceedInCall, runnerVars
    <3>2. CASE FeedTimesOut
      BY <2>2, <3>2 DEF FeedTimesOut
    <3>3. CASE FeedLeavesLoop \/ FeedIsInTime \/ FeedDies \/ StopFeeding
      BY <1>2, <3>3, OnceElsewhere, Names
         DEF FeedLeavesLoop, FeedIsInTime, FeedDies, StopFeeding, Inside, AllPlaces, Places
    <3>4. CASE FeedSeesDeadline
      <4>1. PICK place \in {"tick", "lock"} : pc["feed"] = "start" /\ Goto("feed", place)
        BY <3>4 DEF FeedSeesDeadline
      <4>2. UNCHANGED <<observerLock, timeouts, wasOnTimeoutCalled>>
        BY <3>4 DEF FeedSeesDeadline
      <4> QED
        BY <1>2, <4>1, <4>2, OnceElsewhere, Names DEF Inside, AllPlaces, Places
    <3>5. CASE FeedStartsTerminating \/ FeedEndsTick
      BY <1>2, <3>5, OnceElsewhere, Names
         DEF FeedStartsTerminating, FeedEndsTick, Inside, AllPlaces, Places
    <3> QED
      BY <2>1, <2>5, <3>1, <3>2, <3>3, <3>4, <3>5 DEF FeedStep
  <2>6. CASE WaitFindsDone \/ WaitBegins \/ WaitInside
    <3>1. CASE ProceedInCall("wait")
      BY <2>3, <3>1 DEF ProceedInCall, runnerVars
    <3>2. CASE WaitTimesOut
      BY <2>2, <3>2 DEF WaitTimesOut
    <3>3. CASE WaitFindsDone \/ WaitReturns \/ WaitedTooLate \/ WaitSeesDeadline
      <4>1. PICK place \in {"returned", "eol", "lock"} : ~Inside("wait") /\ Goto("wait", place)
        BY <3>3 DEF WaitFindsDone, WaitReturns, WaitedTooLate, WaitSeesDeadline, Inside
      <4>2. UNCHANGED <<observerLock, timeouts, wasOnTimeoutCalled>>
        BY <3>3 DEF WaitFindsDone, WaitReturns, WaitedTooLate, WaitSeesDeadline
      <4> QED
        BY <1>2, <4>1, <4>2, OnceElsewhere, Names DEF AllPlaces, Places
    <3>4. CASE WaitBegins \/ WaitPollsOn
      <4>1. PICK place \in {"await", "late", "poll", "eol"} :
               pc["wait"] \in {"start", "poll2"} /\ Goto("wait", place)
        BY <3>4 DEF WaitBegins, WaitPollsOn
      <4>2. UNCHANGED <<observerLock, timeouts, wasOnTimeoutCalled>>
        BY <3>4 DEF WaitBegins, WaitPollsOn
      <4> QED
        BY <1>2, <4>1, <4>2, OnceElsewhere, Names DEF Inside, AllPlaces, Places
    <3>5. CASE WaitStartsTerminating
      <4>1. PICK place \in {"poll2", "awaitTerm", "eol"} :
               pc["wait"] = "unlock" /\ Goto("wait", place)
        BY <3>5 DEF WaitStartsTerminating
      <4>2. Release("wait") /\ UNCHANGED <<timeouts, wasOnTimeoutCalled>>
        BY <3>5 DEF WaitStartsTerminating
      <4> QED
        BY <1>2, <4>1, <4>2, OnceElsewhere, Names DEF Inside, AllPlaces, Places
    <3>6. CASE WaitTerminatingOver \/ WaitEndsLife \/ UserReadsResult
      BY <1>2, <3>6, OnceElsewhere, Names
         DEF WaitTerminatingOver, WaitEndsLife, UserReadsResult, Inside, AllPlaces, Places
    <3> QED
      BY <2>1, <2>6, <3>1, <3>2, <3>3, <3>4, <3>5, <3>6 DEF WaitInside
  <2>7. CASE UserCancels \/ ConnectionCloses \/ IntruderInside \/ RunnerShutdown
    <3>1. CASE ProceedInCall("user") \/ RunnerShutdown
      BY <2>3, <3>1 DEF ProceedInCall, runnerVars, RunnerShutdown
    <3>2. CASE UserCancels \/ ConnectionCloses \/ CloserCancels \/ CloserUnsubscribes
      BY <1>2, <3>2, OnceElsewhere, Names
         DEF UserCancels, ConnectionCloses, CloserCancels, CloserUnsubscribes, Inside, AllPlaces,
             Places
    <3> QED
      BY <2>7, <3>1, <3>2 DEF IntruderInside
  <2>8. ASSUME NEW d \in Deadlines, Elapse(d) PROVE OnceInv'
    BY <2>3, <2>8 DEF Elapse
  <2>9. CASE UNCHANGED vars
    BY <2>3, <2>9 DEF vars, runnerVars
  <2> QED
    BY <1>2, <2>4, <2>5, <2>6, <2>7, <2>8, <2>9 DEF RunnerNext
<1>3. OnceInv => OnTimeoutOnce
  <2>1. OnceInv => timeouts = 0 \/ timeouts = 1
    BY DEF OnceInv
  <2> QED
    BY <2>1 DEF OnTimeoutOnce
<1> QED
  BY <1>1, <1>2, <1>3, PTL DEF RunnerSpec

\* An answer that comes at the moment of a timeout leaves the observer with one of the two: what
\* observer_lock of secure_data_received, feed() and wait_for() is for.
THEOREM AnswerXorTimeout == ASSUME Undisturbed PROVE RunnerSpec => []ResultXorException
<1>1. RunnerInv => ResultXorException
  BY DEF RunnerInv, OneOutcome, ResultXorException
<1> QED
  BY <1>1, RunnerInvAlways, PTL

\* wait_for() returns only from an observer that is done, and that one has a result or an
\* exception: running out of time is never taken for a result of None.
THEOREM NoEndWithoutReason == ASSUME Undisturbed PROVE RunnerSpec => []EndHasReason
<1>1. RunnerInv => EndHasReason
  BY DEF RunnerInv, OneOutcome, NoOutcome, FeedStops, EndHasReason, At, Idle
<1> QED
  BY <1>1, RunnerInvAlways, PTL

\* An observer that answered is not timed out afterwards and one that was timed out takes no late
\* answer, though feed() and wait_for() end the observer without observer_lock.
THEOREM FinalOutcome == ASSUME Undisturbed PROVE RunnerSpec => OutcomeIsFinal
<1>1. RunnerInv /\ [RunnerNext]_vars => [isDone => Outcome' = Outcome]_vars
  <2> SUFFICES ASSUME RunnerInv, [RunnerNext]_vars, isDone PROVE Outcome' = Outcome
    OBVIOUS
  <2>1. isDone' /\ UNCHANGED <<result, exception, isCancelled>>
    BY OutcomeStays
  <2> QED
    BY <2>1 DEF Outcome
<1> QED
  BY <1>1, RunnerInvAlways, PTL DEF RunnerSpec, OutcomeIsFinal

=============================================================================
