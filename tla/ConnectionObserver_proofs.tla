------------------------ MODULE ConnectionObserver_proofs ------------------------
(***************************************************************************)
(* What callers that race in set_result, set_exception, cancel and         *)
(* set_end_of_life cannot do to an observer, for any number of callers,    *)
(* results and exceptions.                                                 *)
(***************************************************************************)
EXTENDS ConnectionObserver, TLAPS

\* The conjunction is inductive as it stands; only the count of callbacks needs the types.
ObserverInv == ObserverTypeOK /\ FailureIsAccounted /\ CallbackOnce

-----------------------------------------------------------------------------

\* A fresh observer has no failure to account for and no callback behind it.
LEMMA ObserverInitially == ObserverInit => ObserverInv
<1> SUFFICES ASSUME ObserverInit PROVE ObserverInv
  OBVIOUS
<1>1. ObserverTypeOK
  <2>1. callbacks \in Seq({"on_success", "on_failure"})
    BY DEF ObserverInit
  <2>. QED  BY <2>1, ObserverAssumption DEF ObserverInit, ObserverTypeOK
<1>2. FailureIsAccounted
  BY DEF ObserverInit, FailureIsAccounted
<1>3. CallbackOnce
  <2>1. Len(callbacks) = 0 /\ ~isDone
    BY DEF ObserverInit
  <2>. QED  BY <2>1 DEF CallbackOnce
<1>. QED  BY <1>1, <1>2, <1>3 DEF ObserverInv

\* ReplaceUnraised, the only writer of _exception, leaves at most the new exception in the list.
LEMMA ReplacingKeepsAccount ==
    ASSUME FailureIsAccounted, NEW e, ReplaceUnraised(e),
           UNCHANGED <<raised, collected>>
    PROVE  FailureIsAccounted'
BY DEF FailureIsAccounted, ReplaceUnraised

\* A sequence stays one over the same elements when one of them is appended.
LEMMA AppendingKeepsElements ==
    ASSUME NEW S, NEW s \in Seq(S), NEW e \in S
    PROVE  Append(s, e) \in Seq(S)
OBVIOUS

\* Every step of any caller keeps the types.
LEMMA ObserverTypeStep == ObserverTypeOK /\ [Next]_observerVars => ObserverTypeOK'
<1> SUFFICES ASSUME ObserverTypeOK, [Next]_observerVars PROVE ObserverTypeOK'
  OBVIOUS
<1> USE ObserverAssumption DEF ObserverTypeOK
<1>1. ASSUME NEW t \in Callers, NEW r \in Results, SetResult(t, r) PROVE ObserverTypeOK'
  BY <1>1 DEF SetResult, Idle, Enter
<1>2. ASSUME NEW t \in Callers, AssignResult(t) PROVE ObserverTypeOK'
  BY <1>2 DEF AssignResult, Enter
<1>3. ASSUME NEW t \in Callers, NEW e \in Exceptions, SetException(t, e) PROVE ObserverTypeOK'
  BY <1>3 DEF SetException, Idle, Enter
<1>4. ASSUME NEW t \in Callers, KeepException(t) PROVE ObserverTypeOK'
  BY <1>4 DEF KeepException, Leave
<1>5. ASSUME NEW t \in Callers, StoreException(t) PROVE ObserverTypeOK'
  BY <1>5 DEF StoreException, ReplaceUnraised, Enter
<1>6. ASSUME NEW t \in Callers, Cancel(t) PROVE ObserverTypeOK'
  BY <1>6 DEF Cancel, Idle, Enter
<1>7. ASSUME NEW t \in Callers, MarkCancelled(t) PROVE ObserverTypeOK'
  BY <1>7 DEF MarkCancelled, Enter
<1>8. ASSUME NEW t \in Callers, SetEndOfLife(t) PROVE ObserverTypeOK'
  BY <1>8 DEF SetEndOfLife, Idle, Enter
<1>9. ASSUME NEW t \in Callers, SetDone(t) PROVE ObserverTypeOK'
  <2>1. callbacks' \in Seq({"on_success", "on_failure"})
    <3>1. \/ callbacks' = callbacks
          \/ callbacks' = Append(callbacks, "on_success")
          \/ callbacks' = Append(callbacks, "on_failure")
      BY <1>9 DEF SetDone, Callback
    <3>2. /\ callbacks \in Seq({"on_success", "on_failure"})
          /\ "on_success" \in {"on_success", "on_failure"}
          /\ "on_failure" \in {"on_success", "on_failure"}
      OBVIOUS
    <3>3. Append(callbacks, "on_success") \in Seq({"on_success", "on_failure"})
      BY ONLY <3>2, AppendingKeepsElements, Zenon
    <3>4. Append(callbacks, "on_failure") \in Seq({"on_success", "on_failure"})
      BY ONLY <3>2, AppendingKeepsElements, Zenon
    <3>. QED  BY ONLY <3>1, <3>2, <3>3, <3>4, Zenon
  <2>2. /\ unraised' \subseteq Exceptions
        /\ exception' \in Exceptions \cup {None}
        /\ storedException' \in Exceptions \cup {None}
    BY <1>9 DEF SetDone, PublishStoredException, ReplaceUnraised
  <2>3. /\ call' = [call EXCEPT ![t] = "idle"]
        /\ UNCHANGED <<kind, isCancelled, result, raised, collected, arg>>
        /\ isDone' = TRUE
    BY <1>9 DEF SetDone, Leave
  <2>. QED  BY <2>1, <2>2, <2>3
<1>10. CASE ReadResult
  BY <1>10 DEF ReadResult
<1>11. CASE GetUnraisedExceptions
  BY <1>11 DEF GetUnraisedExceptions
<1>12. CASE UNCHANGED observerVars
  BY <1>12 DEF observerVars
<1>. QED  BY <1>1, <1>2, <1>3, <1>4, <1>5, <1>6, <1>7, <1>8, <1>9, <1>10, <1>11, <1>12 DEF Next, Proceed

\* Every step keeps the account of the failure: only ReplaceUnraised and the readers touch it.
LEMMA AccountStep == FailureIsAccounted /\ [Next]_observerVars => FailureIsAccounted'
<1> SUFFICES ASSUME FailureIsAccounted, [Next]_observerVars PROVE FailureIsAccounted'
  OBVIOUS
<1>1. CASE UNCHANGED <<exception, unraised, raised, collected>>
  BY <1>1 DEF FailureIsAccounted
<1>2. ASSUME NEW t \in Callers, StoreException(t) PROVE FailureIsAccounted'
  <2>. QED  BY <1>2, ReplacingKeepsAccount DEF StoreException
<1>3. ASSUME NEW t \in Callers, SetDone(t) PROVE FailureIsAccounted'
  <2>1. ReplaceUnraised(storedException) \/ UNCHANGED <<unraised, exception>>
    BY <1>3 DEF SetDone, PublishStoredException
  <2>2. UNCHANGED <<raised, collected>>
    BY <1>3 DEF SetDone
  <2>. QED  BY <2>1, <2>2, <1>1, ReplacingKeepsAccount
<1>4. CASE ReadResult
  BY <1>4 DEF ReadResult, FailureIsAccounted
<1>5. CASE GetUnraisedExceptions
  BY <1>5 DEF GetUnraisedExceptions, FailureIsAccounted
<1>6. ASSUME NEW t \in Callers,
             \/ \E r \in Results : SetResult(t, r)
             \/ \E e \in Exceptions : SetException(t, e)
             \/ Cancel(t) \/ SetEndOfLife(t)
             \/ AssignResult(t) \/ KeepException(t) \/ MarkCancelled(t)
      PROVE  UNCHANGED <<exception, unraised, raised, collected>>
  BY <1>6 DEF SetResult, SetException, Cancel, SetEndOfLife, AssignResult,
              KeepException, MarkCancelled
<1>7. UNCHANGED observerVars => UNCHANGED <<exception, unraised, raised, collected>>
  BY DEF observerVars
<1>. QED  BY <1>1, <1>2, <1>3, <1>4, <1>5, <1>6, <1>7 DEF Next, Proceed

\* Every step keeps the callbacks at one per done command: only SetDone writes is_done and calls.
LEMMA CallbackStep == ObserverTypeOK /\ CallbackOnce /\ [Next]_observerVars => CallbackOnce'
<1> SUFFICES ASSUME ObserverTypeOK, CallbackOnce, [Next]_observerVars PROVE CallbackOnce'
  OBVIOUS
<1>1. CASE UNCHANGED <<kind, isDone, callbacks>>
  BY <1>1 DEF CallbackOnce, Textual
<1>2. ASSUME NEW t \in Callers, SetDone(t) PROVE CallbackOnce'
  <2>1. isDone' = TRUE /\ kind' = kind /\ Callback
    BY <1>2 DEF SetDone
  <2>2. CASE Textual /\ ~isDone
    <3>1. Len(callbacks) = 0
      BY <2>2 DEF CallbackOnce
    <3>2. PICK c : callbacks' = Append(callbacks, c)
      BY <2>1, <2>2 DEF Callback
    <3>3. Len(callbacks') = Len(callbacks) + 1
      BY <3>2 DEF ObserverTypeOK
    <3>. QED  BY <2>1, <3>1, <3>3 DEF CallbackOnce, Textual
  <2>3. CASE ~(Textual /\ ~isDone)
    BY <2>1, <2>3 DEF Callback, CallbackOnce, Textual
  <2>. QED  BY <2>2, <2>3
<1>3. ASSUME NEW t \in Callers,
             \/ \E r \in Results : SetResult(t, r)
             \/ \E e \in Exceptions : SetException(t, e)
             \/ Cancel(t) \/ SetEndOfLife(t)
             \/ AssignResult(t) \/ KeepException(t) \/ StoreException(t) \/ MarkCancelled(t)
      PROVE  UNCHANGED <<kind, isDone, callbacks>>
  BY <1>3 DEF SetResult, SetException, Cancel, SetEndOfLife, AssignResult, KeepException,
              StoreException, MarkCancelled
<1>4. ReadResult \/ GetUnraisedExceptions \/ UNCHANGED observerVars
          => UNCHANGED <<kind, isDone, callbacks>>
  BY DEF ReadResult, GetUnraisedExceptions, observerVars
<1>. QED  BY <1>1, <1>2, <1>3, <1>4 DEF Next, Proceed

\* Together: the invariant is inductive.
LEMMA ObserverInvStep == ObserverInv /\ [Next]_observerVars => ObserverInv'
BY ObserverTypeStep, AccountStep, CallbackStep DEF ObserverInv

-----------------------------------------------------------------------------

\* Whatever its callers do, an observer keeps its types.
THEOREM ObserverTypeCorrect == Spec => []ObserverTypeOK
<1>1. Init => ObserverTypeOK
  BY ObserverInitially DEF Init, ObserverInv
<1>. QED  BY <1>1, ObserverTypeStep, PTL DEF Spec

\* Whatever its callers do, the failure of an observer is in the list of unraised exceptions
\* until result() raises it or get_unraised_exceptions() hands it out.
THEOREM FailureAccounted == Spec => []FailureIsAccounted
<1>1. Init => ObserverInv
  BY ObserverInitially DEF Init
<1>2. ObserverInv => FailureIsAccounted
  BY DEF ObserverInv
<1>. QED  BY <1>1, <1>2, ObserverInvStep, PTL DEF Spec

\* Whatever its callers do, a command calls on_success or on_failure once, when it becomes done.
THEOREM CalledBackOnce == Spec => []CallbackOnce
<1>1. Init => ObserverInv
  BY ObserverInitially DEF Init
<1>2. ObserverInv => CallbackOnce
  BY DEF ObserverInv
<1>. QED  BY <1>1, <1>2, ObserverInvStep, PTL DEF Spec

=============================================================================
