-------------------------- MODULE ConnectionObserver --------------------------
(***************************************************************************)
(* One connection observer: moler/connection_observer.py, with what         *)
(* moler/cmd/commandtextualgeneric.py overrides of it.                      *)
(*                                                                         *)
(* set_result, set_exception and cancel are not atomic: each tests done(),  *)
(* then stores, then sets _is_done.  The module gives the steps of each     *)
(* method to any number of callers; the runners' modules say which threads  *)
(* call them, when, and under which lock.                                   *)
(***************************************************************************)
EXTENDS Naturals, Sequences

CONSTANTS
    Callers,          \* threads that call the observer's methods
    Results,          \* values given to set_result
    Exceptions,       \* exception objects given to set_exception
    None,
    Kinds             \* which observers there are: see kind

ASSUME ObserverAssumption ==
    /\ None \notin Results \cup Exceptions
    /\ Kinds \subseteq {"observer", "command", "waiting command"}

VARIABLES
    kind,                  \* "observer", or a CommandTextualGeneric, which may be one with
                           \* wait_for_prompt_on_exception
    isDone, isCancelled,   \* life_status.is_done, life_status.is_cancelled
    result,                \* _result
    exception,             \* _exception
    storedException,       \* _stored_exception of a textual command that waits for its prompt
    unraised,              \* ConnectionObserver._not_raised_exceptions
    raised,                \* history: exceptions result() has raised to a user
    collected,             \* history: exceptions handed out by get_unraised_exceptions()
    callbacks,             \* history: the on_success and on_failure calls
    call,                  \* what is left of the method each caller is in
    arg                    \* the result or exception that method was given

observerVars == <<kind, isDone, isCancelled, result, exception, storedException, unraised,
                  raised, collected, callbacks, call, arg>>

Textual == kind # "observer"
WaitsForPrompt == kind = "waiting command"

ObserverInit ==
    /\ kind \in Kinds
    /\ isDone = FALSE /\ isCancelled = FALSE
    /\ result = None /\ exception = None /\ storedException = None
    /\ unraised = {} /\ raised = {} /\ collected = {}
    /\ callbacks = <<>>
    /\ call = [t \in Callers |-> "idle"]
    /\ arg = [t \in Callers |-> None]

Idle(t) == call[t] = "idle"
Enter(t, step, value) ==
    /\ call' = [call EXCEPT ![t] = step]
    /\ arg' = [arg EXCEPT ![t] = value]
Leave(t) == call' = [call EXCEPT ![t] = "idle"] /\ UNCHANGED arg

-----------------------------------------------------------------------------
(* set_result(r): raises ResultAlreadySet (CannotSetResult) when done.      *)

CannotSetResult == isDone

SetResult(t, r) ==
    /\ Idle(t) /\ ~isDone
    /\ Enter(t, "assign", r)
    /\ UNCHANGED <<kind, isDone, isCancelled, result, exception, storedException, unraised,
                   raised, collected, callbacks>>

AssignResult(t) ==
    /\ call[t] = "assign"
    /\ result' = arg[t]
    /\ Enter(t, "done", None)
    /\ UNCHANGED <<kind, isDone, isCancelled, exception, storedException, unraised,
                   raised, collected, callbacks>>

-----------------------------------------------------------------------------
(* set_exception(e).                                                        *)

\* Mutant: a done observer takes the exception all the same.
SetExceptionOfDone(t, e) ==
    /\ Idle(t)
    /\ Enter(t, IF WaitsForPrompt /\ ~isDone THEN "keep" ELSE "store", e)
    /\ UNCHANGED <<kind, isDone, isCancelled, result, exception, storedException, unraised,
                   raised, collected, callbacks>>

\* A textual command that waits for its prompt keeps the exception until it is done.  On a
\* done observer the exception is only logged, but _is_done is set again.
SetException(t, e) ==
    /\ Idle(t)
    /\ Enter(t, IF isDone THEN "done" ELSE IF WaitsForPrompt THEN "keep" ELSE "store", e)
    /\ UNCHANGED <<kind, isDone, isCancelled, result, exception, storedException, unraised,
                   raised, collected, callbacks>>

\* Only the first exception is kept; no lock is taken, and done() is not asked again.
KeepException(t) ==
    /\ call[t] = "keep"
    /\ storedException' = IF storedException = None THEN arg[t] ELSE storedException
    /\ Leave(t)
    /\ UNCHANGED <<kind, isDone, isCancelled, result, exception, unraised, raised, collected,
                   callbacks>>

\* Mutant: the new exception is not put into the list.
ForgetUnraised(e) ==
    /\ unraised' = unraised \ {exception}
    /\ exception' = e

\* _change_unraised_exception, under _exceptions_lock: e takes the place of the old exception.
ReplaceUnraised(e) ==
    /\ unraised' = (unraised \ {exception}) \cup {e}
    /\ exception' = e

StoreException(t) ==
    /\ call[t] = "store"
    /\ ReplaceUnraised(arg[t])
    /\ Enter(t, "done", None)
    /\ UNCHANGED <<kind, isDone, isCancelled, result, storedException, raised, collected, callbacks>>

-----------------------------------------------------------------------------
(* cancel() and set_end_of_life().                                          *)

\* False is returned at once when there is nothing to cancel.
Cancel(t) ==
    /\ Idle(t)
    /\ IF isCancelled \/ isDone THEN UNCHANGED <<call, arg>> ELSE Enter(t, "mark", None)
    /\ UNCHANGED <<kind, isDone, isCancelled, result, exception, storedException, unraised,
                   raised, collected, callbacks>>

MarkCancelled(t) ==
    /\ call[t] = "mark"
    /\ isCancelled' = TRUE
    /\ Enter(t, "done", None)
    /\ UNCHANGED <<kind, isDone, result, exception, storedException, unraised, raised, collected,
                   callbacks>>

SetEndOfLife(t) ==
    /\ Idle(t)
    /\ Enter(t, "done", None)
    /\ UNCHANGED <<kind, isDone, isCancelled, result, exception, storedException, unraised,
                   raised, collected, callbacks>>

-----------------------------------------------------------------------------
(* The _is_done setter, which ends all of them.                             *)

\* Mutant: the setter calls back every time it is used.
CallbackAlways ==
    IF Textual
    THEN callbacks' = Append(callbacks, IF isCancelled THEN "on_failure" ELSE "on_success")
    ELSE UNCHANGED callbacks

\* A textual command runs it under _lock_is_done: a stored exception becomes the exception,
\* and is forgotten before it is asked which callback to call.
Callback ==
    IF Textual /\ ~isDone
    THEN callbacks' = Append(callbacks, IF isCancelled THEN "on_failure" ELSE "on_success")
    ELSE UNCHANGED callbacks

PublishStoredException ==
    /\ storedException' = None
    /\ IF storedException # None /\ ~isDone
       THEN ReplaceUnraised(storedException)
       ELSE UNCHANGED <<unraised, exception>>

SetDone(t) ==
    /\ call[t] = "done"
    /\ PublishStoredException
    /\ Callback
    /\ isDone' = TRUE
    /\ Leave(t)
    /\ UNCHANGED <<kind, isCancelled, result, raised, collected>>

-----------------------------------------------------------------------------
(* Readers.                                                                 *)

\* What result() tells its caller.
Outcome ==
    CASE exception # None -> exception
      [] exception = None /\ isCancelled -> "NoResultSinceCancelCalled"
      [] exception = None /\ ~isCancelled /\ ~isDone -> "ResultNotAvailableYet"
      [] OTHER -> result

\* result(): an exception that it raises is no longer an unraised one.
ReadResult ==
    /\ raised' = raised \cup ({exception} \ {None})
    /\ unraised' = unraised \ {exception}
    /\ UNCHANGED <<kind, isDone, isCancelled, result, exception, storedException, collected,
                   callbacks, call, arg>>

\* get_unraised_exceptions(remove=True), called at the ends of a test's steps.
GetUnraisedExceptions ==
    /\ collected' = collected \cup unraised
    /\ unraised' = {}
    /\ UNCHANGED <<kind, isDone, isCancelled, result, exception, storedException, raised,
                   callbacks, call, arg>>

-----------------------------------------------------------------------------

\* The rest of a method that was entered.
Proceed(t) ==
    \/ AssignResult(t) \/ KeepException(t) \/ StoreException(t) \/ MarkCancelled(t)
    \/ SetDone(t)

\* Callers that know nothing of each other: what the observer has to cope with at worst.
Init == ObserverInit
Next ==
    \/ \E t \in Callers :
          \/ \E r \in Results : SetResult(t, r)
          \/ \E e \in Exceptions : SetException(t, e)
          \/ Cancel(t) \/ SetEndOfLife(t)
          \/ Proceed(t)
    \/ ReadResult \/ GetUnraisedExceptions

Spec == Init /\ [][Next]_observerVars

-----------------------------------------------------------------------------

ObserverTypeOK ==
    /\ kind \in Kinds
    /\ isDone \in BOOLEAN /\ isCancelled \in BOOLEAN
    /\ result \in Results \cup {None}
    /\ exception \in Exceptions \cup {None}
    /\ storedException \in Exceptions \cup {None}
    /\ unraised \subseteq Exceptions
    /\ raised \subseteq Exceptions
    /\ collected \subseteq Exceptions
    /\ callbacks \in Seq({"on_success", "on_failure"})
    /\ call \in [Callers -> {"idle", "assign", "keep", "store", "mark", "done"}]
    /\ arg \in [Callers -> Results \cup Exceptions \cup {None}]
    /\ \A t \in Callers : /\ call[t] = "assign" => arg[t] \in Results
                          /\ call[t] \in {"keep", "store"} => arg[t] \in Exceptions

\* The failure of the observer is never lost, and the list never keeps one it has replaced:
\* however callers race, its exception is in the list of unraised exceptions until result()
\* has raised it or get_unraised_exceptions() has handed it out.
FailureIsAccounted ==
    /\ unraised \subseteq {exception}
    /\ exception # None => exception \in unraised \cup raised \cup collected

\* on_success / on_failure are called once, when the command becomes done, and not before.
CallbackOnce == Textual => Len(callbacks) = IF isDone THEN 1 ELSE 0

=============================================================================
