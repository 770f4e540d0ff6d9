-------------------------- MODULE ThreadedConnection --------------------------
(***************************************************************************)
(* moler/threaded_moler_connection.py and moler/observer_thread_wrapper.py: *)
(* a connection, the thread that reads it (one per connection), the threads *)
(* of its users, and one thread with a queue per subscription.              *)
(***************************************************************************)
EXTENDS Naturals, Sequences, FiniteSets

CONSTANTS
    Observers,   \* observer keys: the id() of an object and of its function
    Rounds,      \* times an observer may subscribe (bound)
    Chunks,      \* chunks the external IO passes to data_received() (bound)
    Closings,    \* calls of shutdown() (bound)
    IdsReused    \* may a new observer get the id() of one that was garbage collected?

ASSUME ConnectionAssumption ==
    /\ Rounds \in Nat /\ Chunks \in Nat /\ Closings \in Nat
    /\ IdsReused \in BOOLEAN

\* A subscription stands for the ObserverThreadWrapper it creates.
Subscriptions == Observers \X (1 .. Rounds)
Nobody == "nobody"
NoChunk == 0

VARIABLES
    isOpen,          \* _is_open
    observersLock,   \* who holds _observers_lock across steps
    wrappers,        \* _observer_wrappers: the subscriptions it holds, at most one of an observer
    closedHandlers,  \* _connection_closed_handlers, likewise
    rounds,          \* history: how often each observer has subscribed
    alive,           \* the keys whose object is still referenced: a wrapper keeps a weak proxy only
    gone,            \* subscriptions whose object was garbage collected
    asked,           \* history: keys whose object subscribed last, and was not unsubscribed since
    received,        \* chunks notify_observers() has begun to pass on
    notify,          \* the reader's snapshot: subscriptions that still get the chunk
    queue,           \* _queue of each wrapper
    requestEnd,      \* _request_end
    loop,            \* where the wrapper's thread is
    held,            \* the chunk it has taken from its queue
    delivered,       \* history: chunks the observer was called with
    since,           \* history: chunks received when the subscription began
    closer,          \* where shutdown() is
    toTell,          \* handlers shutdown() has still to call
    told,            \* history: subscriptions whose connection_closed_handler it has called
    closings         \* history: calls of shutdown()

wrapperVars == <<queue, requestEnd, loop, held, delivered, since>>
closerVars == <<closer, toTell, told, closings>>
tables == <<wrappers, closedHandlers>>
objects == <<alive, gone, asked>>
vars == <<isOpen, observersLock, tables, rounds, objects, received, notify, wrapperVars, closerVars>>

Init ==
    /\ isOpen = TRUE
    /\ observersLock = Nobody
    /\ wrappers = {} /\ closedHandlers = {}
    /\ rounds = [o \in Observers |-> 0]
    /\ alive = Observers /\ gone = {} /\ asked = {}
    /\ received = 0
    /\ notify = {}
    /\ queue = [s \in Subscriptions |-> <<>>]
    /\ requestEnd = [s \in Subscriptions |-> FALSE]
    /\ loop = [s \in Subscriptions |-> "none"]
    /\ held = [s \in Subscriptions |-> NoChunk]
    /\ delivered = [s \in Subscriptions |-> <<>>]
    /\ since = [s \in Subscriptions |-> 0]
    /\ closer = "start" /\ toTell = {} /\ told = {} /\ closings = 0

Of(o, S) == {s \in S : s[1] = o}

-----------------------------------------------------------------------------
(* Users: subscribe() and unsubscribe().                                    *)

\* Mutant: the tables are not asked whether the observer is subscribed.
SubscribeAnyway(o) ==
    LET s == <<o, rounds[o] + 1>> IN
    /\ o \in alive
    /\ rounds[o] < Rounds
    /\ observersLock = Nobody
    /\ wrappers' = wrappers \cup {s}
    /\ closedHandlers' = closedHandlers \cup {s}
    /\ rounds' = [rounds EXCEPT ![o] = @ + 1]
    /\ asked' = asked \cup {o}
    /\ loop' = [loop EXCEPT ![s] = "check"]
    /\ since' = [since EXCEPT ![s] = received]
    /\ UNCHANGED <<isOpen, observersLock, alive, gone, received, notify, closerVars,
                   queue, requestEnd, held, delivered>>

Subscribe(o) ==
    LET s == <<o, rounds[o] + 1>> IN
    /\ o \in alive
    /\ rounds[o] < Rounds
    /\ observersLock = Nobody
    /\ Of(o, wrappers) = {}
    /\ wrappers' = wrappers \cup {s}
    /\ closedHandlers' = closedHandlers \cup {s}
    /\ rounds' = [rounds EXCEPT ![o] = @ + 1]
    /\ asked' = asked \cup {o}
    /\ loop' = [loop EXCEPT ![s] = "check"]
    /\ since' = [since EXCEPT ![s] = received]
    /\ UNCHANGED <<isOpen, observersLock, alive, gone, received, notify, closerVars,
                   queue, requestEnd, held, delivered>>

\* A key that is in the tables already is taken to be subscribed.
SubscribeAgain(o) ==
    /\ o \in alive
    /\ observersLock = Nobody
    /\ Of(o, wrappers) # {}
    /\ asked' = asked \cup {o}
    /\ UNCHANGED <<isOpen, observersLock, tables, rounds, alive, gone, received, notify,
                   wrapperVars, closerVars>>

Unsubscribe(o) ==
    /\ o \in alive
    /\ observersLock = Nobody
    /\ Of(o, wrappers) # {} /\ Of(o, closedHandlers) # {}
    /\ requestEnd' = [s \in Subscriptions |-> requestEnd[s] \/ s \in Of(o, wrappers)]
    /\ wrappers' = wrappers \ Of(o, wrappers)
    /\ closedHandlers' = closedHandlers \ Of(o, closedHandlers)
    /\ asked' = asked \ {o}
    /\ UNCHANGED <<isOpen, observersLock, rounds, alive, gone, received, notify, closerVars,
                   queue, loop, held, delivered, since>>

\* The last reference to an observer is dropped; its wrapper finds out when it calls it.
GarbageCollect(o) ==
    /\ o \in alive
    /\ alive' = alive \ {o}
    /\ gone' = gone \cup {s \in Of(o, Subscriptions) : loop[s] # "none"}
    /\ asked' = asked \ {o}
    /\ UNCHANGED <<isOpen, observersLock, tables, rounds, received, notify, wrapperVars, closerVars>>

NewObserver(o) ==
    /\ IdsReused
    /\ o \notin alive
    /\ alive' = alive \cup {o}
    /\ UNCHANGED <<isOpen, observersLock, tables, rounds, gone, asked, received, notify,
                   wrapperVars, closerVars>>

-----------------------------------------------------------------------------
(* The reader: data_received() and notify_observers().                      *)

\* The wrappers of this moment are copied under the lock and fed after it is released.
SnapshotSubscribers ==
    /\ isOpen
    /\ notify = {}
    /\ received < Chunks
    /\ observersLock = Nobody
    /\ received' = received + 1
    /\ notify' = wrappers
    /\ UNCHANGED <<isOpen, observersLock, tables, rounds, objects, wrapperVars, closerVars>>

\* A wrapper whose observer was garbage collected is passed over.
FeedWrapper(s) ==
    /\ s \in notify
    /\ notify' = notify \ {s}
    /\ queue' = IF s \notin gone THEN [queue EXCEPT ![s] = Append(@, received)] ELSE queue
    /\ UNCHANGED <<isOpen, observersLock, tables, rounds, objects, received, closerVars,
                   requestEnd, loop, held, delivered, since>>

-----------------------------------------------------------------------------
(* The thread of a wrapper: _loop_for_observer and _process_data_from_queue. *)

CheckRequestEnd(s) ==
    /\ loop[s] = "check"
    /\ loop' = [loop EXCEPT ![s] = IF requestEnd[s] THEN "over" ELSE "get"]
    /\ UNCHANGED <<isOpen, observersLock, tables, rounds, objects, received, notify, closerVars,
                   queue, requestEnd, held, delivered, since>>

\* Mutant: the newest chunk is taken first.
GetNewestFromQueue(s) ==
    /\ loop[s] = "get"
    /\ queue[s] # <<>>
    /\ held' = [held EXCEPT ![s] = queue[s][Len(queue[s])]]
    /\ queue' = [queue EXCEPT ![s] = SubSeq(@, 1, Len(@) - 1)]
    /\ loop' = [loop EXCEPT ![s] = "call"]
    /\ UNCHANGED <<isOpen, observersLock, tables, rounds, objects, received, notify, closerVars,
                   requestEnd, delivered, since>>

GetFromQueue(s) ==
    /\ loop[s] = "get"
    /\ queue[s] # <<>>
    /\ held' = [held EXCEPT ![s] = Head(queue[s])]
    /\ queue' = [queue EXCEPT ![s] = Tail(@)]
    /\ loop' = [loop EXCEPT ![s] = "call"]
    /\ UNCHANGED <<isOpen, observersLock, tables, rounds, objects, received, notify, closerVars,
                   requestEnd, delivered, since>>

\* queue.Empty after _timeout_for_get_from_queue.
GetTimesOut(s) ==
    /\ loop[s] = "get"
    /\ queue[s] = <<>>
    /\ loop' = [loop EXCEPT ![s] = "check"]
    /\ UNCHANGED <<isOpen, observersLock, tables, rounds, objects, received, notify, closerVars,
                   queue, requestEnd, held, delivered, since>>

ObserverReturns(s) ==
    /\ loop[s] = "call"
    /\ s \notin gone
    /\ delivered' = [delivered EXCEPT ![s] = Append(@, held[s])]
    /\ held' = [held EXCEPT ![s] = NoChunk]
    /\ loop' = [loop EXCEPT ![s] = "check"]
    /\ UNCHANGED <<isOpen, observersLock, tables, rounds, objects, received, notify, closerVars,
                   queue, requestEnd, since>>

\* The exception is not a ReferenceError.
ObserverRaises(s) ==
    /\ loop[s] = "call"
    /\ s \notin gone
    /\ delivered' = [delivered EXCEPT ![s] = Append(@, held[s])]
    /\ held' = [held EXCEPT ![s] = NoChunk]
    /\ loop' = [loop EXCEPT ![s] = "raised"]
    /\ UNCHANGED <<isOpen, observersLock, tables, rounds, objects, received, notify, closerVars,
                   queue, requestEnd, since>>

\* ReferenceError ends the wrapper, which stays in the tables.
ObserverIsGone(s) ==
    /\ loop[s] = "call"
    /\ s \in gone
    /\ requestEnd' = [requestEnd EXCEPT ![s] = TRUE]
    /\ held' = [held EXCEPT ![s] = NoChunk]
    /\ loop' = [loop EXCEPT ![s] = "check"]
    /\ UNCHANGED <<isOpen, observersLock, tables, rounds, objects, received, notify, closerVars,
                   queue, delivered, since>>

CallObserver(s) == ObserverReturns(s) \/ ObserverRaises(s) \/ ObserverIsGone(s)

\* Mutant: the exception leaves the loop and with it the thread.
ErrorEndsThread(s) ==
    /\ loop[s] = "raised"
    /\ loop' = [loop EXCEPT ![s] = "over"]
    /\ UNCHANGED <<isOpen, observersLock, tables, rounds, objects, received, notify, closerVars,
                   queue, requestEnd, held, delivered, since>>

\* _handle_unexpected_error_from_observer: what was raised is logged, and the loop goes on.
HandleError(s) ==
    /\ loop[s] = "raised"
    /\ loop' = [loop EXCEPT ![s] = "check"]
    /\ UNCHANGED <<isOpen, observersLock, tables, rounds, objects, received, notify, closerVars,
                   queue, requestEnd, held, delivered, since>>

-----------------------------------------------------------------------------
(* shutdown(): the handlers are called and the wrappers stopped under the   *)
(* lock, then the connection counts as closed.                              *)

\* Mutant: the lock is not held while the handlers are called.
ShutdownCopiesHandlers ==
    /\ closer = "start"
    /\ closings < Closings
    /\ observersLock = Nobody
    /\ closings' = closings + 1
    /\ toTell' = closedHandlers /\ told' = {}
    /\ closer' = "tell"
    /\ UNCHANGED <<isOpen, observersLock, tables, rounds, objects, received, notify, wrapperVars>>

ShutdownLocks ==
    /\ closer = "start"
    /\ closings < Closings
    /\ observersLock = Nobody
    /\ observersLock' = "closer"
    /\ closings' = closings + 1
    /\ toTell' = closedHandlers /\ told' = {}
    /\ closer' = "tell"
    /\ UNCHANGED <<isOpen, tables, rounds, objects, received, notify, wrapperVars>>

\* A handler may do what it likes, but for (un)subscribing: the lock is not reentrant.
CallClosedHandler(s) ==
    /\ closer = "tell"
    /\ s \in toTell
    /\ toTell' = toTell \ {s}
    /\ told' = told \cup {s}
    /\ UNCHANGED <<isOpen, observersLock, tables, rounds, objects, received, notify, wrapperVars,
                   closer, closings>>

\* It leaves the tables as they are, and the connection open.
ClosedHandlerRaises(s) ==
    /\ closer = "tell"
    /\ s \in toTell
    /\ toTell' = {}
    /\ told' = told \cup {s}
    /\ observersLock' = Nobody
    /\ closer' = "start"
    /\ UNCHANGED <<isOpen, tables, rounds, objects, received, notify, wrapperVars, closings>>

StopWrappers ==
    /\ closer = "tell"
    /\ toTell = {}
    /\ requestEnd' = [s \in Subscriptions |-> requestEnd[s] \/ s \in wrappers]
    /\ wrappers' = {} /\ closedHandlers' = {} /\ asked' = {}
    /\ observersLock' = Nobody
    /\ closer' = "close"
    /\ UNCHANGED <<isOpen, rounds, alive, gone, received, notify, queue, loop, held, delivered, since,
                   toTell, told, closings>>

MarkClosed ==
    /\ closer = "close"
    /\ isOpen' = FALSE
    /\ closer' = "start"
    /\ UNCHANGED <<observersLock, tables, rounds, objects, received, notify, wrapperVars,
                   toTell, told, closings>>

Open ==
    /\ ~isOpen
    /\ closer = "start"
    /\ isOpen' = TRUE
    /\ UNCHANGED <<observersLock, tables, rounds, objects, received, notify, wrapperVars, closerVars>>

-----------------------------------------------------------------------------

Reader == SnapshotSubscribers \/ \E s \in Subscriptions : FeedWrapper(s)

Wrapper(s) ==
    \/ CheckRequestEnd(s) \/ GetFromQueue(s) \/ GetTimesOut(s)
    \/ CallObserver(s) \/ HandleError(s)

Closer ==
    \/ \E s \in Subscriptions : CallClosedHandler(s) \/ ClosedHandlerRaises(s)
    \/ StopWrappers \/ MarkClosed

Next ==
    \/ \E o \in Observers : \/ Subscribe(o) \/ SubscribeAgain(o) \/ Unsubscribe(o)
                            \/ GarbageCollect(o) \/ NewObserver(o)
    \/ Reader
    \/ \E s \in Subscriptions : Wrapper(s)
    \/ ShutdownLocks \/ Closer \/ Open

Spec == Init /\ [][Next]_vars

\* A notification that has begun is finished, wrapper threads run, shutdown() goes on.
Fairness ==
    /\ WF_vars(\E s \in Subscriptions : FeedWrapper(s))
    /\ \A s \in Subscriptions : WF_vars(Wrapper(s))
    /\ WF_vars(Closer)

FairSpec == Spec /\ Fairness

-----------------------------------------------------------------------------

TypeOK ==
    /\ isOpen \in BOOLEAN
    /\ observersLock \in {Nobody, "closer"}
    /\ wrappers \subseteq Subscriptions /\ closedHandlers \subseteq Subscriptions
    /\ rounds \in [Observers -> 0 .. Rounds]
    /\ alive \subseteq Observers /\ gone \subseteq Subscriptions /\ asked \subseteq alive
    /\ received \in 0 .. Chunks
    /\ notify \subseteq Subscriptions
    /\ queue \in [Subscriptions -> Seq(1 .. Chunks)]
    /\ requestEnd \in [Subscriptions -> BOOLEAN]
    /\ loop \in [Subscriptions -> {"none", "check", "get", "call", "raised", "over"}]
    /\ held \in [Subscriptions -> 0 .. Chunks]
    /\ delivered \in [Subscriptions -> Seq(1 .. Chunks)]
    /\ since \in [Subscriptions -> 0 .. Chunks]
    /\ closer \in {"start", "tell", "close"}
    /\ toTell \subseteq Subscriptions /\ told \subseteq Subscriptions
    /\ closings \in 0 .. Closings

\* Two wrapper threads never both keep serving one observer: at most one of its wrappers has
\* not been asked to end, so data cannot reach it twice.
OneWrapperServes ==
    \A o \in Observers :
        Cardinality({s \in Of(o, Subscriptions) : loop[s] # "none" /\ ~requestEnd[s]}) <= 1

\* An observer that subscribed is served by a wrapper of its own until it unsubscribes or the
\* connection is closed ("function to be called to notify when data received", subscribe()): if
\* no id() is reused, else the wrapper of the first observer with it keeps the second one out.
SubscriberIsServed ==
    \A o \in asked : \E s \in Of(o, wrappers) : s \notin gone /\ ~requestEnd[s]

\* Nobody loses its subscription to shutdown() without having been told by it that the connection
\* closes, not even who subscribes while it runs or after a handler has broken it off.
ToldBeforeStopped ==
    [][\A s \in Subscriptions : s \in wrappers /\ s \notin wrappers' /\ closer = "tell"
          => s \in told]_vars

\* A live observer gets every chunk that comes while it is subscribed, whatever it raises.
EveryChunkComes ==
    \A s \in Subscriptions, n \in 1 .. Chunks :
        (s \in wrappers /\ since[s] < n /\ n <= received)
            ~> (\/ \E i \in DOMAIN delivered[s] : delivered[s][i] = n
                \/ requestEnd[s] \/ s \in gone)

\* Each subscription, whoever else subscribes, is what DataSubscription promises.
PhaseOf(s) ==
    IF loop[s] = "none" THEN "none"
    ELSE IF ~requestEnd[s] THEN "on"
    ELSE IF loop[s] \in {"get", "call"} THEN "ending" ELSE "off"

Promise == INSTANCE DataSubscription
           WITH phase <- [s \in Subscriptions |-> PhaseOf(s)], got <- delivered
ImplementsPromise == Promise!Spec

=============================================================================
