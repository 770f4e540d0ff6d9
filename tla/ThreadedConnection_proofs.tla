----------------------- MODULE ThreadedConnection_proofs -----------------------
(***************************************************************************)
(* A connection, its reader and its wrappers, for any observers and any      *)
(* number of subscriptions, chunks and closings.                            *)
(***************************************************************************)
EXTENDS ThreadedConnection, FiniteSetTheorems, TLAPS

\* A subscription that has not begun has left no trace.
Untouched ==
    \A s \in Subscriptions :
        /\ s[2] > rounds[s[1]] => loop[s] = "none"
        /\ loop[s] = "none" => /\ s \notin wrappers /\ s \notin notify /\ s \notin gone
                               /\ ~requestEnd[s] /\ queue[s] = <<>> /\ delivered[s] = <<>>

\* The table has one wrapper of an observer, and every wrapper that was not asked to end.
OneInTable ==
    /\ \A s, t \in wrappers : s[1] = t[1] => s = t
    /\ \A s \in Subscriptions : loop[s] # "none" /\ ~requestEnd[s] => s \in wrappers

\* What the reader passes on is a chunk, and so is what a wrapper has in its hand.
ChunksCome ==
    /\ notify # {} => received > 0
    /\ \A s \in Subscriptions : loop[s] = "call" => held[s] > 0

ConnectionInv == TypeOK /\ Untouched /\ OneInTable /\ ChunksCome

-----------------------------------------------------------------------------

\* A call ends one way or another: the thread goes on, through the handling of what the observer
\* raised or not, and the chunk counts as delivered, or the observer turns out to be gone.
LEMMA CallIs ==
    ASSUME NEW s \in Subscriptions, CallObserver(s)
    PROVE  /\ loop[s] = "call"
           /\ \E place \in {"check", "raised"} : loop' = [loop EXCEPT ![s] = place]
           /\ s \notin gone => /\ delivered' = [delivered EXCEPT ![s] = Append(delivered[s], held[s])]
                               /\ requestEnd' = requestEnd
           /\ s \in gone => /\ requestEnd' = [requestEnd EXCEPT ![s] = TRUE]
                            /\ delivered' = delivered
           /\ held' = [held EXCEPT ![s] = NoChunk]
           /\ UNCHANGED <<isOpen, observersLock, wrappers, closedHandlers, rounds, alive, gone, asked,
                          received, notify, queue, since, closer, toTell, told, closings>>
<1> USE DEF tables, objects, closerVars
<1>1. CASE ObserverReturns(s)
  BY <1>1 DEF ObserverReturns
<1>2. CASE ObserverRaises(s)
  BY <1>2 DEF ObserverRaises
<1>3. CASE ObserverIsGone(s)
  BY <1>3 DEF ObserverIsGone
<1> QED
  BY <1>1, <1>2, <1>3 DEF CallObserver

\* At first there are no subscriptions.
LEMMA InitConnection == Init => ConnectionInv
<1> SUFFICES ASSUME Init PROVE ConnectionInv
  OBVIOUS
<1>1. TypeOK
  <2>1. <<>> \in Seq(1 .. Chunks)
    OBVIOUS
  <2>2. rounds \in [Observers -> 0 .. Rounds] /\ 0 \in 0 .. Chunks /\ 0 \in 0 .. Closings
    BY ConnectionAssumption DEF Init
  <2> QED
    BY <2>1, <2>2 DEF Init, TypeOK, NoChunk
<1>2. Untouched /\ OneInTable /\ ChunksCome
  BY DEF Init, Untouched, OneInTable, ChunksCome
<1> QED
  BY <1>1, <1>2 DEF ConnectionInv

\* Every step keeps the types.
LEMMA NextConnectionType == ConnectionInv /\ [Next]_vars => TypeOK'
<1> SUFFICES ASSUME ConnectionInv, [Next]_vars PROVE TypeOK'
  OBVIOUS
<1> USE ConnectionAssumption DEF ConnectionInv, TypeOK, tables, objects, wrapperVars, closerVars
<1>1. ASSUME NEW o \in Observers, Subscribe(o) PROVE TypeOK'
  <2>1. <<o, rounds[o] + 1>> \in Subscriptions /\ rounds[o] + 1 \in 0 .. Rounds
    BY <1>1 DEF Subscribe, Subscriptions
  <2> QED
    BY <1>1, <2>1 DEF Subscribe
<1>2. ASSUME NEW o \in Observers, SubscribeAgain(o) PROVE TypeOK'
  BY <1>2 DEF SubscribeAgain
<1>3. ASSUME NEW o \in Observers, Unsubscribe(o) PROVE TypeOK'
  BY <1>3 DEF Unsubscribe
<1>4. ASSUME NEW o \in Observers, GarbageCollect(o) PROVE TypeOK'
  BY <1>4 DEF GarbageCollect, Of
<1>5. ASSUME NEW o \in Observers, NewObserver(o) PROVE TypeOK'
  BY <1>5 DEF NewObserver
<1>6. CASE SnapshotSubscribers
  BY <1>6 DEF SnapshotSubscribers
<1>7. ASSUME NEW s \in Subscriptions, FeedWrapper(s) PROVE TypeOK'
  <2>1. received \in 1 .. Chunks
    BY <1>7 DEF FeedWrapper, ChunksCome
  <2>2. Append(queue[s], received) \in Seq(1 .. Chunks)
    BY <2>1
  <2> QED
    BY <1>7, <2>2 DEF FeedWrapper
<1>8. ASSUME NEW s \in Subscriptions, CheckRequestEnd(s) PROVE TypeOK'
  BY <1>8 DEF CheckRequestEnd
<1>9. ASSUME NEW s \in Subscriptions, GetFromQueue(s) PROVE TypeOK'
  <2>1. Head(queue[s]) \in 0 .. Chunks /\ Tail(queue[s]) \in Seq(1 .. Chunks)
    BY <1>9 DEF GetFromQueue
  <2> QED
    BY <1>9, <2>1 DEF GetFromQueue
<1>10. ASSUME NEW s \in Subscriptions, GetTimesOut(s) PROVE TypeOK'
  BY <1>10 DEF GetTimesOut
<1>11. ASSUME NEW s \in Subscriptions, CallObserver(s) PROVE TypeOK'
  <2>c. PICK place \in {"check", "raised"} : loop' = [loop EXCEPT ![s] = place]
    BY <1>11, CallIs
  <2>1. held[s] \in 1 .. Chunks
    BY <1>11, CallIs DEF ChunksCome
  <2>2. Append(delivered[s], held[s]) \in Seq(1 .. Chunks)
    BY <2>1
  <2>3. delivered' \in [Subscriptions -> Seq(1 .. Chunks)]
    <3> DEFINE D == Seq(1 .. Chunks)
    <3>1. \/ delivered' = [delivered EXCEPT ![s] = Append(delivered[s], held[s])]
          \/ delivered' = delivered
      BY <1>11, CallIs
    <3>2. delivered \in [Subscriptions -> D] /\ Append(delivered[s], held[s]) \in D
      BY <2>2
    <3> HIDE DEF D
    <3>3. delivered' \in [Subscriptions -> D]
      BY ONLY <3>1, <3>2, Zenon
    <3> QED
      BY <3>3 DEF D
  <2>4. /\ requestEnd' \in [Subscriptions -> BOOLEAN]
        /\ held' \in [Subscriptions -> 0 .. Chunks]
        /\ loop' \in [Subscriptions -> {"none", "check", "get", "call", "raised", "over"}]
    <3>1. /\ held' = [held EXCEPT ![s] = 0]
          /\ requestEnd' = requestEnd \/ requestEnd' = [requestEnd EXCEPT ![s] = TRUE]
      BY <1>11, CallIs DEF NoChunk
    <3>2. requestEnd \in [Subscriptions -> BOOLEAN] /\ TRUE \in BOOLEAN
      OBVIOUS
    <3>3. requestEnd' \in [Subscriptions -> BOOLEAN]
      BY ONLY <3>1, <3>2, Zenon
    <3>4. held' \in [Subscriptions -> 0 .. Chunks]
      BY <3>1
    <3>5. loop' \in [Subscriptions -> {"none", "check", "get", "call", "raised", "over"}]
      BY <2>c
    <3> QED
      BY <3>3, <3>4, <3>5
  <2>5. UNCHANGED <<isOpen, observersLock, wrappers, closedHandlers, rounds, alive, gone, asked,
                    received, notify, queue, since, closer, toTell, told, closings>>
    BY <1>11, CallIs
  <2> QED
    BY <2>3, <2>4, <2>5
<1>12. CASE ShutdownLocks
  BY <1>12 DEF ShutdownLocks
<1>13. ASSUME NEW s \in Subscriptions, CallClosedHandler(s) PROVE TypeOK'
  BY <1>13 DEF CallClosedHandler
<1>14. CASE StopWrappers
  BY <1>14 DEF StopWrappers
<1>15. CASE MarkClosed
  BY <1>15 DEF MarkClosed
<1>16. CASE Open
  BY <1>16 DEF Open
<1>17. CASE UNCHANGED vars
  BY <1>17 DEF vars
<1>18. ASSUME NEW s \in Subscriptions, HandleError(s) PROVE TypeOK'
  BY <1>18 DEF HandleError
<1>19. ASSUME NEW s \in Subscriptions, ClosedHandlerRaises(s) PROVE TypeOK'
  BY <1>19 DEF ClosedHandlerRaises
<1> QED
  BY <1>1, <1>2, <1>3, <1>4, <1>5, <1>6, <1>7, <1>8, <1>9, <1>10, <1>11, <1>12, <1>13, <1>14,
     <1>15, <1>16, <1>17, <1>18, <1>19 DEF Next, Reader, Wrapper, Closer

\* Every step keeps what relates the subscriptions to the table.
LEMMA NextConnection == ConnectionInv /\ [Next]_vars => ConnectionInv'
<1> SUFFICES ASSUME ConnectionInv, [Next]_vars PROVE ConnectionInv'
  OBVIOUS
<1> DEFINE Parts == Untouched /\ OneInTable /\ ChunksCome
<1>0. TypeOK'
  BY NextConnectionType
<1> USE ConnectionAssumption DEF ConnectionInv, TypeOK, tables, objects, wrapperVars, closerVars, Of,
        Untouched, OneInTable, ChunksCome
<1>1. ASSUME NEW o \in Observers, Subscribe(o) PROVE Parts'
  <2>1. <<o, rounds[o] + 1>> \in Subscriptions
    BY <1>1 DEF Subscribe, Subscriptions
  <2>2. Untouched'
    BY <1>1, <2>1 DEF Subscribe, Subscriptions
  <2>3. OneInTable'
    <3> DEFINE s == <<o, rounds[o] + 1>>
    <3>1. /\ wrappers' = wrappers \cup {s} /\ s[1] = o /\ \A t \in wrappers : t[1] # o
          /\ loop' = [loop EXCEPT ![s] = "check"] /\ requestEnd' = requestEnd
      BY <1>1, <2>1 DEF Subscribe
    <3> HIDE DEF s
    <3> QED
      BY <2>1, <3>1
  <2>4. ChunksCome'
    BY <1>1, <2>1 DEF Subscribe
  <2> QED
    BY <2>2, <2>3, <2>4
<1>2. ASSUME NEW o \in Observers, SubscribeAgain(o) PROVE Parts'
  BY <1>2 DEF SubscribeAgain
<1>3. ASSUME NEW o \in Observers, Unsubscribe(o) PROVE Parts'
  BY <1>3 DEF Unsubscribe
<1>4. ASSUME NEW o \in Observers, GarbageCollect(o) PROVE Parts'
  BY <1>4 DEF GarbageCollect
<1>5. ASSUME NEW o \in Observers, NewObserver(o) PROVE Parts'
  BY <1>5 DEF NewObserver
<1>6. CASE SnapshotSubscribers
  BY <1>6 DEF SnapshotSubscribers
<1>7. ASSUME NEW s \in Subscriptions, FeedWrapper(s) PROVE Parts'
  BY <1>7 DEF FeedWrapper
<1>8. ASSUME NEW s \in Subscriptions, CheckRequestEnd(s) PROVE Parts'
  BY <1>8 DEF CheckRequestEnd
<1>9. ASSUME NEW s \in Subscriptions, GetFromQueue(s) PROVE Parts'
  <2>1. Head(queue[s]) > 0
    BY <1>9 DEF GetFromQueue
  <2> QED
    BY <1>9, <2>1 DEF GetFromQueue
<1>10. ASSUME NEW s \in Subscriptions, GetTimesOut(s) PROVE Parts'
  BY <1>10 DEF GetTimesOut
<1>11. ASSUME NEW s \in Subscriptions, CallObserver(s) PROVE Parts'
  <2>0. PICK place \in {"check", "raised"} : loop' = [loop EXCEPT ![s] = place]
    BY <1>11, CallIs
  <2>1. /\ loop[s] = "call" /\ held' = [held EXCEPT ![s] = NoChunk]
        /\ s \notin gone => /\ delivered' = [delivered EXCEPT ![s] = Append(delivered[s], held[s])]
                            /\ requestEnd' = requestEnd
        /\ s \in gone => /\ requestEnd' = [requestEnd EXCEPT ![s] = TRUE]
                         /\ delivered' = delivered
        /\ UNCHANGED <<wrappers, rounds, gone, received, notify, queue>>
    BY <1>11, CallIs
  <2>2. \A t \in Subscriptions :
            /\ t # s => UNCHANGED <<loop[t], held[t], delivered[t], requestEnd[t]>>
            /\ t = s => loop'[t] # "none" /\ loop'[t] # "call" /\ loop[t] # "none"
    BY <2>0, <2>1
  <2>3. \A t \in Subscriptions : requestEnd[t] => requestEnd'[t]
    <3>1. CASE s \in gone
      BY <2>1, <3>1
    <3>2. CASE s \notin gone
      BY <2>1, <3>2
    <3> QED
      BY <3>1, <3>2
  <2>4. Untouched'
    BY <2>1, <2>2
  <2>5. OneInTable'
    BY <2>1, <2>2, <2>3
  <2>6. ChunksCome'
    BY <2>1, <2>2
  <2> QED
    BY <2>4, <2>5, <2>6
<1>12. CASE ShutdownLocks
  BY <1>12 DEF ShutdownLocks
<1>13. ASSUME NEW s \in Subscriptions, CallClosedHandler(s) PROVE Parts'
  BY <1>13 DEF CallClosedHandler
<1>14. CASE StopWrappers
  BY <1>14 DEF StopWrappers
<1>15. CASE MarkClosed
  BY <1>15 DEF MarkClosed
<1>16. CASE Open
  BY <1>16 DEF Open
<1>17. CASE UNCHANGED vars
  BY <1>17 DEF vars
<1>18. ASSUME NEW s \in Subscriptions, HandleError(s) PROVE Parts'
  BY <1>18 DEF HandleError
<1>19. ASSUME NEW s \in Subscriptions, ClosedHandlerRaises(s) PROVE Parts'
  BY <1>19 DEF ClosedHandlerRaises
<1>20. Parts'
  BY <1>1, <1>2, <1>3, <1>4, <1>5, <1>6, <1>7, <1>8, <1>9, <1>10, <1>11, <1>12, <1>13, <1>14,
     <1>15, <1>16, <1>17, <1>18, <1>19 DEF Next, Reader, Wrapper, Closer
<1> QED
  BY <1>0, <1>20

\* The inductive invariant holds of every reachable state.
LEMMA ConnectionInvariant == Spec => []ConnectionInv
  BY InitConnection, NextConnection, PTL DEF Spec

\* The variables keep their types.
THEOREM ConnectionTypeCorrect == Spec => []TypeOK
<1>1. ConnectionInv => TypeOK
  BY DEF ConnectionInv
<1> QED
  BY <1>1, ConnectionInvariant, PTL

\* However often an observer unsubscribes and subscribes again, at most one wrapper serves it.
THEOREM OneServes == Spec => []OneWrapperServes
<1>1. ConnectionInv => OneWrapperServes
  <2> SUFFICES ASSUME ConnectionInv, NEW o \in Observers
               PROVE  Cardinality({s \in Of(o, Subscriptions) : loop[s] # "none" /\ ~requestEnd[s]}) <= 1
    BY DEF OneWrapperServes
  <2> DEFINE Serving == {s \in Of(o, Subscriptions) : loop[s] # "none" /\ ~requestEnd[s]}
  <2>1. \A s, t \in Serving : s = t
    BY DEF ConnectionInv, OneInTable, Of
  <2>2. CASE Serving = {}
    BY <2>2, FS_EmptySet
  <2>3. ASSUME NEW s \in Serving PROVE Cardinality(Serving) <= 1
    <3>1. Serving = {s}
      BY <2>1
    <3> HIDE DEF Serving
    <3> QED
      BY <3>1, FS_Singleton
  <2> QED
    BY <2>2, <2>3
<1> QED
  BY <1>1, ConnectionInvariant, PTL

-----------------------------------------------------------------------------
(* Who subscribed is served, while no id() is used twice.                    *)

\* A wrapper in the table is asked to end only when its observer is gone, and then nobody has
\* the observer's key any more.
ServedInv ==
    /\ \A s \in gone : s[1] \notin alive
    /\ \A s \in wrappers : requestEnd[s] => s \in gone
    /\ \A o \in asked : \E s \in wrappers : s[1] = o

\* Without new observers every step keeps that.
LEMMA NextServed ==
    ASSUME ~IdsReused, ConnectionInv, ServedInv, [Next]_vars
    PROVE  ServedInv'
<1> USE ConnectionAssumption DEF ConnectionInv, TypeOK, tables, objects, wrapperVars, closerVars, Of,
        Untouched, OneInTable, ServedInv
<1>1. ASSUME NEW o \in Observers, Subscribe(o) PROVE ServedInv'
  <2> DEFINE s == <<o, rounds[o] + 1>>
  <2>1. s \in Subscriptions /\ s[1] = o /\ loop[s] = "none"
    BY <1>1 DEF Subscribe, Subscriptions
  <2>2. /\ wrappers' = wrappers \cup {s} /\ closedHandlers' = closedHandlers \cup {s}
        /\ asked' = asked \cup {o} /\ o \in alive /\ observersLock = Nobody
        /\ UNCHANGED <<alive, gone, requestEnd, observersLock, closer, toTell, told>>
    BY <1>1 DEF Subscribe
  <2> HIDE DEF s
  <2> QED
    BY <2>1, <2>2
<1>2. ASSUME NEW o \in Observers, SubscribeAgain(o) PROVE ServedInv'
  BY <1>2 DEF SubscribeAgain
<1>3. ASSUME NEW o \in Observers, Unsubscribe(o) PROVE ServedInv'
  BY <1>3 DEF Unsubscribe
<1>4. ASSUME NEW o \in Observers, GarbageCollect(o) PROVE ServedInv'
  BY <1>4 DEF GarbageCollect
<1>5. ASSUME NEW o \in Observers, NewObserver(o) PROVE ServedInv'
  BY <1>5 DEF NewObserver
<1>6. CASE SnapshotSubscribers
  BY <1>6 DEF SnapshotSubscribers
<1>7. ASSUME NEW s \in Subscriptions, FeedWrapper(s) PROVE ServedInv'
  BY <1>7 DEF FeedWrapper
<1>8. ASSUME NEW s \in Subscriptions, CheckRequestEnd(s) PROVE ServedInv'
  BY <1>8 DEF CheckRequestEnd
<1>9. ASSUME NEW s \in Subscriptions, GetFromQueue(s) PROVE ServedInv'
  BY <1>9 DEF GetFromQueue
<1>10. ASSUME NEW s \in Subscriptions, GetTimesOut(s) PROVE ServedInv'
  BY <1>10 DEF GetTimesOut
<1>11. ASSUME NEW s \in Subscriptions, CallObserver(s) PROVE ServedInv'
  <2>1. /\ UNCHANGED <<wrappers, alive, gone, asked>>
        /\ requestEnd' = requestEnd \/ (s \in gone /\ requestEnd' = [requestEnd EXCEPT ![s] = TRUE])
    <3>1. CASE s \in gone
      BY <1>11, <3>1, CallIs
    <3>2. CASE s \notin gone
      BY <1>11, <3>2, CallIs
    <3> QED
      BY <3>1, <3>2
  <2>2. \A t \in wrappers : requestEnd'[t] => t \in gone
    <3>1. /\ requestEnd \in [Subscriptions -> BOOLEAN] /\ wrappers \subseteq Subscriptions
          /\ \A t \in wrappers : requestEnd[t] => t \in gone
      OBVIOUS
    <3> QED
      BY ONLY <2>1, <3>1
  <2> QED
    BY <2>1, <2>2
<1>12. CASE ShutdownLocks
  BY <1>12 DEF ShutdownLocks
<1>13. ASSUME NEW s \in Subscriptions, CallClosedHandler(s) PROVE ServedInv'
  BY <1>13 DEF CallClosedHandler
<1>14. CASE StopWrappers
  BY <1>14 DEF StopWrappers
<1>15. CASE MarkClosed
  BY <1>15 DEF MarkClosed
<1>16. CASE Open
  BY <1>16 DEF Open
<1>17. CASE UNCHANGED vars
  BY <1>17 DEF vars
<1>18. ASSUME NEW s \in Subscriptions, HandleError(s) PROVE ServedInv'
  BY <1>18 DEF HandleError
<1>19. ASSUME NEW s \in Subscriptions, ClosedHandlerRaises(s) PROVE ServedInv'
  BY <1>19 DEF ClosedHandlerRaises
<1> QED
  BY <1>1, <1>2, <1>3, <1>4, <1>5, <1>6, <1>7, <1>8, <1>9, <1>10, <1>11, <1>12, <1>13, <1>14,
     <1>15, <1>16, <1>17, <1>18, <1>19 DEF Next, Reader, Wrapper, Closer

\* If an id() is never given to a second observer, whoever subscribed has a wrapper that serves.
THEOREM SubscriberServed ==
    ASSUME ~IdsReused
    PROVE  Spec => []SubscriberIsServed
<1>1. Init => ServedInv
  BY DEF Init, ServedInv
<1>2. ConnectionInv /\ ServedInv /\ [Next]_vars => ServedInv'
  BY NextServed
<1>3. ConnectionInv /\ ServedInv => SubscriberIsServed
  BY DEF ConnectionInv, TypeOK, ServedInv, SubscriberIsServed, Of
<1> QED
  BY <1>1, <1>2, <1>3, ConnectionInvariant, PTL DEF Spec

-----------------------------------------------------------------------------
(* shutdown() tells everybody.                                              *)

\* While shutdown() tells them it holds the lock, and everyone in the table is on its list.
ToldInv ==
    /\ closer = "tell" => observersLock = "closer" /\ closedHandlers \subseteq toTell \cup told
    /\ wrappers = closedHandlers

\* Every step keeps that.
LEMMA NextTold ==
    ASSUME ConnectionInv, ToldInv, [Next]_vars
    PROVE  ToldInv'
<1> USE DEF tables, objects, wrapperVars, closerVars, Of, Nobody, ToldInv
<1>1. ASSUME NEW o \in Observers, Subscribe(o) PROVE ToldInv'
  BY <1>1 DEF Subscribe
<1>2. ASSUME NEW o \in Observers, SubscribeAgain(o) PROVE ToldInv'
  BY <1>2 DEF SubscribeAgain
<1>3. ASSUME NEW o \in Observers, Unsubscribe(o) PROVE ToldInv'
  BY <1>3 DEF Unsubscribe
<1>4. ASSUME NEW o \in Observers, GarbageCollect(o) PROVE ToldInv'
  BY <1>4 DEF GarbageCollect
<1>5. ASSUME NEW o \in Observers, NewObserver(o) PROVE ToldInv'
  BY <1>5 DEF NewObserver
<1>6. CASE SnapshotSubscribers
  BY <1>6 DEF SnapshotSubscribers
<1>7. ASSUME NEW s \in Subscriptions, FeedWrapper(s) PROVE ToldInv'
  BY <1>7 DEF FeedWrapper
<1>8. ASSUME NEW s \in Subscriptions, CheckRequestEnd(s) PROVE ToldInv'
  BY <1>8 DEF CheckRequestEnd
<1>9. ASSUME NEW s \in Subscriptions, GetFromQueue(s) PROVE ToldInv'
  BY <1>9 DEF GetFromQueue
<1>10. ASSUME NEW s \in Subscriptions, GetTimesOut(s) PROVE ToldInv'
  BY <1>10 DEF GetTimesOut
<1>11. ASSUME NEW s \in Subscriptions, CallObserver(s) PROVE ToldInv'
  BY <1>11, CallIs
<1>12. CASE ShutdownLocks
  BY <1>12 DEF ShutdownLocks
<1>13. ASSUME NEW s \in Subscriptions, CallClosedHandler(s) PROVE ToldInv'
  BY <1>13 DEF CallClosedHandler
<1>14. CASE StopWrappers
  BY <1>14 DEF StopWrappers
<1>15. CASE MarkClosed
  BY <1>15 DEF MarkClosed
<1>16. CASE Open
  BY <1>16 DEF Open
<1>17. CASE UNCHANGED vars
  BY <1>17 DEF vars
<1>18. ASSUME NEW s \in Subscriptions, HandleError(s) PROVE ToldInv'
  BY <1>18 DEF HandleError
<1>19. ASSUME NEW s \in Subscriptions, ClosedHandlerRaises(s) PROVE ToldInv'
  BY <1>19 DEF ClosedHandlerRaises
<1> QED
  BY <1>1, <1>2, <1>3, <1>4, <1>5, <1>6, <1>7, <1>8, <1>9, <1>10, <1>11, <1>12, <1>13, <1>14,
     <1>15, <1>16, <1>17, <1>18, <1>19 DEF Next, Reader, Wrapper, Closer

\* Nobody is dropped by shutdown() untold.
THEOREM ToldBeforeStop == Spec => ToldBeforeStopped
<1> DEFINE Told == \A s \in Subscriptions : s \in wrappers /\ s \notin wrappers' /\ closer = "tell"
                                             => s \in told
<1>1. Init => ToldInv
  BY DEF Init, ToldInv
<1>2. ConnectionInv /\ ToldInv /\ [Next]_vars => ToldInv'
  BY NextTold
<1>3. ToldInv /\ [Next]_vars => [Told]_vars
  <2> SUFFICES ASSUME ToldInv, Next, NEW s \in Subscriptions, s \in wrappers, s \notin wrappers',
                      closer = "tell"
               PROVE  s \in told
    OBVIOUS
  <2>1. CASE StopWrappers
    BY <2>1 DEF StopWrappers, ToldInv
  <2>2. CASE wrappers' \in SUBSET wrappers /\ observersLock = Nobody
    BY <2>2 DEF ToldInv, Nobody
  <2>3. CASE wrappers \subseteq wrappers'
    BY <2>3
  <2> QED
    BY <2>1, <2>2, <2>3
       DEF Next, Reader, Wrapper, Closer, Subscribe, SubscribeAgain, Unsubscribe, GarbageCollect,
           NewObserver, SnapshotSubscribers, FeedWrapper, CheckRequestEnd, GetFromQueue,
           GetTimesOut, CallObserver, ObserverReturns, ObserverRaises, ObserverIsGone, HandleError,
           ShutdownLocks, CallClosedHandler, ClosedHandlerRaises, MarkClosed, Open, tables
<1> QED
  BY <1>1, <1>2, <1>3, ConnectionInvariant, PTL DEF Spec, ToldBeforeStopped

-----------------------------------------------------------------------------
(* Each subscription implements DataSubscription.                            *)

\* The thread of s calls its observer no more.
Off(s) == requestEnd[s] /\ loop[s] \in {"check", "raised", "over"}

\* The first chunk that is not yet in the hand of the wrapper's thread, less one.
Taken(s) == since[s] + Len(delivered[s]) + (IF loop[s] = "call" THEN 1 ELSE 0)

\* What the thread has in its hand and in its queue are the chunks that come next, without a gap;
\* what is still to be fed is the last chunk, to those in notify.
StreamOf(s) ==
    /\ ~Off(s) /\ loop[s] = "call" => held[s] = Taken(s)
    /\ ~Off(s) => \A i \in 1 .. Len(queue[s]) : queue[s][i] = Taken(s) + i
    /\ Taken(s) + Len(queue[s]) <= received
    /\ s \notin gone /\ s \in notify => Taken(s) + Len(queue[s]) = received - 1
    /\ s \notin gone /\ s \in wrappers \ notify => Taken(s) + Len(queue[s]) = received

Streams(s) == loop[s] # "none" => StreamOf(s)

StreamInv == \A s \in Subscriptions : Streams(s)

\* A step that leaves the chunks of s where they are keeps its stream.
LEMMA SameStream ==
    ASSUME ConnectionInv, NEW s \in Subscriptions, Streams(s),
           UNCHANGED <<received, notify, queue[s], held[s], delivered[s], since[s], loop[s]>>,
           gone \subseteq gone', s \in wrappers' => s \in wrappers,
           requestEnd[s] => requestEnd'[s]
    PROVE  Streams(s)'
BY DEF Streams, StreamOf, Taken, Off

\* Every step keeps the streams.
LEMMA NextStream ==
    ASSUME ConnectionInv, StreamInv, [Next]_vars
    PROVE  StreamInv'
<1> SUFFICES ASSUME NEW t \in Subscriptions PROVE Streams(t)'
  BY DEF StreamInv
<1>0. Streams(t)
  BY DEF StreamInv
<1>t. /\ queue[t] \in Seq(1 .. Chunks) /\ delivered[t] \in Seq(1 .. Chunks)
      /\ Len(queue[t]) \in Nat /\ Len(delivered[t]) \in Nat
      /\ since[t] \in Nat /\ received \in Nat /\ held[t] \in Nat
  BY ConnectionAssumption DEF ConnectionInv, TypeOK
<1> USE DEF tables, objects, wrapperVars, closerVars
<1>1. ASSUME NEW o \in Observers, Subscribe(o) PROVE Streams(t)'
  <2> DEFINE s == <<o, rounds[o] + 1>>
  <2>0. /\ s \in Subscriptions /\ s[2] > rounds[s[1]]
    BY <1>1, ConnectionAssumption DEF Subscribe, Subscriptions, ConnectionInv, TypeOK
  <2>1. /\ s \in Subscriptions /\ loop[s] = "none" /\ s \notin notify
        /\ queue[s] = <<>> /\ delivered[s] = <<>>
    BY ONLY <2>0, ConnectionInv DEF ConnectionInv, Untouched
  <2>2. /\ loop' = [loop EXCEPT ![s] = "check"] /\ since' = [since EXCEPT ![s] = received]
        /\ wrappers' = wrappers \cup {s}
        /\ UNCHANGED <<received, notify, queue, held, delivered, requestEnd, gone>>
    BY <1>1 DEF Subscribe
  <2> HIDE DEF s
  <2>3. CASE t = s
    BY <2>1, <2>2, <2>3, <1>t DEF ConnectionInv, TypeOK, Streams, StreamOf, Taken, Off
  <2>4. CASE t # s
    <3>1. UNCHANGED <<since[t], loop[t]>>
      BY <2>1, <2>2, <2>4 DEF ConnectionInv, TypeOK
    <3> QED
      BY <1>0, <2>2, <2>4, <3>1, SameStream
  <2> QED
    BY <2>3, <2>4
<1>2. ASSUME NEW o \in Observers, SubscribeAgain(o) PROVE Streams(t)'
  BY <1>0, <1>2, SameStream DEF SubscribeAgain
<1>3. ASSUME NEW o \in Observers, Unsubscribe(o) PROVE Streams(t)'
  BY <1>0, <1>3, SameStream DEF Unsubscribe
<1>4. ASSUME NEW o \in Observers, GarbageCollect(o) PROVE Streams(t)'
  BY <1>0, <1>4, SameStream DEF GarbageCollect
<1>5. ASSUME NEW o \in Observers, NewObserver(o) PROVE Streams(t)'
  BY <1>0, <1>5, SameStream DEF NewObserver
<1>6. CASE SnapshotSubscribers
  <2>1. /\ notify = {} /\ received' = received + 1 /\ notify' = wrappers
        /\ UNCHANGED <<queue, held, delivered, since, loop, requestEnd, gone, wrappers>>
    BY <1>6 DEF SnapshotSubscribers
  <2> QED
    BY <1>0, <1>t, <2>1 DEF Streams, StreamOf, Taken, Off
<1>7. ASSUME NEW s \in Subscriptions, FeedWrapper(s) PROVE Streams(t)'
  <2>1. /\ s \in notify /\ notify' = notify \ {s}
        /\ queue' = IF s \notin gone THEN [queue EXCEPT ![s] = Append(@, received)] ELSE queue
        /\ UNCHANGED <<received, held, delivered, since, loop, requestEnd, gone, wrappers>>
    BY <1>7 DEF FeedWrapper
  <2>2. CASE t = s /\ s \notin gone
    <3>1. queue'[t] = Append(queue[t], received)
      BY <2>1, <2>2 DEF ConnectionInv, TypeOK
    <3>2. /\ Len(queue'[t]) = Len(queue[t]) + 1
          /\ \A i \in 1 .. Len(queue[t]) : queue'[t][i] = queue[t][i]
          /\ queue'[t][Len(queue[t]) + 1] = received
      BY <3>1, <1>t
    <3>3. /\ Off(t)' <=> Off(t)
          /\ Taken(t)' = Taken(t) /\ Taken(t) \in Nat
      BY <1>t, <2>1 DEF Taken, Off
    <3>4. loop[t] # "none" => /\ Taken(t) + Len(queue[t]) = received - 1
                              /\ ~Off(t) /\ loop[t] = "call" => held[t] = Taken(t)
                              /\ ~Off(t) => \A i \in 1 .. Len(queue[t]) : queue[t][i] = Taken(t) + i
      BY <1>0, <2>1, <2>2 DEF Streams, StreamOf
    <3>5. ASSUME loop[t] # "none", ~Off(t), NEW i \in 1 .. Len(queue'[t])
          PROVE  queue'[t][i] = Taken(t) + i
      <4>1. CASE i = Len(queue[t]) + 1
        <5>1. queue'[t][i] = received
          BY ONLY <3>2, <4>1
        <5>2. received = Taken(t) + i
          <6>1. Taken(t) + Len(queue[t]) = received - 1
            BY ONLY <3>4, <3>5
          <6>2. Taken(t) \in Nat /\ Len(queue[t]) \in Nat /\ received \in Nat
            BY ONLY <1>t, <3>3
          <6> QED
            BY ONLY <4>1, <6>1, <6>2
        <5> QED
          BY ONLY <5>1, <5>2
      <4>2. CASE i # Len(queue[t]) + 1
        <5>1. i \in 1 .. Len(queue[t])
          BY ONLY <3>2, <3>5, <4>2, <1>t
        <5> QED
          BY ONLY <3>2, <3>4, <3>5, <5>1
      <4> QED
        BY <4>1, <4>2
    <3>6. UNCHANGED <<loop, held, received, gone, wrappers>> /\ t \notin notify'
      BY <2>1, <2>2
    <3>7. Taken(t)' + Len(queue'[t]) = Taken(t) + Len(queue[t]) + 1
      <4>1. Taken(t)' = Taken(t) /\ Taken(t) \in Nat
        BY <3>3
      <4>2. Len(queue'[t]) = Len(queue[t]) + 1 /\ Len(queue[t]) \in Nat
        BY <3>2, <1>t
      <4> HIDE DEF Taken
      <4> QED
        BY ONLY <4>1, <4>2
    <3>8. loop'[t] = loop[t]
      BY <2>1
    <3>9. ASSUME loop[t] # "none" PROVE StreamOf(t)'
      <4>1. ~Off(t)' /\ loop'[t] = "call" => held'[t] = Taken(t)'
        BY ONLY <3>3, <3>4, <3>6, <3>9
      <4>2. ~Off(t)' => \A i \in 1 .. Len(queue'[t]) : queue'[t][i] = Taken(t)' + i
        BY ONLY <3>3, <3>5, <3>9
      <4>3. Taken(t)' + Len(queue'[t]) = received'
        BY ONLY <1>t, <3>3, <3>4, <3>6, <3>7, <3>9
      <4> QED
        BY ONLY <1>t, <4>1, <4>2, <4>3, <3>6 DEF StreamOf
    <3> QED
      BY ONLY <3>8, <3>9 DEF Streams
  <2>3. CASE t = s /\ s \in gone
    BY <1>0, <1>t, <2>1, <2>3 DEF Streams, StreamOf, Taken, Off
  <2>4. CASE t # s
    <3>1. queue'[t] = queue[t]
      BY <2>1, <2>4 DEF ConnectionInv, TypeOK
    <3> QED
      BY <1>0, <1>t, <2>1, <2>4, <3>1 DEF Streams, StreamOf, Taken, Off
  <2> QED
    BY <2>2, <2>3, <2>4
<1>8. ASSUME NEW s \in Subscriptions, CheckRequestEnd(s) PROVE Streams(t)'
  <2>1. /\ loop[s] = "check"
        /\ loop' = [loop EXCEPT ![s] = IF requestEnd[s] THEN "over" ELSE "get"]
        /\ UNCHANGED <<received, notify, queue, held, delivered, since, requestEnd, gone, wrappers>>
    BY <1>8 DEF CheckRequestEnd
  <2>2. loop'[t] = IF t # s THEN loop[t] ELSE IF requestEnd[s] THEN "over" ELSE "get"
    BY <2>1 DEF ConnectionInv, TypeOK
  <2> QED
    BY <1>0, <1>t, <2>1, <2>2 DEF Streams, StreamOf, Taken, Off
<1>9. ASSUME NEW s \in Subscriptions, GetFromQueue(s) PROVE Streams(t)'
  <2>1. /\ loop[s] = "get" /\ queue[s] # <<>>
        /\ held' = [held EXCEPT ![s] = Head(queue[s])]
        /\ queue' = [queue EXCEPT ![s] = Tail(queue[s])]
        /\ loop' = [loop EXCEPT ![s] = "call"]
        /\ UNCHANGED <<received, notify, delivered, since, requestEnd, gone, wrappers>>
    BY <1>9 DEF GetFromQueue
  <2>2. CASE t = s
    <3>1. held'[t] = Head(queue[t]) /\ queue'[t] = Tail(queue[t]) /\ loop'[t] = "call"
      BY <2>1, <2>2 DEF ConnectionInv, TypeOK
    <3>2. /\ Len(queue'[t]) = Len(queue[t]) - 1 /\ Len(queue[t]) > 0
          /\ \A i \in 1 .. Len(queue'[t]) : queue'[t][i] = queue[t][i + 1]
          /\ held'[t] = queue[t][1]
      BY <3>1, <2>1, <2>2, <1>t
    <3>3. /\ Taken(t)' = Taken(t) + 1 /\ Taken(t) \in Nat
          /\ ~Off(t)
      BY <1>t, <2>1, <2>2, <3>1 DEF Taken, Off
    <3>4. StreamOf(t)
      BY <1>0, <2>1, <2>2 DEF Streams
    <3>5. held'[t] = Taken(t)'
      BY ONLY <3>2, <3>3, <3>4, <1>t DEF StreamOf
    <3>6. ASSUME NEW i \in 1 .. Len(queue'[t]) PROVE queue'[t][i] = Taken(t)' + i
      <4>1. i + 1 \in 1 .. Len(queue[t]) /\ i \in Nat
        BY ONLY <3>2, <3>6, <1>t
      <4>2. queue'[t][i] = queue[t][i + 1]
        BY ONLY <3>2, <3>6
      <4>3. queue[t][i + 1] = Taken(t) + (i + 1)
        BY ONLY <3>3, <3>4, <4>1 DEF StreamOf
      <4> QED
        BY ONLY <3>3, <4>1, <4>2, <4>3
    <3>7. Taken(t)' + Len(queue'[t]) = Taken(t) + Len(queue[t])
      BY ONLY <3>2, <3>3, <1>t
    <3>8. UNCHANGED <<received, notify, gone, wrappers>>
      BY <2>1
    <3> QED
      BY ONLY <3>4, <3>5, <3>6, <3>7, <3>8 DEF StreamOf, Streams
  <2>3. CASE t # s
    <3>1. UNCHANGED <<held[t], queue[t], loop[t]>>
      BY <2>1, <2>3 DEF ConnectionInv, TypeOK
    <3> QED
      BY <1>0, <2>1, <3>1, SameStream
  <2> QED
    BY <2>2, <2>3
<1>10. ASSUME NEW s \in Subscriptions, GetTimesOut(s) PROVE Streams(t)'
  <2>1. /\ loop[s] = "get" /\ loop' = [loop EXCEPT ![s] = "check"]
        /\ UNCHANGED <<received, notify, queue, held, delivered, since, requestEnd, gone, wrappers>>
    BY <1>10 DEF GetTimesOut
  <2>2. loop'[t] = IF t # s THEN loop[t] ELSE "check"
    BY <2>1 DEF ConnectionInv, TypeOK
  <2> QED
    BY <1>0, <1>t, <2>1, <2>2 DEF Streams, StreamOf, Taken, Off
<1>11. ASSUME NEW s \in Subscriptions, CallObserver(s) PROVE Streams(t)'
  <2>c. PICK place \in {"check", "raised"} : loop' = [loop EXCEPT ![s] = place]
    BY <1>11, CallIs
  <2>1. /\ loop[s] = "call"
        /\ IF s \notin gone
           THEN delivered' = [delivered EXCEPT ![s] = Append(delivered[s], held[s])]
                /\ requestEnd' = requestEnd
           ELSE requestEnd' = [requestEnd EXCEPT ![s] = TRUE] /\ delivered' = delivered
        /\ held' = [held EXCEPT ![s] = NoChunk]
        /\ UNCHANGED <<received, notify, queue, since, gone, wrappers>>
    BY <1>11, CallIs
  <2>2. CASE t = s /\ s \notin gone
    <3>1. /\ delivered'[t] = Append(delivered[t], held[t]) /\ loop'[t] \in {"check", "raised"}
          /\ requestEnd'[t] = requestEnd[t]
      BY <2>c, <2>1, <2>2 DEF ConnectionInv, TypeOK
    <3>2. Len(delivered'[t]) = Len(delivered[t]) + 1
      BY <3>1, <1>t
    <3>7. loop[t] = "call" /\ since'[t] = since[t]
      BY ONLY <2>1, <2>2
    <3>3. Taken(t)' = Taken(t)
      BY ONLY <1>t, <3>1, <3>2, <3>7 DEF Taken
    <3>6. ~Off(t)
      BY ONLY <2>1, <2>2 DEF Off
    <3>4. StreamOf(t)
      BY <1>0, <2>1, <2>2 DEF Streams
    <3>5. UNCHANGED <<received, notify, queue, gone, wrappers>> /\ loop'[t] # "call"
      BY <2>1, <3>1
    <3> QED
      BY ONLY <3>3, <3>4, <3>5, <3>6 DEF StreamOf, Streams
  <2>3. CASE t = s /\ s \in gone
    <3>1. delivered'[t] = delivered[t] /\ loop'[t] \in {"check", "raised"} /\ requestEnd'[t]
      BY <2>c, <2>1, <2>3 DEF ConnectionInv, TypeOK
    <3> QED
      BY <1>0, <1>t, <2>1, <2>3, <3>1 DEF Streams, StreamOf, Taken, Off
  <2>4. CASE t # s
    <3>1. UNCHANGED <<held[t], delivered[t], loop[t], requestEnd[t]>>
      BY <2>c, <2>1, <2>4 DEF ConnectionInv, TypeOK
    <3> QED
      BY <1>0, <2>1, <3>1, SameStream
  <2> QED
    BY <2>2, <2>3, <2>4
<1>12. CASE ShutdownLocks
  BY <1>0, <1>12, SameStream DEF ShutdownLocks
<1>13. ASSUME NEW s \in Subscriptions, CallClosedHandler(s) PROVE Streams(t)'
  BY <1>0, <1>13, SameStream DEF CallClosedHandler
<1>14. CASE StopWrappers
  BY <1>0, <1>14, SameStream DEF StopWrappers
<1>15. CASE MarkClosed
  BY <1>0, <1>15, SameStream DEF MarkClosed
<1>16. CASE Open
  BY <1>0, <1>16, SameStream DEF Open
<1>17. CASE UNCHANGED vars
  BY <1>0, <1>17, SameStream DEF vars
<1>18. ASSUME NEW s \in Subscriptions, HandleError(s) PROVE Streams(t)'
  <2>1. /\ loop[s] = "raised" /\ loop' = [loop EXCEPT ![s] = "check"]
        /\ UNCHANGED <<received, notify, queue, held, delivered, since, requestEnd, gone, wrappers>>
    BY <1>18 DEF HandleError
  <2>2. loop'[t] = IF t # s THEN loop[t] ELSE "check"
    BY <2>1 DEF ConnectionInv, TypeOK
  <2> QED
    BY <1>0, <1>t, <2>1, <2>2 DEF Streams, StreamOf, Taken, Off
<1>19. ASSUME NEW s \in Subscriptions, ClosedHandlerRaises(s) PROVE Streams(t)'
  BY <1>0, <1>19, SameStream DEF ClosedHandlerRaises
<1> QED
  BY ONLY [Next]_vars, <1>1, <1>2, <1>3, <1>4, <1>5, <1>6, <1>7, <1>8, <1>9, <1>10, <1>11, <1>12, <1>13, <1>14,
     <1>15, <1>16, <1>17, <1>18, <1>19 DEF Next, Reader, Wrapper, Closer

\* At first no thread has anything.
LEMMA InitStream == Init => StreamInv
  BY DEF Init, StreamInv, Streams

Phases == [s \in Subscriptions |-> PhaseOf(s)]

\* A step that moves no chunk, and takes a subscription nowhere but nearer to its end.
LEMMA EndOfSome ==
    ASSUME UNCHANGED <<received, since, delivered>>,
           \A s \in Subscriptions :
               \/ PhaseOf(s)' = PhaseOf(s)
               \/ PhaseOf(s) \in {"on", "ending"} /\ PhaseOf(s)' \in {"ending", "off"}
    PROVE  Promise!Next
<1> DEFINE S == {s \in Subscriptions : PhaseOf(s)' # PhaseOf(s)}
           p == [s \in S |-> PhaseOf(s)']
<1>1. \A s \in S : Phases[s] \in {"on", "ending"}
  BY DEF Phases
<1>2. p \in [S -> {"ending", "off"}]
  OBVIOUS
<1>3. Phases' = [s \in Subscriptions |-> IF s \in S THEN p[s] ELSE Phases[s]]
  BY DEF Phases
<1>4. Promise!End(S)
  BY <1>1, <1>2, <1>3 DEF Promise!End, Phases
<1> QED
  BY <1>4 DEF Promise!Next

\* Every step is a step of DataSubscription, or none.
LEMMA NextPromise ==
    ASSUME ConnectionInv, StreamInv, [Next]_vars
    PROVE  [Promise!Next]_Promise!vars
<1> SUFFICES Promise!Next
  OBVIOUS
<1> USE DEF tables, objects, wrapperVars, closerVars
<1>1. ASSUME NEW o \in Observers, Subscribe(o) PROVE Promise!Next
  <2> DEFINE s == <<o, rounds[o] + 1>>
  <2>0. /\ s \in Subscriptions /\ s[2] > rounds[s[1]]
    BY <1>1, ConnectionAssumption DEF Subscribe, Subscriptions, ConnectionInv, TypeOK
  <2>1. s \in Subscriptions /\ loop[s] = "none" /\ ~requestEnd[s]
    BY ONLY <2>0, ConnectionInv DEF ConnectionInv, Untouched
  <2>2. /\ loop' = [loop EXCEPT ![s] = "check"] /\ since' = [since EXCEPT ![s] = received]
        /\ UNCHANGED <<received, delivered, requestEnd>>
    BY <1>1 DEF Subscribe
  <2> HIDE DEF s
  <2>3. Phases[s] = "none"
    BY <2>1 DEF Phases, PhaseOf
  <2>4. Phases' = [Phases EXCEPT ![s] = "on"]
    BY <2>1, <2>2 DEF Phases, PhaseOf, ConnectionInv, TypeOK
  <2>5. Promise!Begin(s)
    BY <2>2, <2>3, <2>4 DEF Promise!Begin, Phases
  <2> QED
    BY <2>1, <2>5 DEF Promise!Next
<1>2. ASSUME NEW o \in Observers, SubscribeAgain(o) PROVE Promise!Next
  BY <1>2, EndOfSome DEF SubscribeAgain, PhaseOf
<1>3. ASSUME NEW o \in Observers, Unsubscribe(o) PROVE Promise!Next
  <2>1. /\ requestEnd' = [s \in Subscriptions |-> requestEnd[s] \/ s \in Of(o, wrappers)]
        /\ UNCHANGED <<received, since, delivered, loop>>
    BY <1>3 DEF Unsubscribe
  <2>2. \A s \in Subscriptions : s \in Of(o, wrappers) => loop[s] # "none"
    BY DEF ConnectionInv, Untouched, Of
  <2> QED
    BY <2>1, <2>2, EndOfSome DEF PhaseOf, ConnectionInv, TypeOK
<1>4. ASSUME NEW o \in Observers, GarbageCollect(o) PROVE Promise!Next
  BY <1>4, EndOfSome DEF GarbageCollect, PhaseOf
<1>5. ASSUME NEW o \in Observers, NewObserver(o) PROVE Promise!Next
  BY <1>5, EndOfSome DEF NewObserver, PhaseOf
<1>6. CASE SnapshotSubscribers
  <2>1. Promise!Receive
    BY <1>6 DEF SnapshotSubscribers, Promise!Receive, PhaseOf
  <2> QED
    BY <2>1 DEF Promise!Next
<1>7. ASSUME NEW s \in Subscriptions, FeedWrapper(s) PROVE Promise!Next
  BY <1>7, EndOfSome DEF FeedWrapper, PhaseOf
<1>8. ASSUME NEW s \in Subscriptions, CheckRequestEnd(s) PROVE Promise!Next
  <2>1. /\ loop[s] = "check"
        /\ loop' = [loop EXCEPT ![s] = IF requestEnd[s] THEN "over" ELSE "get"]
        /\ UNCHANGED <<received, since, delivered, requestEnd>>
    BY <1>8 DEF CheckRequestEnd
  <2> QED
    BY <2>1, EndOfSome DEF PhaseOf, ConnectionInv, TypeOK
<1>9. ASSUME NEW s \in Subscriptions, GetFromQueue(s) PROVE Promise!Next
  <2>1. /\ loop[s] = "get" /\ loop' = [loop EXCEPT ![s] = "call"]
        /\ UNCHANGED <<received, since, delivered, requestEnd>>
    BY <1>9 DEF GetFromQueue
  <2> QED
    BY <2>1, EndOfSome DEF PhaseOf, ConnectionInv, TypeOK
<1>10. ASSUME NEW s \in Subscriptions, GetTimesOut(s) PROVE Promise!Next
  <2>1. /\ loop[s] = "get" /\ loop' = [loop EXCEPT ![s] = "check"]
        /\ UNCHANGED <<received, since, delivered, requestEnd>>
    BY <1>10 DEF GetTimesOut
  <2> QED
    BY <2>1, EndOfSome DEF PhaseOf, ConnectionInv, TypeOK
<1>11. ASSUME NEW s \in Subscriptions, CallObserver(s) PROVE Promise!Next
  <2>c. PICK place \in {"check", "raised"} : loop' = [loop EXCEPT ![s] = place]
    BY <1>11, CallIs
  <2>1. loop[s] = "call" /\ UNCHANGED <<received, since>>
    BY <1>11, CallIs
  <2>2. CASE s \in gone
    <3>1. requestEnd' = [requestEnd EXCEPT ![s] = TRUE] /\ delivered' = delivered
      BY <1>11, <2>2, CallIs
    <3> QED
      BY <2>c, <2>1, <3>1, EndOfSome DEF PhaseOf, ConnectionInv, TypeOK
  <2>3. CASE s \notin gone
    <3>1. delivered' = [delivered EXCEPT ![s] = Append(@, held[s])] /\ requestEnd' = requestEnd
      BY <1>11, <2>3, CallIs
    <3>2. held[s] = since[s] + Len(delivered[s]) + 1 /\ held[s] <= received
      <4>1. StreamOf(s) /\ ~Off(s)
        BY <2>1 DEF StreamInv, Streams, Off
      <4>2. Taken(s) = since[s] + Len(delivered[s]) + 1
        BY <2>1 DEF Taken
      <4>3. Len(queue[s]) \in Nat /\ Len(delivered[s]) \in Nat /\ since[s] \in Nat /\ received \in Nat
        BY DEF ConnectionInv, TypeOK
      <4> QED
        BY <2>1, <4>1, <4>2, <4>3 DEF StreamOf
    <3>3. delivered' = [delivered EXCEPT ![s] = Append(@, since[s] + Len(@) + 1)]
      BY <3>1, <3>2
    <3>4. since[s] + Len(delivered[s]) < received
      <4>1. Len(delivered[s]) \in Nat /\ since[s] \in Nat /\ received \in Nat
        BY DEF ConnectionInv, TypeOK
      <4> QED
        BY <3>2, <4>1
    <3>5. Phases[s] \in {"on", "ending"}
      BY <2>1 DEF Phases, PhaseOf
    <3>6. Phases' = [Phases EXCEPT ![s] = IF @ = "ending" THEN "off" ELSE @]
      BY <2>c, <2>1, <3>1 DEF Phases, PhaseOf, ConnectionInv, TypeOK
    <3>7. Promise!Deliver(s)
      BY <2>1, <3>3, <3>4, <3>5, <3>6 DEF Promise!Deliver, Phases
    <3> QED
      BY <3>7 DEF Promise!Next
  <2> QED
    BY <2>2, <2>3
<1>12. CASE ShutdownLocks
  BY <1>12, EndOfSome DEF ShutdownLocks, PhaseOf
<1>13. ASSUME NEW s \in Subscriptions, CallClosedHandler(s) PROVE Promise!Next
  BY <1>13, EndOfSome DEF CallClosedHandler, PhaseOf
<1>14. CASE StopWrappers
  <2>1. /\ requestEnd' = [s \in Subscriptions |-> requestEnd[s] \/ s \in wrappers]
        /\ UNCHANGED <<received, since, delivered, loop>>
    BY <1>14 DEF StopWrappers
  <2>2. \A s \in Subscriptions : s \in wrappers => loop[s] # "none"
    BY DEF ConnectionInv, Untouched
  <2> QED
    BY <2>1, <2>2, EndOfSome DEF PhaseOf, ConnectionInv, TypeOK
<1>15. CASE MarkClosed
  BY <1>15, EndOfSome DEF MarkClosed, PhaseOf
<1>16. CASE Open
  BY <1>16, EndOfSome DEF Open, PhaseOf
<1>17. CASE UNCHANGED vars
  BY <1>17, EndOfSome DEF vars, PhaseOf
<1>18. ASSUME NEW s \in Subscriptions, HandleError(s) PROVE Promise!Next
  <2>1. /\ loop[s] = "raised" /\ loop' = [loop EXCEPT ![s] = "check"]
        /\ UNCHANGED <<received, since, delivered, requestEnd>>
    BY <1>18 DEF HandleError
  <2> QED
    BY <2>1, EndOfSome DEF PhaseOf, ConnectionInv, TypeOK
<1>19. ASSUME NEW s \in Subscriptions, ClosedHandlerRaises(s) PROVE Promise!Next
  BY <1>19, EndOfSome DEF ClosedHandlerRaises, PhaseOf
<1> QED
  BY ONLY [Next]_vars, <1>1, <1>2, <1>3, <1>4, <1>5, <1>6, <1>7, <1>8, <1>9, <1>10, <1>11, <1>12,
     <1>13, <1>14, <1>15, <1>16, <1>17, <1>18, <1>19 DEF Next, Reader, Wrapper, Closer

\* Every subscriber gets the chunks received since it subscribed, each once and in their order,
\* until its subscription ends, and one at most after that.
THEOREM SubscriptionImplementsPromise == Spec => ImplementsPromise
<1>1. Init => Promise!Init
  BY DEF Init, Promise!Init, PhaseOf
<1>2. ConnectionInv /\ StreamInv /\ [Next]_vars => StreamInv'
  BY NextStream
<1>3. ConnectionInv /\ StreamInv /\ [Next]_vars => [Promise!Next]_Promise!vars
  BY NextPromise
<1> QED
  BY <1>1, <1>2, <1>3, InitStream, ConnectionInvariant, PTL
     DEF Spec, ImplementsPromise, Promise!Spec

=============================================================================
