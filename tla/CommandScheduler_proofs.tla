------------------------ MODULE CommandScheduler_proofs ------------------------
(***************************************************************************)
(* Safety of CommandScheduler for any commands, events and interrupting     *)
(* threads.                                                                 *)
(***************************************************************************)
EXTENDS CommandScheduler, SequenceTheorems, TLAPS

USE DEF Observers, At

-----------------------------------------------------------------------------
(* Taking the element at a known position out of a sequence.               *)

\* RemoveAt, by which _remove_command takes a command out, shifts what stood behind it.
LEMMA RemoveAtShift ==
    ASSUME NEW S, NEW q \in Seq(S), NEW i \in 1 .. Len(q)
    PROVE  /\ RemoveAt(q, i) \in Seq(S)
           /\ Len(RemoveAt(q, i)) = Len(q) - 1
           /\ \A j \in 1 .. Len(q) - 1 :
                 RemoveAt(q, i)[j] = IF j < i THEN q[j] ELSE q[j + 1]
<1> DEFINE a == SubSeq(q, 1, i - 1)
           b == SubSeq(q, i + 1, Len(q))
<1>0. Len(q) \in Nat
  BY LenProperties
<1>1. a \in Seq(S) /\ Len(a) = i - 1 /\ \A j \in 1 .. i - 1 : a[j] = q[j]
  BY <1>0
<1>2. b \in Seq(S) /\ Len(b) = Len(q) - i /\ \A j \in 1 .. Len(q) - i : b[j] = q[i + j]
  BY <1>0
<1>3. RemoveAt(q, i) = a \o b
  BY DEF RemoveAt
<1> HIDE DEF a, b
<1>4. /\ a \o b \in Seq(S)
      /\ Len(a \o b) = Len(a) + Len(b)
      /\ \A j \in 1 .. Len(a) + Len(b) :
            (a \o b)[j] = IF j <= Len(a) THEN a[j] ELSE b[j - Len(a)]
  BY <1>1, <1>2, ConcatProperties
<1>5. i \in Nat /\ 1 <= i /\ i <= Len(q) /\ Len(a) + Len(b) = Len(q) - 1
  BY <1>0, <1>1, <1>2
<1>6. ASSUME NEW j \in 1 .. Len(q) - 1
      PROVE  (a \o b)[j] = IF j < i THEN q[j] ELSE q[j + 1]
  <2>1. (a \o b)[j] = IF j <= i - 1 THEN a[j] ELSE b[j - (i - 1)]
    BY <1>1, <1>4, <1>5
  <2>2. CASE j < i
    <3>1. j \in 1 .. i - 1 /\ j <= i - 1
      BY <1>0, <1>5, <2>2
    <3> QED
      BY <1>1, <2>1, <2>2, <3>1
  <2>3. CASE ~(j < i)
    <3>1. j - (i - 1) \in 1 .. Len(q) - i /\ i + (j - (i - 1)) = j + 1 /\ ~(j <= i - 1)
      BY <1>0, <1>5, <2>3
    <3> QED
      BY <1>2, <2>1, <2>3, <3>1
  <2> QED
    BY <2>2, <2>3
<1> QED
  BY <1>3, <1>4, <1>5, <1>6

\* Position gives an index of a command that is queued.
LEMMA PositionOfQueued ==
    ASSUME NEW c, IsQueued(c)
    PROVE  Position(c) \in DOMAIN queue /\ queue[Position(c)] = c
  BY DEF IsQueued, Position

-----------------------------------------------------------------------------

\* A connection without commands has its type.
THEOREM InitType == Init => TypeOK
<1> SUFFICES ASSUME Init PROVE TypeOK
  OBVIOUS
<1>1. queue \in Seq(Cmds)
  BY DEF Init
<1>2. pc \in [Threads \X Observers -> Labels]
  BY DEF Init, Labels
<1> QED
  BY <1>1, <1>2 DEF Init, TypeOK

\* RemoveCommand leaves a queue of commands.
LEMMA RemovalType ==
    ASSUME TypeOK, NEW t \in Threads, NEW c \in Cmds, RemoveCommand(t, c)
    PROVE  queue' \in Seq(Cmds)
<1>1. CASE IsQueued(c)
  <2>1. Position(c) \in 1 .. Len(queue)
    BY <1>1, PositionOfQueued, LenProperties DEF TypeOK
  <2>2. queue' = RemoveAt(queue, Position(c))
    BY <1>1 DEF RemoveCommand
  <2> QED
    BY <2>1, <2>2, RemoveAtShift DEF TypeOK
<1>2. CASE ~IsQueued(c)
  BY <1>2 DEF RemoveCommand, TypeOK
<1> QED
  BY <1>1, <1>2

\* Every step keeps the types, one action after the other.
LEMMA NextType == TypeOK /\ [Next]_vars => TypeOK'
<1> SUFFICES ASSUME TypeOK, [Next]_vars PROVE TypeOK'
  OBVIOUS
<1> USE DEF TypeOK, Goto, Labels, Threads, slot, life
<1>1. ASSUME NEW o \in Observers, Start(o) PROVE TypeOK'
  BY <1>1 DEF Start
<1>2. ASSUME NEW e \in Events, EnqueueEvent(e) PROVE TypeOK'
  BY <1>2 DEF EnqueueEvent
<1>3. ASSUME NEW c \in Cmds, EnqueueCommandInFreeSlot(c) PROVE TypeOK'
  BY <1>3 DEF EnqueueCommandInFreeSlot
<1>4. ASSUME NEW c \in Cmds, SpawnWaiter(c) PROVE TypeOK'
  BY <1>4 DEF SpawnWaiter
<1>5. ASSUME NEW c \in Cmds, RetryTakesSlot(c) PROVE TypeOK'
  BY <1>5 DEF RetryTakesSlot
<1>6. ASSUME NEW c \in Cmds, RetryFindsSlotHeld(c) PROVE TypeOK'
  BY <1>6 DEF RetryFindsSlotHeld
<1>7. ASSUME NEW c \in Cmds, AppendToQueue(c) PROVE TypeOK'
  BY <1>7 DEF AppendToQueue
<1>8. ASSUME NEW c \in Cmds, TakeSlotFromQueue(c) PROVE TypeOK'
  BY <1>8 DEF TakeSlotFromQueue
<1>9. ASSUME NEW c \in Cmds, GiveUpWaiting(c) PROVE TypeOK'
  BY <1>9 DEF GiveUpWaiting
<1>10. ASSUME NEW c \in Cmds, StoreTimeout(c) PROVE TypeOK'
  BY <1>10 DEF StoreTimeout
<1>11. ASSUME NEW c \in Cmds, FinishTimedOut(c) PROVE TypeOK'
  BY <1>11 DEF FinishTimedOut
<1>12. ASSUME NEW o \in Observers, NEW t \in Threads, CheckBeforeSubmit(t, o) PROVE TypeOK'
  BY <1>12 DEF CheckBeforeSubmit
<1>13. ASSUME NEW o \in Observers, NEW t \in Threads, RunnerSubmit(t, o) PROVE TypeOK'
  BY <1>13 DEF RunnerSubmit
<1>14. ASSUME NEW o \in Observers, RunnerFinish(o) PROVE TypeOK'
  BY <1>14 DEF RunnerFinish, AfterDone
<1>15. ASSUME NEW o \in Observers, Cancel(o) PROVE TypeOK'
  BY <1>15 DEF Cancel, AfterDone
<1>16. ASSUME NEW o \in Observers, AwaiterGivesUp(o) PROVE TypeOK'
  BY <1>16 DEF AwaiterGivesUp, AfterDone
<1>17. ASSUME NEW t \in Threads, NEW c \in Cmds, RemoveCommand(t, c) PROVE TypeOK'
  <2>1. queue' \in Seq(Cmds)
    BY <1>17, RemovalType
  <2> QED
    BY <1>17, <2>1 DEF RemoveCommand
<1>18. CASE RunnerShutdown
  BY <1>18 DEF RunnerShutdown
<1>19. CASE UNCHANGED vars
  BY <1>19 DEF vars
<1> QED
  BY <1>1, <1>2, <1>3, <1>4, <1>5, <1>6, <1>7, <1>8, <1>9, <1>10, <1>11, <1>12, <1>13,
     <1>14, <1>15, <1>16, <1>17, <1>18, <1>19 DEF Next, StarterStep, WaiterStep

\* Every reachable state of the scheduler has its type, for any commands and observers.
THEOREM TypeCorrect == Spec => []TypeOK
<1> QED
  BY InitType, NextType, PTL DEF Spec

-----------------------------------------------------------------------------
(* Mutual exclusion and the queue.                                          *)

\* An empty queue and a free slot satisfy the inductive invariant.
THEOREM InitInv == Init => SchedulerInv
<1> SUFFICES ASSUME Init PROVE SchedulerInv
  OBVIOUS
<1>1. TypeOK
  BY InitType
<1>2. QueueIsServed
  BY DEF Init, QueueIsServed
<1>3. \A t \in Threads, o \in Observers : pc[<<t, o>>] = "new"
  BY DEF Init
<1>4. OneThreadSubmits /\ DequeueAfterDone /\ LiveOwnerIsCurrent
  BY <1>3 DEF Init, OneThreadSubmits, DequeueAfterDone, LiveOwnerIsCurrent, OwnsSlot, Threads
<1> QED
  BY <1>1, <1>2, <1>4 DEF SchedulerInv

\* Removing c from a queue that is served leaves a served queue without c.
LEMMA RemovalServes ==
    ASSUME SchedulerInv, NEW t \in Threads, NEW c \in Cmds, RemoveCommand(t, c)
    PROVE  QueueIsServed'
<1> USE DEF SchedulerInv
<1>0. queue \in Seq(Cmds) /\ DOMAIN queue = 1 .. Len(queue) /\ Len(queue) \in Nat
  BY LenProperties DEF TypeOK
<1>1. \A d \in Cmds : d # c => pc'[<<"waiter", d>>] = pc[<<"waiter", d>>]
  BY DEF RemoveCommand, Goto, TypeOK, Threads
<1>2. CASE IsQueued(c)
  <2> DEFINE p == Position(c)
  <2>1. p \in 1 .. Len(queue) /\ queue[p] = c
    BY <1>0, <1>2, PositionOfQueued
  <2>2. queue' = RemoveAt(queue, p)
    BY <1>2 DEF RemoveCommand
  <2> HIDE DEF p
  <2>3. /\ queue' \in Seq(Cmds)
        /\ Len(queue') = Len(queue) - 1
        /\ \A j \in 1 .. Len(queue) - 1 :
              queue'[j] = IF j < p THEN queue[j] ELSE queue[j + 1]
    BY <1>0, <2>1, <2>2, RemoveAtShift
  <2>4. DOMAIN queue' = 1 .. Len(queue) - 1
    BY <2>3, LenProperties
  <2> DEFINE old(j) == IF j < p THEN j ELSE j + 1
  <2>5. \A j \in 1 .. Len(queue) - 1 :
          old(j) \in 1 .. Len(queue) /\ old(j) # p /\ queue'[j] = queue[old(j)]
    BY <1>0, <2>1, <2>3
  <2>6. \A i, j \in 1 .. Len(queue) - 1 : old(i) = old(j) => i = j
    BY <1>0, <2>1
  <2> HIDE DEF old
  <2>7. \A i, j \in DOMAIN queue' : queue'[i] = queue'[j] => i = j
    BY <1>0, <2>4, <2>5, <2>6 DEF QueueIsServed
  <2>8. \A j \in 1 .. Len(queue) - 1 : queue'[j] \in Cmds /\ queue'[j] # c
    BY <1>0, <2>1, <2>5, ElementOfSeq DEF QueueIsServed
  <2>9. \A j \in DOMAIN queue' :
          pc'[<<"waiter", queue'[j]>>] \in {"poll", "except", "finish", "dequeue"}
    BY <1>0, <1>1, <2>4, <2>5, <2>8 DEF QueueIsServed
  <2> QED
    BY <2>7, <2>9 DEF QueueIsServed
<1>3. CASE ~IsQueued(c)
  <2>1. queue' = queue
    BY <1>3 DEF RemoveCommand
  <2>2. \A j \in DOMAIN queue : queue[j] \in Cmds /\ queue[j] # c
    BY <1>0, <1>3, ElementOfSeq DEF IsQueued
  <2> QED
    BY <1>1, <2>1, <2>2 DEF QueueIsServed
<1> QED
  BY <1>2, <1>3

\* A step that leaves the queue alone and no waiter with a queued command astray.
LEMMA SameQueueServes ==
    ASSUME QueueIsServed, queue' = queue,
           \A i \in DOMAIN queue :
              pc[<<"waiter", queue[i]>>] \in {"poll", "except", "finish", "dequeue"}
              => pc'[<<"waiter", queue[i]>>] \in {"poll", "except", "finish", "dequeue"}
    PROVE  QueueIsServed'
  BY DEF QueueIsServed

\* A command that is appended by its own waiter is served by it.
LEMMA AppendServes ==
    ASSUME SchedulerInv, NEW c \in Cmds, AppendToQueue(c)
    PROVE  QueueIsServed'
<1> USE DEF SchedulerInv
<1>0. queue \in Seq(Cmds) /\ DOMAIN queue = 1 .. Len(queue) /\ Len(queue) \in Nat
  BY LenProperties DEF TypeOK
<1>1. /\ queue' \in Seq(Cmds)
      /\ Len(queue') = Len(queue) + 1
      /\ \A i \in 1 .. Len(queue) : queue'[i] = queue[i]
      /\ queue'[Len(queue) + 1] = c
  BY <1>0, AppendProperties DEF AppendToQueue
<1>2. DOMAIN queue' = 1 .. Len(queue) + 1
  BY <1>1, LenProperties
<1>3. \A i \in 1 .. Len(queue) : queue[i] \in Cmds /\ queue[i] # c
  BY <1>0, ElementOfSeq DEF AppendToQueue, QueueIsServed
<1>4. /\ pc'[<<"waiter", c>>] = "poll"
      /\ \A d \in Cmds : d # c => pc'[<<"waiter", d>>] = pc[<<"waiter", d>>]
  BY DEF AppendToQueue, Goto, TypeOK, Threads
<1>5. \A i, j \in DOMAIN queue' : queue'[i] = queue'[j] => i = j
  BY <1>0, <1>1, <1>2, <1>3 DEF QueueIsServed
<1>6. \A i \in DOMAIN queue' :
        pc'[<<"waiter", queue'[i]>>] \in {"poll", "except", "finish", "dequeue"}
  BY <1>0, <1>1, <1>2, <1>3, <1>4 DEF QueueIsServed
<1> QED
  BY <1>5, <1>6 DEF QueueIsServed

\* The head of the queue leaves it together with its waiter's turn to poll.
LEMMA TakeServes ==
    ASSUME SchedulerInv, NEW c \in Cmds, TakeSlotFromQueue(c)
    PROVE  QueueIsServed'
<1> USE DEF SchedulerInv
<1>0. queue \in Seq(Cmds) /\ DOMAIN queue = 1 .. Len(queue) /\ Len(queue) \in Nat
  BY LenProperties DEF TypeOK
<1>1. Len(queue) > 0 /\ queue[1] = c
  BY <1>0 DEF TakeSlotFromQueue
<1>2. /\ queue' \in Seq(Cmds)
      /\ Len(queue') = Len(queue) - 1
      /\ \A i \in 1 .. Len(queue) - 1 : queue'[i] = queue[i + 1]
  BY <1>0, <1>1, HeadTailProperties DEF TakeSlotFromQueue
<1>3. DOMAIN queue' = 1 .. Len(queue) - 1
  BY <1>2, LenProperties
<1>4. \A i \in 1 .. Len(queue) - 1 : queue[i + 1] \in Cmds /\ queue[i + 1] # c
  BY <1>0, <1>1, ElementOfSeq DEF QueueIsServed
<1>5. \A d \in Cmds : d # c => pc'[<<"waiter", d>>] = pc[<<"waiter", d>>]
  BY DEF TakeSlotFromQueue, Goto, TypeOK, Threads
<1>6. \A i, j \in DOMAIN queue' : queue'[i] = queue'[j] => i = j
  <2> SUFFICES ASSUME NEW i \in 1 .. Len(queue) - 1, NEW j \in 1 .. Len(queue) - 1,
                      queue[i + 1] = queue[j + 1]
               PROVE  i = j
    BY <1>2, <1>3
  <2>1. i + 1 \in DOMAIN queue /\ j + 1 \in DOMAIN queue
    BY <1>0
  <2>2. i + 1 = j + 1
    BY <2>1 DEF QueueIsServed
  <2> QED
    BY <1>0, <2>2
<1>7. ASSUME NEW i \in 1 .. Len(queue) - 1
      PROVE  pc'[<<"waiter", queue'[i]>>] \in {"poll", "except", "finish", "dequeue"}
  <2>1. i + 1 \in DOMAIN queue
    BY <1>0
  <2>2. pc[<<"waiter", queue[i + 1]>>] \in {"poll", "except", "finish", "dequeue"}
    BY <2>1 DEF QueueIsServed
  <2> QED
    BY <1>2, <1>4, <1>5, <2>2
<1> QED
  BY <1>3, <1>6, <1>7 DEF QueueIsServed

-----------------------------------------------------------------------------

\* No step but those of AppendToQueue, TakeSlotFromQueue and RemoveCommand touches the queue.
LEMMA NextServes ==
    ASSUME SchedulerInv, [Next]_vars
    PROVE  QueueIsServed'
<1> USE DEF SchedulerInv, TypeOK, Goto, Threads, slot, life
<1>0. \A i \in DOMAIN queue : queue[i] \in Cmds
  BY ElementOfSeq, LenProperties
<1>1. ASSUME NEW o \in Observers, Start(o) PROVE QueueIsServed'
  BY <1>1, <1>0, SameQueueServes DEF Start
<1>2. ASSUME NEW e \in Events, EnqueueEvent(e) PROVE QueueIsServed'
  BY <1>2, <1>0, SameQueueServes DEF EnqueueEvent
<1>3. ASSUME NEW c \in Cmds, EnqueueCommandInFreeSlot(c) PROVE QueueIsServed'
  BY <1>3, <1>0, SameQueueServes DEF EnqueueCommandInFreeSlot
<1>4. ASSUME NEW c \in Cmds, SpawnWaiter(c) PROVE QueueIsServed'
  <2>1. pc[<<"waiter", c>>] = "new"
    BY <1>4 DEF SpawnWaiter, OneThreadSubmits
  <2>2. \A i \in DOMAIN queue : queue[i] # c
    BY <2>1 DEF QueueIsServed
  <2> QED
    BY <1>4, <1>0, <2>2, SameQueueServes DEF SpawnWaiter
<1>5. ASSUME NEW c \in Cmds, RetryTakesSlot(c) PROVE QueueIsServed'
  BY <1>5, <1>0, SameQueueServes DEF RetryTakesSlot
<1>6. ASSUME NEW c \in Cmds, RetryFindsSlotHeld(c) PROVE QueueIsServed'
  BY <1>6, <1>0, SameQueueServes DEF RetryFindsSlotHeld
<1>7. ASSUME NEW c \in Cmds, AppendToQueue(c) PROVE QueueIsServed'
  BY <1>7, AppendServes
<1>8. ASSUME NEW c \in Cmds, TakeSlotFromQueue(c) PROVE QueueIsServed'
  BY <1>8, TakeServes
<1>9. ASSUME NEW c \in Cmds, GiveUpWaiting(c) PROVE QueueIsServed'
  BY <1>9, <1>0, SameQueueServes DEF GiveUpWaiting
<1>10. ASSUME NEW c \in Cmds, StoreTimeout(c) PROVE QueueIsServed'
  BY <1>10, <1>0, SameQueueServes DEF StoreTimeout
<1>11. ASSUME NEW c \in Cmds, FinishTimedOut(c) PROVE QueueIsServed'
  BY <1>11, <1>0, SameQueueServes DEF FinishTimedOut
<1>12. ASSUME NEW o \in Observers, NEW t \in Threads, CheckBeforeSubmit(t, o)
       PROVE  QueueIsServed'
  BY <1>12, <1>0, SameQueueServes DEF CheckBeforeSubmit
<1>13. ASSUME NEW o \in Observers, NEW t \in Threads, RunnerSubmit(t, o)
       PROVE  QueueIsServed'
  BY <1>13, <1>0, SameQueueServes DEF RunnerSubmit
<1>14. ASSUME NEW o \in Observers, RunnerFinish(o) PROVE QueueIsServed'
  BY <1>14, <1>0, SameQueueServes DEF RunnerFinish
<1>15. ASSUME NEW o \in Observers, Cancel(o) PROVE QueueIsServed'
  BY <1>15, <1>0, SameQueueServes DEF Cancel
<1>16. ASSUME NEW o \in Observers, AwaiterGivesUp(o) PROVE QueueIsServed'
  BY <1>16, <1>0, SameQueueServes DEF AwaiterGivesUp
<1>17. ASSUME NEW t \in Threads, NEW c \in Cmds, RemoveCommand(t, c) PROVE QueueIsServed'
  BY <1>17, RemovalServes
<1>18. CASE RunnerShutdown
  BY <1>18, SameQueueServes DEF RunnerShutdown
<1>19. CASE UNCHANGED vars
  BY <1>19, SameQueueServes DEF vars
<1> QED
  BY <1>1, <1>2, <1>3, <1>4, <1>5, <1>6, <1>7, <1>8, <1>9, <1>10, <1>11, <1>12, <1>13,
     <1>14, <1>15, <1>16, <1>17, <1>18, <1>19 DEF Next, StarterStep, WaiterStep

\* The parts of the invariant that say where the threads are.
ThreadsInv == OneThreadSubmits /\ DequeueAfterDone /\ LiveOwnerIsCurrent

\* Every step keeps what relates the threads of a command to its slot.
LEMMA NextThreads ==
    ASSUME SchedulerInv, [Next]_vars
    PROVE  ThreadsInv'
<1> USE DEF SchedulerInv, TypeOK, Goto, Threads, slot, life,
            ThreadsInv, OneThreadSubmits, DequeueAfterDone, LiveOwnerIsCurrent, OwnsSlot
<1>1. ASSUME NEW o \in Observers, Start(o) PROVE ThreadsInv'
  BY <1>1 DEF Start
<1>2. ASSUME NEW e \in Events, EnqueueEvent(e) PROVE ThreadsInv'
  BY <1>2, SchedulerAssumption DEF EnqueueEvent
<1>3. ASSUME NEW c \in Cmds, EnqueueCommandInFreeSlot(c) PROVE ThreadsInv'
  BY <1>3, SchedulerAssumption DEF EnqueueCommandInFreeSlot
<1>4. ASSUME NEW c \in Cmds, SpawnWaiter(c) PROVE ThreadsInv'
  BY <1>4 DEF SpawnWaiter
<1>5. ASSUME NEW c \in Cmds, RetryTakesSlot(c) PROVE ThreadsInv'
  BY <1>5, SchedulerAssumption DEF RetryTakesSlot
<1>6. ASSUME NEW c \in Cmds, RetryFindsSlotHeld(c) PROVE ThreadsInv'
  BY <1>6 DEF RetryFindsSlotHeld
<1>7. ASSUME NEW c \in Cmds, AppendToQueue(c) PROVE ThreadsInv'
  BY <1>7 DEF AppendToQueue
<1>8. ASSUME NEW c \in Cmds, TakeSlotFromQueue(c) PROVE ThreadsInv'
  BY <1>8, SchedulerAssumption DEF TakeSlotFromQueue
<1>9. ASSUME NEW c \in Cmds, GiveUpWaiting(c) PROVE ThreadsInv'
  BY <1>9 DEF GiveUpWaiting
<1>10. ASSUME NEW c \in Cmds, StoreTimeout(c) PROVE ThreadsInv'
  BY <1>10 DEF StoreTimeout
<1>11. ASSUME NEW c \in Cmds, FinishTimedOut(c) PROVE ThreadsInv'
  BY <1>11 DEF FinishTimedOut
<1>12. ASSUME NEW o \in Observers, NEW t \in Threads, CheckBeforeSubmit(t, o)
       PROVE  ThreadsInv'
  BY <1>12 DEF CheckBeforeSubmit
<1>13. ASSUME NEW o \in Observers, NEW t \in Threads, RunnerSubmit(t, o)
       PROVE  ThreadsInv'
  BY <1>13 DEF RunnerSubmit
<1>14. ASSUME NEW o \in Observers, RunnerFinish(o) PROVE ThreadsInv'
  BY <1>14 DEF RunnerFinish, AfterDone
<1>15. ASSUME NEW o \in Observers, Cancel(o) PROVE ThreadsInv'
  BY <1>15 DEF Cancel, AfterDone
<1>16. ASSUME NEW o \in Observers, AwaiterGivesUp(o) PROVE ThreadsInv'
  BY <1>16 DEF AwaiterGivesUp, AfterDone
<1>17. ASSUME NEW t \in Threads, NEW c \in Cmds, RemoveCommand(t, c) PROVE ThreadsInv'
  BY <1>17 DEF RemoveCommand
<1>18. CASE RunnerShutdown
  BY <1>18 DEF RunnerShutdown
<1>19. CASE UNCHANGED vars
  BY <1>19 DEF vars
<1> QED
  BY <1>1, <1>2, <1>3, <1>4, <1>5, <1>6, <1>7, <1>8, <1>9, <1>10, <1>11, <1>12, <1>13,
     <1>14, <1>15, <1>16, <1>17, <1>18, <1>19 DEF Next, StarterStep, WaiterStep

\* Every step keeps the inductive invariant.
LEMMA NextInv == SchedulerInv /\ [Next]_vars => SchedulerInv'
<1> SUFFICES ASSUME SchedulerInv, [Next]_vars PROVE SchedulerInv'
  OBVIOUS
<1>1. TypeOK'
  BY NextType DEF SchedulerInv
<1>2. ThreadsInv'
  BY NextThreads
<1>3. QueueIsServed'
  BY NextServes
<1> QED
  BY <1>1, <1>2, <1>3 DEF SchedulerInv, ThreadsInv

\* The inductive invariant holds of every reachable state.
THEOREM InductiveInvariant == Spec => []SchedulerInv
  BY InitInv, NextInv, PTL DEF Spec

\* Two running commands would both be the current command.
LEMMA InvExcludes == SchedulerInv => OneCommandRuns
  BY DEF SchedulerInv, LiveOwnerIsCurrent, OwnsSlot, OneCommandRuns, Runs

\* Whatever threads cancel, give up or time out, two commands never run at the same time.
THEOREM MutualExclusion == Spec => []OneCommandRuns
  BY InductiveInvariant, InvExcludes, PTL

\* No command stays in the queue without a thread that will take it out.
THEOREM QueueServed == Spec => []QueueIsServed
<1>1. SchedulerInv => QueueIsServed
  BY DEF SchedulerInv
<1> QED
  BY <1>1, InductiveInvariant, PTL

-----------------------------------------------------------------------------
(* The scheduler implements ConnectionSlot.                                 *)

phaseOf == [c \in Cmds |-> Phase(c)]

\* The scheduler starts where ConnectionSlot starts: every command idle.
LEMMA InitRefines == Init => Slot!Init
  BY DEF Init, Slot!Init, Phase, Threads

\* A step that changes the phase of one command at most.
LEMMA StepOfOneCommand ==
    ASSUME NEW c \in Cmds,
           \A d \in Cmds : d # c => (Phase(d))' = Phase(d)
    PROVE  phaseOf' = [phaseOf EXCEPT ![c] = (Phase(c))']
  BY DEF phaseOf

\* Every step of the scheduler is a step of ConnectionSlot or changes no phase.
LEMMA NextRefines ==
    ASSUME SchedulerInv, [Next]_vars
    PROVE  [Slot!Next]_phaseOf
<1> USE DEF SchedulerInv, TypeOK, Goto, Threads, slot, life, Phase
<1>0. ASSUME \A d \in Cmds : (Phase(d))' = Phase(d) PROVE UNCHANGED phaseOf
  BY <1>0 DEF phaseOf
<1>a. ASSUME NEW c \in Cmds, Phase(c) # "over", (Phase(c))' = "over",
             \A d \in Cmds : d # c => (Phase(d))' = Phase(d)
      PROVE  Slot!Next
  <2>1. phaseOf' = [phaseOf EXCEPT ![c] = "over"]
    BY <1>a, StepOfOneCommand
  <2> QED
    BY <1>a, <2>1 DEF Slot!Next, Slot!End, Slot!Move, phaseOf
<1>1. ASSUME NEW o \in Observers, Start(o) PROVE [Slot!Next]_phaseOf
  <2>1. CASE o \in Cmds /\ ~isDone[o] /\ ~submitted[o]
    <3>1. phaseOf' = [phaseOf EXCEPT ![o] = "waiting"]
      <4>1. (Phase(o))' = "waiting" /\ \A d \in Cmds : d # o => (Phase(d))' = Phase(d)
        BY <1>1, <2>1 DEF Start
      <4> QED
        BY <2>1, <4>1, StepOfOneCommand
    <3>2. Phase(o) = "idle"
      BY <1>1, <2>1 DEF Start
    <3> QED
      BY <2>1, <3>1, <3>2 DEF Slot!Next, Slot!Request, Slot!Move, phaseOf
  <2>2. CASE o \in Events \/ isDone[o] \/ submitted[o]
    <3>1. \A d \in Cmds : (Phase(d))' = Phase(d)
      BY <1>1, <2>2, SchedulerAssumption DEF Start
    <3> QED
      BY <1>0, <3>1
  <2> QED
    BY <2>1, <2>2
<1>2. ASSUME NEW o \in Observers, NEW t \in Threads, RunnerSubmit(t, o)
      PROVE  [Slot!Next]_phaseOf
  <2>1. CASE o \in Cmds /\ ~isDone[o]
    <3>1. Phase(o) = "waiting"
      BY <1>2, <2>1 DEF RunnerSubmit, OneThreadSubmits
    <3>2. \A d \in Cmds : Phase(d) # "running"
      BY <1>2, <2>1 DEF RunnerSubmit, LiveOwnerIsCurrent, OwnsSlot, OneThreadSubmits
    <3>3. (Phase(o))' = "running" /\ \A d \in Cmds : d # o => (Phase(d))' = Phase(d)
      BY <1>2, <2>1 DEF RunnerSubmit
    <3>4. phaseOf' = [phaseOf EXCEPT ![o] = "running"]
      BY <2>1, <3>3, StepOfOneCommand
    <3> QED
      BY <2>1, <3>1, <3>2, <3>4 DEF Slot!Next, Slot!Run, Slot!Move, phaseOf
  <2>2. CASE o \in Events \/ isDone[o]
    <3>1. \A d \in Cmds : (Phase(d))' = Phase(d)
      BY <1>2, <2>2, SchedulerAssumption DEF RunnerSubmit
    <3> QED
      BY <1>0, <3>1
  <2> QED
    BY <2>1, <2>2
<1>3. ASSUME NEW o \in Observers, ~isDone[o], isDone' = [isDone EXCEPT ![o] = TRUE],
             submitted' = submitted,
             \A d \in Observers : pc'[<<"starter", d>>] = pc[<<"starter", d>>]
      PROVE  [Slot!Next]_phaseOf
  <2>1. CASE o \in Cmds
    BY <1>3, <1>a, <2>1
  <2>2. CASE o \notin Cmds
    <3>1. \A d \in Cmds : (Phase(d))' = Phase(d)
      BY <1>3, <2>2
    <3> QED
      BY <1>0, <3>1
  <2> QED
    BY <2>1, <2>2
<1>4. ASSUME NEW o \in Observers, RunnerFinish(o) \/ Cancel(o) \/ AwaiterGivesUp(o)
      PROVE  [Slot!Next]_phaseOf
  BY <1>3, <1>4 DEF RunnerFinish, Cancel, AwaiterGivesUp, AfterDone
<1>5. ASSUME NEW c \in Cmds, FinishTimedOut(c) PROVE [Slot!Next]_phaseOf
  <2>1. CASE ~isDone[c]
    BY <1>3, <1>5, <2>1 DEF FinishTimedOut
  <2>2. CASE isDone[c]
    <3>1. \A d \in Cmds : (Phase(d))' = Phase(d)
      BY <1>5, <2>2 DEF FinishTimedOut
    <3> QED
      BY <1>0, <3>1
  <2> QED
    BY <2>1, <2>2
<1>6. ASSUME isDone' = isDone, submitted' = submitted,
             \A c \in Cmds : pc[<<"starter", c>>] = "new" <=> pc'[<<"starter", c>>] = "new"
      PROVE  [Slot!Next]_phaseOf
  <2>1. \A d \in Cmds : (Phase(d))' = Phase(d)
    BY <1>6
  <2> QED
    BY <1>0, <2>1
<1>7. ASSUME NEW o \in Observers, NEW t \in Threads, CheckBeforeSubmit(t, o)
      PROVE  [Slot!Next]_phaseOf
  BY <1>6, <1>7 DEF CheckBeforeSubmit
<1>8. ASSUME NEW e \in Events, EnqueueEvent(e) PROVE [Slot!Next]_phaseOf
  BY <1>6, <1>8 DEF EnqueueEvent
<1>9. ASSUME NEW c \in Cmds, EnqueueCommandInFreeSlot(c) \/ SpawnWaiter(c)
      PROVE  [Slot!Next]_phaseOf
  BY <1>6, <1>9 DEF EnqueueCommandInFreeSlot, SpawnWaiter
<1>10. ASSUME NEW c \in Cmds,
              \/ RetryTakesSlot(c) \/ RetryFindsSlotHeld(c) \/ AppendToQueue(c)
              \/ TakeSlotFromQueue(c) \/ GiveUpWaiting(c) \/ StoreTimeout(c)
       PROVE  [Slot!Next]_phaseOf
  BY <1>6, <1>10
     DEF RetryTakesSlot, RetryFindsSlotHeld, AppendToQueue, TakeSlotFromQueue, GiveUpWaiting,
         StoreTimeout
<1>11. ASSUME NEW t \in Threads, NEW c \in Cmds, RemoveCommand(t, c)
       PROVE  [Slot!Next]_phaseOf
  BY <1>6, <1>11 DEF RemoveCommand
<1>12. CASE RunnerShutdown
  BY <1>6, <1>12 DEF RunnerShutdown
<1>13. CASE UNCHANGED vars
  BY <1>6, <1>13 DEF vars
<1> QED
  BY <1>1, <1>2, <1>4, <1>5, <1>7, <1>8, <1>9, <1>10, <1>11, <1>12, <1>13
     DEF Next, StarterStep, WaiterStep

\* Every behaviour of the scheduler is one of ConnectionSlot: commands run one at a time.
THEOREM SchedulerImplementsSlot == Spec => ImplementsSlot
<1>1. SchedulerInv /\ [Next]_vars => [Slot!Next]_phaseOf
  BY NextRefines
<1> QED
  BY <1>1, InitRefines, InductiveInvariant, PTL DEF Spec, ImplementsSlot, Slot!Spec, phaseOf

-----------------------------------------------------------------------------
(* Without cancel() and without an awaiter that gives up.                   *)

UndisturbedInv == SchedulerInv /\ LiveUntilSubmitted /\ SlotIsNotLeaked

\* At first no command is done, so nothing is disturbed.
LEMMA InitUndisturbed == Init => UndisturbedInv
<1>1. Init => LiveUntilSubmitted /\ SlotIsNotLeaked
  BY DEF Init, LiveUntilSubmitted, SlotIsNotLeaked
<1> QED
  BY <1>1, InitInv DEF UndisturbedInv

\* Without interrupters every step keeps the slot with a live command.
LEMMA NextUndisturbed ==
    ASSUME Interrupters = {}, UndisturbedInv, [Next]_vars
    PROVE  UndisturbedInv'
<1> DEFINE Live == LiveUntilSubmitted /\ SlotIsNotLeaked
<1>1. SchedulerInv'
  BY NextInv DEF UndisturbedInv
<1>2. Live'
  <2> USE SchedulerAssumption
      DEF UndisturbedInv, SchedulerInv, TypeOK, Goto, Threads, slot, life, AfterDone,
          LiveUntilSubmitted, SlotIsNotLeaked, OneThreadSubmits, DequeueAfterDone
  <2>1. ASSUME NEW o \in Observers, Start(o) PROVE Live'
    BY <2>1 DEF Start
  <2>2. ASSUME NEW e \in Events, EnqueueEvent(e) PROVE Live'
    BY <2>2 DEF EnqueueEvent
  <2>3. ASSUME NEW c \in Cmds, EnqueueCommandInFreeSlot(c) PROVE Live'
    BY <2>3 DEF EnqueueCommandInFreeSlot
  <2>4. ASSUME NEW c \in Cmds, SpawnWaiter(c) PROVE Live'
    BY <2>4 DEF SpawnWaiter
  <2>5. ASSUME NEW c \in Cmds, RetryTakesSlot(c) PROVE Live'
    BY <2>5 DEF RetryTakesSlot
  <2>6. ASSUME NEW c \in Cmds, RetryFindsSlotHeld(c) PROVE Live'
    BY <2>6 DEF RetryFindsSlotHeld
  <2>7. ASSUME NEW c \in Cmds, AppendToQueue(c) PROVE Live'
    BY <2>7 DEF AppendToQueue
  <2>8. ASSUME NEW c \in Cmds, TakeSlotFromQueue(c) PROVE Live'
    BY <2>8 DEF TakeSlotFromQueue
  <2>9. ASSUME NEW c \in Cmds, GiveUpWaiting(c) PROVE Live'
    BY <2>9 DEF GiveUpWaiting
  <2>10. ASSUME NEW c \in Cmds, StoreTimeout(c) PROVE Live'
    BY <2>10 DEF StoreTimeout
  <2>11. ASSUME NEW c \in Cmds, FinishTimedOut(c) PROVE Live'
    BY <2>11 DEF FinishTimedOut
  <2>12. ASSUME NEW o \in Observers, NEW t \in Threads, CheckBeforeSubmit(t, o) PROVE Live'
    BY <2>12 DEF CheckBeforeSubmit
  <2>13. ASSUME NEW o \in Observers, NEW t \in Threads, RunnerSubmit(t, o) PROVE Live'
    BY <2>13 DEF RunnerSubmit
  <2>14. ASSUME NEW o \in Observers, RunnerFinish(o) PROVE Live'
    BY <2>14 DEF RunnerFinish
  <2>15. ASSUME NEW o \in Observers, Cancel(o) \/ AwaiterGivesUp(o) PROVE FALSE
    BY <2>15 DEF Cancel, AwaiterGivesUp
  <2>17. ASSUME NEW t \in Threads, NEW c \in Cmds, RemoveCommand(t, c) PROVE Live'
    BY <2>17 DEF RemoveCommand
  <2>18. CASE RunnerShutdown
    BY <2>18 DEF RunnerShutdown
  <2>19. CASE UNCHANGED vars
    BY <2>19 DEF vars
  <2> QED
    BY <2>1, <2>2, <2>3, <2>4, <2>5, <2>6, <2>7, <2>8, <2>9, <2>10, <2>11, <2>12, <2>13,
       <2>14, <2>15, <2>17, <2>18, <2>19 DEF Next, StarterStep, WaiterStep
<1> QED
  BY <1>1, <1>2 DEF UndisturbedInv

\* Only RunnerSubmit submits, and then its command owns the slot.
LEMMA SubmitsAlone ==
    ASSUME UndisturbedInv, [Next]_vars,
           NEW c \in Cmds, submitted'[c], ~submitted[c], NEW d \in Cmds \ {c}
    PROVE  ~Runs(d)
<1> USE DEF UndisturbedInv, SchedulerInv, TypeOK, slot, life
<1>1. PICK t \in {"starter", "waiter"} : pc[<<t, c>>] = "send"
  BY DEF Next, vars, StarterStep, WaiterStep, Start, EnqueueEvent, EnqueueCommandInFreeSlot,
         SpawnWaiter, RetryTakesSlot, RetryFindsSlotHeld, AppendToQueue, TakeSlotFromQueue,
         GiveUpWaiting, StoreTimeout, FinishTimedOut, CheckBeforeSubmit, RunnerSubmit,
         RunnerFinish, Cancel, AwaiterGivesUp, RemoveCommand, RunnerShutdown
<1>2. ~isDone[c] /\ currentCmd = c
  BY <1>1 DEF LiveUntilSubmitted, LiveOwnerIsCurrent, OwnsSlot, OneThreadSubmits
<1> QED
  BY <1>2 DEF Runs, LiveOwnerIsCurrent, OwnsSlot

\* If nobody interrupts, a command string is sent only while no other command runs.
THEOREM SendsAloneUndisturbed ==
    ASSUME Interrupters = {}
    PROVE  Spec => SendsAlone
<1>1. UndisturbedInv /\ [Next]_vars => UndisturbedInv'
  BY NextUndisturbed
<1>2. UndisturbedInv /\ [Next]_vars =>
        [\A c \in Cmds : submitted'[c] /\ ~submitted[c] =>
            \A d \in Cmds \ {c} : ~Runs(d)]_vars
  BY SubmitsAlone
<1> QED
  BY <1>1, <1>2, InitUndisturbed, PTL DEF Spec, SendsAlone

\* If nobody interrupts, the slot never stays with a command that is done.
THEOREM SlotKeptByLiveCommand ==
    ASSUME Interrupters = {}
    PROVE  Spec => []SlotIsNotLeaked
<1>1. UndisturbedInv /\ [Next]_vars => UndisturbedInv'
  BY NextUndisturbed
<1>2. UndisturbedInv => SlotIsNotLeaked
  BY DEF UndisturbedInv
<1> QED
  BY <1>1, <1>2, InitUndisturbed, PTL DEF Spec

-----------------------------------------------------------------------------
(* Cancelled or not: as long as no await_done() ends a command that queues.  *)

\* A waiter that gave up has left its exception, unless the command was done already.
GaveUpLoudly ==
    \A c \in Cmds : pc[<<"waiter", c>>] = "finish" => hasException[c] \/ isDone[c]

SpokenInv == SchedulerInv /\ GaveUpLoudly /\ NoSilentEnd

\* Every step but AwaiterGivesUp keeps that.
LEMMA NextSpoken ==
    ASSUME "awaiter" \notin Interrupters, SpokenInv, [Next]_vars
    PROVE  SpokenInv'
<1> DEFINE Spoken == GaveUpLoudly /\ NoSilentEnd
<1>1. SchedulerInv'
  BY NextInv DEF SpokenInv
<1>2. Spoken'
  <2> USE SchedulerAssumption
      DEF SpokenInv, SchedulerInv, TypeOK, Goto, Threads, slot, life, AfterDone,
          GaveUpLoudly, NoSilentEnd
  <2>1. ASSUME NEW o \in Observers, Start(o) PROVE Spoken'
    BY <2>1 DEF Start
  <2>2. ASSUME NEW e \in Events, EnqueueEvent(e) PROVE Spoken'
    BY <2>2 DEF EnqueueEvent
  <2>3. ASSUME NEW c \in Cmds, EnqueueCommandInFreeSlot(c) PROVE Spoken'
    BY <2>3 DEF EnqueueCommandInFreeSlot
  <2>4. ASSUME NEW c \in Cmds, SpawnWaiter(c) PROVE Spoken'
    BY <2>4 DEF SpawnWaiter
  <2>5. ASSUME NEW c \in Cmds, RetryTakesSlot(c) PROVE Spoken'
    BY <2>5 DEF RetryTakesSlot
  <2>6. ASSUME NEW c \in Cmds, RetryFindsSlotHeld(c) PROVE Spoken'
    BY <2>6 DEF RetryFindsSlotHeld
  <2>7. ASSUME NEW c \in Cmds, AppendToQueue(c) PROVE Spoken'
    BY <2>7 DEF AppendToQueue
  <2>8. ASSUME NEW c \in Cmds, TakeSlotFromQueue(c) PROVE Spoken'
    BY <2>8 DEF TakeSlotFromQueue
  <2>9. ASSUME NEW c \in Cmds, GiveUpWaiting(c) PROVE Spoken'
    BY <2>9 DEF GiveUpWaiting
  <2>10. ASSUME NEW c \in Cmds, StoreTimeout(c) PROVE Spoken'
    BY <2>10 DEF StoreTimeout
  <2>11. ASSUME NEW c \in Cmds, FinishTimedOut(c) PROVE Spoken'
    BY <2>11 DEF FinishTimedOut
  <2>12. ASSUME NEW o \in Observers, NEW t \in Threads, CheckBeforeSubmit(t, o) PROVE Spoken'
    BY <2>12 DEF CheckBeforeSubmit
  <2>13. ASSUME NEW o \in Observers, NEW t \in Threads, RunnerSubmit(t, o) PROVE Spoken'
    BY <2>13 DEF RunnerSubmit
  <2>14. ASSUME NEW o \in Observers, RunnerFinish(o) PROVE Spoken'
    BY <2>14 DEF RunnerFinish
  <2>15. ASSUME NEW o \in Observers, Cancel(o) PROVE Spoken'
    BY <2>15 DEF Cancel
  <2>16. ASSUME NEW o \in Observers, AwaiterGivesUp(o) PROVE FALSE
    BY <2>16 DEF AwaiterGivesUp
  <2>17. ASSUME NEW t \in Threads, NEW c \in Cmds, RemoveCommand(t, c) PROVE Spoken'
    BY <2>17 DEF RemoveCommand
  <2>18. CASE RunnerShutdown
    BY <2>18 DEF RunnerShutdown
  <2>19. CASE UNCHANGED vars
    BY <2>19 DEF vars
  <2> QED
    BY <2>1, <2>2, <2>3, <2>4, <2>5, <2>6, <2>7, <2>8, <2>9, <2>10, <2>11, <2>12, <2>13,
       <2>14, <2>15, <2>16, <2>17, <2>18, <2>19 DEF Next, StarterStep, WaiterStep
<1> QED
  BY <1>1, <1>2 DEF SpokenInv

\* Whatever cancel() does, a command that never ran says so, if no await_done() gives up on it.
THEOREM NeverEndsSilently ==
    ASSUME "awaiter" \notin Interrupters
    PROVE  Spec => []NoSilentEnd
<1>1. Init => SpokenInv
  <2>1. Init => GaveUpLoudly /\ NoSilentEnd
    BY DEF Init, GaveUpLoudly, NoSilentEnd, Threads
  <2> QED
    BY <2>1, InitInv DEF SpokenInv
<1>2. SpokenInv /\ [Next]_vars => SpokenInv'
  BY NextSpoken
<1>3. SpokenInv => NoSilentEnd
  BY DEF SpokenInv
<1> QED
  BY <1>1, <1>2, <1>3, PTL DEF Spec

=============================================================================
