-------------------------- MODULE DeviceStates_proofs --------------------------
(***************************************************************************)
(* Who may walk, and who takes the requests of goto_state_bg(); that the     *)
(* device believes to be where its shell is, that it leaves no connection     *)
(* open, and that it returns to the state it is to keep: for every device,   *)
(* every set of states asked for and any number of calls and of failures     *)
(* (DeviceStates).                                                          *)
(***************************************************************************)
EXTENDS DeviceStates, TLAPS

USE DEF histories

Shape ==
    /\ DOMAIN walk = Walkers
    /\ \A t \in Walkers : "pc" \in DOMAIN walk[t]

\* The background thread keeps _goto_state_thread_manipulation_lock for its walk, and nobody
\* keeps that lock for longer than a step otherwise.
BgHoldsBoth ==
    /\ manipulator \in {NoThread, BG}
    /\ manipulator = BG <=> Walking(BG)

LockInv ==
    /\ Shape
    /\ holder \in Walkers \cup {NoThread}
    /\ OneWalk
    /\ BgHoldsBoth
    /\ RequestIsServed

Locks == <<holder, manipulator>>

LEMMA LockInit == ASSUME Init PROVE LockInv
BY DEF Init, LockInv, Shape, OneWalk, BgHoldsBoth, RequestIsServed, Walking, Outside, Walkers,
       Idle, USER, BG, NoThread

\* What the locks are told apart by does not change.
LEMMA LocksUntouched ==
    ASSUME LockInv, UNCHANGED <<walk, holder, manipulator>>, RequestIsServed'
    PROVE  LockInv'
BY DEF LockInv, Shape, OneWalk, BgHoldsBoth, Walking

\* A step inside a walk, or outside of one.
LEMMA LocksKept ==
    ASSUME LockInv, UNCHANGED Locks, RequestIsServed',
           NEW t \in Walkers, NEW w, "pc" \in DOMAIN w, walk' = [walk EXCEPT ![t] = w],
           walk[t].pc \in Outside <=> w.pc \in Outside
    PROVE  LockInv'
<1>1. Shape'
  BY DEF LockInv, Shape
<1>2. \A u \in Walkers : Walking(u)' <=> Walking(u)
  BY DEF LockInv, Shape, Walking, Outside
<1> QED
  BY <1>1, <1>2 DEF LockInv, OneWalk, BgHoldsBoth, Locks, Walkers

\* A walk begins: nobody held the lock.
LEMMA LocksTaken ==
    ASSUME LockInv, RequestIsServed', holder = NoThread,
           NEW t \in Walkers, NEW w, "pc" \in DOMAIN w, walk' = [walk EXCEPT ![t] = w],
           w.pc \notin Outside, holder' = t,
           manipulator' = IF t = BG THEN BG ELSE manipulator
    PROVE  LockInv'
<1>1. Shape'
  BY DEF LockInv, Shape
<1>2. \A u \in Walkers : ~Walking(u)
  BY DEF LockInv, OneWalk, Walking, Walkers, USER, BG, NoThread
<1>3. \A u \in Walkers : Walking(u)' <=> u = t
  BY <1>2 DEF LockInv, Shape, Walking, Outside
<1> QED
  BY <1>1, <1>2, <1>3 DEF LockInv, OneWalk, BgHoldsBoth, Walkers, USER, BG, NoThread

\* A walk ends: nobody holds the lock.
LEMMA LocksLeft ==
    ASSUME LockInv, RequestIsServed',
           NEW t \in Walkers, NEW result, walk[t].pc \notin Outside, Leave(t, result)
    PROVE  LockInv'
<1>1. PICK w : walk' = [walk EXCEPT ![t] = w] /\ "pc" \in DOMAIN w /\ w.pc \in Outside
  <2> DEFINE pc == IF result = "raised" /\ walk[t].removing THEN "removes" ELSE "idle"
             w == [walk[t] EXCEPT !.result = result, !.pc = pc]
  <2>1. walk' = [walk EXCEPT ![t] = w]
    BY DEF Leave
  <2>2. pc \in Outside
    BY DEF Outside
  <2>3. "pc" \in DOMAIN walk[t]
    BY DEF LockInv, Shape
  <2> HIDE DEF pc
  <2>4. "pc" \in DOMAIN w /\ w.pc = pc
    BY <2>3
  <2> HIDE DEF w
  <2> QED
    BY <2>1, <2>2, <2>4
<1>2. Shape'
  BY <1>1 DEF LockInv, Shape
<1>3. \A u \in Walkers : ~Walking(u)'
  <2>1. holder = t
    BY DEF LockInv, OneWalk, Walking, Outside
  <2>2. \A u \in Walkers \ {t} : ~Walking(u)
    BY <2>1 DEF LockInv, OneWalk
  <2> QED
    BY <1>1, <2>2 DEF LockInv, Shape, Walking, Outside
<1>4. holder' = NoThread /\ manipulator' = IF t = BG THEN NoThread ELSE manipulator
  BY DEF Leave
<1>5. manipulator' = NoThread
  <2>1. t # BG => ~Walking(BG)
    BY DEF LockInv, OneWalk, Walking, Outside, Walkers
  <2> QED
    BY <1>4, <2>1 DEF LockInv, BgHoldsBoth, NoThread, BG
<1> QED
  BY <1>2, <1>3, <1>4, <1>5 DEF LockInv, OneWalk, BgHoldsBoth, Walkers, USER, BG, NoThread

LEMMA Served ==
    ASSUME LockInv, UNCHANGED <<requests, bg>>
    PROVE  RequestIsServed'
BY DEF LockInv, RequestIsServed

\* A step within a walk that says where the walk is next.
LEMMA AtKeeps ==
    ASSUME LockInv, UNCHANGED <<requests, bg, holder, manipulator>>,
           NEW t \in Walkers, NEW pc, walk[t].pc \in Outside <=> pc \in Outside, At(t, pc)
    PROVE  LockInv'
<1> DEFINE w == [walk[t] EXCEPT !.pc = pc]
<1>1. walk' = [walk EXCEPT ![t] = w]
  BY DEF At
<1>2. "pc" \in DOMAIN w /\ w.pc = pc
  BY DEF LockInv, Shape
<1> HIDE DEF w
<1> QED
  BY <1>1, <1>2, Served, LocksKept DEF Locks

\* The steps of a walk, each under the lock.
LEMMA WalkKeeps ==
    ASSUME LockInv, NEW t \in Walkers, Walk(t)
    PROVE  LockInv'
<1>shape. "pc" \in DOMAIN walk[t]
  BY DEF LockInv, Shape
<1>1. CASE Choose(t)
  <2> DEFINE next == Hop(Tabled, state, walk[t].dest)
             w == [walk[t] EXCEPT !.pc = "try", !.next = next, !.tries = 0]
  <2>1. RequestIsServed'
    BY <1>1, Served DEF Choose
  <2>2. walk[t].pc \notin Outside
    BY <1>1 DEF Choose, Outside
  <2>3. CASE walk' = [walk EXCEPT ![t] = w] /\ UNCHANGED Locks
    <3>1. "pc" \in DOMAIN w /\ w.pc = "try"
      BY <1>shape
    <3>2. w.pc \notin Outside
      BY <3>1 DEF Outside
    <3> HIDE DEF w
    <3> QED
      BY <2>1, <2>2, <2>3, <3>1, <3>2, LocksKept
  <2>4. CASE Leave(t, "raised")
    BY <2>1, <2>2, <2>4, LocksLeft
  <2> QED
    BY <1>1, <2>3, <2>4 DEF Choose, Locks
<1>2. CASE Arrive(t)
  <2> DEFINE w == [walk[t] EXCEPT !.pc = "sleep", !.result = "arrived"]
  <2>1. walk' = [walk EXCEPT ![t] = w] /\ UNCHANGED Locks /\ RequestIsServed'
    BY <1>2, Served DEF Arrive, Locks
  <2>2. "pc" \in DOMAIN w /\ w.pc = "sleep" /\ walk[t].pc = "choose"
    BY <1>shape, <1>2 DEF Arrive
  <2> HIDE DEF w
  <2> QED
    BY <2>1, <2>2, LocksKept DEF Outside
<1>3. CASE TimeIsOver(t)
  <2> DEFINE w == [walk[t] EXCEPT !.pc = "sleep", !.result = "late"]
  <2>1. walk' = [walk EXCEPT ![t] = w] /\ UNCHANGED Locks /\ RequestIsServed'
    BY <1>3, Served DEF TimeIsOver, Locks
  <2>2. "pc" \in DOMAIN w /\ w.pc = "sleep" /\ walk[t].pc = "choose"
    BY <1>shape, <1>3 DEF TimeIsOver
  <2> HIDE DEF w
  <2> QED
    BY <2>1, <2>2, LocksKept DEF Outside
<1>4. CASE Return(t)
  BY <1>4, Served, LocksLeft DEF Return, Outside
<1>5. CASE NothingToTry(t)
  BY <1>5, AtKeeps DEF NothingToTry, Outside
<1>6. CASE NoTransition(t)
  BY <1>6, AtKeeps DEF NoTransition, Try, Outside
<1>7. CASE OpenConnection(t)
  BY <1>7, AtKeeps DEF OpenConnection, Try, Outside
<1>8. CASE CloseConnection(t)
  BY <1>8, AtKeeps DEF CloseConnection, Try, Outside
<1>9. CASE Closed(t)
  BY <1>9, AtKeeps DEF Closed, Outside
<1>10. CASE MakeCommand(t)
  <2> DEFINE w == [walk[t] EXCEPT !.pc = "start", !.source = state]
  <2>1. walk' = [walk EXCEPT ![t] = w] /\ UNCHANGED Locks /\ RequestIsServed'
    BY <1>10, Served DEF MakeCommand, Locks
  <2>2. "pc" \in DOMAIN w /\ w.pc = "start" /\ walk[t].pc = "try"
    BY <1>shape, <1>10 DEF MakeCommand, Try
  <2> HIDE DEF w
  <2> QED
    BY <2>1, <2>2, LocksKept DEF Outside
<1>11. CASE StartCommand(t)
  BY <1>11, AtKeeps DEF StartCommand, Outside
<1>12. CASE CommandDone(t)
  BY <1>12, AtKeeps DEF CommandDone, Outside
<1>13. CASE CommandFails(t)
  BY <1>13, AtKeeps DEF CommandFails, Outside
<1>14. CASE CommandSlow(t)
  BY <1>14, AtKeeps DEF CommandSlow, Outside
<1>15. CASE Enter(t)
  BY <1>15, AtKeeps DEF Enter, Outside
<1>16. CASE Failed(t)
  <2> DEFINE tries == IF state = walk[t].next THEN walk[t].tries ELSE walk[t].tries + 1
             w == [walk[t] EXCEPT !.pc = "try", !.tries = tries]
  <2>1. RequestIsServed'
    BY <1>16, Served DEF Failed
  <2>2. walk[t].pc = "failed" /\ walk[t].pc \notin Outside
    BY <1>16 DEF Failed, Outside
  <2>3. CASE walk' = [walk EXCEPT ![t] = w] /\ UNCHANGED Locks
    <3>1. "pc" \in DOMAIN w /\ w.pc = "try"
      BY <1>shape
    <3>2. w.pc \notin Outside
      BY <3>1 DEF Outside
    <3> HIDE DEF w
    <3> QED
      BY <2>1, <2>2, <2>3, <3>1, <3>2, LocksKept
  <2>4. CASE Leave(t, "raised")
    BY <2>1, <2>2, <2>4, LocksLeft
  <2> QED
    BY <1>16, <2>3, <2>4 DEF Failed, Locks
<1>17. CASE RecoverState(t)
  BY <1>17, LocksUntouched DEF RecoverState, Put, RequestIsServed
<1>18. CASE Opened(t)
  BY <1>18, AtKeeps DEF Opened, Outside
<1>19. ASSUME NEW s, CommandElsewhere(t, s) PROVE LockInv'
  <2>1. walk[t].pc \notin Outside /\ \E pc \in {"enter", "failed"} : At(t, pc)
    BY <1>19 DEF CommandElsewhere, Outside
  <2>2. PICK pc : At(t, pc) /\ pc \notin Outside
    BY <2>1 DEF Outside
  <2> QED
    BY <1>19, <2>1, <2>2, AtKeeps DEF CommandElsewhere
<1> QED
  BY <1>1, <1>2, <1>3, <1>4, <1>5, <1>6, <1>7, <1>8, <1>9, <1>10, <1>11, <1>12, <1>13, <1>14,
     <1>15, <1>16, <1>17, <1>18, <1>19 DEF Walk, CrossEdge

\* The other steps of the caller of goto_state() and remove().
LEMMA UserKeeps ==
    ASSUME LockInv, User \/ Calls
    PROVE  LockInv'
<1>user. USER \in Walkers /\ "pc" \in DOMAIN walk[USER] /\ USER # BG
  BY DEF LockInv, Shape, Walkers, USER, BG
<1>1. CASE TakeLock
  <2> DEFINE w == [walk[USER] EXCEPT !.pc = "choose"]
  <2>1. /\ walk' = [walk EXCEPT ![USER] = w]
        /\ holder = NoThread /\ holder' = USER /\ manipulator' = manipulator
    BY <1>1 DEF TakeLock
  <2>2. "pc" \in DOMAIN w /\ w.pc = "choose"
    BY <1>user
  <2>3. RequestIsServed'
    BY <1>1, Served DEF TakeLock
  <2> HIDE DEF w
  <2> QED
    BY <1>user, <2>1, <2>2, <2>3, LocksTaken DEF Outside
<1>2. CASE Walk(USER)
  BY <1>2, <1>user, WalkKeeps
<1>3. CASE RemoveCloses
  BY <1>3, <1>user, AtKeeps DEF RemoveCloses, Outside
<1>4. CASE Removed
  BY <1>4, <1>user, AtKeeps DEF Removed, Outside
<1>5. ASSUME NEW dest, NEW keep, NEW timed, NEW rerun, NEW removing,
             GotoState(dest, keep, timed, rerun, removing)
      PROVE  LockInv'
  <2> DEFINE w == [Idle EXCEPT !.pc = "connects", !.dest = dest, !.keep = keep,
                      !.timed = timed, !.rerun = rerun, !.removing = removing]
  <2>1. walk' = [walk EXCEPT ![USER] = w]
    BY <1>5 DEF GotoState
  <2>2. "pc" \in DOMAIN w /\ w.pc = "connects"
    BY DEF Idle
  <2>3. walk[USER].pc = "idle" /\ UNCHANGED Locks /\ RequestIsServed'
    BY <1>5, Served DEF GotoState, Locks
  <2> HIDE DEF w
  <2> QED
    BY <1>user, <2>1, <2>2, <2>3, LocksKept DEF Outside
<1>6. ASSUME NEW s, NEW keep, GotoStateBg(s, keep) PROVE LockInv'
  BY <1>6, LocksUntouched DEF GotoStateBg, Put, RequestIsServed
<1>7. CASE Connect \/ Connected \/ Look \/ KeepHere
  <2>1. PICK pc \in {"connecting", "looks", "waits", "keeps", "idle"} : At(USER, pc)
    BY <1>7 DEF Connect, Connected, Look, KeepHere
  <2>2. walk[USER].pc \in Outside /\ pc \in Outside
    BY <1>7 DEF Connect, Connected, Look, KeepHere, Outside
  <2>3. UNCHANGED <<requests, bg, holder, manipulator>>
    BY <1>7 DEF Connect, Connected, Look, KeepHere
  <2> QED
    BY <1>user, <2>1, <2>2, <2>3, AtKeeps
<1> QED
  BY <1>1, <1>2, <1>3, <1>4, <1>5, <1>6, <1>7 DEF User, Calls

\* The other steps of the background thread.
LEMMA BackgroundKeeps ==
    ASSUME LockInv, Background
    PROVE  LockInv'
<1>bg. BG \in Walkers
  BY DEF Walkers
<1>1. CASE BgTake
  <2>1. RequestIsServed'
    BY <1>1 DEF BgTake, RequestIsServed
  <2>2. CASE holder = NoThread
    <3> DEFINE w == [Idle EXCEPT !.pc = "choose", !.timed = TRUE,
                        !.dest = Head(requests).dest, !.keep = Head(requests).keep]
    <3>1. walk' = [walk EXCEPT ![BG] = w] /\ holder' = BG /\ manipulator' = BG
      BY <1>1, <2>2 DEF BgTake
    <3>2. "pc" \in DOMAIN w /\ w.pc = "choose"
      BY DEF Idle
    <3> HIDE DEF w
    <3> QED
      BY <1>bg, <2>1, <2>2, <3>1, <3>2, LocksTaken DEF Outside
  <2>3. CASE holder # NoThread
    BY <1>1, <2>1, <2>3, LocksUntouched DEF BgTake
  <2> QED
    BY <2>2, <2>3
<1>2. CASE BgStop
  BY <1>2, LocksUntouched DEF BgStop, RequestIsServed
<1>3. CASE Walk(BG)
  BY <1>3, <1>bg, WalkKeeps
<1> QED
  BY <1>1, <1>2, <1>3 DEF Background

LEMMA LockNext == ASSUME LockInv, [Next]_vars PROVE LockInv'
<1>1. CASE User \/ Calls
  BY <1>1, UserKeeps
<1>2. CASE Background
  BY <1>2, BackgroundKeeps
<1>3. ASSUME NEW t, RecoverState(t) PROVE LockInv'
  BY <1>3, LocksUntouched DEF RecoverState, Put, RequestIsServed
<1>4. CASE PromptShown
  BY <1>4, Served, LocksUntouched DEF PromptShown
<1>5. CASE PromptSetsState
  BY <1>5, Served, LocksUntouched DEF PromptSetsState
<1>6. CASE ConnectionLost
  BY <1>6, Served, LocksUntouched DEF ConnectionLost
<1>7. ASSUME NEW s, Kick(s) PROVE LockInv'
  BY <1>7, Served, LocksUntouched DEF Kick
<1>8. CASE UNCHANGED vars
  BY <1>8, Served, LocksUntouched DEF vars
<1> QED
  BY <1>1, <1>2, <1>3, <1>4, <1>5, <1>6, <1>7, <1>8 DEF Next, Prompts, Reader, FarEnd

LEMMA LockAlways == Spec => []LockInv
BY LockInit, LockNext, PTL DEF Spec

\* However the giving up of the background thread falls between the put of a request and the look
\* for a thread (_goto_state_bg_put, _goto_state_thread): a request never lies in the queue with
\* nobody to take it, for any number of requests.
THEOREM EveryRequestIsServed == Spec => []RequestIsServed
BY LockAlways, PTL DEF LockInv

\* The walks of the caller's thread and of the background thread never overlap (_goto_state_lock),
\* with any number of calls, failures and losses of the connection.
THEOREM OneWalkAtATime == Spec => []OneWalk
BY LockAlways, PTL DEF LockInv

-----------------------------------------------------------------------------
(* Of what kind the state is.                                               *)

\* The shells that a prompt can tell, on some device, and all that a variable can name.
Places == UNION {StatesOf[d] : d \in Devices}
Prompted == UNION {DOMAIN Tables[d].prompts \cup {BaseState(d)} : d \in Devices}
Shells == Places \cup Prompted \cup {NOT_CONNECTED, Nowhere}

Pcs == Outside \cup {"choose", "sleep", "try", "opens", "closes", "start", "running", "enter",
                      "failed"}
Walks == [pc : Pcs, dest : Shells, keep : BOOLEAN, timed : BOOLEAN, rerun : {0, RemoveRerun},
          removing : BOOLEAN, next : Shells, source : Shells, tries : Nat,
          result : {"none", "arrived", "late", "raised"}]
Requests == [dest : Shells, keep : BOOLEAN]

Types ==
    /\ device \in Devices
    /\ state \in Shells
    /\ actual \in Shells
    /\ established \in BOOLEAN
    /\ kept \in Shells
    /\ requests \in Seq(Requests)
    /\ bg \in BOOLEAN
    /\ walk \in [Walkers -> Walks]
    /\ owed \in [Threads -> Shells]
    /\ shown \in Seq(Prompted)
    /\ seen \in Prompted \cup {Nowhere}

LEMMA EmptySeq == \A S : <<>> \in Seq(S)
OBVIOUS

LEMMA Strangers == NOT_CONNECTED \notin Prompted /\ Nowhere \notin Prompted
BY TablesAreSound DEF Prompted

LEMMA TriggersAreStates == ASSUME device \in Devices PROVE Triggers \subseteq States
BY DEF Triggers, States, TriggersOf, StatesOf

LEMMA OfDevice ==
    ASSUME device \in Devices
    PROVE  /\ States \subseteq Shells /\ Triggers \subseteq Shells
           /\ Recognised \subseteq Prompted /\ BaseState(device) \in Prompted
           /\ Prompted \subseteq Shells
           /\ NOT_CONNECTED \in Shells /\ Nowhere \in Shells
<1>1. States \subseteq Places
  BY DEF States, Places
<1>2. Triggers \subseteq States
  BY TriggersAreStates
<1>3. Recognised \subseteq Prompted /\ BaseState(device) \in Recognised
  BY DEF Recognised, Prompted, Tabled
<1> QED
  BY <1>1, <1>2, <1>3 DEF Shells

\* What an edge that is tried is like.
LEMMA OfEdges ==
    ASSUME device \in Devices, NEW t \in Walkers, NEW kind, Try(t, kind)
    PROVE  /\ kind = "open" => state = NOT_CONNECTED /\ walk[t].next = BaseState(device)
           /\ kind = "close" => walk[t].next = NOT_CONNECTED
           /\ kind = "command" => <<state, walk[t].next>> \in DOMAIN Tabled.commands
<1> DEFINE edge == <<state, walk[t].next>>
           edges == Tabled.transitions
<1>1. kind # "none" => edge \in DOMAIN edges /\ edges[edge] = kind
  BY DEF Try
<1>2. \A e \in DOMAIN edges :
        /\ edges[e] = "open" => e = <<NOT_CONNECTED, BaseState(device)>>
        /\ edges[e] = "close" => e[2] = NOT_CONNECTED
        /\ edges[e] = "command" => e \in DOMAIN Tabled.commands
  BY TablesAreSound DEF Tabled
<1> QED
  BY <1>1, <1>2

LEMMA OfCommands ==
    ASSUME device \in Devices, NEW from, NEW to, <<from, to>> \in DOMAIN Tabled.commands
    PROVE  /\ from \in Recognised /\ to \in Recognised
           /\ from \notin {NOT_CONNECTED, Nowhere} /\ to \notin {NOT_CONNECTED, Nowhere}
BY TablesAreSound DEF Tabled, Recognised

\* A step within a walk that only says where the walk is next.
LEMMA AtTypes ==
    ASSUME Types, NEW t \in Walkers, NEW pc \in Pcs, At(t, pc)
    PROVE  /\ walk' \in [Walkers -> Walks]
           /\ walk'[t].pc = pc
           /\ walk'[t].next = walk[t].next /\ walk'[t].source = walk[t].source
           /\ walk'[t].dest = walk[t].dest /\ walk'[t].keep = walk[t].keep
           /\ walk'[t].removing = walk[t].removing /\ walk'[t].timed = walk[t].timed
           /\ walk'[t].result = walk[t].result
           /\ \A u \in Walkers \ {t} : walk'[u] = walk[u]
<1>1. walk[t] \in Walks
  BY DEF Types
<1>2. [walk[t] EXCEPT !.pc = pc] \in Walks
  BY <1>1 DEF Walks
<1> QED
  BY <1>1, <1>2 DEF Types, At, Walks

LEMMA SetStateTypes ==
    ASSUME Types, NEW t \in Threads, NEW s \in Shells, SetState(t, s)
    PROVE  state' \in Shells /\ owed' \in [Threads -> Shells]
<1>1. Nowhere \in Shells
  BY DEF Shells
<1> QED
  BY <1>1 DEF Types, SetState

LEMMA LeaveTypes ==
    ASSUME Types, NEW t \in Walkers, NEW result \in {"none", "arrived", "late", "raised"},
           Leave(t, result)
    PROVE  /\ walk' \in [Walkers -> Walks]
           /\ walk'[t].pc = IF result = "raised" /\ walk[t].removing THEN "removes" ELSE "idle"
           /\ walk'[t].next = walk[t].next /\ walk'[t].source = walk[t].source
           /\ walk'[t].dest = walk[t].dest /\ walk'[t].keep = walk[t].keep
           /\ walk'[t].removing = walk[t].removing /\ walk'[t].timed = walk[t].timed
           /\ \A u \in Walkers \ {t} : walk'[u] = walk[u]
<1> DEFINE pc == IF result = "raised" /\ walk[t].removing THEN "removes" ELSE "idle"
<1>1. walk[t] \in Walks /\ pc \in Pcs
  BY DEF Types, Pcs, Outside
<1>2. walk' = [walk EXCEPT ![t] = [@ EXCEPT !.result = result, !.pc = pc]]
  BY DEF Leave
<1> HIDE DEF pc
<1>3. [walk[t] EXCEPT !.result = result, !.pc = pc] \in Walks
  BY <1>1 DEF Walks
<1>4. /\ walk' \in [Walkers -> Walks]
      /\ walk'[t] = [walk[t] EXCEPT !.result = result, !.pc = pc]
      /\ \A u \in Walkers \ {t} : walk'[u] = walk[u]
  BY <1>2, <1>3 DEF Types
<1>5. walk'[t].pc = pc
  BY <1>1, <1>4 DEF Walks
<1> QED
  BY <1>1, <1>4, <1>5 DEF Walks, pc

LEMMA TypesInit == ASSUME Init PROVE Types
<1> USE DEF Init
<1>1. device \in Devices
  OBVIOUS
<1>2. NOT_CONNECTED \in Shells /\ Nowhere \in Shells
  BY DEF Shells
<1>3. Idle \in Walks
  BY <1>2 DEF Idle, Walks, Pcs, Outside
<1>4. walk \in [Walkers -> Walks] /\ owed \in [Threads -> Shells]
  BY <1>2, <1>3
<1>5. requests \in Seq(Requests) /\ shown \in Seq(Prompted)
  BY EmptySeq
<1>6. state \in Shells /\ actual \in Shells /\ kept \in Shells /\ seen \in Prompted \cup {Nowhere}
  BY <1>2
<1>7. established \in BOOLEAN /\ bg \in BOOLEAN
  OBVIOUS
<1> QED
  BY <1>1, <1>4, <1>5, <1>6, <1>7 DEF Types

LEMMA WalkTypes ==
    ASSUME Types, NEW t \in Walkers, Walk(t)
    PROVE  Types'
<1>t. t \in Threads
  BY DEF Walkers, Threads
<1>w. walk[t] \in Walks
  BY DEF Types
<1>s. /\ NOT_CONNECTED \in Shells /\ Nowhere \in Shells /\ BaseState(device) \in Shells
      /\ Triggers \subseteq Shells
  BY OfDevice DEF Types
<1>1. CASE Choose(t)
  <2> DEFINE next == Hop(Tabled, state, walk[t].dest)
  <2>1. CASE next \in Triggers
    <3>1. next \in Shells
      BY <1>s, <2>1
    <3>2. walk' = [walk EXCEPT ![t] = [@ EXCEPT !.pc = "try", !.next = next, !.tries = 0]]
      BY <1>1, <2>1 DEF Choose
    <3> HIDE DEF next
    <3>3. [walk[t] EXCEPT !.pc = "try", !.next = next, !.tries = 0] \in Walks
      BY <1>w, <3>1 DEF Walks, Pcs, Outside
    <3>4. walk' \in [Walkers -> Walks]
      BY <3>2, <3>3 DEF Types
    <3> QED
      BY <1>1, <3>4 DEF Types, Choose
  <2>2. CASE next \notin Triggers
    <3>1. walk' \in [Walkers -> Walks]
      BY <1>1, <2>2, LeaveTypes DEF Choose
    <3> QED
      BY <1>1, <3>1 DEF Types, Choose
  <2> QED
    BY <2>1, <2>2
<1>2. CASE Arrive(t) \/ TimeIsOver(t)
  <2>1. PICK result \in {"arrived", "late"} :
            walk' = [walk EXCEPT ![t] = [@ EXCEPT !.pc = "sleep", !.result = result]]
    BY <1>2 DEF Arrive, TimeIsOver
  <2>2. [walk[t] EXCEPT !.pc = "sleep", !.result = result] \in Walks
    BY <1>w DEF Walks, Pcs, Outside
  <2>3. walk' \in [Walkers -> Walks]
    BY <2>1, <2>2 DEF Types
  <2> QED
    BY <1>2, <2>3 DEF Types, Arrive, TimeIsOver
<1>3. CASE Return(t)
  <2>1. walk' \in [Walkers -> Walks]
    BY <1>3, <1>w, LeaveTypes DEF Return, Walks
  <2>2. kept' \in Shells
    BY <1>3, <1>w DEF Return, Keep, Types, Walks
  <2> QED
    BY <1>3, <2>1, <2>2 DEF Types, Return
<1>4. CASE NothingToTry(t) \/ NoTransition(t) \/ StartCommand(t) \/ CommandFails(t)
  <2>1. \E pc \in {"choose", "failed", "running"} : At(t, pc)
    BY <1>4 DEF NothingToTry, NoTransition, StartCommand, CommandFails
  <2>2. walk' \in [Walkers -> Walks]
    BY <2>1, AtTypes DEF Pcs, Outside
  <2> QED
    BY <1>4, <2>2 DEF Types, NothingToTry, NoTransition, StartCommand, CommandFails
<1>5. CASE OpenConnection(t)
  <2>1. \E pc \in {"enter", "opens"} : At(t, pc)
    BY <1>5 DEF OpenConnection
  <2>2. walk' \in [Walkers -> Walks]
    BY <2>1, AtTypes DEF Pcs, Outside
  <2>3. state' \in Shells /\ owed' \in [Threads -> Shells]
    BY <1>5, <1>t, <1>s, SetStateTypes DEF OpenConnection, Types
  <2>4. actual' \in Shells /\ shown' \in Seq(Prompted)
    <3>1. shown' = shown \/ shown' = <<>>
      BY <1>5 DEF OpenConnection
    <3>2. actual' = actual \/ actual' = BaseState(device)
      BY <1>5 DEF OpenConnection
    <3>3. shown' \in Seq(Prompted)
      BY <3>1, EmptySeq DEF Types
    <3> QED
      BY <1>s, <3>2, <3>3 DEF Types
  <2> QED
    BY <1>5, <2>2, <2>3, <2>4 DEF Types, OpenConnection
<1>6. CASE Opened(t) \/ Closed(t)
  <2>1. walk' \in [Walkers -> Walks]
    BY <1>6, AtTypes DEF Pcs, Outside, Opened, Closed
  <2> QED
    BY <1>6, <2>1 DEF Types, Opened, Closed
<1>7. CASE CloseConnection(t)
  <2>1. walk' \in [Walkers -> Walks]
    BY <1>7, AtTypes DEF Pcs, Outside, CloseConnection
  <2>2. state' \in Shells /\ owed' \in [Threads -> Shells]
    BY <1>7, <1>t, <1>s, SetStateTypes DEF CloseConnection, CloseIo, Types
  <2>3. actual' \in Shells /\ shown' \in Seq(Prompted)
    BY <1>7, <1>s DEF CloseConnection, CloseIo
  <2> QED
    BY <1>7, <2>1, <2>2, <2>3 DEF Types, CloseConnection
<1>8. CASE MakeCommand(t)
  <2>1. walk' = [walk EXCEPT ![t] = [@ EXCEPT !.pc = "start", !.source = state]]
    BY <1>8 DEF MakeCommand
  <2>2. [walk[t] EXCEPT !.pc = "start", !.source = state] \in Walks
    BY <1>w DEF Walks, Pcs, Outside, Types
  <2>3. walk' \in [Walkers -> Walks]
    BY <2>1, <2>2 DEF Types
  <2> QED
    BY <1>8, <2>3 DEF Types, MakeCommand
<1>9. CASE CommandDone(t) \/ CommandSlow(t)
  <2>1. \E pc \in {"enter", "failed"} : At(t, pc)
    BY <1>9 DEF CommandDone, CommandSlow
  <2>2. walk' \in [Walkers -> Walks]
    BY <2>1, AtTypes DEF Pcs, Outside
  <2>3. Show(walk[t].next) \in Seq(Prompted)
    BY OfDevice DEF Show, Types
  <2>4. actual' \in Shells /\ shown' \in Seq(Prompted)
    BY <1>9, <1>w, <2>3 DEF CommandDone, CommandSlow, Types, Walks
  <2> QED
    BY <1>9, <2>2, <2>4 DEF Types, CommandDone, CommandSlow
<1>10. CASE Enter(t)
  <2>1. walk' \in [Walkers -> Walks] /\ state' \in Shells
    BY <1>10, <1>w, AtTypes DEF Pcs, Outside, Enter, Walks
  <2> QED
    BY <1>10, <2>1 DEF Types, Enter
<1>11. CASE Failed(t)
  <2> DEFINE tries == IF state = walk[t].next THEN walk[t].tries ELSE walk[t].tries + 1
  <2>1. CASE walk' = [walk EXCEPT ![t] = [@ EXCEPT !.pc = "try", !.tries = tries]]
    <3>1. walk[t].tries \in Nat
      BY <1>w DEF Walks
    <3>2. tries \in Nat
      BY <3>1
    <3> HIDE DEF tries
    <3>3. [walk[t] EXCEPT !.pc = "try", !.tries = tries] \in Walks
      BY <1>w, <3>2 DEF Walks, Pcs, Outside
    <3>4. walk' \in [Walkers -> Walks]
      BY <2>1, <3>3 DEF Types
    <3> QED
      BY <1>11, <3>4 DEF Types, Failed
  <2>2. CASE Leave(t, "raised")
    <3>1. walk' \in [Walkers -> Walks]
      BY <2>2, LeaveTypes
    <3> QED
      BY <1>11, <3>1 DEF Types, Failed
  <2> QED
    BY <1>11, <2>1, <2>2 DEF Failed
<1>12. CASE RecoverState(t)
  <2>1. [dest |-> owed[t], keep |-> TRUE] \in Requests
    BY <1>t DEF Types, Requests
  <2>2. requests' \in Seq(Requests)
    BY <1>12, <2>1 DEF Types, RecoverState, Put
  <2>3. owed' \in [Threads -> Shells] /\ bg' \in BOOLEAN
    BY <1>12, <1>s DEF Types, RecoverState, Put
  <2> QED
    BY <1>12, <2>2, <2>3 DEF Types, RecoverState
<1>13. ASSUME NEW s \in States, CommandElsewhere(t, s) PROVE Types'
  <2>1. \E pc \in {"enter", "failed"} : At(t, pc)
    BY <1>13 DEF CommandElsewhere
  <2>2. walk' \in [Walkers -> Walks]
    BY <2>1, AtTypes DEF Pcs
  <2>3. Show(s) \in Seq(Prompted) /\ s \in Shells
    BY OfDevice DEF Show, Types
  <2>4. actual' \in Shells /\ shown' \in Seq(Prompted)
    BY <1>13, <2>3 DEF CommandElsewhere, Types
  <2> QED
    BY <1>13, <2>2, <2>4 DEF Types, CommandElsewhere
<1> QED
  BY <1>1, <1>2, <1>3, <1>4, <1>5, <1>6, <1>7, <1>8, <1>9, <1>10, <1>11, <1>12, <1>13
  DEF Walk, CrossEdge

LEMMA OtherTypes ==
    ASSUME Types, [Next]_vars, ~\E t \in Walkers : Walk(t)
    PROVE  Types'
<1>s. /\ NOT_CONNECTED \in Shells /\ Nowhere \in Shells /\ BaseState(device) \in Shells
      /\ States \subseteq Shells /\ Prompted \subseteq Shells
  BY OfDevice DEF Types
<1>t. USER \in Walkers /\ BG \in Walkers /\ Walkers \subseteq Threads
      /\ EVENTS \in Threads /\ READER \in Threads
  BY DEF Walkers, Threads
<1>1. CASE TakeLock \/ Removed
  <2>1. walk' \in [Walkers -> Walks]
    <3>1. \E pc \in {"choose", "idle"} : At(USER, pc)
      BY <1>1 DEF TakeLock, Removed, At
    <3> QED
      BY <1>t, <3>1, AtTypes DEF Pcs, Outside
  <2> QED
    BY <1>1, <2>1 DEF Types, TakeLock, Removed
<1>2. CASE RemoveCloses
  <2>1. walk' \in [Walkers -> Walks]
    BY <1>2, <1>t, AtTypes DEF Pcs, Outside, RemoveCloses
  <2>2. state' \in Shells /\ owed' \in [Threads -> Shells]
    BY <1>2, <1>t, <1>s, SetStateTypes DEF RemoveCloses, CloseIo, Types
  <2>3. actual' \in Shells /\ shown' \in Seq(Prompted)
    BY <1>2, <1>s DEF RemoveCloses, CloseIo
  <2> QED
    BY <1>2, <2>1, <2>2, <2>3 DEF Types, RemoveCloses
<1>3. CASE BgTake
  <2>1. requests' \in Seq(Requests)
    BY <1>3 DEF BgTake, Types
  <2>2. Head(requests) \in Requests
    BY <1>3 DEF BgTake, Types
  <2>3. walk' \in [Walkers -> Walks]
    <3> DEFINE w == [Idle EXCEPT !.pc = "choose", !.timed = TRUE,
                        !.dest = Head(requests).dest, !.keep = Head(requests).keep]
    <3>1. walk' = walk \/ walk' = [walk EXCEPT ![BG] = w]
      BY <1>3 DEF BgTake
    <3>2. Idle \in Walks
      BY <1>s DEF Idle, Walks, Pcs, Outside
    <3>3. w \in Walks
      BY <2>2, <3>2 DEF Walks, Pcs, Outside, Requests
    <3> QED
      BY <1>t, <3>1, <3>3 DEF Types
  <2> QED
    BY <1>3, <2>1, <2>3 DEF Types, BgTake
<1>4. CASE BgStop
  BY <1>4 DEF Types, BgStop
<1>5. CASE PromptShown
  <2>1. shown' \in Seq(Prompted) /\ seen' \in Prompted \cup {Nowhere}
    BY <1>5 DEF PromptShown, Types
  <2> QED
    BY <1>5, <2>1 DEF Types, PromptShown
<1>6. CASE PromptSetsState
  <2>1. state' \in Shells /\ owed' \in [Threads -> Shells]
    BY <1>6, <1>t, <1>s, SetStateTypes DEF PromptSetsState, Types
  <2> QED
    BY <1>6, <2>1 DEF Types, PromptSetsState
<1>7. ASSUME NEW t \in Threads, RecoverState(t) PROVE Types'
  <2>1. [dest |-> owed[t], keep |-> TRUE] \in Requests
    BY DEF Types, Requests
  <2>2. requests' \in Seq(Requests)
    BY <1>7, <2>1 DEF Types, RecoverState, Put
  <2>3. owed' \in [Threads -> Shells] /\ bg' \in BOOLEAN
    BY <1>7, <1>s DEF Types, RecoverState, Put
  <2> QED
    BY <1>7, <2>2, <2>3 DEF Types, RecoverState
<1>8. ASSUME NEW dest \in Shells, NEW keep \in BOOLEAN, NEW timed \in BOOLEAN,
             NEW rerun \in {0, RemoveRerun}, NEW removing \in BOOLEAN,
             GotoState(dest, keep, timed, rerun, removing)
      PROVE  Types'
  <2> DEFINE w == [Idle EXCEPT !.pc = "connects", !.dest = dest, !.keep = keep,
                      !.timed = timed, !.rerun = rerun, !.removing = removing]
  <2>1. w \in Walks
    <3>1. Idle \in Walks
      BY <1>s DEF Idle, Walks, Pcs, Outside
    <3> QED
      BY <3>1 DEF Walks, Pcs, Outside
  <2>2. walk' = [walk EXCEPT ![USER] = w]
    BY <1>8 DEF GotoState
  <2>3. walk' \in [Walkers -> Walks]
    BY <1>t, <2>1, <2>2 DEF Types
  <2> QED
    BY <1>8, <1>s, <2>3 DEF Types, GotoState
<1>9. ASSUME NEW s \in BgStates, NEW keep \in BOOLEAN, GotoStateBg(s, keep) PROVE Types'
  <2>1. [dest |-> s, keep |-> keep] \in Requests
    BY <1>9, <1>s DEF GotoStateBg, Requests
  <2>2. requests' \in Seq(Requests) /\ bg' \in BOOLEAN
    BY <1>9, <2>1 DEF Types, GotoStateBg, Put
  <2> QED
    BY <1>9, <2>2 DEF Types, GotoStateBg
<1>10. ASSUME NEW s \in States, Kick(s) PROVE Types'
  <2>1. Show(s) \in Seq(Prompted)
    BY OfDevice DEF Show, Types
  <2>2. shown' \in Seq(Prompted) /\ actual' \in Shells
    BY <1>10, <1>s, <2>1 DEF Kick, Types
  <2> QED
    BY <1>10, <2>2 DEF Types, Kick
<1>11. CASE ConnectionLost
  <2>1. state' \in Shells /\ owed' \in [Threads -> Shells]
    BY <1>11, <1>t, <1>s, SetStateTypes DEF ConnectionLost
  <2> QED
    BY <1>11, <1>s, <2>1 DEF Types, ConnectionLost
<1>12. CASE UNCHANGED vars
  BY <1>12 DEF Types, vars
<1>13. Calls => Types'
  <2>1. ASSUME NEW dest \in States, NEW keep \in BOOLEAN, GotoState(dest, keep, keep, 0, FALSE)
        PROVE  Types'
    BY <1>8, <1>s, <2>1
  <2>2. CASE GotoState(NOT_CONNECTED, FALSE, FALSE, RemoveRerun, TRUE)
    BY <1>8, <1>s, <2>2
  <2> QED
    BY <1>9, <2>1, <2>2 DEF Calls
<1>14. CASE Connected \/ Look \/ KeepHere
  <2>1. PICK pc \in {"looks", "waits", "keeps", "idle"} : At(USER, pc)
    BY <1>14 DEF Connected, Look, KeepHere
  <2>2. walk' \in [Walkers -> Walks]
    BY <1>t, <2>1, AtTypes DEF Pcs, Outside
  <2>3. walk[USER] \in Walks
    BY <1>t DEF Types
  <2>4. kept' \in Shells /\ established' \in BOOLEAN
    BY <1>14, <2>3 DEF Connected, Look, KeepHere, Keep, Types, Walks
  <2> QED
    BY <1>14, <2>2, <2>4 DEF Types, Connected, Look, KeepHere
<1>15. CASE Connect
  <2>1. \E pc \in {"looks", "connecting"} : At(USER, pc)
    BY <1>15 DEF Connect
  <2>2. walk' \in [Walkers -> Walks]
    BY <1>t, <2>1, AtTypes DEF Pcs, Outside
  <2>3. state' \in Shells /\ owed' \in [Threads -> Shells]
    BY <1>15, <1>t, <1>s, SetStateTypes DEF Connect, Types
  <2>4. actual' \in Shells /\ shown' \in Seq(Prompted)
    BY <1>15, <1>s, EmptySeq DEF Connect, Types
  <2> QED
    BY <1>15, <2>2, <2>3, <2>4 DEF Types, Connect
<1> QED
  BY <1>t, <1>1, <1>2, <1>3, <1>4, <1>5, <1>6, <1>7, <1>10, <1>11, <1>12, <1>13, <1>14, <1>15
  DEF Next, User, Background, Prompts, Reader, FarEnd

LEMMA TypesNext == ASSUME Types, [Next]_vars PROVE Types'
BY WalkTypes, OtherTypes

LEMMA TypesAlways == Spec => []Types
BY TypesInit, TypesNext, PTL DEF Spec

-----------------------------------------------------------------------------
(* What a walk is about to do.                                              *)

Plan ==
    /\ \A t \in Walkers :
          /\ walk[t].pc \in {"start", "running"} =>
                <<walk[t].source, walk[t].next>> \in DOMAIN Tabled.commands
          /\ walk[t].pc = "opens" => walk[t].next = BaseState(device)
          /\ walk[t].pc = "closes" => walk[t].next = NOT_CONNECTED
    /\ walk[USER].removing =>
          walk[USER].dest = NOT_CONNECTED /\ ~walk[USER].timed /\ ~walk[USER].keep
    /\ walk[USER].pc = "keeps" => walk[USER].keep
    /\ walk[USER].pc = "removing" => upset
    /\ ~walk[BG].removing
    /\ ~Walking(BG) => walk[BG].pc = "idle"
    /\ Walking(BG) => bg
    /\ walk[USER].pc = "connecting" /\ Walking(BG) => upset

\* Where nothing is asked of the plan.
Aside == {"idle", "removes", "choose", "sleep", "try", "enter", "failed"}

\* A step that moves one walk.
LEMMA PlanMoved ==
    ASSUME Plan, Types, NEW t \in Walkers, device' = device, upset => upset',
           \A u \in Walkers \ {t} : walk'[u] = walk[u],
           walk'[t].pc \in {"start", "running"} =>
              <<walk'[t].source, walk'[t].next>> \in DOMAIN Tabled.commands,
           walk'[t].pc = "opens" => walk'[t].next = BaseState(device),
           walk'[t].pc = "closes" => walk'[t].next = NOT_CONNECTED,
           walk'[t].pc = "removing" => upset',
           walk'[t].pc = "keeps" => walk'[t].keep,
           walk'[t].removing => t = USER /\ walk'[t].dest = NOT_CONNECTED /\ ~walk'[t].timed
                                         /\ ~walk'[t].keep,
           t = BG => walk'[t].pc \notin Outside \ {"idle"},
           Walking(BG)' => bg',
           walk'[USER].pc = "connecting" /\ Walking(BG)' => upset'
    PROVE  Plan'
<1>1. USER \in Walkers /\ BG \in Walkers /\ USER # BG
  BY DEF Walkers, USER, BG
<1>2. Tabled' = Tabled /\ BaseState(device)' = BaseState(device)
  BY DEF Tabled
<1>3. \A u \in Walkers :
          /\ walk'[u].pc \in {"start", "running"} =>
                <<walk'[u].source, walk'[u].next>> \in DOMAIN Tabled.commands
          /\ walk'[u].pc = "opens" => walk'[u].next = BaseState(device)
          /\ walk'[u].pc = "closes" => walk'[u].next = NOT_CONNECTED
  BY DEF Plan
<1>4. walk'[USER].removing =>
          walk'[USER].dest = NOT_CONNECTED /\ ~walk'[USER].timed /\ ~walk'[USER].keep
  BY <1>1 DEF Plan
<1>5. walk'[USER].pc = "removing" => upset'
  BY <1>1 DEF Plan
<1>6. ~walk'[BG].removing
  BY <1>1 DEF Plan
<1>7. walk'[USER].pc = "keeps" => walk'[USER].keep
  BY <1>1 DEF Plan
<1>8. ~Walking(BG)' => walk'[BG].pc = "idle"
  BY <1>1 DEF Plan, Walking, Outside
<1> QED
  BY <1>2, <1>3, <1>4, <1>5, <1>6, <1>7, <1>8 DEF Plan

LEMMA PlanSame ==
    ASSUME Plan, walk' = walk, device' = device, upset => upset', bg => bg' \/ ~Walking(BG)
    PROVE  Plan'
BY DEF Plan, Walking, Outside, Tabled

LEMMA PlanInit == ASSUME Init PROVE Plan
BY DEF Init, Plan, Idle, Walkers, Walking, Outside

\* A step of a walk that asks for nothing of the kind.
LEMMA PlanAside ==
    ASSUME Plan, Types, NEW t \in Walkers, Walking(t), device' = device, upset => upset',
           bg' = bg, walk'[t].pc \in Aside, walk'[t].removing = walk[t].removing,
           walk'[t].pc = "removes" => walk[t].removing, walk'[t].keep = walk[t].keep,
           walk'[t].dest = walk[t].dest, walk'[t].timed = walk[t].timed,
           \A u \in Walkers \ {t} : walk'[u] = walk[u]
    PROVE  Plan'
<1>1. Walking(BG)' => bg'
  BY DEF Plan, Walking, Outside, Walkers
<1>2. walk[t].removing =>
          t = USER /\ walk[t].dest = NOT_CONNECTED /\ ~walk[t].timed /\ ~walk[t].keep
  BY DEF Plan, Walkers
<1>3. walk'[t].pc \notin {"start", "running", "opens", "closes", "removing", "keeps", "connecting"}
  BY DEF Aside
<1>4. t = BG => walk'[t].pc \notin Outside \ {"idle"}
  <2>1. t = BG => walk'[t].pc \notin {"removes"}
    BY DEF Plan
  <2> QED
    BY <2>1 DEF Aside, Outside
<1>5. walk'[USER].pc = "connecting" /\ Walking(BG)' => upset'
  <2>1. CASE t = USER
    BY <1>3, <2>1
  <2>2. CASE t = BG
    BY <2>2 DEF Plan, Walkers, USER, BG
  <2> QED
    BY <2>1, <2>2 DEF Walkers
<1> QED
  BY <1>1, <1>2, <1>3, <1>4, <1>5, PlanMoved

LEMMA WalkPlans ==
    ASSUME Plan, Types, LockInv, NEW t \in Walkers, Walk(t)
    PROVE  Plan'
<1>w. walk[t] \in Walks /\ USER \in Walkers /\ BG \in Walkers
  BY DEF Types, Walkers
<1>1. CASE Choose(t)
  <2> DEFINE next == Hop(Tabled, state, walk[t].dest)
             w == [walk[t] EXCEPT !.pc = "try", !.next = next, !.tries = 0]
  <2>0. Walking(t)
    BY <1>1 DEF Choose, Walking, Outside
  <2>1. CASE walk' = [walk EXCEPT ![t] = w]
    <3>1. /\ w.pc = "try" /\ w.removing = walk[t].removing
          /\ w.dest = walk[t].dest /\ w.timed = walk[t].timed /\ w.keep = walk[t].keep
      BY <1>w DEF Walks
    <3> HIDE DEF w
    <3>2. walk'[t] = w /\ \A u \in Walkers \ {t} : walk'[u] = walk[u]
      BY <2>1 DEF Types
    <3> QED
      BY <1>1, <2>0, <3>1, <3>2, PlanAside DEF Choose, Aside
  <2>2. CASE Leave(t, "raised")
    BY <1>1, <2>0, <2>2, LeaveTypes, PlanAside DEF Choose, Aside
  <2> QED
    BY <1>1, <2>1, <2>2 DEF Choose
<1>2. CASE Arrive(t) \/ TimeIsOver(t)
  <2>1. PICK result \in {"arrived", "late"} :
            walk' = [walk EXCEPT ![t] = [@ EXCEPT !.pc = "sleep", !.result = result]]
    BY <1>2 DEF Arrive, TimeIsOver
  <2>2. walk'[t] = [walk[t] EXCEPT !.pc = "sleep", !.result = result]
    BY <2>1 DEF Types
  <2>3. /\ walk'[t].pc = "sleep" /\ walk'[t].removing = walk[t].removing
        /\ walk'[t].dest = walk[t].dest /\ walk'[t].timed = walk[t].timed
        /\ walk'[t].keep = walk[t].keep
    BY <1>w, <2>2 DEF Walks
  <2>4. \A u \in Walkers \ {t} : walk'[u] = walk[u]
    BY <2>1 DEF Types
  <2>5. Walking(t)
    BY <1>2 DEF Arrive, TimeIsOver, Walking, Outside
  <2> QED
    BY <1>2, <2>3, <2>4, <2>5, PlanAside DEF Arrive, TimeIsOver, Aside
<1>3. CASE Return(t)
  <2>1. walk[t].result \in {"none", "arrived", "late", "raised"} /\ Leave(t, walk[t].result)
    BY <1>3, <1>w DEF Return, Walks
  <2>2. Walking(t)
    BY <1>3 DEF Return, Walking, Outside
  <2> QED
    BY <1>3, <2>1, <2>2, LeaveTypes, PlanAside DEF Return, Aside
<1>4. ASSUME NEW pc \in (Pcs \cap Aside) \ {"removes"}, At(t, pc), Walking(t), device' = device,
             upset => upset', bg' = bg
      PROVE  Plan'
  BY <1>4, AtTypes, PlanAside
<1>5. CASE NothingToTry(t)
  BY <1>5, <1>4 DEF NothingToTry, Walking, Pcs, Outside, Aside
<1>6. CASE NoTransition(t)
  BY <1>6, <1>4 DEF NoTransition, Try, Walking, Pcs, Outside, Aside
<1>7. CASE Opened(t) \/ Closed(t)
  BY <1>7, <1>4 DEF Opened, Closed, Walking, Pcs, Outside, Aside
<1>8. CASE CommandDone(t) \/ CommandFails(t) \/ CommandSlow(t)
  <2>1. Walking(t) /\ \E pc \in {"enter", "failed"} : At(t, pc)
    BY <1>8 DEF CommandDone, CommandFails, CommandSlow, Walking, Outside
  <2>2. device' = device /\ bg' = bg
    BY <1>8 DEF CommandDone, CommandFails, CommandSlow
  <2>3. upset => upset'
    BY <1>8, Zenon DEF CommandDone, CommandFails, CommandSlow
  <2> QED
    BY <2>1, <2>2, <2>3, <1>4 DEF Pcs, Outside, Aside
<1>9. CASE Enter(t)
  BY <1>9, <1>4 DEF Enter, Walking, Pcs, Outside, Aside
<1>10. CASE Failed(t)
  <2> DEFINE tries == IF state = walk[t].next THEN walk[t].tries ELSE walk[t].tries + 1
             w == [walk[t] EXCEPT !.pc = "try", !.tries = tries]
  <2>0. Walking(t)
    BY <1>10 DEF Failed, Walking, Outside
  <2>1. CASE walk' = [walk EXCEPT ![t] = w]
    <3> HIDE DEF tries
    <3>1. /\ w.pc = "try" /\ w.removing = walk[t].removing
          /\ w.dest = walk[t].dest /\ w.timed = walk[t].timed /\ w.keep = walk[t].keep
      BY <1>w DEF Walks
    <3> HIDE DEF w
    <3>2. walk'[t] = w /\ \A u \in Walkers \ {t} : walk'[u] = walk[u]
      BY <2>1 DEF Types
    <3> QED
      BY <1>10, <2>0, <3>1, <3>2, PlanAside DEF Failed, Aside
  <2>2. CASE Leave(t, "raised")
    BY <1>10, <2>0, <2>2, LeaveTypes, PlanAside DEF Failed, Aside
  <2> QED
    BY <1>10, <2>1, <2>2 DEF Failed
<1>11. CASE RecoverState(t)
  BY <1>11, PlanSame DEF RecoverState, Put
<1>12. ASSUME NEW pc \in Pcs, At(t, pc), Walking(t), device' = device, upset => upset', bg' = bg,
              pc \in {"start", "running"} =>
                 <<walk[t].source, walk[t].next>> \in DOMAIN Tabled.commands,
              pc = "opens" => walk[t].next = BaseState(device),
              pc = "closes" => walk[t].next = NOT_CONNECTED,
              pc \notin Outside
       PROVE  Plan'
  <2>1. Walking(BG)' => bg'
    BY <1>12, AtTypes DEF Plan, Walking, Outside, Walkers
  <2>2. walk[t].removing =>
            t = USER /\ walk[t].dest = NOT_CONNECTED /\ ~walk[t].timed /\ ~walk[t].keep
    BY DEF Plan, Walkers
  <2>3. walk'[USER].pc = "connecting" /\ Walking(BG)' => upset'
    <3>1. CASE t = USER
      BY <1>12, <3>1, AtTypes DEF Outside
    <3>2. CASE t = BG
      BY <1>12, <1>w, <3>2, AtTypes DEF Plan, USER, BG
    <3> QED
      BY <3>1, <3>2 DEF Walkers
  <2>4. pc \notin {"removing", "keeps"}
    BY <1>12 DEF Outside
  <2> QED
    BY <1>12, <2>1, <2>2, <2>3, <2>4, AtTypes, PlanMoved
<1>13. CASE OpenConnection(t)
  <2>1. walk[t].next = BaseState(device)
    BY <1>13, OfEdges DEF OpenConnection, Types
  <2> QED
    BY <1>13, <2>1, <1>12 DEF OpenConnection, Try, Walking, Pcs, Outside
<1>14. CASE CloseConnection(t)
  <2>1. walk[t].next = NOT_CONNECTED
    BY <1>14, OfEdges DEF CloseConnection, Types
  <2> QED
    BY <1>14, <2>1, <1>12 DEF CloseConnection, Try, Walking, Pcs, Outside
<1>15. CASE MakeCommand(t)
  <2> DEFINE w == [walk[t] EXCEPT !.pc = "start", !.source = state]
  <2>1. walk'[t] = w /\ \A u \in Walkers \ {t} : walk'[u] = walk[u]
    BY <1>15 DEF MakeCommand, Types
  <2>2. /\ w.pc = "start" /\ w.source = state /\ w.next = walk[t].next
        /\ w.removing = walk[t].removing /\ w.dest = walk[t].dest /\ w.timed = walk[t].timed
        /\ w.keep = walk[t].keep
    BY <1>w DEF Walks
  <2> HIDE DEF w
  <2>3. <<state, walk[t].next>> \in DOMAIN Tabled.commands
    BY <1>15, OfEdges DEF MakeCommand, Types
  <2>4. Walking(t)
    BY <1>15 DEF MakeCommand, Try, Walking, Outside
  <2>5. Walking(BG)' => bg'
    BY <1>15, <2>1, <2>4 DEF MakeCommand, Plan, Walking, Outside, Walkers
  <2>6. walk[t].removing =>
            t = USER /\ walk[t].dest = NOT_CONNECTED /\ ~walk[t].timed /\ ~walk[t].keep
    BY DEF Plan, Walkers
  <2>7. walk'[USER].pc = "connecting" /\ Walking(BG)' => upset'
    <3>1. CASE t = USER
      BY <2>1, <2>2, <3>1
    <3>2. CASE t = BG
      BY <1>15, <1>w, <2>1, <2>4, <3>2 DEF MakeCommand, Plan, USER, BG
    <3> QED
      BY <3>1, <3>2 DEF Walkers
  <2>8. w.pc \notin Outside
    BY <2>2 DEF Outside
  <2>9. w.pc \notin {"removing", "keeps"}
    BY <2>2
  <2> QED
    BY <1>15, <2>1, <2>2, <2>3, <2>5, <2>6, <2>7, <2>8, <2>9, PlanMoved DEF MakeCommand
<1>16. CASE StartCommand(t)
  <2>1. <<walk[t].source, walk[t].next>> \in DOMAIN Tabled.commands
    BY <1>16 DEF StartCommand, Plan
  <2> QED
    BY <1>16, <2>1, <1>12 DEF StartCommand, Walking, Pcs, Outside
<1>17. ASSUME NEW s, CommandElsewhere(t, s) PROVE Plan'
  <2>1. Walking(t) /\ \E pc \in {"enter", "failed"} : At(t, pc)
    BY <1>17 DEF CommandElsewhere, Walking, Outside
  <2>2. device' = device /\ bg' = bg
    BY <1>17 DEF CommandElsewhere
  <2>3. upset => upset'
    BY <1>17, Zenon DEF CommandElsewhere
  <2> QED
    BY <2>1, <2>2, <2>3, <1>4 DEF Pcs, Aside
<1> QED
  BY <1>1, <1>2, <1>3, <1>5, <1>6, <1>7, <1>8, <1>9, <1>10, <1>11, <1>13, <1>14, <1>15, <1>16,
     <1>17 DEF Walk, CrossEdge

LEMMA OtherPlans ==
    ASSUME Plan, Types, LockInv, [Next]_vars, ~\E t \in Walkers : Walk(t)
    PROVE  Plan'
<1>w. USER \in Walkers /\ BG \in Walkers /\ USER # BG /\ walk[USER] \in Walks
  BY DEF Types, Walkers, USER, BG
<1>1. CASE TakeLock \/ Removed \/ RemoveCloses \/ Connect \/ Connected \/ Look \/ KeepHere
  <2>1. PICK pc \in {"choose", "idle", "removing", "connecting", "looks", "waits", "keeps"} :
            /\ At(USER, pc) /\ (pc = "removing" => upset') /\ (pc = "keeps" => walk[USER].keep)
            /\ pc = "connecting" /\ Walking(BG) => upset'
    <3>1. CASE TakeLock \/ Removed \/ RemoveCloses
      BY <3>1 DEF TakeLock, Removed, RemoveCloses, At
    <3>2. CASE Connected \/ Look \/ KeepHere
      BY <3>2 DEF Connected, Look, KeepHere
    <3>3. CASE Connect
      <4>1. At(USER, "looks") \/ (At(USER, "connecting") /\ (Walking(BG) => upset'))
        BY <3>3 DEF Connect
      <4> QED
        BY <4>1
    <3> QED
      BY <1>1, <3>1, <3>2, <3>3
  <2>2. bg' = bg /\ device' = device
    BY <1>1 DEF TakeLock, Removed, RemoveCloses, Connect, Connected, Look, KeepHere
  <2>3. /\ walk'[USER].pc = pc /\ walk'[USER].removing = walk[USER].removing
        /\ walk'[USER].dest = walk[USER].dest /\ walk'[USER].timed = walk[USER].timed
        /\ walk'[USER].keep = walk[USER].keep
        /\ \A u \in Walkers \ {USER} : walk'[u] = walk[u]
    BY <1>w, <2>1, AtTypes DEF Pcs, Outside
  <2>4. Walking(BG)' = Walking(BG)
    BY <1>w, <2>3 DEF Walking, Outside
  <2>5. Walking(BG)' => bg'
    BY <2>2, <2>4 DEF Plan
  <2>6. upset => upset'
    BY <1>1 DEF TakeLock, Removed, RemoveCloses, Connect, Connected, Look, KeepHere
  <2>7. walk[USER].removing =>
            walk[USER].dest = NOT_CONNECTED /\ ~walk[USER].timed /\ ~walk[USER].keep
    BY DEF Plan
  <2> QED
    BY <1>w, <2>1, <2>2, <2>3, <2>4, <2>5, <2>6, <2>7, PlanMoved
<1>2. CASE BgTake
  <2>1. CASE holder = NoThread
    <3> DEFINE w == [Idle EXCEPT !.pc = "choose", !.timed = TRUE,
                        !.dest = Head(requests).dest, !.keep = Head(requests).keep]
    <3>1. walk'[BG] = w /\ \A u \in Walkers \ {BG} : walk'[u] = walk[u]
      BY <1>2, <1>w, <2>1 DEF BgTake, Types
    <3>2. w.pc = "choose" /\ ~w.removing /\ w.pc \notin Outside
      BY DEF Idle, Outside
    <3> HIDE DEF w
    <3>3. walk'[USER].pc = "connecting" => upset'
      BY <1>2, <1>w, <2>1, <3>1 DEF BgTake
    <3>4. device' = device /\ bg' /\ (upset => upset')
      BY <1>2 DEF BgTake
    <3> QED
      BY <1>w, <3>1, <3>2, <3>3, <3>4, PlanMoved
  <2>2. CASE holder # NoThread
    BY <1>2, <2>2, PlanSame DEF BgTake
  <2> QED
    BY <2>1, <2>2
<1>3. CASE BgStop
  <2>1. ~Walking(BG)
    BY <1>3 DEF BgStop, LockInv, BgHoldsBoth, NoThread, BG
  <2> QED
    BY <1>3, <2>1, PlanSame DEF BgStop
<1>4. CASE Prompts \/ Reader \/ FarEnd \/ UNCHANGED vars
  <2>1. walk' = walk /\ device' = device
    BY <1>4 DEF Prompts, Reader, FarEnd, PromptShown, PromptSetsState, RecoverState,
                ConnectionLost, Kick, vars
  <2>2. upset => upset'
    BY <1>4 DEF Prompts, Reader, FarEnd, PromptShown, PromptSetsState, RecoverState,
                ConnectionLost, Kick, vars
  <2>3. bg => bg'
    BY <1>4 DEF Prompts, Reader, FarEnd, PromptShown, PromptSetsState, RecoverState, Put,
                ConnectionLost, Kick, vars
  <2> QED
    BY <2>1, <2>2, <2>3, PlanSame
<1>5. ASSUME NEW dest, NEW keep, NEW timed, NEW rerun, NEW removing,
             removing => dest = NOT_CONNECTED /\ ~timed /\ ~keep,
             GotoState(dest, keep, timed, rerun, removing)
      PROVE  Plan'
  <2> DEFINE w == [Idle EXCEPT !.pc = "connects", !.dest = dest, !.keep = keep,
                      !.timed = timed, !.rerun = rerun, !.removing = removing]
  <2>1. walk' = [walk EXCEPT ![USER] = w]
    BY <1>5 DEF GotoState
  <2>2. /\ w.pc = "connects" /\ w.dest = dest /\ w.timed = timed /\ w.removing = removing
        /\ w.keep = keep
    BY DEF Idle
  <2> HIDE DEF w
  <2>3. walk'[USER] = w /\ \A u \in Walkers \ {USER} : walk'[u] = walk[u]
    BY <1>w, <2>1 DEF Types
  <2>4. Walking(BG)' => bg'
    BY <1>5, <1>w, <2>3 DEF GotoState, Plan, Walking, Outside
  <2> QED
    BY <1>5, <1>w, <2>2, <2>3, <2>4, PlanMoved DEF GotoState
<1>6. ASSUME NEW s, NEW keep, GotoStateBg(s, keep) PROVE Plan'
  BY <1>6, PlanSame DEF GotoStateBg, Put
<1> QED
  BY <1>w, <1>1, <1>2, <1>3, <1>4, <1>5, <1>6 DEF Next, User, Background, Calls

LEMMA PlanNext == ASSUME Plan, Types, LockInv, [Next]_vars PROVE Plan'
BY WalkPlans, OtherPlans

-----------------------------------------------------------------------------
(* What the device believes, and where its shell is.                        *)

Coming == shown # <<>> \/ seen # Nowhere
LastComing == IF shown # <<>> THEN shown[Len(shown)] ELSE seen

\* The last prompt under way tells where the shell is; if there is none the device knows, unless
\* a command has just been done.
Tells == Coming => LastComing = actual
Knows == Coming \/ state = actual \/ \E t \in Walkers : walk[t].pc = "enter"
\* Who opens or enters is about to believe the truth, and who closes has closed.
AtDoor ==
    \A t \in Walkers :
        /\ walk[t].pc \in {"enter", "opens"} => walk[t].next = actual
        /\ walk[t].pc = "closes" => actual = NOT_CONNECTED
        /\ walk[t].pc = "connecting" => actual # NOT_CONNECTED
\* There is no connection exactly when the device believes so, and then no prompt comes.
Named == actual = NOT_CONNECTED <=> state = NOT_CONNECTED
Quiet == actual = NOT_CONNECTED => ~Coming
\* _established is the connection, but for who opens and who closes it.
Opens ==
    ~established =>
        actual = NOT_CONNECTED \/ \E t \in Walkers : walk[t].pc \in {"opens", "connecting"}
Closes == established => actual # NOT_CONNECTED \/ \E t \in Walkers : walk[t].pc = "closes"

Believes == Tells /\ Knows /\ AtDoor /\ Named /\ Quiet /\ Opens /\ Closes
Belief == ~upset => Believes

DeviceInv == LockInv /\ Types /\ Plan /\ Belief

Doors == {"enter", "opens", "closes", "connecting"}

LEMMA BeliefInit == ASSUME Init PROVE Belief
BY DEF Init, Belief, Believes, Coming, LastComing, Tells, Knows, AtDoor, Named, Quiet, Opens,
       Closes, Idle, Nowhere, Walkers

\* Only one walks.
LEMMA Alone ==
    ASSUME DeviceInv, NEW t \in Walkers, NEW u \in Walkers, Walking(t), u # t
    PROVE  walk[u].pc \in Outside /\ (~upset => walk[u].pc \notin Doors)
<1>1. ~Walking(u)
  BY DEF DeviceInv, LockInv, OneWalk
<1>2. walk[u].pc \in Outside
  BY <1>1 DEF Walking, Outside
<1>3. u = USER => t = BG
  BY DEF Walkers
<1>4. walk[u].pc = "connecting" => upset
  BY <1>1, <1>3 DEF DeviceInv, Plan, Walkers
<1> QED
  BY <1>2, <1>4 DEF Outside, Doors

\* The step changes nothing that is believed, and nobody comes to a door or leaves one.
LEMMA BeliefSame ==
    ASSUME Belief, upset => upset', UNCHANGED <<state, actual, shown, seen, established>>,
           \A u \in Walkers : walk'[u].pc \in Doors \/ walk[u].pc \in Doors =>
              walk'[u].pc = walk[u].pc /\ walk'[u].next = walk[u].next
    PROVE  Belief'
<1> SUFFICES ASSUME ~upset' PROVE Believes'
  BY DEF Belief
<1>1. Believes
  BY DEF Belief
<1>2. Coming' = Coming /\ LastComing' = LastComing
  BY DEF Coming, LastComing
<1>3. Tells' /\ Named' /\ Quiet'
  BY <1>1, <1>2 DEF Believes, Tells, Named, Quiet
<1>4. Knows'
  BY <1>1, <1>2 DEF Believes, Knows, Doors
<1>5. AtDoor'
  BY <1>1 DEF Believes, AtDoor, Doors
<1>6. Opens' /\ Closes'
  BY <1>1 DEF Believes, Opens, Closes, Doors
<1> QED
  BY <1>3, <1>4, <1>5, <1>6 DEF Believes

\* A step of one walk that keeps away from the doors.
LEMMA BeliefAway ==
    ASSUME Belief, upset => upset', UNCHANGED <<state, actual, shown, seen, established>>,
           NEW t \in Walkers, walk[t].pc \notin Doors, walk'[t].pc \notin Doors,
           \A u \in Walkers \ {t} : walk'[u] = walk[u]
    PROVE  Belief'
BY BeliefSame

LEMMA LastAppended ==
    ASSUME NEW S, NEW s \in Seq(S), NEW x \in S
    PROVE  Append(s, x) # <<>> /\ Append(s, x)[Len(Append(s, x))] = x
OBVIOUS

LEMMA LastOfTail ==
    ASSUME NEW S, NEW s \in Seq(S), s # <<>>
    PROVE  /\ Tail(s) # <<>> => Tail(s)[Len(Tail(s))] = s[Len(s)]
           /\ Tail(s) = <<>> => Head(s) = s[Len(s)]
<1>1. Len(s) \in Nat \ {0} /\ Len(Tail(s)) = Len(s) - 1
  OBVIOUS
<1>2. Tail(s) = <<>> => Len(s) = 1
  <2>1. Len(<<>>) = 0
    OBVIOUS
  <2>2. Tail(s) = <<>> => Len(Tail(s)) = Len(<<>>)
    BY Zenon
  <2>3. Tail(s) = <<>> => Len(Tail(s)) = 0
    BY <2>1, <2>2, Zenon
  <2> QED
    BY <1>1, <2>3
<1>3. Tail(s) # <<>> => Len(Tail(s)) \in 1..Len(Tail(s))
  BY <1>1
<1> QED
  BY <1>1, <1>2, <1>3

\* The steps of a walk that cross an edge.
LEMMA OpeningBelieves == ASSUME DeviceInv, NEW t \in Walkers, OpenConnection(t) PROVE Belief'
<1> SUFFICES ASSUME ~upset' PROVE Believes'
  BY DEF Belief
<1>1. ~upset /\ Believes
  BY DEF DeviceInv, Belief, OpenConnection
<1>2. walk[t].pc = "try" /\ Walking(t)
  BY DEF OpenConnection, Try, Walking, Outside
<1>3. state = NOT_CONNECTED /\ walk[t].next = BaseState(device)
  BY OfEdges DEF OpenConnection, DeviceInv, Types
<1>4. BaseState(device) \notin {NOT_CONNECTED, Nowhere}
  BY OfDevice, Strangers DEF DeviceInv, Types
<1>5. \A u \in Walkers : walk[u].pc \notin Doors
  BY <1>1, <1>2, Alone DEF Doors
<1>6. actual = NOT_CONNECTED /\ ~Coming
  BY <1>1, <1>3 DEF Believes, Named, Quiet
<1>7. ~established
  BY <1>1, <1>5, <1>6 DEF Believes, Closes, Doors
<1>8. /\ actual' = BaseState(device) /\ state' = BaseState(device) /\ shown' = <<>>
      /\ seen' = seen /\ established' = established /\ At(t, "opens")
  BY <1>7 DEF OpenConnection, SetState
<1>9. /\ walk'[t].pc = "opens" /\ walk'[t].next = walk[t].next
      /\ \A u \in Walkers \ {t} : walk'[u] = walk[u]
  BY <1>8, AtTypes DEF DeviceInv, Pcs, Outside
<1>10. ~Coming'
  BY <1>6, <1>8 DEF Coming
<1>11. Tells' /\ Knows' /\ Named' /\ Quiet'
  BY <1>8, <1>10 DEF Tells, Knows, Named, Quiet
<1>12. AtDoor'
  BY <1>3, <1>4, <1>5, <1>8, <1>9 DEF AtDoor, Doors
<1>13. Opens' /\ Closes'
  BY <1>7, <1>8, <1>9 DEF Opens, Closes
<1> QED
  BY <1>11, <1>12, <1>13 DEF Believes

LEMMA OpenedBelieves == ASSUME DeviceInv, NEW t \in Walkers, Opened(t) PROVE Belief'
<1> SUFFICES ASSUME ~upset' PROVE Believes'
  BY DEF Belief
<1>1. Believes
  BY DEF DeviceInv, Belief, Opened
<1>2. walk[t].pc = "opens" /\ walk[t].next = BaseState(device)
  BY DEF Opened, DeviceInv, Plan
<1>3. /\ walk'[t].pc = "enter" /\ walk'[t].next = walk[t].next
      /\ \A u \in Walkers \ {t} : walk'[u] = walk[u]
  BY AtTypes DEF DeviceInv, Pcs, Outside, Opened
<1>4. UNCHANGED <<state, actual, shown, seen>> /\ established'
  BY DEF Opened
<1>5. actual = BaseState(device) /\ actual # NOT_CONNECTED
  <2>1. BaseState(device) # NOT_CONNECTED
    BY OfDevice, Strangers DEF DeviceInv, Types
  <2> QED
    BY <1>1, <1>2, <2>1 DEF Believes, AtDoor
<1>6. Coming' = Coming /\ LastComing' = LastComing
  BY <1>4 DEF Coming, LastComing
<1>7. Tells' /\ Named' /\ Quiet'
  BY <1>1, <1>4, <1>6 DEF Believes, Tells, Named, Quiet
<1>8. Knows'
  BY <1>3 DEF Knows
<1>9. AtDoor'
  BY <1>1, <1>2, <1>3, <1>4 DEF Believes, AtDoor
<1>10. Opens' /\ Closes'
  BY <1>4, <1>5 DEF Opens, Closes
<1> QED
  BY <1>7, <1>8, <1>9, <1>10 DEF Believes

LEMMA ClosingBelieves == ASSUME DeviceInv, NEW t \in Walkers, CloseConnection(t) PROVE Belief'
<1> SUFFICES ASSUME ~upset' PROVE Believes'
  BY DEF Belief
<1>1. ~upset /\ seen = Nowhere
  BY DEF CloseConnection
<1>2. Believes
  BY <1>1 DEF DeviceInv, Belief
<1>3. walk[t].pc = "try" /\ Walking(t)
  BY DEF CloseConnection, Try, Walking, Outside
<1>4. walk[t].next = NOT_CONNECTED /\ state # NOT_CONNECTED
  BY OfEdges DEF CloseConnection, Try, DeviceInv, Types
<1>5. actual # NOT_CONNECTED
  BY <1>2, <1>4 DEF Believes, Named
<1>6. \A u \in Walkers : walk[u].pc \notin Doors
  BY <1>1, <1>3, Alone DEF Doors
<1>7. established
  BY <1>2, <1>5, <1>6 DEF Believes, Opens, Doors
<1>8. /\ actual' = NOT_CONNECTED /\ state' = NOT_CONNECTED /\ shown' = <<>> /\ seen' = Nowhere
      /\ established' = established
  BY <1>1, <1>5 DEF CloseConnection, CloseIo, SetState
<1>9. /\ walk'[t].pc = "closes"
      /\ \A u \in Walkers \ {t} : walk'[u] = walk[u]
  BY AtTypes DEF DeviceInv, Pcs, Outside, CloseConnection
<1>10. ~Coming'
  BY <1>8 DEF Coming
<1>11. Tells' /\ Knows' /\ Named' /\ Quiet'
  BY <1>8, <1>10 DEF Tells, Knows, Named, Quiet
<1>12. AtDoor'
  BY <1>6, <1>8, <1>9 DEF AtDoor, Doors
<1>13. Opens' /\ Closes'
  BY <1>8, <1>9 DEF Opens, Closes
<1> QED
  BY <1>11, <1>12, <1>13 DEF Believes

LEMMA ClosedBelieves == ASSUME DeviceInv, NEW t \in Walkers, Closed(t) PROVE Belief'
<1> SUFFICES ASSUME ~upset' PROVE Believes'
  BY DEF Belief
<1>1. Believes
  BY DEF DeviceInv, Belief, Closed
<1>2. walk[t].pc = "closes" /\ walk[t].next = NOT_CONNECTED
  BY DEF Closed, DeviceInv, Plan
<1>3. /\ walk'[t].pc = "enter" /\ walk'[t].next = walk[t].next
      /\ \A u \in Walkers \ {t} : walk'[u] = walk[u]
  BY AtTypes DEF DeviceInv, Pcs, Outside, Closed
<1>4. UNCHANGED <<state, actual, shown, seen>> /\ ~established'
  BY DEF Closed
<1>5. actual = NOT_CONNECTED
  BY <1>1, <1>2 DEF Believes, AtDoor
<1>6. Coming' = Coming /\ LastComing' = LastComing
  BY <1>4 DEF Coming, LastComing
<1>7. Tells' /\ Named' /\ Quiet'
  BY <1>1, <1>4, <1>6 DEF Believes, Tells, Named, Quiet
<1>8. Knows'
  BY <1>3 DEF Knows
<1>9. AtDoor'
  BY <1>1, <1>2, <1>3, <1>4, <1>5 DEF Believes, AtDoor
<1>10. Opens' /\ Closes'
  BY <1>4, <1>5 DEF Opens, Closes
<1> QED
  BY <1>7, <1>8, <1>9, <1>10 DEF Believes

\* Where the shell of a command is, and will be.
LEMMA OfRunning ==
    ASSUME DeviceInv, NEW t \in Walkers, walk[t].pc = "running", actual = walk[t].source
    PROVE  /\ actual # NOT_CONNECTED
           /\ walk[t].next \in Recognised \cap Prompted /\ walk[t].next # NOT_CONNECTED
           /\ ~upset => \A u \in Walkers : walk[u].pc \notin Doors
<1>1. <<walk[t].source, walk[t].next>> \in DOMAIN Tabled.commands
  BY DEF DeviceInv, Plan
<1>2. Walking(t) /\ walk[t].pc \notin Doors
  BY DEF Walking, Outside, Doors
<1>3. ~upset => \A u \in Walkers : walk[u].pc \notin Doors
  BY <1>2, Alone
<1> QED
  BY <1>1, <1>3, OfCommands, OfDevice DEF DeviceInv, Types

\* The shell moves from one state to another, and a prompt tells it (or none is under way).
LEMMA ShellMoves ==
    ASSUME Believes, actual # NOT_CONNECTED, actual' # NOT_CONNECTED,
           UNCHANGED <<state, established>>,
           \A u \in Walkers : walk[u].pc \notin Doors,
           Coming' => LastComing' = actual',
           Coming' \/ \E u \in Walkers : walk'[u].pc = "enter",
           \A u \in Walkers : walk'[u].pc \in {"enter", "opens"} => walk'[u].next = actual',
           \A u \in Walkers : walk'[u].pc \notin {"closes", "connecting"}
    PROVE  Believes'
<1>1. established
  BY DEF Believes, Opens, Doors
<1>2. state # NOT_CONNECTED
  BY DEF Believes, Named
<1>3. Tells' /\ Knows' /\ AtDoor'
  BY DEF Tells, Knows, AtDoor
<1>4. Named' /\ Quiet' /\ Opens' /\ Closes'
  BY <1>1, <1>2 DEF Named, Quiet, Opens, Closes
<1> QED
  BY <1>3, <1>4 DEF Believes

LEMMA DoneBelieves == ASSUME DeviceInv, NEW t \in Walkers, CommandDone(t) PROVE Belief'
<1> SUFFICES ASSUME ~upset' PROVE Believes'
  BY DEF Belief
<1>1. ~upset /\ (pauses => ~Coming)
  BY DEF CommandDone, Coming
<1>2. Believes
  BY <1>1 DEF DeviceInv, Belief
<1>3. /\ actual # NOT_CONNECTED /\ walk[t].next # NOT_CONNECTED
      /\ walk[t].next \in Recognised /\ walk[t].next \in Prompted
      /\ \A u \in Walkers : walk[u].pc \notin Doors
  BY <1>1, OfRunning DEF CommandDone
<1>4. /\ walk'[t].pc = "enter" /\ walk'[t].next = walk[t].next
      /\ \A u \in Walkers \ {t} : walk'[u] = walk[u]
  BY AtTypes DEF DeviceInv, Pcs, Outside, CommandDone
<1>5. UNCHANGED <<state, established, seen>> /\ actual' = walk[t].next
  BY DEF CommandDone
<1>6. Coming' => LastComing' = actual'
  <2>1. CASE pauses
    BY <1>1, <2>1 DEF CommandDone, Coming
  <2>2. CASE ~pauses
    <3>1. shown' = Append(shown, walk[t].next) /\ shown \in Seq(Prompted)
      BY <1>3, <2>2 DEF CommandDone, Show, DeviceInv, Types
    <3> QED
      BY <1>3, <1>5, <3>1, LastAppended DEF LastComing
  <2> QED
    BY <2>1, <2>2
<1>7. \A u \in Walkers :
          /\ walk'[u].pc \notin {"closes", "connecting"}
          /\ walk'[u].pc \in {"enter", "opens"} => walk'[u].next = actual'
  BY <1>3, <1>4, <1>5 DEF Doors
<1> QED
  BY <1>2, <1>3, <1>4, <1>5, <1>6, <1>7, ShellMoves

LEMMA SlowBelieves == ASSUME DeviceInv, NEW t \in Walkers, CommandSlow(t) PROVE Belief'
<1> SUFFICES ASSUME ~upset' PROVE Believes'
  BY DEF Belief
<1>2. ~upset /\ Believes
  BY DEF DeviceInv, Belief, CommandSlow
<1>3. /\ actual # NOT_CONNECTED /\ walk[t].next # NOT_CONNECTED
      /\ walk[t].next \in Recognised /\ walk[t].next \in Prompted
      /\ \A u \in Walkers : walk[u].pc \notin Doors
  BY <1>2, OfRunning DEF CommandSlow
<1>4. walk'[t].pc = "failed" /\ \A u \in Walkers \ {t} : walk'[u] = walk[u]
  BY AtTypes DEF DeviceInv, Pcs, Outside, CommandSlow
<1>5. UNCHANGED <<state, established, seen>> /\ actual' = walk[t].next
  BY DEF CommandSlow
<1>6. Coming' /\ LastComing' = actual'
  <2>1. shown' = Append(shown, walk[t].next) /\ shown \in Seq(Prompted)
    BY <1>3 DEF CommandSlow, Show, DeviceInv, Types
  <2> QED
    BY <1>3, <1>5, <2>1, LastAppended DEF LastComing, Coming
<1>7. \A u \in Walkers : walk'[u].pc \notin Doors
  BY <1>3, <1>4 DEF Doors
<1> QED
  BY <1>2, <1>3, <1>5, <1>6, <1>7, ShellMoves DEF Doors

LEMMA ElsewhereBelieves ==
    ASSUME DeviceInv, NEW t \in Walkers, NEW s, CommandElsewhere(t, s)
    PROVE  Belief'
<1> SUFFICES ASSUME ~upset' PROVE Believes'
  BY DEF Belief
<1>1. ~upset /\ (pauses => ~Coming /\ s = walk[t].next)
  BY DEF CommandElsewhere, Coming
<1>2. Believes
  BY <1>1 DEF DeviceInv, Belief
<1>3. walk[t].pc = "running" /\ Walking(t) /\ walk[t].pc \notin Doors /\ actual # NOT_CONNECTED
  BY DEF CommandElsewhere, Walking, Outside, Doors
<1>4. \A u \in Walkers : walk[u].pc \notin Doors
  BY <1>1, <1>3, Alone
<1>5. s # NOT_CONNECTED /\ s \in Recognised /\ s \in Prompted
  <2>1. <<walk[t].source, walk[t].next>> \in DOMAIN Tabled.commands
    BY <1>3 DEF DeviceInv, Plan
  <2>2. s = walk[t].next \/ <<s, actual>> \in DOMAIN Tabled.commands
    BY DEF CommandElsewhere
  <2> QED
    BY <2>1, <2>2, OfCommands, OfDevice DEF DeviceInv, Types
<1>6. /\ walk'[t].pc = IF s = walk[t].next THEN "enter" ELSE "failed"
      /\ walk'[t].next = walk[t].next
      /\ \A u \in Walkers \ {t} : walk'[u] = walk[u]
  BY AtTypes DEF DeviceInv, Pcs, CommandElsewhere
<1>7. UNCHANGED <<state, established, seen>> /\ actual' = s
  BY DEF CommandElsewhere
<1>8. ~pauses => Coming' /\ LastComing' = actual'
  <2> SUFFICES ASSUME ~pauses PROVE Coming' /\ LastComing' = actual'
    OBVIOUS
  <2>1. shown' = Append(shown, s) /\ shown \in Seq(Prompted)
    BY <1>5 DEF CommandElsewhere, Show, DeviceInv, Types
  <2> QED
    BY <1>5, <1>7, <2>1, LastAppended DEF LastComing, Coming
<1>9. pauses => ~Coming' /\ walk'[t].pc = "enter"
  BY <1>1, <1>6, <1>7 DEF CommandElsewhere, Coming
<1>10. \A u \in Walkers :
          /\ walk'[u].pc \notin {"closes", "connecting"}
          /\ walk'[u].pc \in {"enter", "opens"} => walk'[u].next = actual'
  BY <1>4, <1>6, <1>7 DEF Doors
<1> QED
  BY <1>2, <1>3, <1>4, <1>5, <1>7, <1>8, <1>9, <1>10, ShellMoves

LEMMA KickBelieves == ASSUME DeviceInv, NEW s, Kick(s) PROVE Belief'
<1> SUFFICES ASSUME ~upset' PROVE Believes'
  BY DEF Belief
<1>1. ~upset /\ \A u \in Walkers : walk[u].pc = "idle"
  BY DEF Kick
<1>2. Believes
  BY <1>1 DEF DeviceInv, Belief
<1>3. s # NOT_CONNECTED /\ s \in Recognised /\ s \in Prompted /\ actual # NOT_CONNECTED
  BY OfCommands, OfDevice DEF Kick, DeviceInv, Types
<1>4. UNCHANGED <<state, established, seen, walk>> /\ actual' = s
  BY DEF Kick
<1>5. Coming' /\ LastComing' = actual'
  <2>1. shown' = Append(shown, s) /\ shown \in Seq(Prompted)
    BY <1>1, <1>3 DEF Kick, EventPaused, Show, DeviceInv, Types
  <2> QED
    BY <1>3, <1>4, <2>1, LastAppended DEF LastComing, Coming
<1>6. \A u \in Walkers : walk[u].pc \notin Doors
  BY <1>1 DEF Doors
<1> QED
  BY <1>2, <1>3, <1>4, <1>5, <1>6, ShellMoves DEF Doors

LEMMA EnterBelieves == ASSUME DeviceInv, NEW t \in Walkers, Enter(t) PROVE Belief'
<1> SUFFICES ASSUME ~upset' PROVE Believes'
  BY DEF Belief
<1>1. ~upset /\ Believes
  BY DEF DeviceInv, Belief, Enter
<1>2. walk[t].pc = "enter" /\ Walking(t)
  BY DEF Enter, Walking, Outside
<1>3. UNCHANGED <<actual, shown, seen, established>> /\ state' = actual
  BY <1>1, <1>2 DEF Enter, Believes, AtDoor
<1>4. walk'[t].pc = "choose" /\ \A u \in Walkers \ {t} : walk'[u] = walk[u]
  BY AtTypes DEF DeviceInv, Pcs, Outside, Enter
<1>5. \A u \in Walkers : walk'[u].pc \notin Doors
  BY <1>1, <1>2, <1>4, Alone DEF Doors
<1>6. \A u \in Walkers : walk[u].pc \notin {"opens", "closes", "connecting"}
  BY <1>1, <1>2, Alone DEF Doors
<1>7. Coming' = Coming /\ LastComing' = LastComing
  BY <1>3 DEF Coming, LastComing
<1>8. Tells' /\ Knows' /\ Named' /\ Quiet'
  BY <1>1, <1>3, <1>7 DEF Believes, Tells, Knows, Named, Quiet
<1>9. AtDoor' /\ Opens' /\ Closes'
  BY <1>1, <1>3, <1>5, <1>6 DEF Believes, AtDoor, Opens, Closes, Doors
<1> QED
  BY <1>8, <1>9 DEF Believes

\* The callback looks at a prompt, and sets the state: the last one tells where the shell is.
LEMMA ShownBelieves == ASSUME DeviceInv, PromptShown PROVE Belief'
<1> SUFFICES ASSUME ~upset' PROVE Believes'
  BY DEF Belief
<1>1. ~upset /\ (state # Head(shown) => ~EventPaused)
  BY DEF PromptShown
<1>2. Believes
  BY <1>1 DEF DeviceInv, Belief
<1>3. UNCHANGED <<state, actual, established, walk>>
  BY DEF PromptShown
<1>4. /\ shown \in Seq(Prompted) /\ shown # <<>> /\ seen = Nowhere /\ shown' = Tail(shown)
      /\ seen' = IF state = Head(shown) THEN Nowhere ELSE Head(shown)
  BY <1>1 DEF PromptShown, DeviceInv, Types
<1>5. Coming /\ shown[Len(shown)] = actual
  BY <1>2, <1>4 DEF Believes, Tells, Coming, LastComing
<1>6. Head(shown) # Nowhere
  BY <1>4, Strangers
<1>7. CASE Tail(shown) # <<>>
  <2>1. Coming' /\ LastComing' = actual
    BY <1>4, <1>5, <1>7, LastOfTail DEF Coming, LastComing
  <2> QED
    BY <1>2, <1>3, <1>5, <2>1 DEF Believes, Tells, Knows, AtDoor, Named, Quiet, Opens, Closes
<1>8. CASE Tail(shown) = <<>>
  <2>1. Head(shown) = actual
    BY <1>4, <1>5, <1>8, LastOfTail
  <2>2. state # actual => Coming' /\ LastComing' = actual
    BY <1>4, <1>6, <1>8, <2>1 DEF Coming, LastComing
  <2>3. state = actual => ~Coming'
    BY <1>4, <1>8, <2>1 DEF Coming
  <2> QED
    BY <1>2, <1>3, <1>5, <2>2, <2>3
    DEF Believes, Tells, Knows, AtDoor, Named, Quiet, Opens, Closes
<1> QED
  BY <1>7, <1>8

LEMMA SeenBelieves == ASSUME DeviceInv, PromptSetsState PROVE Belief'
<1> SUFFICES ASSUME ~upset' PROVE Believes'
  BY DEF Belief
<1>1. Believes
  BY DEF DeviceInv, Belief, PromptSetsState
<1>2. /\ UNCHANGED <<actual, established, walk, shown>>
      /\ seen # Nowhere /\ state' = seen /\ seen' = Nowhere
  BY DEF PromptSetsState, SetState
<1>3. seen # NOT_CONNECTED
  BY <1>2, Strangers DEF DeviceInv, Types
<1>4. Coming /\ actual # NOT_CONNECTED
  BY <1>1, <1>2 DEF Coming, Believes, Quiet
<1>5. CASE shown # <<>>
  <2>1. Coming' /\ LastComing' = LastComing
    BY <1>2, <1>5 DEF Coming, LastComing
  <2> QED
    BY <1>1, <1>2, <1>3, <1>4, <2>1
    DEF Believes, Tells, Knows, AtDoor, Named, Quiet, Opens, Closes
<1>6. CASE shown = <<>>
  <2>1. ~Coming' /\ state' = actual
    BY <1>1, <1>2, <1>4, <1>6 DEF Coming, LastComing, Believes, Tells
  <2> QED
    BY <1>1, <1>2, <1>4, <2>1
    DEF Believes, Tells, Knows, AtDoor, Named, Quiet, Opens, Closes
<1> QED
  BY <1>5, <1>6

\* A call of goto_state() moves the caller only.
LEMMA GotoWalks ==
    ASSUME Types, NEW dest, NEW keep, NEW timed, NEW rerun, NEW removing,
           GotoState(dest, keep, timed, rerun, removing)
    PROVE  /\ walk'[USER].pc = "connects" /\ walk'[USER].keep = keep /\ walk'[USER].dest = dest
           /\ walk'[USER].timed = timed /\ walk'[USER].removing = removing
           /\ walk'[USER].result = "none"
           /\ \A u \in Walkers \ {USER} : walk'[u] = walk[u]
<1> DEFINE w == [Idle EXCEPT !.pc = "connects", !.dest = dest, !.keep = keep, !.timed = timed,
                    !.rerun = rerun, !.removing = removing]
<1>1. walk' = [walk EXCEPT ![USER] = w]
  BY DEF GotoState
<1>2. /\ w.pc = "connects" /\ w.keep = keep /\ w.dest = dest /\ w.timed = timed
      /\ w.removing = removing /\ w.result = "none"
  BY DEF Idle
<1> HIDE DEF w
<1>3. USER \in DOMAIN walk /\ DOMAIN walk = Walkers
  BY DEF Types, Walkers
<1> QED
  BY <1>1, <1>2, <1>3

\* goto_state() opens the connection: if no walk is under way, nothing is under way at all.
LEMMA ConnectBelieves == ASSUME DeviceInv, Connect PROVE Belief'
<1>u. USER \in Walkers /\ BG \in Walkers /\ Walkers = {USER, BG} /\ USER # BG
  BY DEF Walkers, USER, BG
<1>1. CASE established
  <2>1. UNCHANGED <<state, actual, shown, seen, established>> /\ At(USER, "looks")
    BY <1>1 DEF Connect
  <2>2. upset => upset'
    BY DEF Connect
  <2>3. walk'[USER].pc = "looks" /\ \A u \in Walkers \ {USER} : walk'[u] = walk[u]
    BY <1>u, <2>1, AtTypes DEF DeviceInv, Pcs, Outside
  <2>4. walk[USER].pc \notin Doors /\ "looks" \notin Doors
    BY DEF Connect, Doors
  <2> QED
    BY <1>u, <2>1, <2>2, <2>3, <2>4, BeliefAway DEF DeviceInv
<1>2. CASE ~established
  <2> SUFFICES ASSUME ~upset' PROVE Believes'
    BY DEF Belief
  <2>1. ~upset /\ ~Walking(BG) /\ walk[USER].pc = "connects"
    BY <1>2 DEF Connect
  <2>2. Believes
    BY <2>1 DEF DeviceInv, Belief
  <2>3. \A u \in Walkers : walk[u].pc \notin Doors
    BY <1>u, <2>1 DEF DeviceInv, Plan, Doors
  <2>4. actual = NOT_CONNECTED /\ ~Coming
    BY <1>2, <2>2, <2>3 DEF Believes, Opens, Quiet, Doors
  <2>5. /\ actual' = BaseState(device) /\ state' = BaseState(device) /\ ~established'
        /\ shown' = <<>> /\ seen' = seen /\ At(USER, "connecting")
    BY <1>2 DEF Connect, SetState
  <2>6. BaseState(device) # NOT_CONNECTED
    BY OfDevice, Strangers DEF DeviceInv, Types
  <2>7. ~Coming'
    BY <2>4, <2>5 DEF Coming
  <2>8. walk'[USER].pc = "connecting" /\ \A u \in Walkers \ {USER} : walk'[u] = walk[u]
    BY <1>u, <2>5, AtTypes DEF DeviceInv, Pcs, Outside
  <2>9. \A u \in Walkers : walk'[u].pc \notin {"enter", "opens", "closes"}
    BY <2>3, <2>8 DEF Doors
  <2>10. Tells' /\ Knows' /\ Named' /\ Quiet'
    BY <2>5, <2>6, <2>7 DEF Tells, Knows, Named, Quiet
  <2>11. AtDoor' /\ Opens' /\ Closes'
    BY <1>u, <2>5, <2>6, <2>8, <2>9 DEF AtDoor, Opens, Closes
  <2> QED
    BY <2>10, <2>11 DEF Believes
<1> QED
  BY <1>1, <1>2

LEMMA ConnectedBelieves == ASSUME DeviceInv, Connected PROVE Belief'
<1> SUFFICES ASSUME ~upset' PROVE Believes'
  BY DEF Belief
<1>u. USER \in Walkers
  BY DEF Walkers
<1>1. Believes
  BY DEF DeviceInv, Belief, Connected
<1>2. walk[USER].pc = "connecting" /\ actual # NOT_CONNECTED
  BY <1>u, <1>1 DEF Connected, Believes, AtDoor
<1>3. walk'[USER].pc = "looks" /\ \A u \in Walkers \ {USER} : walk'[u] = walk[u]
  BY <1>u, AtTypes DEF DeviceInv, Pcs, Outside, Connected
<1>4. UNCHANGED <<state, actual, shown, seen>> /\ established'
  BY DEF Connected
<1>5. Coming' = Coming /\ LastComing' = LastComing
  BY <1>4 DEF Coming, LastComing
<1>6. Tells' /\ Named' /\ Quiet'
  BY <1>1, <1>4, <1>5 DEF Believes, Tells, Named, Quiet
<1>7. Knows' /\ AtDoor'
  BY <1>1, <1>2, <1>3, <1>4, <1>5 DEF Believes, Knows, AtDoor
<1>8. Opens' /\ Closes'
  BY <1>2, <1>4 DEF Opens, Closes
<1> QED
  BY <1>6, <1>7, <1>8 DEF Believes

LEMMA WalkBelieves == ASSUME DeviceInv, NEW t \in Walkers, Walk(t) PROVE Belief'
<1>w. walk[t] \in Walks
  BY DEF DeviceInv, Types
<1>a. ASSUME UNCHANGED <<state, actual, shown, seen, established>>, upset => upset',
             walk[t].pc \notin Doors, NEW w, walk' = [walk EXCEPT ![t] = w], w.pc \notin Doors
      PROVE  Belief'
  <2>1. walk'[t] = w /\ \A u \in Walkers \ {t} : walk'[u] = walk[u]
    BY <1>a DEF DeviceInv, Types
  <2> QED
    BY <1>a, <2>1, BeliefAway DEF DeviceInv
<1>l. ASSUME UNCHANGED <<state, actual, shown, seen, established>>, upset => upset',
             walk[t].pc \notin Doors, NEW result \in {"none", "arrived", "late", "raised"},
             Leave(t, result)
      PROVE  Belief'
  <2>1. walk'[t].pc \notin Doors /\ \A u \in Walkers \ {t} : walk'[u] = walk[u]
    BY <1>l, LeaveTypes DEF DeviceInv, Doors
  <2> QED
    BY <1>l, <2>1, BeliefAway DEF DeviceInv
<1>1. CASE Choose(t)
  <2> DEFINE next == Hop(Tabled, state, walk[t].dest)
             w == [walk[t] EXCEPT !.pc = "try", !.next = next, !.tries = 0]
  <2>1. CASE walk' = [walk EXCEPT ![t] = w]
    <3>1. w.pc \notin Doors
      BY <1>w DEF Walks, Doors
    <3> HIDE DEF w
    <3> QED
      BY <1>1, <2>1, <3>1, <1>a DEF Choose, Doors
  <2>2. CASE Leave(t, "raised")
    BY <1>1, <2>2, <1>l DEF Choose, Doors
  <2> QED
    BY <1>1, <2>1, <2>2 DEF Choose
<1>2. CASE Arrive(t) \/ TimeIsOver(t)
  <2>1. PICK result \in {"arrived", "late"} :
            walk' = [walk EXCEPT ![t] = [@ EXCEPT !.pc = "sleep", !.result = result]]
    BY <1>2 DEF Arrive, TimeIsOver
  <2>2. [walk[t] EXCEPT !.pc = "sleep", !.result = result].pc \notin Doors
    BY <1>w DEF Walks, Doors
  <2>3. walk[t].pc \notin Doors /\ UNCHANGED <<state, actual, shown, seen, established, upset>>
    BY <1>2 DEF Arrive, TimeIsOver, Doors
  <2> QED
    BY <2>1, <2>2, <2>3, <1>a
<1>3. CASE Return(t)
  BY <1>3, <1>w, <1>l DEF Return, Walks, Doors
<1>4. CASE NothingToTry(t) \/ NoTransition(t) \/ StartCommand(t) \/ CommandFails(t)
  <2>1. PICK pc \in {"choose", "failed", "running"} : At(t, pc)
    BY <1>4 DEF NothingToTry, NoTransition, StartCommand, CommandFails
  <2>2. walk' = [walk EXCEPT ![t] = [@ EXCEPT !.pc = pc]]
    BY <2>1 DEF At
  <2>3. [walk[t] EXCEPT !.pc = pc].pc \notin Doors
    BY <1>w, <2>1 DEF Walks, Doors
  <2>4. walk[t].pc \notin Doors
    BY <1>4 DEF NothingToTry, NoTransition, Try, StartCommand, CommandFails, Doors
  <2>5. UNCHANGED <<state, actual, shown, seen, established, upset>>
    BY <1>4 DEF NothingToTry, NoTransition, StartCommand, CommandFails
  <2> QED
    BY <2>2, <2>3, <2>4, <2>5, <1>a
<1>5. CASE MakeCommand(t)
  <2>1. [walk[t] EXCEPT !.pc = "start", !.source = state].pc \notin Doors
    BY <1>w DEF Walks, Doors
  <2> QED
    BY <1>5, <2>1, <1>a DEF MakeCommand, Try, Doors
<1>6. CASE Failed(t)
  <2> DEFINE tries == IF state = walk[t].next THEN walk[t].tries ELSE walk[t].tries + 1
             w == [walk[t] EXCEPT !.pc = "try", !.tries = tries]
  <2>1. CASE walk' = [walk EXCEPT ![t] = w]
    <3> HIDE DEF tries
    <3>1. w.pc \notin Doors
      BY <1>w DEF Walks, Doors
    <3> HIDE DEF w
    <3> QED
      BY <1>6, <2>1, <3>1, <1>a DEF Failed, Doors
  <2>2. CASE Leave(t, "raised")
    BY <1>6, <2>2, <1>l DEF Failed, Doors
  <2> QED
    BY <1>6, <2>1, <2>2 DEF Failed
<1>7. CASE RecoverState(t)
  BY <1>7, BeliefSame DEF RecoverState, DeviceInv
<1> QED
  BY <1>1, <1>2, <1>3, <1>4, <1>5, <1>6, <1>7, OpeningBelieves, OpenedBelieves, ClosingBelieves,
     ClosedBelieves, DoneBelieves, SlowBelieves, ElsewhereBelieves, EnterBelieves
  DEF Walk, CrossEdge

LEMMA OtherBelieves ==
    ASSUME DeviceInv, [Next]_vars, ~\E t \in Walkers : Walk(t)
    PROVE  Belief'
<1>w. USER \in Walkers /\ BG \in Walkers /\ walk[BG] \in Walks
  BY DEF DeviceInv, Types, Walkers
<1>1. CASE TakeLock \/ Look \/ KeepHere
  <2>1. PICK pc \in {"choose", "waits", "keeps", "idle"} : At(USER, pc)
    BY <1>1 DEF TakeLock, Look, KeepHere, At
  <2>2. walk'[USER].pc \notin Doors /\ \A u \in Walkers \ {USER} : walk'[u] = walk[u]
    BY <1>w, <2>1, AtTypes DEF DeviceInv, Pcs, Outside, Doors
  <2>3. walk[USER].pc \notin Doors
    BY <1>1 DEF TakeLock, Look, KeepHere, Doors
  <2>4. UNCHANGED <<state, actual, shown, seen, established, upset>>
    BY <1>1 DEF TakeLock, Look, KeepHere
  <2> QED
    BY <1>w, <2>2, <2>3, <2>4, BeliefAway DEF DeviceInv
<1>2. CASE RemoveCloses \/ ConnectionLost
  BY <1>2 DEF RemoveCloses, ConnectionLost, Belief
<1>3. CASE Removed
  BY <1>3 DEF Removed, DeviceInv, Plan, Belief
<1>4. CASE BgTake
  <2>1. CASE holder = NoThread
    <3> DEFINE w == [Idle EXCEPT !.pc = "choose", !.timed = TRUE,
                        !.dest = Head(requests).dest, !.keep = Head(requests).keep]
    <3>1. walk'[BG] = w /\ \A u \in Walkers \ {BG} : walk'[u] = walk[u]
      BY <1>4, <1>w, <2>1 DEF BgTake, DeviceInv, Types
    <3>2. w.pc \notin Doors
      BY DEF Idle, Doors
    <3>3. ~Walking(BG)
      BY <2>1, <1>w DEF DeviceInv, LockInv, OneWalk, NoThread, BG
    <3>4. walk[BG].pc \notin Doors
      BY <3>3 DEF DeviceInv, Plan, Doors
    <3> HIDE DEF w
    <3>5. UNCHANGED <<state, actual, shown, seen, established>> /\ (upset => upset')
      BY <1>4 DEF BgTake
    <3> QED
      BY <1>w, <3>1, <3>2, <3>4, <3>5, BeliefAway DEF DeviceInv
  <2>2. CASE holder # NoThread
    BY <1>4, <2>2, BeliefSame DEF BgTake, DeviceInv
  <2> QED
    BY <2>1, <2>2
<1>5. CASE BgStop \/ UNCHANGED vars
  BY <1>5, BeliefSame DEF BgStop, DeviceInv, vars
<1>6. ASSUME NEW t, RecoverState(t) PROVE Belief'
  BY <1>6, BeliefSame DEF RecoverState, DeviceInv
<1>7. ASSUME NEW s, NEW keep, GotoStateBg(s, keep) PROVE Belief'
  BY <1>7, BeliefSame DEF GotoStateBg, DeviceInv
<1>8. ASSUME NEW dest, NEW keep, NEW timed, NEW rerun, NEW removing,
             GotoState(dest, keep, timed, rerun, removing)
      PROVE  Belief'
  <2>1. UNCHANGED <<state, actual, shown, seen, established, upset>> /\ walk[USER].pc = "idle"
    BY <1>8 DEF GotoState
  <2>2. walk'[USER].pc = "connects" /\ \A u \in Walkers \ {USER} : walk'[u] = walk[u]
    BY <1>8, GotoWalks DEF DeviceInv
  <2> QED
    BY <1>w, <2>1, <2>2, BeliefAway DEF DeviceInv, Doors
<1> QED
  BY <1>w, <1>1, <1>2, <1>3, <1>4, <1>5, <1>6, <1>7, <1>8, ConnectBelieves, ConnectedBelieves,
     ShownBelieves, SeenBelieves, KickBelieves
  DEF Next, User, Background, Prompts, Reader, Calls, FarEnd

LEMMA DeviceInit == ASSUME Init PROVE DeviceInv
BY LockInit, TypesInit, PlanInit, BeliefInit DEF DeviceInv

LEMMA DeviceNext == ASSUME DeviceInv, [Next]_vars PROVE DeviceInv'
BY LockNext, TypesNext, PlanNext, WalkBelieves, OtherBelieves DEF DeviceInv

\* At rest the device believes to be where its shell is, for every device and whatever prompts,
\* failures and slow commands come in whatever order, but for what StateIsActual names: the far
\* end moves a shell during a walk, the connection is lost, it is opened or closed without
\* _goto_state_lock, or a paused event drops a late prompt.
THEOREM BeliefIsTrue == Spec => []StateIsActual
<1>1. DeviceInv => StateIsActual
  <2> SUFFICES ASSUME DeviceInv, AtRest, ~upset PROVE state = actual
    BY DEF StateIsActual
  <2>1. Believes
    BY DEF DeviceInv, Belief
  <2>2. ~Coming /\ \A t \in Walkers : walk[t].pc # "enter"
    BY DEF AtRest, Coming
  <2> QED
    BY <2>1, <2>2 DEF Believes, Knows
<1> QED
  BY <1>1, DeviceInit, DeviceNext, PTL DEF Spec

-----------------------------------------------------------------------------
(* Nothing stays open.                                                      *)

\* Who is here closed the connection, or found it closed.
Seals(w) ==
    \/ w.pc = "closes"
    \/ w.pc = "enter" /\ w.next = NOT_CONNECTED
    \/ w.pc = "sleep" /\ w.removing
Sealed ==
    /\ state = NOT_CONNECTED => actual = NOT_CONNECTED
    /\ \A t \in Walkers : Seals(walk[t]) => actual = NOT_CONNECTED
    /\ walk[USER].pc = "removing" => actual = NOT_CONNECTED
ClosingInv == ~crossed => Sealed

LEMMA SealedInit == ASSUME Init PROVE ClosingInv
BY DEF Init, ClosingInv, Sealed, Seals, Idle

\* The connection is not opened, or there was one.
LEMMA SealedKept ==
    ASSUME ClosingInv, crossed => crossed', actual = NOT_CONNECTED => actual' = NOT_CONNECTED,
           \/ state' # NOT_CONNECTED \/ state = NOT_CONNECTED \/ actual' = NOT_CONNECTED
           \/ \E u \in Walkers : Seals(walk[u]),
           \A u \in Walkers : Seals(walk'[u]) => Seals(walk[u]) \/ actual' = NOT_CONNECTED,
           walk'[USER].pc = "removing" => walk[USER].pc = "removing" \/ actual' = NOT_CONNECTED
    PROVE  ClosingInv'
BY DEF ClosingInv, Sealed

LEMMA NotSealing ==
    ASSUME NEW w, w.pc \notin {"closes", "enter", "sleep", "removing"}
    PROVE  ~Seals(w)
BY DEF Seals

\* What no step of a walk does: it moves no other, does not forget what was asked for, and ends a
\* remove() only where it has arrived.
LEMMA WalkMoves ==
    ASSUME Types, NEW t \in Walkers, Walk(t)
    PROVE  /\ \A u \in Walkers \ {t} : walk'[u] = walk[u]
           /\ walk'[t].removing = walk[t].removing /\ walk'[t].dest = walk[t].dest
           /\ walk'[t].keep = walk[t].keep
           /\ walk'[t].pc = "idle" =>
                 walk[t].pc \in {"idle", "sleep"} \/ ~walk[t].removing
           /\ walk[t].pc = "sleep" => actual' = actual /\ walk'[t].pc # "removing"
           /\ walk'[t].pc = "removing" => walk[t].pc = "removing"
<1>w. walk[t] \in Walks
  BY DEF Types
<1> DEFINE Moves ==
        /\ \A u \in Walkers \ {t} : walk'[u] = walk[u]
        /\ walk'[t].removing = walk[t].removing /\ walk'[t].dest = walk[t].dest
        /\ walk'[t].keep = walk[t].keep
<1>a. ASSUME NEW pc \in Pcs, NEW w, walk' = [walk EXCEPT ![t] = w], w.pc = pc,
             w.removing = walk[t].removing, w.dest = walk[t].dest, w.keep = walk[t].keep
      PROVE  Moves /\ walk'[t].pc = pc
  BY <1>a DEF Types
<1>1. CASE Choose(t)
  <2> DEFINE next == Hop(Tabled, state, walk[t].dest)
             w == [walk[t] EXCEPT !.pc = "try", !.next = next, !.tries = 0]
  <2>1. CASE walk' = [walk EXCEPT ![t] = w]
    <3>1. /\ w.pc = "try" /\ w.removing = walk[t].removing /\ w.dest = walk[t].dest
          /\ w.keep = walk[t].keep
      BY <1>w DEF Walks
    <3> HIDE DEF w
    <3> QED
      BY <1>1, <2>1, <3>1, <1>a DEF Choose, Pcs, Outside
  <2>2. CASE Leave(t, "raised")
    BY <1>1, <2>2, LeaveTypes DEF Choose
  <2> QED
    BY <1>1, <2>1, <2>2 DEF Choose
<1>2. CASE Arrive(t) \/ TimeIsOver(t)
  <2>1. PICK result \in {"arrived", "late"} :
            walk' = [walk EXCEPT ![t] = [@ EXCEPT !.pc = "sleep", !.result = result]]
    BY <1>2 DEF Arrive, TimeIsOver
  <2> DEFINE w == [walk[t] EXCEPT !.pc = "sleep", !.result = result]
  <2>2. /\ w.pc = "sleep" /\ w.removing = walk[t].removing /\ w.dest = walk[t].dest
        /\ w.keep = walk[t].keep
    BY <1>w DEF Walks
  <2>3. walk' = [walk EXCEPT ![t] = w]
    BY <2>1
  <2> HIDE DEF w
  <2> QED
    BY <1>2, <2>2, <2>3, <1>a DEF Arrive, TimeIsOver, Pcs, Outside
<1>3. CASE Return(t)
  BY <1>3, <1>w, LeaveTypes DEF Return, Walks
<1>4. ASSUME NEW pc \in Pcs \ {"idle", "removing"}, At(t, pc), walk[t].pc # "sleep"
      PROVE  Moves /\ walk'[t].pc = pc
  BY <1>4, AtTypes
<1>5. CASE NothingToTry(t) \/ NoTransition(t) \/ OpenConnection(t) \/ CloseConnection(t)
  <2>1. walk[t].pc = "try" /\ \E pc \in {"choose", "failed", "enter", "opens", "closes"} : At(t, pc)
    BY <1>5 DEF NothingToTry, NoTransition, OpenConnection, CloseConnection, Try
  <2> QED
    BY <2>1, <1>4 DEF Pcs, Outside
<1>6. CASE Opened(t) \/ Closed(t) \/ Enter(t)
  <2>1. walk[t].pc # "sleep" /\ \E pc \in {"choose", "enter"} : At(t, pc)
    BY <1>6 DEF Opened, Closed, Enter
  <2> QED
    BY <2>1, <1>4 DEF Pcs, Outside
<1>7. CASE StartCommand(t) \/ CommandDone(t) \/ CommandFails(t) \/ CommandSlow(t)
           \/ \E s \in States : CommandElsewhere(t, s)
  <2>1. walk[t].pc # "sleep" /\ \E pc \in {"failed", "running", "enter"} : At(t, pc)
    BY <1>7 DEF StartCommand, CommandDone, CommandFails, CommandSlow, CommandElsewhere
  <2> QED
    BY <2>1, <1>4 DEF Pcs, Outside
<1>8. CASE MakeCommand(t)
  <2> DEFINE w == [walk[t] EXCEPT !.pc = "start", !.source = state]
  <2>1. walk' = [walk EXCEPT ![t] = w]
    BY <1>8 DEF MakeCommand
  <2>2. /\ w.pc = "start" /\ w.removing = walk[t].removing /\ w.dest = walk[t].dest
        /\ w.keep = walk[t].keep
    BY <1>w DEF Walks
  <2> HIDE DEF w
  <2> QED
    BY <1>8, <2>1, <2>2, <1>a DEF MakeCommand, Try, Pcs, Outside
<1>9. CASE Failed(t)
  <2> DEFINE tries == IF state = walk[t].next THEN walk[t].tries ELSE walk[t].tries + 1
             w == [walk[t] EXCEPT !.pc = "try", !.tries = tries]
  <2>1. CASE walk' = [walk EXCEPT ![t] = w]
    <3> HIDE DEF tries
    <3>1. /\ w.pc = "try" /\ w.removing = walk[t].removing /\ w.dest = walk[t].dest
          /\ w.keep = walk[t].keep
      BY <1>w DEF Walks
    <3> HIDE DEF w
    <3> QED
      BY <1>9, <2>1, <3>1, <1>a DEF Failed, Pcs, Outside
  <2>2. CASE Leave(t, "raised")
    BY <1>9, <2>2, LeaveTypes DEF Failed
  <2> QED
    BY <1>9, <2>1, <2>2 DEF Failed
<1>10. CASE RecoverState(t)
  BY <1>10 DEF RecoverState
<1> QED
  BY <1>1, <1>2, <1>3, <1>5, <1>6, <1>7, <1>8, <1>9, <1>10 DEF Walk, CrossEdge

\* The steps of a walk: what it opens it does not seal, and what it seals is closed.
LEMMA WalkSeals == ASSUME DeviceInv, ClosingInv, NEW t \in Walkers, Walk(t) PROVE ClosingInv'
<1>w. /\ walk[t] \in Walks /\ USER \in Walkers
      /\ \A u \in Walkers \ {t} : walk'[u] = walk[u]
  BY WalkMoves DEF DeviceInv, Types, Walkers
<1>r. walk'[USER].pc = "removing" => walk[USER].pc = "removing"
  BY <1>w, WalkMoves DEF DeviceInv
\* A step that neither opens nor closes, nor sets the state, and does not end where one seals.
<1>a. ASSUME UNCHANGED <<state, actual>>, crossed => crossed', ~Seals(walk'[t])
      PROVE  ClosingInv'
  BY <1>a, <1>w, <1>r, SealedKept
<1>b. ASSUME NEW pc \in Pcs \ {"closes", "enter", "sleep"}, At(t, pc)
      PROVE  ~Seals(walk'[t])
  BY <1>b, AtTypes DEF DeviceInv, Seals
<1>1. CASE Choose(t) \/ Return(t) \/ Failed(t)
  <2>w. walk \in [Walkers -> Walks] /\ walk[t] \in Walks
    BY <1>w DEF DeviceInv, Types
  <2>r. walk[t].result \in {"none", "arrived", "late", "raised"}
    BY <2>w DEF Walks
  <2>c. ASSUME Choose(t)
        PROVE  walk'[t].pc = "try" \/ Leave(t, "raised")
    <3> DEFINE next == Hop(Tabled, state, walk[t].dest)
               w == [walk[t] EXCEPT !.pc = "try", !.next = next, !.tries = 0]
    <3>1. CASE next \in Triggers
      <4>1. walk' = [walk EXCEPT ![t] = w]
        BY <2>c, <3>1 DEF Choose
      <4>2. w.pc = "try"
        BY <2>w DEF Walks
      <4>3. walk'[t] = w
        BY <2>w, <4>1
      <4> QED
        BY <4>2, <4>3
    <3>2. CASE next \notin Triggers
      BY <2>c, <3>2 DEF Choose
    <3> QED
      BY <3>1, <3>2
  <2>f. ASSUME Failed(t)
        PROVE  walk'[t].pc = "try" \/ Leave(t, "raised")
    <3> DEFINE tries == IF state = walk[t].next THEN walk[t].tries ELSE walk[t].tries + 1
               w == [walk[t] EXCEPT !.pc = "try", !.tries = tries]
    <3>1. walk' = [walk EXCEPT ![t] = w] \/ Leave(t, "raised")
      BY <2>f DEF Failed
    <3>2. w.pc = "try"
      BY <2>w DEF Walks
    <3>3. walk' = [walk EXCEPT ![t] = w] => walk'[t] = w
      BY <2>w
    <3> QED
      BY <3>1, <3>2, <3>3
  <2>1. \/ walk'[t].pc = "try"
        \/ \E result \in {"none", "arrived", "late", "raised"} : Leave(t, result)
    <3>1. Return(t) => Leave(t, walk[t].result)
      BY DEF Return
    <3> QED
      BY <1>1, <2>r, <2>c, <2>f, <3>1
  <2>2. walk'[t].pc \in {"try", "removes", "idle"}
    BY <2>1, LeaveTypes DEF DeviceInv
  <2>3. ~Seals(walk'[t])
    BY <2>2 DEF Seals
  <2> QED
    BY <1>1, <2>3, <1>a DEF Choose, Return, Failed
<1>2. CASE Arrive(t) \/ TimeIsOver(t)
  <2> SUFFICES ASSUME ~crossed' PROVE Sealed'
    BY DEF ClosingInv
  <2>1. Sealed /\ UNCHANGED <<state, actual>>
    BY <1>2 DEF Arrive, TimeIsOver, ClosingInv
  <2>2. walk'[t].removing => state = NOT_CONNECTED
    <3>1. walk[t].removing => t = USER /\ walk[t].dest = NOT_CONNECTED /\ ~walk[t].timed
      BY DEF DeviceInv, Plan, Walkers
    <3>2. walk'[t].removing = walk[t].removing
      BY WalkMoves DEF DeviceInv
    <3> QED
      BY <1>2, <3>1, <3>2 DEF Arrive, TimeIsOver
  <2>3. walk'[t].pc = "sleep"
    <3>1. PICK result \in {"arrived", "late"} :
              walk' = [walk EXCEPT ![t] = [@ EXCEPT !.pc = "sleep", !.result = result]]
      BY <1>2 DEF Arrive, TimeIsOver
    <3>2. [walk[t] EXCEPT !.pc = "sleep", !.result = result].pc = "sleep"
      BY <1>w DEF Walks
    <3> QED
      BY <3>1, <3>2 DEF DeviceInv, Types
  <2>4. Seals(walk'[t]) => actual = NOT_CONNECTED
    BY <2>1, <2>2, <2>3 DEF Sealed, Seals
  <2> QED
    BY <1>w, <1>r, <2>1, <2>4 DEF Sealed
<1>3. CASE NothingToTry(t) \/ NoTransition(t) \/ StartCommand(t) \/ CommandFails(t)
  <2>1. \E pc \in {"choose", "failed", "running"} : At(t, pc)
    BY <1>3 DEF NothingToTry, NoTransition, StartCommand, CommandFails
  <2>2. ~Seals(walk'[t])
    BY <2>1, <1>b DEF Pcs, Outside
  <2> QED
    BY <1>3, <2>2, <1>a DEF NothingToTry, NoTransition, StartCommand, CommandFails
<1>4. CASE MakeCommand(t)
  <2>1. walk'[t].pc = "start"
    BY <1>4, <1>w DEF MakeCommand, DeviceInv, Types, Walks
  <2> QED
    BY <1>4, <2>1, <1>a DEF MakeCommand, Seals
<1>5. CASE OpenConnection(t)
  <2>1. walk[t].next = BaseState(device) /\ BaseState(device) # NOT_CONNECTED
    BY <1>5, OfEdges, OfDevice, Strangers DEF OpenConnection, DeviceInv, Types
  <2>2. walk[t].pc = "try" /\ Walking(t)
    BY <1>5 DEF OpenConnection, Try, Walking, Outside
  <2>3. At(t, "enter") \/ At(t, "opens")
    BY <1>5 DEF OpenConnection
  <2>4. walk'[t].pc \in {"enter", "opens"} /\ walk'[t].next = walk[t].next
    BY <2>3, AtTypes DEF DeviceInv, Pcs, Outside
  <2>5. ~Seals(walk'[t])
    BY <2>1, <2>4 DEF Seals
  <2>6. CASE established
    <3>1. UNCHANGED <<state, actual>> /\ (crossed => crossed')
      BY <1>5, <2>6 DEF OpenConnection
    <3> QED
      BY <2>5, <3>1, <1>a
  <2>7. CASE ~established
    <3> SUFFICES ASSUME ~crossed' PROVE Sealed'
      BY DEF ClosingInv
    <3>1. walk[USER].pc # "removing" /\ state' = BaseState(device)
      BY <1>5, <2>7 DEF OpenConnection, SetState
    <3>2. \A u \in Walkers \ {t} : ~Seals(walk[u])
      BY <2>2, Alone DEF Seals, Outside
    <3> QED
      BY <1>w, <1>r, <2>1, <2>5, <3>1, <3>2 DEF Sealed
  <2> QED
    BY <2>6, <2>7
<1>6. CASE Opened(t)
  <2>1. walk[t].next = BaseState(device) /\ BaseState(device) # NOT_CONNECTED
    BY <1>6, OfDevice, Strangers DEF Opened, DeviceInv, Types, Plan
  <2>2. walk'[t].pc = "enter" /\ walk'[t].next = walk[t].next
    BY <1>6, AtTypes DEF Opened, DeviceInv, Pcs, Outside
  <2>3. ~Seals(walk'[t])
    BY <2>1, <2>2 DEF Seals
  <2> QED
    BY <1>6, <2>3, <1>a DEF Opened
<1>7. CASE CloseConnection(t)
  BY <1>7 DEF CloseConnection, CloseIo, ClosingInv, Sealed
<1>8. CASE Closed(t)
  <2>1. Seals(walk[t]) /\ UNCHANGED <<state, actual, crossed>>
    BY <1>8 DEF Closed, Seals
  <2> QED
    BY <1>w, <1>r, <2>1, SealedKept
<1>9. CASE CommandDone(t) \/ CommandSlow(t)
  <2>1. actual # NOT_CONNECTED /\ walk[t].next # NOT_CONNECTED
    BY <1>9, OfRunning DEF CommandDone, CommandSlow
  <2>2. At(t, "enter") \/ At(t, "failed")
    BY <1>9 DEF CommandDone, CommandSlow
  <2>3. walk'[t].pc \in {"enter", "failed"} /\ walk'[t].next = walk[t].next
    BY <2>2, AtTypes DEF DeviceInv, Pcs, Outside
  <2>4. ~Seals(walk'[t])
    BY <2>1, <2>3 DEF Seals
  <2>5. UNCHANGED <<state, crossed>>
    BY <1>9 DEF CommandDone, CommandSlow
  <2> QED
    BY <1>w, <1>r, <2>1, <2>4, <2>5, SealedKept
<1>10. CASE Enter(t)
  <2>1. walk[t].pc = "enter" /\ state' = walk[t].next /\ UNCHANGED <<actual, crossed>>
    BY <1>10 DEF Enter
  <2>2. state' # NOT_CONNECTED \/ Seals(walk[t])
    BY <2>1 DEF Seals
  <2>3. ~Seals(walk'[t])
    BY <1>10, <1>b DEF Enter, Pcs, Outside
  <2> QED
    BY <1>w, <1>r, <2>1, <2>2, <2>3, SealedKept
<1>11. CASE RecoverState(t)
  BY <1>11, SealedKept DEF RecoverState
<1>12. ASSUME NEW s, CommandElsewhere(t, s) PROVE ClosingInv'
  <2>1. <<walk[t].source, walk[t].next>> \in DOMAIN Tabled.commands
    BY <1>12 DEF CommandElsewhere, DeviceInv, Plan
  <2>2. actual # NOT_CONNECTED /\ walk[t].next # NOT_CONNECTED
    BY <1>12, <2>1, OfCommands DEF CommandElsewhere, DeviceInv, Types
  <2>3. At(t, "enter") \/ At(t, "failed")
    BY <1>12 DEF CommandElsewhere
  <2>4. walk'[t].pc \in {"enter", "failed"} /\ walk'[t].next = walk[t].next
    BY <2>3, AtTypes DEF DeviceInv, Pcs
  <2>5. ~Seals(walk'[t])
    BY <2>2, <2>4 DEF Seals
  <2>6. UNCHANGED <<state, crossed>>
    BY <1>12 DEF CommandElsewhere
  <2> QED
    BY <1>w, <1>r, <2>2, <2>5, <2>6, SealedKept
<1> QED
  BY <1>1, <1>2, <1>3, <1>4, <1>5, <1>6, <1>7, <1>8, <1>9, <1>10, <1>11, <1>12
  DEF Walk, CrossEdge

\* BG takes a request: it walks to the state that was asked for, or drops it.
LEMMA TakeWalks ==
    ASSUME DeviceInv, BgTake
    PROVE  /\ walk'[USER] = walk[USER]
           /\ holder = NoThread => walk'[BG].pc = "choose" /\ walk'[BG].keep = Head(requests).keep
           /\ holder # NoThread => walk'[BG] = walk[BG]
<1> DEFINE w == [Idle EXCEPT !.pc = "choose", !.timed = TRUE, !.dest = Head(requests).dest,
                             !.keep = Head(requests).keep]
<1>1. w.pc = "choose" /\ w.keep = Head(requests).keep
  BY DEF Idle
<1>2. walk' = IF holder = NoThread THEN [walk EXCEPT ![BG] = w] ELSE walk
  BY DEF BgTake
<1>3. DOMAIN walk = Walkers /\ BG \in Walkers /\ USER # BG
  BY DEF DeviceInv, Types, Walkers, USER, BG
<1> HIDE DEF w
<1> QED
  BY <1>1, <1>2, <1>3

\* The other steps: who opens the connection outside of a walk finds none that seals it.
LEMMA OtherSeals ==
    ASSUME DeviceInv, ClosingInv, [Next]_vars, ~\E t \in Walkers : Walk(t)
    PROVE  ClosingInv'
<1>w. USER \in Walkers /\ BG \in Walkers /\ Walkers = {USER, BG} /\ USER # BG
  BY DEF Walkers, USER, BG
<1>1. CASE TakeLock \/ Connected \/ Look \/ KeepHere
  <2>1. UNCHANGED <<state, actual, crossed>>
    BY <1>1 DEF TakeLock, Connected, Look, KeepHere
  <2>2. PICK pc \in {"choose", "looks", "waits", "keeps", "idle"} : At(USER, pc)
    BY <1>1 DEF TakeLock, Connected, Look, KeepHere, At
  <2>3. walk'[USER].pc = pc /\ \A u \in Walkers \ {USER} : walk'[u] = walk[u]
    BY <1>w, <2>2, AtTypes DEF DeviceInv, Pcs, Outside
  <2>4. ~Seals(walk'[USER]) /\ walk'[USER].pc # "removing"
    BY <2>3, NotSealing
  <2> QED
    BY <1>w, <2>1, <2>3, <2>4, SealedKept
<1>2. CASE RemoveCloses \/ ConnectionLost
  BY <1>2 DEF RemoveCloses, ConnectionLost, CloseIo, ClosingInv, Sealed
<1>3. CASE Removed
  <2>1. At(USER, "idle") /\ UNCHANGED <<state, actual, crossed>>
    BY <1>3 DEF Removed
  <2>2. walk'[USER].pc = "idle" /\ \A u \in Walkers \ {USER} : walk'[u] = walk[u]
    BY <1>w, <2>1, AtTypes DEF DeviceInv, Pcs, Outside
  <2> QED
    BY <1>w, <2>1, <2>2, NotSealing, SealedKept
<1>4. CASE BgTake
  <2>1. UNCHANGED <<state, actual>> /\ (crossed => crossed') /\ walk'[USER] = walk[USER]
    BY <1>4, <1>w, TakeWalks DEF BgTake
  <2>2. walk'[BG] = walk[BG] \/ walk'[BG].pc = "choose"
    BY <1>4, TakeWalks
  <2> QED
    BY <1>w, <2>1, <2>2, NotSealing, SealedKept
<1>5. CASE BgStop \/ UNCHANGED vars
  BY <1>5, SealedKept DEF BgStop, vars
<1>6. ASSUME NEW t, RecoverState(t) PROVE ClosingInv'
  BY <1>6, SealedKept DEF RecoverState
<1>7. ASSUME NEW s, NEW keep, GotoStateBg(s, keep) PROVE ClosingInv'
  BY <1>7, SealedKept DEF GotoStateBg
<1>8. CASE PromptShown
  BY <1>8, SealedKept DEF PromptShown
<1>9. CASE PromptSetsState
  <2>1. state' = seen /\ seen # NOT_CONNECTED
    BY <1>9, Strangers DEF PromptSetsState, SetState, DeviceInv, Types
  <2>2. UNCHANGED <<actual, crossed, walk>>
    BY <1>9 DEF PromptSetsState
  <2> QED
    BY <2>1, <2>2, SealedKept
<1>10. ASSUME NEW s, Kick(s) PROVE ClosingInv'
  <2>1. actual # NOT_CONNECTED
    BY <1>10, OfCommands DEF Kick, DeviceInv, Types
  <2>2. UNCHANGED <<state, crossed, walk>>
    BY <1>10 DEF Kick
  <2> QED
    BY <2>1, <2>2, SealedKept
<1>11. ASSUME NEW dest, NEW keep, NEW timed, NEW rerun, NEW removing,
              GotoState(dest, keep, timed, rerun, removing)
       PROVE  ClosingInv'
  <2>1. walk'[USER].pc = "connects" /\ walk'[BG] = walk[BG]
    BY <1>11, <1>w, GotoWalks DEF DeviceInv
  <2>2. UNCHANGED <<state, actual, crossed>>
    BY <1>11 DEF GotoState
  <2> QED
    BY <1>w, <2>1, <2>2, NotSealing, SealedKept
<1>12. CASE Connect
  <2>1. \E pc \in {"looks", "connecting"} : At(USER, pc)
    BY <1>12 DEF Connect
  <2>2. walk'[USER].pc \in {"looks", "connecting"} /\ walk'[BG] = walk[BG]
    BY <1>w, <2>1, AtTypes DEF DeviceInv, Pcs, Outside
  <2>3. ~Seals(walk'[USER])
    BY <2>2 DEF Seals
  <2>4. CASE established
    <3>1. UNCHANGED <<state, actual, crossed>>
      BY <1>12, <2>4 DEF Connect
    <3> QED
      BY <1>w, <2>2, <2>3, <3>1, SealedKept
  <2>5. CASE ~established
    <3> SUFFICES ASSUME ~crossed' PROVE Sealed'
      BY DEF ClosingInv
    <3>1. ~Walking(BG) /\ state' = BaseState(device)
      BY <1>12, <2>5 DEF Connect, SetState
    <3>2. ~Seals(walk'[BG])
      BY <2>2, <3>1 DEF Walking, Seals, Outside
    <3>3. BaseState(device) # NOT_CONNECTED
      BY OfDevice, Strangers DEF DeviceInv, Types
    <3> QED
      BY <1>w, <2>2, <2>3, <3>1, <3>2, <3>3 DEF Sealed
  <2> QED
    BY <2>4, <2>5
<1> QED
  BY <1>w, <1>1, <1>2, <1>3, <1>4, <1>5, <1>6, <1>7, <1>8, <1>9, <1>10, <1>11, <1>12
  DEF Next, User, Background, Prompts, Reader, Calls, FarEnd

\* A remove() ends with the connection closed, whatever the state it was called in, what failed
\* on the way to NOT_CONNECTED and what BG did meanwhile, unless somebody opened a connection
\* without _goto_state_lock.
THEOREM NothingStaysOpen == Spec => RemoveLeavesNothingOpen
<1>1. Init => DeviceInv /\ ClosingInv
  BY DeviceInit, SealedInit
<1>2. DeviceInv /\ ClosingInv /\ [Next]_vars => (DeviceInv /\ ClosingInv)'
  BY DeviceNext, WalkSeals, OtherSeals
<1> DEFINE Ended == /\ walk[USER].removing /\ walk[USER].pc # "idle"
                    /\ walk'[USER].pc = "idle" /\ ~crossed
<1>3. ASSUME DeviceInv, ClosingInv, Next, Ended PROVE actual' = NOT_CONNECTED
  <2>w. USER \in Walkers /\ BG \in Walkers /\ Walkers = {USER, BG} /\ USER # BG
    BY DEF Walkers, USER, BG
  <2>1. Sealed
    BY <1>3 DEF ClosingInv
  <2>2. CASE Walk(USER)
    <3>1. walk[USER].pc = "sleep" /\ actual' = actual
      BY <1>3, <2>2, <2>w, WalkMoves DEF DeviceInv
    <3> QED
      BY <1>3, <2>1, <2>w, <3>1 DEF Sealed, Seals
  <2>3. CASE Removed
    BY <2>1, <2>3 DEF Removed, Sealed
  <2>4. ~Walk(BG)
    BY <1>3, <2>w, WalkMoves DEF DeviceInv
  <2>5. ~(TakeLock \/ RemoveCloses \/ Connect \/ Connected \/ KeepHere)
    <3>1. ~TakeLock
      BY <1>3, <2>w DEF TakeLock, DeviceInv, Types, Walks
    <3>2. ~RemoveCloses
      BY <1>3, <2>w, AtTypes DEF RemoveCloses, DeviceInv, Pcs, Outside
    <3>3. ~Connected
      BY <1>3, <2>w, AtTypes DEF Connected, DeviceInv, Pcs, Outside
    <3>4. ~Connect
      <4>1. Connect => \E pc \in {"looks", "connecting"} : At(USER, pc)
        BY DEF Connect
      <4> QED
        BY <1>3, <2>w, <4>1, AtTypes DEF DeviceInv, Pcs, Outside
    <3>5. ~KeepHere
      BY <1>3 DEF KeepHere, DeviceInv, Plan
    <3> QED
      BY <3>1, <3>2, <3>3, <3>4, <3>5
  <2>6. ~BgTake
    BY <1>3, <2>w DEF BgTake, DeviceInv, Types
  <2>7. ~(BgStop \/ Prompts \/ Reader \/ FarEnd)
    BY <1>3 DEF BgStop, Prompts, PromptShown, PromptSetsState, RecoverState, Reader, FarEnd,
                ConnectionLost, Kick
  <2>8. ~Calls
    BY <1>3 DEF Calls, GotoState, GotoStateBg
  <2>9. CASE Look
    <3>1. walk[USER].dest = NOT_CONNECTED /\ actual' = actual
      BY <1>3, <2>9 DEF Look, DeviceInv, Plan
    <3>2. state = walk[USER].dest
      <4>1. At(USER, "waits") => walk'[USER].pc = "waits"
        BY <1>3, <2>w, AtTypes DEF DeviceInv, Pcs, Outside
      <4> QED
        BY <1>3, <2>9, <4>1 DEF Look
    <3> QED
      BY <2>1, <3>1, <3>2 DEF Sealed
  <2> QED
    BY <1>3, <2>2, <2>3, <2>4, <2>5, <2>6, <2>7, <2>8, <2>9 DEF Next, User, Background
<1>4. DeviceInv /\ ClosingInv /\ [Next]_vars => [Ended => actual' = NOT_CONNECTED]_vars
  BY <1>3
<1> QED
  BY <1>1, <1>2, <1>4, PTL DEF Spec, RemoveLeavesNothingOpen

-----------------------------------------------------------------------------
(* The kept state is returned to.                                           *)

\* Somebody is about to ask for a state, or has asked.
Pending == requests # <<>> \/ \E t \in Threads : owed[t] # Nowhere
Missing == kept \notin {Nowhere, state}

\* A call of the user finds nothing to return to, and nobody who does.
Calm == walk[USER].pc # "idle" => kept = Nowhere /\ ~bg /\ ~Pending
\* What BG is asked for, and what it walks to, is to be kept.
Requested == \A i \in DOMAIN requests : requests[i].keep
Carried == Walking(BG) => walk[BG].keep
\* BG returns: it may fail where it tries, but then it has missed the state it was asked for; and
\* when it has arrived it returns no more to the state that is kept already.
Tries == {"try", "start", "running", "failed"}
Arrived == walk[BG].pc = "sleep" /\ walk[BG].result = "arrived"
Returning ==
    /\ Walking(BG)
    /\ walk[BG].pc \in Tries => walk[BG].dest # state
    /\ Arrived => walk[BG].dest # kept
Returned == Missing => Pending \/ Returning

Keeps == Calm /\ Requested /\ Carried /\ (overlooked \/ Returned)
Slept == \A t \in Walkers : walk[t].pc = "sleep" => walk[t].result # "raised"
KeepInv == Slept /\ (~missed => Keeps)

LEMMA KeepInit == ASSUME Init PROVE KeepInv
<1>1. \A t \in Walkers : walk[t].pc = "idle"
  BY DEF Init, Idle
<1>2. kept = Nowhere /\ requests = <<>>
  BY DEF Init
<1>3. Slept /\ Calm
  BY <1>1 DEF Slept, Calm, Walkers
<1>4. Requested
  BY <1>2 DEF Requested
<1>5. Carried /\ Returned
  BY <1>1, <1>2 DEF Carried, Returned, Missing, Walking, Outside, Walkers
<1> QED
  BY <1>3, <1>4, <1>5 DEF KeepInv, Keeps

LEMMA KeepSame ==
    ASSUME KeepInv, missed => missed',
           UNCHANGED <<kept, state, requests, bg, owed, walk, overlooked>>
    PROVE  KeepInv'
BY DEF KeepInv, Slept, Keeps, Calm, Requested, Carried, Returned, Returning, Arrived, Missing,
       Pending, Walking

\* A step of the user's call or walk: no state is kept, and none is owed.
LEMMA KeepUser ==
    ASSUME KeepInv, DeviceInv, walk[USER].pc # "idle", missed => missed',
           UNCHANGED <<kept, requests, bg>>,
           kept = Nowhere => \A u \in Threads : owed'[u] \in {owed[u], Nowhere},
           \A u \in Walkers \ {USER} : walk'[u] = walk[u],
           walk'[USER].pc = "sleep" => walk'[USER].result # "raised"
    PROVE  KeepInv'
<1>1. USER \in Walkers /\ BG \in Walkers /\ USER # BG
  BY DEF Walkers, USER, BG
<1>2. Slept'
  BY <1>1 DEF KeepInv, Slept
<1> SUFFICES ASSUME ~missed PROVE Keeps'
  BY <1>2 DEF KeepInv
<1>3. kept = Nowhere /\ ~bg /\ ~Pending /\ Requested
  BY DEF KeepInv, Keeps, Calm
<1>4. ~Pending'
  BY <1>3 DEF Pending
<1>5. ~Walking(BG) /\ walk'[BG] = walk[BG]
  BY <1>1, <1>3 DEF DeviceInv, Plan
<1> QED
  BY <1>3, <1>4, <1>5 DEF Keeps, Calm, Requested, Carried, Returned, Missing, Walking

\* A step within BG's walk.
LEMMA KeepBack ==
    ASSUME KeepInv, DeviceInv, Walking(BG), Walking(BG)', missed => missed',
           UNCHANGED <<kept, requests, bg, overlooked>>,
           walk'[BG].keep = walk[BG].keep, walk'[BG].dest = walk[BG].dest,
           \A u \in Walkers \ {BG} : walk'[u] = walk[u],
           walk'[BG].pc = "sleep" => walk'[BG].result # "raised",
           walk'[BG].pc \in Tries =>
              /\ UNCHANGED <<state, owed>>
              /\ walk[BG].pc \in Tries \/ walk[BG].dest # state,
           Arrived' => walk[BG].dest = state /\ state' = state
    PROVE  KeepInv'
<1>1. USER \in Walkers /\ BG \in Walkers /\ USER # BG
  BY DEF Walkers, USER, BG
<1>2. Slept'
  BY <1>1 DEF KeepInv, Slept
<1> SUFFICES ASSUME ~missed PROVE Keeps'
  BY <1>2 DEF KeepInv
<1>3. Keeps /\ bg
  BY DEF KeepInv, DeviceInv, Plan
<1>4. walk'[USER].pc = "idle"
  BY <1>1, <1>3 DEF Keeps, Calm
<1>5. Requested' /\ Carried'
  BY <1>3 DEF Keeps, Requested, Carried
<1>6. overlooked' \/ Returned'
  <2> SUFFICES ASSUME ~overlooked PROVE Returned'
    OBVIOUS
  <2>1. CASE walk'[BG].pc \in Tries
    <3>1. ~Arrived'
      BY <2>1 DEF Arrived, Tries
    <3>2. Missing' => (Missing /\ walk[BG].dest # state) \/ Pending'
      BY <1>3, <2>1 DEF Keeps, Returned, Returning, Missing, Pending
    <3> QED
      BY <2>1, <3>1, <3>2 DEF Returned, Returning
  <2>2. CASE walk'[BG].pc \notin Tries
    <3>1. Arrived' /\ Missing' => walk'[BG].dest # kept'
      BY DEF Missing
    <3> QED
      BY <2>2, <3>1 DEF Returned, Returning
  <2> QED
    BY <2>1, <2>2
<1> QED
  BY <1>4, <1>5, <1>6 DEF Keeps, Calm

\* BG gives up where it tried: it is where it was asked to go, or has missed it.
LEMMA KeepGivenUp ==
    ASSUME KeepInv, DeviceInv, walk[BG].pc \in {"choose", "failed"}, Leave(BG, "raised"),
           walk[BG].pc = "choose" => state # walk[BG].dest,
           UNCHANGED <<kept, state, requests, bg, owed, overlooked>>
    PROVE  KeepInv'
<1>1. USER \in Walkers /\ BG \in Walkers /\ USER # BG
  BY DEF Walkers, USER, BG
<1>2. /\ walk'[BG].pc \in {"removes", "idle"} /\ \A u \in Walkers \ {BG} : walk'[u] = walk[u]
  BY <1>1, LeaveTypes DEF DeviceInv
<1>3. Slept' /\ ~Walking(BG)'
  BY <1>1, <1>2 DEF KeepInv, Slept, Walking, Outside
<1>4. missed' = (missed \/ state # walk[BG].dest)
  BY DEF Leave
<1> SUFFICES ASSUME ~missed' PROVE Keeps'
  BY <1>3 DEF KeepInv
<1>5. Keeps /\ walk[BG].pc = "failed" /\ walk[BG].dest = state
  BY <1>4 DEF KeepInv
<1>6. overlooked \/ (Missing => Pending)
  BY <1>5 DEF Keeps, Returned, Returning, Tries
<1> QED
  BY <1>1, <1>2, <1>3, <1>5, <1>6
  DEF Keeps, Calm, Requested, Carried, Returned, Missing, Pending

\* A walk ends: the state is kept that it arrived in.
LEMMA KeepReturned == ASSUME KeepInv, DeviceInv, NEW t \in Walkers, Return(t) PROVE KeepInv'
<1>1. USER \in Walkers /\ BG \in Walkers /\ USER # BG /\ Walkers = {USER, BG}
  BY DEF Walkers, USER, BG
<1>2. walk[t].pc = "sleep" /\ walk[t].result # "raised" /\ walk[t] \in Walks
  BY DEF KeepInv, Slept, Return, DeviceInv, Types
<1>3. Leave(t, walk[t].result) /\ UNCHANGED <<state, requests, bg, owed>>
  BY DEF Return
<1>4. walk'[t].pc = "idle" /\ \A u \in Walkers \ {t} : walk'[u] = walk[u]
  BY <1>2, <1>3, LeaveTypes DEF DeviceInv, Walks
<1>5. missed' = (missed \/ (walk[t].result # "arrived" /\ state # walk[t].dest))
  BY <1>3 DEF Leave
<1>6. IF walk[t].keep THEN Keep(t) ELSE UNCHANGED <<kept, overlooked>>
  BY DEF Return
<1>7. Slept'
  BY <1>1, <1>4 DEF KeepInv, Slept
<1> SUFFICES ASSUME ~missed' PROVE Keeps'
  BY <1>7 DEF KeepInv
<1>8. Keeps /\ (walk[t].result = "arrived" \/ state = walk[t].dest)
  BY <1>5 DEF KeepInv
<1>9. Walking(t)
  BY <1>2 DEF Walking, Outside
<1>10. walk'[USER].pc = "idle" /\ ~Walking(BG)'
  <2>1. CASE t = USER
    <3>1. ~Walking(BG)
      BY <1>1, <1>9, <2>1 DEF DeviceInv, LockInv, OneWalk
    <3> QED
      BY <1>1, <1>4, <2>1, <3>1 DEF Walking
  <2>2. CASE t = BG
    <3>1. walk[USER].pc = "idle"
      BY <1>8, <1>9, <2>2 DEF DeviceInv, Plan, Keeps, Calm
    <3> QED
      BY <1>1, <1>4, <2>2, <3>1 DEF Walking, Outside
  <2> QED
    BY <1>1, <2>1, <2>2
<1>11. Pending' = Pending
  BY <1>3 DEF Pending
<1>12. overlooked' \/ (Missing' => Pending')
  <2>1. CASE t = USER
    <3>1. kept = Nowhere
      BY <1>2, <1>8, <2>1 DEF Keeps, Calm
    <3> QED
      BY <1>3, <1>6, <3>1 DEF Keep, Missing
  <2>2. CASE t = BG
    <3>1. Keep(BG)
      BY <1>6, <1>8, <1>9, <2>2 DEF Keeps, Carried
    <3>2. ASSUME ~overlooked', Missing' PROVE Pending'
      <4>1. kept = walk[BG].dest /\ ~overlooked /\ Missing
        BY <1>3, <3>1, <3>2 DEF Keep, Missing
      <4>2. Arrived
        BY <1>2, <1>3, <1>8, <2>2, <3>1, <3>2 DEF Arrived, Keep, Missing
      <4> QED
        BY <1>8, <1>11, <4>1, <4>2 DEF Keeps, Returned, Returning
    <3> QED
      BY <3>2
  <2> QED
    BY <1>1, <2>1, <2>2
<1> QED
  BY <1>3, <1>8, <1>10, <1>12 DEF Keeps, Calm, Requested, Carried, Returned

\* The state is set outside of a walk: who sets it owes the kept one.
LEMMA KeepSet ==
    ASSUME KeepInv, DeviceInv, NEW t \in Threads, NEW s, SetState(t, s),
           UNCHANGED <<kept, requests, bg, walk, missed, overlooked>>
    PROVE  KeepInv'
<1>1. Slept'
  BY DEF KeepInv, Slept
<1> SUFFICES ASSUME ~missed PROVE Keeps'
  BY <1>1 DEF KeepInv
<1>2. Keeps
  BY DEF KeepInv
<1>3. /\ owed'[t] = IF kept \notin {Nowhere, s} THEN kept ELSE Nowhere
      /\ \A u \in Threads \ {t} : owed'[u] = owed[u]
      /\ state' = s
  BY DEF SetState, DeviceInv, Types
<1>4. Missing' => Pending'
  BY <1>3 DEF Missing, Pending
<1>5. walk[USER].pc # "idle" => ~Pending'
  BY <1>2, <1>3 DEF Keeps, Calm, Pending
<1> QED
  BY <1>2, <1>4, <1>5 DEF Keeps, Calm, Requested, Carried, Returned, Walking

\* A state that was owed is asked for.
LEMMA KeepRecovers == ASSUME KeepInv, DeviceInv, NEW t \in Threads, RecoverState(t) PROVE KeepInv'
<1>1. Slept'
  BY DEF KeepInv, Slept, RecoverState
<1> SUFFICES ASSUME ~missed' PROVE Keeps'
  BY <1>1 DEF KeepInv
<1>2. Keeps /\ UNCHANGED <<walk, kept, state>>
  BY DEF KeepInv, RecoverState
<1>3. Pending
  BY DEF Pending, RecoverState
<1>4. walk'[USER].pc = "idle"
  BY <1>2, <1>3 DEF Keeps, Calm
<1>5. requests' = Append(requests, [dest |-> owed[t], keep |-> TRUE])
  BY DEF RecoverState, Put
<1>6. requests \in Seq(Requests) /\ \A i \in DOMAIN requests : requests[i].keep
  BY <1>2 DEF Keeps, Requested, DeviceInv, Types
<1>7. /\ DOMAIN requests' = 1..(Len(requests) + 1) /\ DOMAIN requests = 1..Len(requests)
      /\ Len(requests) \in Nat /\ requests'[Len(requests) + 1].keep = TRUE
      /\ \A i \in 1..Len(requests) : requests'[i] = requests[i]
  BY <1>5, <1>6
<1>8. Requested'
  BY <1>6, <1>7 DEF Requested
<1>9. Pending'
  BY <1>7 DEF Pending
<1> QED
  BY <1>2, <1>4, <1>8, <1>9 DEF Keeps, Calm, Carried, Returned, Walking

LEMMA WalkKeepsState == ASSUME KeepInv, DeviceInv, NEW t \in Walkers, Walk(t) PROVE KeepInv'
<1>w. /\ walk[t] \in Walks /\ t \in Threads /\ Walkers = {USER, BG} /\ USER # BG
      /\ \A u \in Walkers \ {t} : walk'[u] = walk[u]
      /\ walk'[t].dest = walk[t].dest /\ walk'[t].keep = walk[t].keep
  BY WalkMoves DEF DeviceInv, Types, Walkers, Threads, USER, BG
\* A step within the walk that keeps the state and what is owed, but where it tries nothing next.
<1>a. ASSUME Walking(t), walk'[t].pc \in Pcs \ Outside, missed => missed',
             UNCHANGED <<kept, requests, bg, overlooked>>,
             walk'[t].pc = "sleep" => walk'[t].result # "raised",
             walk'[t].pc \in Tries =>
                /\ UNCHANGED <<state, owed>>
                /\ walk[t].pc \in Tries \/ walk[t].dest # state,
             t = BG /\ Arrived' => walk[BG].dest = state /\ state' = state,
             kept = Nowhere => \A u \in Threads : owed'[u] \in {owed[u], Nowhere}
      PROVE  KeepInv'
  <2>1. walk[t].pc # "idle" /\ Walking(t)'
    BY <1>a DEF Walking, Outside, Arrived
  <2>2. CASE t = USER
    BY <1>a, <1>w, <2>1, <2>2, KeepUser
  <2>3. CASE t = BG
    BY <1>a, <1>w, <2>1, <2>3, KeepBack
  <2> QED
    BY <1>w, <2>2, <2>3
<1>b. ASSUME NEW pc \in Pcs, At(t, pc) PROVE walk'[t].pc = pc
  BY <1>b, AtTypes DEF DeviceInv
\* A failure ends the walk.
<1>c. ASSUME walk[t].pc \in {"choose", "failed"}, Leave(t, "raised"),
             walk[t].pc = "choose" => state # walk[t].dest,
             UNCHANGED <<kept, state, requests, bg, owed, overlooked>>
      PROVE  KeepInv'
  <2>1. CASE t = USER
    <3>1. walk'[USER].pc # "sleep" /\ (missed => missed')
      <4>1. walk'[USER].pc \in {"removes", "idle"}
        BY <1>c, <2>1, LeaveTypes DEF DeviceInv
      <4>2. missed => missed'
        BY <1>c DEF Leave
      <4> QED
        BY <4>1, <4>2
    <3> QED
      BY <1>c, <1>w, <2>1, <3>1, KeepUser
  <2>2. CASE t = BG
    BY <1>c, <2>2, KeepGivenUp
  <2> QED
    BY <1>w, <2>1, <2>2
<1>1. CASE Choose(t)
  <2> DEFINE w == [walk[t] EXCEPT !.pc = "try", !.next = Hop(Tabled, state, walk[t].dest),
                                  !.tries = 0]
  <2>1. CASE walk' = [walk EXCEPT ![t] = w] /\ UNCHANGED <<holder, manipulator, missed>>
    <3>1. w.pc = "try"
      BY <1>w DEF Walks
    <3> HIDE DEF w
    <3>2. walk'[t].pc = "try"
      BY <2>1, <3>1 DEF DeviceInv, Types
    <3> QED
      BY <1>1, <2>1, <3>2, <1>a DEF Choose, Walking, Pcs, Outside, Arrived
  <2>2. CASE Leave(t, "raised")
    BY <1>1, <2>2, <1>c DEF Choose
  <2> QED
    BY <1>1, <2>1, <2>2 DEF Choose
<1>2. CASE Arrive(t) \/ TimeIsOver(t)
  <2>1. PICK result \in {"arrived", "late"} :
            walk' = [walk EXCEPT ![t] = [@ EXCEPT !.pc = "sleep", !.result = result]]
    BY <1>2 DEF Arrive, TimeIsOver
  <2> DEFINE w == [walk[t] EXCEPT !.pc = "sleep", !.result = result]
  <2>2. w.pc = "sleep" /\ w.result # "raised"
    BY <1>w DEF Walks
  <2>3. walk' = [walk EXCEPT ![t] = w]
    BY <2>1
  <2> HIDE DEF w
  <2>4. walk'[t].pc = "sleep" /\ walk'[t].result # "raised"
    BY <2>2, <2>3 DEF DeviceInv, Types
  <2>5. Walking(t) /\ UNCHANGED <<kept, requests, bg, owed, state, missed, overlooked>>
    BY <1>2 DEF Arrive, TimeIsOver, Walking, Outside
  <2>6. walk'[t].result = "arrived" => walk[t].dest = state
    <3>1. CASE Arrive(t)
      BY <3>1 DEF Arrive
    <3>2. CASE TimeIsOver(t)
      <4>1. walk' = [walk EXCEPT ![t] = [@ EXCEPT !.pc = "sleep", !.result = "late"]]
        BY <3>2 DEF TimeIsOver
      <4>2. [walk[t] EXCEPT !.pc = "sleep", !.result = "late"].result = "late"
        BY <1>w DEF Walks
      <4> QED
        BY <4>1, <4>2 DEF DeviceInv, Types
    <3> QED
      BY <1>2, <3>1, <3>2
  <2> QED
    BY <2>4, <2>5, <2>6, <1>a DEF Pcs, Outside, Tries, Arrived
<1>3. CASE NothingToTry(t) \/ NoTransition(t) \/ StartCommand(t) \/ CommandFails(t)
  <2>1. \E pc \in {"choose", "failed", "running"} : At(t, pc)
    BY <1>3 DEF NothingToTry, NoTransition, StartCommand, CommandFails
  <2>2. walk'[t].pc \in {"choose", "failed", "running"}
    BY <2>1, <1>b DEF Pcs, Outside
  <2>3. walk[t].pc \in Tries /\ UNCHANGED <<kept, requests, bg, state, owed, missed, overlooked>>
    BY <1>3 DEF NothingToTry, NoTransition, Try, StartCommand, CommandFails, Tries
  <2> QED
    BY <2>2, <2>3, <1>a DEF Pcs, Outside, Tries, Walking, Arrived
<1>4. CASE MakeCommand(t)
  <2>1. [walk[t] EXCEPT !.pc = "start", !.source = state].pc = "start"
    BY <1>w DEF Walks
  <2>2. walk'[t].pc = "start"
    BY <1>4, <2>1 DEF MakeCommand, DeviceInv, Types
  <2>3. walk[t].pc \in Tries /\ UNCHANGED <<kept, requests, bg, state, owed, missed, overlooked>>
    BY <1>4 DEF MakeCommand, Try, Tries
  <2> QED
    BY <2>2, <2>3, <1>a DEF Pcs, Outside, Tries, Walking, Arrived
<1>5. CASE OpenConnection(t) \/ CloseConnection(t)
  <2>1. At(t, "enter") \/ At(t, "opens") \/ At(t, "closes")
    BY <1>5 DEF OpenConnection, CloseConnection
  <2>2. walk'[t].pc \in {"enter", "opens", "closes"}
    BY <2>1, <1>b DEF Pcs, Outside
  <2>3. Walking(t) /\ UNCHANGED <<kept, requests, bg, missed, overlooked>>
    BY <1>5 DEF OpenConnection, CloseConnection, Try, Walking, Outside
  <2>4. owed' = owed \/ \E s : SetState(t, s)
    BY <1>5 DEF OpenConnection, CloseConnection, CloseIo
  <2>5. kept = Nowhere => \A u \in Threads : owed'[u] \in {owed[u], Nowhere}
    BY <1>w, <2>4 DEF SetState, DeviceInv, Types
  <2> QED
    BY <2>2, <2>3, <2>5, <1>a DEF Pcs, Outside, Tries, Arrived
<1>6. CASE Opened(t) \/ Closed(t) \/ CommandDone(t) \/ Enter(t)
  <2>1. At(t, "enter") \/ At(t, "choose")
    BY <1>6 DEF Opened, Closed, CommandDone, Enter
  <2>2. walk'[t].pc \in {"enter", "choose"}
    BY <2>1, <1>b DEF Pcs, Outside
  <2>3. Walking(t) /\ UNCHANGED <<kept, requests, bg, owed, missed, overlooked>>
    BY <1>6 DEF Opened, Closed, CommandDone, Enter, Walking, Outside
  <2> QED
    BY <2>2, <2>3, <1>a DEF Pcs, Outside, Tries, Arrived
<1>7. CASE CommandSlow(t)
  <2>1. walk'[t].pc = "failed"
    BY <1>7, <1>b DEF CommandSlow, Pcs, Outside
  <2>2. walk[t].pc \in Tries /\ UNCHANGED <<kept, requests, bg, state, owed, missed, overlooked>>
    BY <1>7 DEF CommandSlow, Tries
  <2> QED
    BY <2>1, <2>2, <1>a DEF Pcs, Outside, Tries, Walking, Arrived
<1>8. CASE Failed(t)
  <2> DEFINE tries == IF state = walk[t].next THEN walk[t].tries ELSE walk[t].tries + 1
             w == [walk[t] EXCEPT !.pc = "try", !.tries = tries]
  <2>0. walk[t].pc = "failed" /\ UNCHANGED <<kept, requests, bg, state, owed, overlooked>>
    BY <1>8 DEF Failed
  <2>1. CASE walk' = [walk EXCEPT ![t] = w] /\ UNCHANGED <<holder, manipulator, missed>>
    <3> HIDE DEF tries
    <3>1. w.pc = "try"
      BY <1>w DEF Walks
    <3> HIDE DEF w
    <3>2. walk'[t].pc = "try"
      BY <2>1, <3>1 DEF DeviceInv, Types
    <3> QED
      BY <2>0, <2>1, <3>2, <1>a DEF Walking, Pcs, Outside, Tries, Arrived
  <2>2. CASE Leave(t, "raised")
    BY <2>0, <2>2, <1>c
  <2> QED
    BY <1>8, <2>1, <2>2 DEF Failed
<1>9. ASSUME NEW s, CommandElsewhere(t, s) PROVE KeepInv'
  <2>1. At(t, "enter") \/ At(t, "failed")
    BY <1>9 DEF CommandElsewhere
  <2>2. walk'[t].pc \in {"enter", "failed"}
    BY <2>1, <1>b DEF Pcs
  <2>3. walk[t].pc \in Tries /\ UNCHANGED <<kept, requests, bg, state, owed, missed, overlooked>>
    BY <1>9 DEF CommandElsewhere, Tries
  <2> QED
    BY <2>2, <2>3, <1>a DEF Pcs, Outside, Tries, Walking, Arrived
<1> QED
  BY <1>w, <1>1, <1>2, <1>3, <1>4, <1>5, <1>6, <1>7, <1>8, <1>9, KeepReturned, KeepRecovers
  DEF Walk, CrossEdge

\* A call of the user finds nobody who returns, or misses the kept state.
LEMMA GotoKeepsState ==
    ASSUME KeepInv, DeviceInv, NEW dest, NEW keep, NEW timed, NEW rerun, NEW removing,
           GotoState(dest, keep, timed, rerun, removing)
    PROVE  KeepInv'
<1>1. USER \in Walkers /\ BG \in Walkers /\ Walkers = {USER, BG} /\ USER # BG
  BY DEF Walkers, USER, BG
<1>2. walk'[USER].pc = "connects" /\ walk'[BG] = walk[BG]
  BY <1>1, GotoWalks DEF DeviceInv
<1>3. Slept'
  BY <1>1, <1>2 DEF KeepInv, Slept
<1> SUFFICES ASSUME ~missed' PROVE Keeps'
  BY <1>3 DEF KeepInv
<1>4. /\ ~bg /\ bg' = bg /\ (\A t \in Threads : owed[t] = Nowhere)
      /\ UNCHANGED <<owed, requests>> /\ kept' = Nowhere
  BY DEF GotoState
<1>5. requests = <<>> /\ ~Walking(BG)
  BY <1>4 DEF DeviceInv, LockInv, RequestIsServed, Plan
<1>6. ~Pending' /\ ~Walking(BG)' /\ Requested'
  BY <1>2, <1>4, <1>5 DEF Pending, Walking, Requested
<1> QED
  BY <1>4, <1>6 DEF Keeps, Calm, Carried, Returned, Missing

\* The state is kept in which the device was found: the user's call had nothing to return to.
LEMMA HereKeepsState == ASSUME KeepInv, DeviceInv, KeepHere PROVE KeepInv'
<1>1. USER \in Walkers /\ BG \in Walkers /\ Walkers = {USER, BG} /\ USER # BG
  BY DEF Walkers, USER, BG
<1>2. walk'[USER].pc = "idle" /\ walk'[BG] = walk[BG]
  BY <1>1, AtTypes DEF KeepHere, DeviceInv, Pcs, Outside
<1>3. Slept'
  BY <1>1, <1>2 DEF KeepInv, Slept
<1> SUFFICES ASSUME ~missed PROVE Keeps'
  BY <1>3 DEF KeepInv, KeepHere
<1>4. Keeps /\ kept = Nowhere /\ ~bg
  BY DEF KeepInv, Keeps, Calm, KeepHere
<1>5. ~Walking(BG)' /\ Requested'
  BY <1>2, <1>4 DEF Walking, DeviceInv, Plan, Keeps, Requested, KeepHere
<1>6. Keep(USER) /\ state' = state
  BY DEF KeepHere
<1>7. Missing' => overlooked'
  BY <1>4, <1>6 DEF Keep, Missing
<1> QED
  BY <1>2, <1>5, <1>7 DEF Keeps, Calm, Carried, Returned

LEMMA OtherKeepsState ==
    ASSUME KeepInv, DeviceInv, [Next]_vars, ~\E t \in Walkers : Walk(t)
    PROVE  KeepInv'
<1>w. /\ USER \in Walkers /\ BG \in Walkers /\ USER # BG
      /\ USER \in Threads /\ EVENTS \in Threads /\ READER \in Threads
  BY DEF Walkers, Threads, USER, BG
<1>1. CASE TakeLock \/ RemoveCloses \/ Removed \/ Connect \/ Connected \/ Look
  <2>1. PICK pc \in {"choose", "removing", "idle", "looks", "connecting", "waits", "keeps"} :
            At(USER, pc)
    BY <1>1 DEF TakeLock, At, RemoveCloses, Removed, Connect, Connected, Look
  <2>2. walk'[USER].pc # "sleep" /\ \A u \in Walkers \ {USER} : walk'[u] = walk[u]
    BY <1>w, <2>1, AtTypes DEF DeviceInv, Pcs, Outside
  <2>3. walk[USER].pc # "idle" /\ UNCHANGED <<kept, requests, bg, missed>>
    BY <1>1 DEF TakeLock, RemoveCloses, Removed, Connect, Connected, Look
  <2>4. owed' = owed \/ \E s : SetState(USER, s)
    BY <1>1 DEF TakeLock, RemoveCloses, Removed, CloseIo, Connect, Connected, Look
  <2>5. kept = Nowhere => \A u \in Threads : owed'[u] \in {owed[u], Nowhere}
    BY <1>w, <2>4 DEF SetState, DeviceInv, Types
  <2> QED
    BY <2>2, <2>3, <2>5, KeepUser
<1>2. CASE BgTake
  <2> SUFFICES ASSUME ~missed' PROVE KeepInv'
    <3>1. walk'[USER] = walk[USER] /\ (walk'[BG] = walk[BG] \/ walk'[BG].pc = "choose")
      BY <1>2, TakeWalks
    <3> QED
      BY <3>1 DEF KeepInv, Slept, Walkers
  <2>1. /\ holder = NoThread /\ bg /\ requests # <<>> /\ requests' = Tail(requests)
        /\ UNCHANGED <<kept, state, bg, owed, missed>>
    BY <1>2 DEF BgTake
  <2>2. /\ walk'[USER] = walk[USER] /\ walk'[BG].pc = "choose"
        /\ walk'[BG].keep = Head(requests).keep
    BY <1>2, <2>1, TakeWalks
  <2>3. Keeps
    BY <2>1 DEF KeepInv
  <2>4. Requested' /\ Head(requests).keep
    BY <2>1, <2>3 DEF Keeps, Requested, DeviceInv, Types
  <2>5. walk'[USER].pc = "idle" /\ Walking(BG)' /\ Slept'
    BY <2>1, <2>2, <2>3 DEF Keeps, Calm, Walking, Outside, KeepInv, Slept, Walkers
  <2> QED
    BY <2>2, <2>4, <2>5
    DEF KeepInv, Keeps, Calm, Carried, Returned, Returning, Arrived, Tries
<1>3. CASE BgStop
  <2>1. UNCHANGED <<kept, state, requests, owed, walk, missed, overlooked>> /\ ~bg'
    BY <1>3 DEF BgStop
  <2> QED
    BY <2>1
    DEF KeepInv, Slept, Keeps, Calm, Requested, Carried, Returned, Returning, Arrived, Missing,
        Pending, Walking
<1>4. CASE UNCHANGED vars
  BY <1>4, KeepSame DEF vars
<1>5. CASE PromptShown
  BY <1>5, KeepSame DEF PromptShown
<1>6. CASE PromptSetsState \/ ConnectionLost
  <2>1. SetState(EVENTS, seen) \/ SetState(READER, NOT_CONNECTED)
    BY <1>6 DEF PromptSetsState, ConnectionLost
  <2>2. UNCHANGED <<kept, requests, bg, walk, missed, overlooked>>
    BY <1>6 DEF PromptSetsState, ConnectionLost
  <2> QED
    BY <1>w, <2>1, <2>2, KeepSet
<1>7. ASSUME NEW s, NEW keep, GotoStateBg(s, keep) PROVE KeepInv'
  <2>1. UNCHANGED <<kept, state, owed, walk>>
    BY <1>7 DEF GotoStateBg
  <2>2. Slept'
    BY <2>1 DEF KeepInv, Slept
  <2> SUFFICES ASSUME ~missed' PROVE Keeps'
    BY <2>2 DEF KeepInv
  <2>3. ~missed /\ keep /\ walk[USER].pc = "idle"
    BY <1>7 DEF GotoStateBg
  <2>4. requests' = Append(requests, [dest |-> s, keep |-> keep])
    BY <1>7 DEF GotoStateBg, Put
  <2>5. Requested' /\ requests' # <<>>
    BY <2>3, <2>4 DEF KeepInv, Keeps, Requested, DeviceInv, Types
  <2> QED
    BY <2>1, <2>3, <2>5 DEF KeepInv, Keeps, Calm, Carried, Returned, Pending, Walking
<1>8. ASSUME NEW s, Kick(s) PROVE KeepInv'
  BY <1>8, KeepSame DEF Kick
<1> QED
  BY <1>w, <1>1, <1>2, <1>3, <1>4, <1>5, <1>6, <1>7, <1>8, KeepRecovers, GotoKeepsState,
     HereKeepsState
  DEF Next, User, Background, Prompts, Reader, Calls, FarEnd

\* At rest a device with a kept state believes to be in it, for every device and whatever the
\* far end does, losses of the connection and unlocked closing included, but for what
\* KeptIsReturnedTo names: the last attempt to return failed, ran out of time or was dropped, the
\* calls overlapped requests of the background thread, or the state was left before it was kept.
THEOREM TheKeptStateIsReturnedTo == Spec => []KeptIsReturnedTo
<1>1. Init => DeviceInv /\ KeepInv
  BY DeviceInit, KeepInit
<1>2. DeviceInv /\ KeepInv /\ [Next]_vars => (DeviceInv /\ KeepInv)'
  BY DeviceNext, WalkKeepsState, OtherKeepsState
<1>3. KeepInv => KeptIsReturnedTo
  <2> SUFFICES ASSUME KeepInv, AtRest, ~missed, ~overlooked, kept # Nowhere PROVE state = kept
    BY DEF KeptIsReturnedTo
  <2>1. ~Pending /\ ~Walking(BG)
    BY DEF AtRest, Pending, Walking, Outside, Walkers
  <2> QED
    BY <2>1 DEF KeepInv, Keeps, Returned, Returning, Missing
<1> QED
  BY <1>1, <1>2, <1>3, PTL DEF Spec

-----------------------------------------------------------------------------
(* A device that nobody disturbs arrives.                                   *)

\* Where the tables of a device lead nowhere.
Dropped(w) ==
    DropsUnixLocalHops(device) /\ state = UNIX_LOCAL_ROOT /\ w.dest = NOT_CONNECTED

\* Where an edge is being crossed, and where it is the one the tables tell.
Crossing == {"try", "start", "running", "failed", "opens", "closes", "enter"}
ToClose(w) == w.dest = NOT_CONNECTED
Way(w) ==
    /\ ~w.keep /\ ~w.removing /\ w.pc # "removes"
    /\ w.pc # "idle" => w.dest \in States
    /\ w.pc \in Crossing => w.next \in States /\ (w.next = NOT_CONNECTED => ToClose(w))
    /\ w.pc \in Crossing \cup {"looks", "waits", "choose"} => (state = NOT_CONNECTED => ToClose(w))
    /\ w.pc \in Tries => state # w.dest /\ w.next = Hop(Tabled, state, w.dest)
    /\ w.pc \in {"start", "running"} => w.source = state
    /\ w.pc = "failed" => Dropped(w)
    /\ w.result = "raised" => w.pc = "idle" /\ Dropped(w)

\* Nothing happens but the calls of goto_state().
Undisturbed ==
    /\ pauses /\ ~upset /\ ~crossed
    /\ left \in [gotos : Nat, asks : {0}, trouble : {0}]
    /\ kept = Nowhere /\ requests = <<>> /\ ~bg
    /\ \A t \in Threads : owed[t] = Nowhere
    /\ shown = <<>> /\ seen = Nowhere
    /\ state \in States

ArrivesInv == device \notin Disturbed => Undisturbed /\ Way(walk[USER])

LEMMA ArrivesInit == ASSUME Init PROVE ArrivesInv
<1> SUFFICES ASSUME device \notin Disturbed PROVE Undisturbed /\ Way(walk[USER])
  BY DEF ArrivesInv
<1>1. left \in [gotos : Nat, asks : {0}, trouble : {0}]
  <2>1. PICK b \in Budgets : left = [b EXCEPT !.asks = 0, !.trouble = 0]
    BY DEF Init
  <2>2. b \in [gotos : Nat, asks : Nat, trouble : Nat]
    BY BudgetsAssumption
  <2> QED
    BY <2>1, <2>2
<1>2. pauses
  BY DEF Init
<1>3. state \in States
  BY TablesLead DEF Init, States
<1>4. Undisturbed
  BY <1>1, <1>2, <1>3 DEF Init, Undisturbed
<1>5. walk[USER] = Idle
  BY DEF Init, Walkers
<1>6. Way(walk[USER])
  BY <1>5 DEF Way, Idle, Crossing, Tries
<1> QED
  BY <1>4, <1>6

LEMMA NoTrouble ==
    ASSUME Undisturbed
    PROVE  ~Trouble /\ ~(left.asks > 0) /\ \A t \in Walkers, s \in States : ~CommandElsewhere(t, s)
<1>1. left.trouble = 0 /\ left.asks = 0
  BY DEF Undisturbed
<1>2. ~Trouble /\ ~(left.asks > 0)
  BY <1>1 DEF Trouble
<1>3. ASSUME NEW t \in Walkers, NEW s \in States PROVE ~CommandElsewhere(t, s)
  BY <1>2 DEF CommandElsewhere
<1> QED
  BY <1>2, <1>3

\* The next state that the tables tell can be tried, and is a state.
LEMMA HopLeads ==
    ASSUME device \in Devices, NEW w, state \in States, w.dest \in States, state # w.dest,
           state # NOT_CONNECTED
    PROVE  LET next == Hop(Tabled, state, w.dest) IN
           \/ /\ next \in Triggers /\ next \in States
              /\ <<state, next>> \in DOMAIN Tabled.transitions
              /\ next = NOT_CONNECTED => ToClose(w)
           \/ Dropped(w)
<1> DEFINE next == Hop(Tabled, state, w.dest)
<1>1. Triggers \subseteq States
  BY TriggersAreStates
<1>2. \/ /\ next \in TriggersOf[device] /\ <<state, next>> \in DOMAIN Tabled.transitions
         /\ next = NOT_CONNECTED => ToClose(w)
      \/ Dropped(w)
  BY TablesLead DEF Hop, Tabled, States, Dropped, ToClose
<1> QED
  BY <1>1, <1>2 DEF Triggers

\* Nobody but the user walks, and the device believes to be where its shell is.
LEMMA OnlyTheUser ==
    ASSUME DeviceInv, Undisturbed
    PROVE  /\ ~Walking(BG)
           /\ state = actual \/ walk[USER].pc = "enter"
           /\ walk[USER].pc = "enter" => walk[USER].next = actual
           /\ established /\ walk[USER].pc \in {"idle", "connects"} => state # NOT_CONNECTED
           /\ walk[USER].pc = "connecting" => state # NOT_CONNECTED
<1>1. ~Walking(BG)
  BY DEF DeviceInv, Plan, Undisturbed
<1>2. Believes /\ ~Coming
  BY DEF DeviceInv, Belief, Undisturbed, Coming
<1>3. walk[BG].pc \notin Doors
  BY <1>1 DEF DeviceInv, Plan, Doors
<1> QED
  BY <1>1, <1>2, <1>3 DEF Believes, Knows, AtDoor, Named, Closes, Walkers, Doors

LEMMA WhoWalks == ASSUME NEW t \in Walkers, Walk(t) PROVE Walking(t) \/ RecoverState(t)
BY DEF Walk, CrossEdge, Choose, Arrive, TimeIsOver, Return, NothingToTry, NoTransition, Try,
       OpenConnection, Opened, CloseConnection, Closed, MakeCommand, StartCommand, CommandDone,
       CommandFails, CommandSlow, CommandElsewhere, Enter, Failed, Walking, Outside

\* What does not change during a walk: nothing is owed, as nothing is kept.
LEMMA QuietWalk ==
    ASSUME DeviceInv, Undisturbed, Way(walk[USER]), Walk(USER), state' \in States
    PROVE  Undisturbed'
<1> USE DEF Undisturbed
<1>w. USER \in Threads /\ BG \in Threads
  BY DEF Threads
<1>e. ~\E s \in States : CommandElsewhere(USER, s)
  BY NoTrouble DEF Walkers
<1>1. walk[USER].pc # "removing"
  BY DEF DeviceInv, Plan
<1>2. UNCHANGED <<device, pauses, requests, bg, seen>>
  <2>1. ~RecoverState(USER)
    BY <1>w DEF RecoverState
  <2> QED
    BY <1>e, <2>1
    DEF Walk, CrossEdge, Choose, Arrive, TimeIsOver, Return, NothingToTry, NoTransition,
        OpenConnection, Opened, CloseConnection, Closed, MakeCommand, StartCommand, CommandDone,
        CommandFails, CommandSlow, Enter, Failed
<1>3. kept' = Nowhere
  <2>1. ~walk[USER].keep
    BY DEF Way
  <2>2. CASE Return(USER)
    BY <2>1, <2>2 DEF Return, Keep
  <2>3. CASE ~Return(USER)
    BY <1>e, <2>3
    DEF Walk, CrossEdge, Choose, Arrive, TimeIsOver, NothingToTry, NoTransition,
        OpenConnection, Opened, CloseConnection, Closed, MakeCommand, StartCommand, CommandDone,
        CommandFails, CommandSlow, Enter, Failed, RecoverState
  <2> QED
    BY <2>2, <2>3
<1>4. UNCHANGED left
  BY NoTrouble, <1>e, <1>w
  DEF Walk, CrossEdge, Choose, Arrive, TimeIsOver, Return, NothingToTry, NoTransition,
      OpenConnection, Opened, CloseConnection, Closed, MakeCommand, StartCommand, CommandDone,
      CommandFails, CommandSlow, Enter, Failed, RecoverState
<1>5. ~crossed'
  <2>1. CASE OpenConnection(USER)
    BY <1>1, <2>1 DEF OpenConnection
  <2>2. CASE ~OpenConnection(USER)
    BY <1>e, <2>2
    DEF Walk, CrossEdge, Choose, Arrive, TimeIsOver, Return, NothingToTry, NoTransition,
        Opened, CloseConnection, Closed, MakeCommand, StartCommand, CommandDone,
        CommandFails, CommandSlow, Enter, Failed, RecoverState
  <2> QED
    BY <2>1, <2>2
<1>6. ~upset'
  <2>1. CASE CloseConnection(USER) \/ CommandDone(USER)
    BY <2>1 DEF CloseConnection, CommandDone
  <2>2. CASE ~(CloseConnection(USER) \/ CommandDone(USER))
    BY <1>e, <2>2
    DEF Walk, CrossEdge, Choose, Arrive, TimeIsOver, Return, NothingToTry, NoTransition,
        OpenConnection, Opened, Closed, MakeCommand, StartCommand,
        CommandFails, CommandSlow, Enter, Failed, RecoverState
  <2> QED
    BY <2>1, <2>2
<1>7. shown' = <<>>
  <2>1. ~CommandSlow(USER)
    BY NoTrouble DEF CommandSlow
  <2> QED
    BY <1>e, <2>1
    DEF Walk, CrossEdge, Choose, Arrive, TimeIsOver, Return, NothingToTry, NoTransition,
        OpenConnection, Opened, CloseConnection, CloseIo, Closed, MakeCommand, StartCommand,
        CommandDone, CommandFails, Enter, Failed, RecoverState
<1>8. \A t \in Threads : owed'[t] = Nowhere
  <2>1. owed' = owed \/ \E s : SetState(USER, s)
    <3>1. ~RecoverState(USER)
      BY <1>w DEF RecoverState
    <3> QED
      BY <1>e, <3>1
      DEF Walk, CrossEdge, Choose, Arrive, TimeIsOver, Return, NothingToTry, NoTransition,
          OpenConnection, Opened, CloseConnection, CloseIo, Closed, MakeCommand, StartCommand,
          CommandDone, CommandFails, CommandSlow, Enter, Failed
  <2> QED
    BY <2>1 DEF SetState, DeviceInv, Types
<1> QED
  BY <1>2, <1>3, <1>4, <1>5, <1>6, <1>7, <1>8 DEF States

\* Each step of the walk keeps to the way of the tables, and fails only where they lead nowhere.
LEMMA WayWalked ==
    ASSUME DeviceInv, Undisturbed, Way(walk[USER]), Walk(USER)
    PROVE  state' \in States /\ Way(walk[USER])'
<1> DEFINE t == USER
           w == walk[USER]
<1>w. /\ t \in Walkers /\ t \in Threads /\ walk[t] \in Walks /\ device \in Devices
      /\ state \in States /\ walk \in [Walkers -> Walks] /\ UNCHANGED device
  <2>1. walk[t] \in Walks /\ device \in Devices /\ walk \in [Walkers -> Walks]
    BY DEF DeviceInv, Types, Walkers
  <2>2. UNCHANGED device
    BY NoTrouble
    DEF Walkers, Walk, CrossEdge, Choose, Arrive, TimeIsOver, Return, NothingToTry, NoTransition,
        OpenConnection, Opened, CloseConnection, Closed, MakeCommand, StartCommand, CommandDone,
        CommandFails, CommandSlow, Enter, Failed, RecoverState
  <2> QED
    BY <2>1, <2>2 DEF Undisturbed, Walkers, Threads
<1>m. walk'[t].removing = w.removing /\ walk'[t].dest = w.dest /\ walk'[t].keep = w.keep
  BY <1>w, WalkMoves DEF DeviceInv
<1>d. UNCHANGED <<States, Tabled>>
  BY <1>w DEF States, Tabled
<1>i. ~RecoverState(t)
  BY <1>w DEF RecoverState, Undisturbed
<1>k. Walking(t) /\ w.pc # "idle" /\ w.dest \in States
  <2>1. Walking(t)
    BY <1>i, <1>w, WhoWalks
  <2>2. w.pc # "idle"
    BY <2>1 DEF Walking, Outside
  <2> QED
    BY <2>1, <2>2 DEF Way
<1>r. w.result # "raised"
  BY <1>k DEF Way
\* Nothing but where the walk is has changed.
<1>p. ASSUME NEW pc \in Pcs, At(t, pc)
      PROVE  /\ walk'[t].pc = pc /\ walk'[t].next = w.next /\ walk'[t].source = w.source
             /\ walk'[t].result # "raised"
  BY <1>p, <1>w, <1>r, AtTypes DEF DeviceInv
\* A step within the walk, to where the tables are no longer asked.
<1>a. ASSUME walk'[t].pc \notin Tries,
             walk'[t].pc \in Crossing =>
                walk'[t].next \in States /\ (walk'[t].next = NOT_CONNECTED => ToClose(w)),
             walk'[t].pc \in Crossing \cup {"looks", "waits", "choose"} =>
                (state' = NOT_CONNECTED => ToClose(w)),
             walk'[t].pc # "removes", walk'[t].result # "raised"
      PROVE  Way(walk[USER])'
  <2>1. walk'[t].pc \notin {"start", "running", "failed"}
    BY <1>a DEF Tries
  <2>2. ToClose(walk[USER])' <=> ToClose(w)
    BY <1>m DEF ToClose
  <2> QED
    BY <1>a, <1>m, <1>d, <1>k, <2>1, <2>2 DEF Way
\* What holds while an edge is crossed.
<1>c. ASSUME w.pc \in Crossing
      PROVE  /\ w.next \in States
             /\ w.next = NOT_CONNECTED => ToClose(w)
             /\ state = NOT_CONNECTED => ToClose(w)
  BY <1>c DEF Way
\* The state and the destination stay as they are.
<1>s. ASSUME state' = state PROVE Dropped(walk[USER])' <=> Dropped(w)
  BY <1>s, <1>w, <1>m DEF Dropped
<1>l. ASSUME Leave(t, "raised"), state' = state, Dropped(w)
      PROVE  Way(walk[USER])'
  <2>1. walk'[t].pc = "idle"
    BY <1>l, <1>w, LeaveTypes DEF DeviceInv, Way
  <2>2. Dropped(walk[USER])'
    BY <1>l, <1>s
  <2> QED
    BY <1>m, <2>1, <2>2 DEF Way, Crossing, Tries
<1>1. CASE Choose(t)
  <2> DEFINE next == Hop(Tabled, state, w.dest)
             v == [walk[t] EXCEPT !.pc = "try", !.next = next, !.tries = 0]
  <2>1. state # w.dest /\ UNCHANGED state
    BY <1>1 DEF Choose
  <2>c. state # NOT_CONNECTED
    BY <1>1, <2>1 DEF Choose, Way, ToClose
  <2>2. \/ next \in Triggers /\ (next = NOT_CONNECTED => ToClose(w))
        \/ next \in Triggers /\ Dropped(w)
        \/ next \notin Triggers /\ Dropped(w)
    BY <1>w, <1>k, <2>c, <2>1, HopLeads
  <2>3. CASE next \in Triggers
    <3>1. walk' = [walk EXCEPT ![t] = v]
      BY <1>1, <2>3 DEF Choose
    <3>2. v.pc = "try" /\ v.next = next /\ v.result # "raised"
      BY <1>w, <1>r DEF Walks
    <3>3. next \in States
      BY <1>w, <2>3, TriggersAreStates
    <3> HIDE DEF v
    <3>4. walk'[t].pc = "try" /\ walk'[t].next = next /\ walk'[t].result # "raised"
      BY <1>w, <3>1, <3>2
    <3> HIDE DEF next
    <3>5. next = Hop(Tabled, state, walk[t].dest)'
      BY <1>d, <1>m, <2>1 DEF next, Hop
    <3>6. ToClose(walk[USER])' <=> ToClose(w)
      BY <1>m DEF ToClose
    <3>7. next = NOT_CONNECTED => ToClose(w)
      BY <2>2, <2>3 DEF Dropped, ToClose
    <3> QED
      BY <1>m, <1>d, <1>w, <1>k, <2>c, <2>1, <3>3, <3>4, <3>5, <3>6, <3>7
      DEF Way, Crossing, Tries
  <2>4. CASE next \notin Triggers
    <3>1. Leave(t, "raised")
      BY <1>1, <2>4 DEF Choose
    <3> QED
      BY <1>w, <1>d, <2>1, <2>2, <2>4, <3>1, <1>l
  <2> QED
    BY <2>3, <2>4
<1>2. CASE Arrive(t) \/ TimeIsOver(t)
  <2>1. PICK result \in {"arrived", "late"} :
            walk' = [walk EXCEPT ![t] = [@ EXCEPT !.pc = "sleep", !.result = result]]
    BY <1>2 DEF Arrive, TimeIsOver
  <2> DEFINE v == [walk[t] EXCEPT !.pc = "sleep", !.result = result]
  <2>2. v.pc = "sleep" /\ v.result = result
    BY <1>w DEF Walks
  <2> HIDE DEF v
  <2>3. walk'[t].pc = "sleep" /\ walk'[t].result # "raised"
    BY <1>w, <2>1, <2>2 DEF v
  <2>4. UNCHANGED state
    BY <1>2 DEF Arrive, TimeIsOver
  <2> QED
    BY <1>w, <1>d, <2>3, <2>4, <1>a DEF Crossing, Tries
<1>3. CASE Return(t)
  <2>1. Leave(t, w.result) /\ UNCHANGED state
    BY <1>3 DEF Return
  <2>2. walk'[t].pc = "idle"
    BY <1>w, <2>1, LeaveTypes DEF DeviceInv, Walks, Way
  <2>3. walk'[t].result # "raised"
    <3> DEFINE pc == IF w.result = "raised" /\ w.removing THEN "removes" ELSE "idle"
               v == [walk[t] EXCEPT !.result = w.result, !.pc = pc]
    <3>1. walk' = [walk EXCEPT ![t] = v]
      BY <2>1 DEF Leave
    <3> HIDE DEF pc
    <3>2. v.result = w.result
      BY <1>w DEF Walks
    <3> HIDE DEF v
    <3> QED
      BY <1>w, <1>r, <3>1, <3>2
  <2> QED
    BY <1>w, <1>d, <1>m, <2>1, <2>2, <2>3 DEF Way, Crossing, Tries
<1>4. CASE NothingToTry(t)
  <2>1. At(t, "choose") /\ UNCHANGED state
    BY <1>4 DEF NothingToTry
  <2>2. state = NOT_CONNECTED => ToClose(w)
    BY <1>4, <1>c DEF NothingToTry, Crossing
  <2>3. walk'[t].pc = "choose" /\ walk'[t].result # "raised"
    BY <2>1, <1>p DEF Pcs, Outside
  <2> QED
    BY <1>w, <1>d, <2>1, <2>2, <2>3, <1>a DEF Crossing, Tries
\* At a try, the next state is that of the tables.
<1>t. ASSUME w.pc \in Tries, UNCHANGED state, NEW pc \in Tries,
             walk'[t].pc = pc, walk'[t].next = w.next, walk'[t].result # "raised",
             pc \in {"start", "running"} => walk'[t].source = state,
             pc = "failed" => Dropped(w)
      PROVE  Way(walk[USER])'
  <2>1. w.next \in States /\ state # w.dest /\ w.next = Hop(Tabled, state, w.dest)
    BY <1>t DEF Way, Tries, Crossing
  <2>2. w.next = Hop(Tabled, state, walk[t].dest)'
    BY <1>d, <1>m, <1>t, <2>1 DEF Hop
  <2>3. pc = "failed" => Dropped(walk[USER])'
    BY <1>s, <1>t
  <2>4. ToClose(walk[USER])' <=> ToClose(w)
    BY <1>m DEF ToClose
  <2>5. /\ w.next = NOT_CONNECTED => ToClose(w)
        /\ state = NOT_CONNECTED => ToClose(w)
    BY <1>c, <1>t DEF Tries, Crossing
  <2> QED
    BY <1>m, <1>d, <1>k, <1>t, <2>1, <2>2, <2>3, <2>4, <2>5 DEF Way, Tries
<1>5. CASE NoTransition(t)
  <2>1. At(t, "failed") /\ w.pc = "try" /\ UNCHANGED state
    BY <1>5 DEF NoTransition, Try
  <2>2. w.next = Hop(Tabled, state, w.dest) /\ state # w.dest
    BY <2>1 DEF Way, Tries
  <2>c. state # NOT_CONNECTED
    BY <1>c, <2>1, <2>2 DEF Crossing, ToClose
  <2>3. <<state, w.next>> \notin DOMAIN Tabled.transitions
    BY <1>5, <1>w, TablesLead DEF NoTransition, Try, Tabled
  <2>4. Dropped(w)
    BY <1>w, <1>k, <2>c, <2>2, <2>3, HopLeads
  <2>5. /\ walk'[t].pc = "failed" /\ walk'[t].next = w.next /\ walk'[t].result # "raised"
    BY <1>p, <2>1 DEF Pcs, Outside, Crossing
  <2> QED
    BY <1>w, <1>d, <2>1, <2>4, <2>5, <1>t DEF Tries
<1>6. CASE MakeCommand(t)
  <2> DEFINE v == [walk[t] EXCEPT !.pc = "start", !.source = state]
  <2>1. walk' = [walk EXCEPT ![t] = v] /\ w.pc = "try" /\ UNCHANGED state
    BY <1>6 DEF MakeCommand, Try
  <2>2. v.pc = "start" /\ v.next = w.next /\ v.result # "raised" /\ v.source = state
    BY <1>w, <1>r DEF Walks
  <2> HIDE DEF v
  <2>3. /\ walk'[t].pc = "start" /\ walk'[t].next = w.next /\ walk'[t].result # "raised"
        /\ walk'[t].source = state
    BY <1>w, <2>1, <2>2
  <2> QED
    BY <1>w, <1>d, <2>1, <2>3, <1>t DEF Tries
<1>7. CASE StartCommand(t)
  <2>1. w.pc = "start" /\ w.source = state /\ UNCHANGED state
    BY <1>7 DEF StartCommand, Way
  <2>2. At(t, "running")
    BY <1>7, <2>1 DEF StartCommand
  <2>3. /\ walk'[t].pc = "running" /\ walk'[t].next = w.next /\ walk'[t].result # "raised"
        /\ walk'[t].source = w.source
    BY <1>p, <2>1, <2>2 DEF Pcs, Outside, Crossing
  <2> QED
    BY <1>w, <1>d, <2>1, <2>3, <1>t DEF Tries
<1>8. ~CommandFails(t)
  <2> SUFFICES ASSUME CommandFails(t) PROVE FALSE
    OBVIOUS
  <2>1. w.pc = "running" /\ w.source = state
    BY DEF CommandFails, Way
  <2>2. actual = state
    BY <2>1, OnlyTheUser
  <2> QED
    BY <2>1, <2>2, NoTrouble DEF CommandFails
<1>9. ~CommandSlow(t) /\ ~\E s \in States : CommandElsewhere(t, s)
  BY <1>w, NoTrouble DEF CommandSlow
<1>10. CASE Failed(t)
  <2>0. w.pc = "failed" /\ UNCHANGED state /\ Dropped(w)
    BY <1>10 DEF Failed, Way
  <2> DEFINE tries == IF state = walk[t].next THEN walk[t].tries ELSE walk[t].tries + 1
             v == [walk[t] EXCEPT !.pc = "try", !.tries = tries]
  <2>1. CASE walk' = [walk EXCEPT ![t] = v]
    <3> HIDE DEF tries
    <3>1. v.pc = "try" /\ v.next = w.next /\ v.result # "raised"
      BY <1>w, <1>r DEF Walks
    <3> HIDE DEF v
    <3>2. walk'[t].pc = "try" /\ walk'[t].next = w.next /\ walk'[t].result # "raised"
      BY <1>w, <2>1, <3>1
    <3> QED
      BY <1>w, <1>d, <2>0, <3>2, <1>t DEF Tries
  <2>2. CASE Leave(t, "raised")
    BY <1>w, <1>d, <2>0, <2>2, <1>l
  <2> QED
    BY <1>10, <2>1, <2>2 DEF Failed
<1>11. CASE OpenConnection(t) \/ CloseConnection(t)
  <2>1. At(t, "enter") \/ At(t, "opens") \/ At(t, "closes")
    BY <1>11 DEF OpenConnection, CloseConnection
  <2>2. w.pc = "try"
    BY <1>11 DEF OpenConnection, CloseConnection, Try
  <2>3. w.next \in States /\ (w.next = NOT_CONNECTED => ToClose(w))
    BY <1>c, <2>2 DEF Crossing
  <2>4. state' = NOT_CONNECTED => ToClose(w)
    <3>1. CASE OpenConnection(t)
      <4>1. state' \in {state, BaseState(device)}
        BY <3>1 DEF OpenConnection, SetState
      <4>2. BaseState(device) # NOT_CONNECTED
        BY <1>w, OfDevice, Strangers
      <4> QED
        BY <1>c, <2>2, <4>1, <4>2 DEF Crossing
    <3>2. CASE CloseConnection(t)
      <4>1. w.next = NOT_CONNECTED
        BY <1>w, <3>2, OfEdges DEF CloseConnection
      <4> QED
        BY <2>3, <4>1
    <3> QED
      BY <1>11, <3>1, <3>2
  <2>5. state' \in {state, BaseState(device), NOT_CONNECTED}
    BY <1>11 DEF OpenConnection, CloseConnection, CloseIo, SetState
  <2>6. state' \in States
    BY <1>w, <2>5, TablesLead DEF States
  <2>7. Way(walk[USER])'
    <3>1. walk'[t].pc \in {"enter", "opens", "closes"} /\ walk'[t].next = w.next
      BY <1>p, <2>1 DEF Pcs, Outside
    <3>2. walk'[t].result # "raised"
      BY <1>p, <2>1 DEF Pcs, Outside
    <3> QED
      BY <1>a, <1>d, <2>3, <2>4, <3>1, <3>2 DEF Tries
  <2> QED
    BY <1>d, <2>6, <2>7
<1>12. CASE Opened(t) \/ Closed(t) \/ CommandDone(t)
  <2>1. At(t, "enter") /\ UNCHANGED state /\ w.pc \in Crossing
    BY <1>12 DEF Opened, Closed, CommandDone, Crossing
  <2>2. /\ w.next \in States /\ (w.next = NOT_CONNECTED => ToClose(w))
        /\ state = NOT_CONNECTED => ToClose(w)
    BY <1>c, <2>1
  <2>3. walk'[t].pc = "enter" /\ walk'[t].next = w.next /\ walk'[t].result # "raised"
    BY <1>p, <2>1 DEF Pcs, Outside
  <2> QED
    BY <1>w, <1>a, <1>d, <2>1, <2>2, <2>3 DEF Tries
<1>13. CASE Enter(t)
  <2>1. At(t, "choose") /\ state' = w.next /\ w.pc = "enter"
    BY <1>13 DEF Enter
  <2>2. w.next \in States /\ (w.next = NOT_CONNECTED => ToClose(w))
    BY <1>c, <2>1 DEF Crossing
  <2>3. walk'[t].pc = "choose" /\ walk'[t].result # "raised"
    BY <1>p, <2>1 DEF Pcs, Outside
  <2> QED
    BY <1>a, <1>d, <2>1, <2>2, <2>3 DEF Tries, Crossing
<1> QED
  BY <1>i, <1>1, <1>2, <1>3, <1>4, <1>5, <1>6, <1>7, <1>8, <1>9, <1>10, <1>11, <1>12, <1>13
  DEF Walk, CrossEdge

\* A call of goto_state() is called where nothing is under way.
LEMMA GotoArrivesKept ==
    ASSUME DeviceInv, Undisturbed, NEW dest \in States, GotoState(dest, FALSE, FALSE, 0, FALSE)
    PROVE  Undisturbed' /\ Way(walk[USER])'
<1>1. UNCHANGED <<device, pauses, crossed, upset, state, requests, bg, owed, shown, seen>>
  BY DEF GotoState
<1>2. kept' = Nowhere
  BY DEF GotoState
<1>3. left' \in [gotos : Nat, asks : {0}, trouble : {0}]
  <2>1. left.gotos > 0 /\ left' = [left EXCEPT !.gotos = @ - 1]
    BY DEF GotoState
  <2> QED
    BY <2>1 DEF Undisturbed
<1>4. Undisturbed'
  BY <1>1, <1>2, <1>3 DEF Undisturbed, States
<1>5. /\ walk'[USER].pc = "connects" /\ walk'[USER].keep = FALSE /\ walk'[USER].removing = FALSE
      /\ walk'[USER].dest = dest /\ walk'[USER].result = "none"
  BY GotoWalks DEF DeviceInv
<1>6. Way(walk[USER])'
  BY <1>1, <1>5 DEF Way, Crossing, Tries, States
<1> QED
  BY <1>4, <1>6

\* It connects the device, and then waits for the lock, or is done if the device is there already.
LEMMA ConnectArrives ==
    ASSUME DeviceInv, Undisturbed, Way(walk[USER]), Connect \/ Connected \/ Look \/ TakeLock
    PROVE  Undisturbed' /\ Way(walk[USER])'
<1>w. USER \in Walkers /\ device \in Devices /\ walk \in [Walkers -> Walks]
  BY DEF DeviceInv, Types, Walkers
<1>b. BaseState(device) \in States /\ BaseState(device) # NOT_CONNECTED
  BY <1>w, TablesLead, OfDevice, Strangers DEF States
<1>1. PICK pc \in {"connecting", "looks", "waits", "idle", "choose"} :
          At(USER, pc) /\ (pc = "connecting" => Connect)
  <2>1. Look => At(USER, "waits") \/ At(USER, "idle")
    BY DEF Look, Way
  <2>2. Connect => At(USER, "looks") \/ At(USER, "connecting")
    BY DEF Connect
  <2>3. Connected => At(USER, "looks")
    BY DEF Connected
  <2>4. TakeLock => At(USER, "choose")
    BY DEF TakeLock, At
  <2> QED
    BY <2>1, <2>2, <2>3, <2>4
<1>2. /\ walk'[USER].pc = pc /\ walk'[USER].result = walk[USER].result
      /\ walk'[USER].dest = walk[USER].dest /\ walk'[USER].keep = walk[USER].keep
      /\ walk'[USER].removing = walk[USER].removing
  BY <1>w, <1>1, AtTypes DEF DeviceInv, Pcs, Outside
<1>3. walk[USER].pc \in {"connects", "connecting", "looks", "waits"}
  BY DEF Connect, Connected, Look, TakeLock
<1>4. UNCHANGED <<device, pauses, kept, requests, bg, seen, left>>
  BY DEF Connect, Connected, Look, TakeLock
<1>d. UNCHANGED <<States, Tabled>>
  BY <1>4 DEF States, Tabled
<1>5. ~crossed' /\ ~upset'
  <2>1. CASE Connect
    BY <2>1, OnlyTheUser DEF Connect, Undisturbed
  <2>2. CASE Connected \/ Look \/ TakeLock
    <3>1. UNCHANGED <<crossed, upset>>
      BY <2>2 DEF Connected, Look, TakeLock
    <3> QED
      BY <3>1 DEF Undisturbed
  <2> QED
    BY <2>1, <2>2
<1>6. shown' = <<>> /\ \A t \in Threads : owed'[t] = Nowhere
  <2>1. CASE Connect /\ ~established
    BY <2>1 DEF Connect, SetState, Undisturbed, DeviceInv, Types
  <2>2. CASE ~(Connect /\ ~established)
    BY <2>2 DEF Connect, Connected, Look, TakeLock, Undisturbed
  <2> QED
    BY <2>1, <2>2
<1>7. /\ state' \in States
      /\ pc \in {"looks", "waits", "choose"} =>
            (state' = NOT_CONNECTED => walk[USER].dest = NOT_CONNECTED)
  <2>1. CASE Connect
    <3>1. CASE established
      BY <2>1, <3>1, OnlyTheUser DEF Connect, Undisturbed
    <3>2. CASE ~established
      BY <1>b, <2>1, <3>2 DEF Connect, SetState
    <3> QED
      BY <3>1, <3>2
  <2>2. CASE Connected
    BY <2>2, OnlyTheUser DEF Connected, Undisturbed
  <2>3. CASE Look \/ TakeLock
    BY <2>3 DEF Look, TakeLock, Undisturbed, Way, ToClose
  <2> QED
    BY <2>1, <2>2, <2>3
<1>8. Undisturbed'
  BY <1>4, <1>5, <1>6, <1>7, <1>d DEF Undisturbed
<1>9. walk[USER].result # "raised" /\ walk[USER].dest \in States
  BY <1>3 DEF Way
<1>10. Way(walk[USER])'
  <2>1. walk'[USER].pc \notin Crossing \cup Tries \cup {"removes", "start", "running", "failed"}
    BY <1>2 DEF Crossing, Tries
  <2>2. ~walk[USER].keep /\ ~walk[USER].removing
    BY DEF Way
  <2> QED
    BY <1>2, <1>7, <1>9, <1>d, <2>1, <2>2 DEF Way, ToClose
<1> QED
  BY <1>8, <1>10

LEMMA ArrivesNext == ASSUME DeviceInv, ArrivesInv, [Next]_vars PROVE ArrivesInv'
<1>0. device' = device
  BY DEF Next, vars, User, Background, Prompts, Reader, Calls, FarEnd, TakeLock, RemoveCloses,
         Removed, BgTake, BgStop, PromptShown, PromptSetsState, RecoverState, GotoState,
         GotoStateBg, ConnectionLost, Kick, Walk, CrossEdge, Choose, Arrive, TimeIsOver, Return,
         NothingToTry, NoTransition, OpenConnection, Opened, CloseConnection, Closed,
         MakeCommand, StartCommand, CommandDone, CommandFails, CommandSlow, CommandElsewhere,
         Enter, Failed, Connect, Connected, Look, KeepHere
<1> SUFFICES ASSUME device \notin Disturbed PROVE Undisturbed' /\ Way(walk[USER])'
  BY <1>0 DEF ArrivesInv
<1>1. Undisturbed /\ Way(walk[USER])
  BY DEF ArrivesInv
<1>w. /\ USER \in Walkers /\ BG \in Walkers /\ BG \in Threads /\ EVENTS \in Threads
      /\ READER \in Threads /\ walk \in [Walkers -> Walks]
  BY DEF Walkers, Threads, DeviceInv, Types
<1>2. CASE Walk(USER)
  BY <1>1, <1>2, WayWalked, QuietWalk
<1>3. CASE Connect \/ Connected \/ Look \/ TakeLock
  BY <1>1, <1>3, ConnectArrives
<1>4. ~RemoveCloses /\ ~Removed /\ ~KeepHere
  <2>1. walk[USER].pc # "removing"
    BY <1>1 DEF DeviceInv, Plan, Undisturbed
  <2>2. walk[USER].pc # "removes"
    BY <1>1 DEF Way
  <2>3. ~KeepHere
    BY <1>1 DEF KeepHere, DeviceInv, Plan, Way
  <2> QED
    BY <2>1, <2>2, <2>3 DEF RemoveCloses, Removed
<1>5. ~BgTake /\ ~BgStop
  BY <1>1 DEF BgTake, BgStop, Undisturbed
<1>6. ~Walk(BG)
  <2>1. ~Walking(BG)
    BY <1>1, OnlyTheUser
  <2>2. ~RecoverState(BG)
    BY <1>1, <1>w DEF RecoverState, Undisturbed
  <2> QED
    BY <1>w, <2>1, <2>2, WhoWalks
<1>7. ~Prompts /\ ~Reader
  BY <1>1, <1>w DEF Prompts, Reader, PromptShown, PromptSetsState, RecoverState, Undisturbed
<1>8. ~FarEnd
  BY <1>1, NoTrouble DEF FarEnd, ConnectionLost, Kick
<1>9. CASE Calls
  <2>1. \E dest \in States : GotoState(dest, FALSE, FALSE, 0, FALSE)
    BY <1>1, <1>9, NoTrouble DEF Calls, GotoStateBg
  <2> QED
    BY <1>1, <2>1, GotoArrivesKept
<1>10. CASE UNCHANGED vars
  <2>1. UNCHANGED <<device, pauses, crossed, state, kept, requests, bg, owed, shown, seen, left,
                    upset, walk>>
    BY <1>10 DEF vars
  <2> QED
    BY <1>1, <2>1 DEF Undisturbed, Way, States, Tabled, Dropped, ToClose
<1> QED
  BY <1>2, <1>3, <1>4, <1>5, <1>6, <1>7, <1>8, <1>9, <1>10 DEF Next, User, Background

\* A device that is not disturbed goes from every state to every state, in whatever order it is
\* asked and however often, but for the hops of UnixLocal that are dropped.  What its tables
\* lead to is TablesLead, which TLC evaluates.
THEOREM UndisturbedArrives == Spec => []GotoArrives
<1>1. Init => DeviceInv /\ ArrivesInv
  BY DeviceInit, ArrivesInit
<1>2. DeviceInv /\ ArrivesInv /\ [Next]_vars => (DeviceInv /\ ArrivesInv)'
  BY DeviceNext, ArrivesNext
<1>3. ArrivesInv => GotoArrives
  BY DEF ArrivesInv, Way, Dropped, GotoArrives
<1> QED
  BY <1>1, <1>2, <1>3, PTL DEF Spec

=============================================================================
