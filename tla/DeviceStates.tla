----------------------------- MODULE DeviceStates -----------------------------
(***************************************************************************)
(* A device of moler/device/textualdevice.py that walks between the states  *)
(* of its tables (DeviceTables).  Four threads change its state:             *)
(*   USER    calls goto_state(), goto_state_bg() and remove();               *)
(*   BG      is the thread _goto_state_thread(), which lives while there are  *)
(*           requests of goto_state_bg() or of a kept state that was left;   *)
(*   EVENTS  delivers the prompts to _prompts_observer_callback();           *)
(*   READER  of the io tells that the connection is lost.                    *)
(* state is what the device believes, actual where its shell is.  A walk      *)
(* crosses one edge at a time, under _goto_state_lock (holder); a command's   *)
(* outcome, a slow prompt, a lost connection or a far end that falls back to  *)
(* an earlier shell (Kick) are nondeterministic, as many as left.trouble.     *)
(***************************************************************************)
EXTENDS DeviceTables, Naturals, Sequences

CONSTANTS
    Disturbed,      \* the devices that meet trouble; the others are left alone
    BgStates,       \* states goto_state_bg() is asked for
    Budgets,        \* bounds: how many calls of goto_state() and remove() (gotos), calls of
                    \* goto_state_bg() (asks), and failures, slow prompts, timeouts, kicks and
                    \* losses (trouble) there may be
    RemoveRerun     \* bound: reruns of remove() (5 in the code)

VARIABLES
    device, pauses,      \* the device, and its pause_prompts_event_on_state_change
    state, actual,       \* what it believes; where its shell is
    established,         \* _established
    kept,                \* _kept_state, or Nowhere
    requests, bg,        \* _queue_states; whether _thread_for_goto_state is not None
    manipulator,         \* who holds _goto_state_thread_manipulation_lock, or NoThread
    holder,              \* who holds _goto_state_lock, or NoThread
    walk,                \* of USER and BG: where each is in goto_state()
    owed,                \* of each thread: the kept state it is about to ask for
    shown, seen,         \* prompts on their way to the callback, and the one in it
    left,                \* what is left of the bounds
    crossed, upset,      \* history: see Connect, BgTake and OpenConnection; upset'
    missed, overlooked   \* history: see GotoState, GotoStateBg, BgTake and Leave; Keep

histories == <<upset, missed, overlooked>>
vars == <<device, pauses, state, actual, established, kept, requests, bg, manipulator, holder,
          walk, owed, shown, seen, left, crossed, histories>>

USER == "USER"
BG == "BG"
EVENTS == "EVENTS"
READER == "READER"
Walkers == {USER, BG}
Threads == {USER, BG, EVENTS, READER}
NoThread == "NoThread"
Nowhere == "Nowhere"

Tabled == Tables[device]
States == StatesOf[device]
Triggers == TriggersOf[device]
Recognised == DOMAIN Tabled.prompts \cup {BaseState(device)}

\* Mutant: the hop of the way back is taken.
HopBack(table, s, dest) ==
    IF <<dest, s>> \in DOMAIN table.hops THEN table.hops[<<dest, s>>] ELSE dest
\* _get_next_state: over a hop, or directly.
Hop(table, s, dest) == IF <<s, dest>> \in DOMAIN table.hops THEN table.hops[<<s, dest>>] ELSE dest

\* The prompt of a shell just entered reaches the event, unless the event is paused.
Show(s) == IF s \in Recognised THEN Append(shown, s) ELSE shown

Idle == [pc |-> "idle", dest |-> NOT_CONNECTED, keep |-> FALSE, timed |-> FALSE, rerun |-> 0,
         removing |-> FALSE, next |-> Nowhere, source |-> Nowhere, tries |-> 0, result |-> "none"]

\* Where a thread does not have _goto_state_lock.
Outside == {"idle", "connects", "connecting", "looks", "keeps", "waits", "removes", "removing"}
Walking(t) == walk[t].pc \notin Outside
AtRest ==
    /\ \A t \in Walkers : walk[t].pc = "idle"
    /\ \A t \in Threads : owed[t] = Nowhere
    /\ requests = <<>> /\ ~bg /\ shown = <<>> /\ seen = Nowhere

Init ==
    /\ device \in Devices
    /\ pauses \in IF device \in Disturbed THEN BOOLEAN ELSE {TRUE}
    /\ state = NOT_CONNECTED /\ actual = NOT_CONNECTED
    /\ established = FALSE
    /\ kept = Nowhere /\ requests = <<>> /\ bg = FALSE
    /\ manipulator = NoThread /\ holder = NoThread
    /\ walk = [t \in Walkers |-> Idle]
    /\ owed = [t \in Threads |-> Nowhere]
    /\ shown = <<>> /\ seen = Nowhere
    /\ left \in IF device \in Disturbed THEN Budgets
               ELSE {[b EXCEPT !.asks = 0, !.trouble = 0] : b \in Budgets}
    /\ crossed = FALSE /\ upset = FALSE /\ missed = FALSE /\ overlooked = FALSE

ASSUME BudgetsAssumption == Budgets \subseteq [gotos : Nat, asks : Nat, trouble : Nat]

\* What the walks rely on in the tables of a device: edges that open the connection lead from
\* NOT_CONNECTED to the base state, edges that close it to NOT_CONNECTED, and all others have a
\* command, between two states that are known by their prompts.
ASSUME TablesAreSound ==
    \A d \in Devices :
        LET edges == Tables[d].transitions
            commands == DOMAIN Tables[d].commands
            known == DOMAIN Tables[d].prompts \cup {BaseState(d)}
        IN
        /\ \A e \in DOMAIN edges :
              /\ edges[e] = "open" => e = <<NOT_CONNECTED, BaseState(d)>>
              /\ edges[e] = "close" => e[2] = NOT_CONNECTED
              /\ edges[e] = "command" => e \in commands
        /\ \A e \in commands : e \in known \X known
        /\ known \cap {NOT_CONNECTED, Nowhere} = {}

At(t, pc) == walk' = [walk EXCEPT ![t].pc = pc]

Trouble == left.trouble > 0 /\ left' = [left EXCEPT !.trouble = @ - 1]

\* Mutant: the kept state is only asked for when the state changes in the background thread.
SetStateAlone(t, s) ==
    /\ state' = s
    /\ owed' = [owed EXCEPT ![t] = IF t = BG /\ kept \notin {Nowhere, s} THEN kept ELSE Nowhere]
\* _set_state(s) in thread t, and _recover_state(kept) due if that is not the kept state.
SetState(t, s) ==
    /\ state' = s
    /\ owed' = [owed EXCEPT ![t] = IF kept \notin {Nowhere, s} THEN kept ELSE Nowhere]

-----------------------------------------------------------------------------
(* Asking the background thread.                                            *)

Put(s, keep) ==
    /\ manipulator = NoThread
    /\ requests' = Append(requests, [dest |-> s, keep |-> keep])
    /\ bg' = TRUE

GotoStateBg(s, keep) ==
    /\ left.asks > 0 /\ left' = [left EXCEPT !.asks = @ - 1]
    /\ s \in States
    /\ Put(s, keep)
    /\ missed' = (missed \/ ~keep \/ walk[USER].pc # "idle")
    /\ UNCHANGED <<device, pauses, crossed, state, actual, established, kept, manipulator, holder,
                   walk, owed, shown, seen, upset, overlooked>>

\* _recover_state: the lock is not reentrant, so BG never gets it here.
RecoverState(t) ==
    /\ owed[t] # Nowhere
    /\ Put(owed[t], TRUE)
    /\ owed' = [owed EXCEPT ![t] = Nowhere]
    /\ UNCHANGED <<device, pauses, crossed, state, actual, established, kept, manipulator, holder,
                   walk, shown, seen, left, histories>>

\* The thread takes a request: it keeps the lock till it is done with it, and drops the request
\* when another goto_state is under way (history: crossed, USER is just connecting).
BgTake ==
    /\ bg /\ manipulator = NoThread /\ requests # <<>>
    /\ requests' = Tail(requests)
    /\ IF holder = NoThread
       THEN /\ holder' = BG /\ manipulator' = BG
            /\ walk' = [walk EXCEPT ![BG] = [Idle EXCEPT !.pc = "choose", !.timed = TRUE,
                            !.dest = Head(requests).dest, !.keep = Head(requests).keep]]
            /\ crossed' = (crossed \/ walk[USER].pc = "connecting")
            /\ UNCHANGED missed
       ELSE /\ missed' = TRUE
            /\ UNCHANGED <<holder, manipulator, walk, crossed>>
    /\ upset' = (upset \/ crossed')
    /\ UNCHANGED <<device, pauses, state, actual, established, kept, bg, owed, shown, seen, left,
                   overlooked>>

\* Mutant: the thread gives up without having found the queue empty.
BgStopAnyTime ==
    /\ bg /\ manipulator = NoThread
    /\ bg' = FALSE
    /\ UNCHANGED <<device, pauses, crossed, state, actual, established, kept, requests, manipulator,
                   holder, walk, owed, shown, seen, left, histories>>
\* No request within 10 ms, all under the lock.
BgStop ==
    /\ bg /\ manipulator = NoThread /\ requests = <<>>
    /\ bg' = FALSE
    /\ UNCHANGED <<device, pauses, crossed, state, actual, established, kept, requests, manipulator,
                   holder, walk, owed, shown, seen, left, histories>>

-----------------------------------------------------------------------------
(* goto_state() and remove().                                               *)

\* Whatever was kept is kept no longer.
GotoState(dest, keep, timed, rerun, removing) ==
    /\ walk[USER].pc = "idle"
    /\ left.gotos > 0 /\ left' = [left EXCEPT !.gotos = @ - 1]
    /\ kept' = Nowhere
    /\ walk' = [walk EXCEPT ![USER] = [Idle EXCEPT !.pc = "connects", !.dest = dest, !.keep = keep,
                    !.timed = timed, !.rerun = rerun, !.removing = removing]]
    /\ missed' = (bg \/ \E t \in Threads : owed[t] # Nowhere)
    /\ overlooked' = FALSE
    /\ UNCHANGED <<device, pauses, crossed, state, actual, established, requests, bg, manipulator,
                   holder, owed, shown, seen, upset>>

\* establish_connection, as in OpenConnection but without the lock (history: crossed, during BG's
\* walk) ...
Connect ==
    /\ walk[USER].pc = "connects"
    /\ IF established
       THEN At(USER, "looks") /\ UNCHANGED <<state, actual, owed, shown, crossed>>
       ELSE /\ actual' = BaseState(device) /\ shown' = <<>>
            /\ SetState(USER, BaseState(device))
            /\ At(USER, "connecting")
            /\ crossed' = (crossed \/ Walking(BG))
    /\ upset' = (upset \/ crossed')
    /\ UNCHANGED <<device, pauses, established, kept, requests, bg, manipulator, holder, seen, left,
                   missed, overlooked>>
Connected ==
    /\ walk[USER].pc = "connecting" /\ owed[USER] = Nowhere
    /\ established' = TRUE
    /\ At(USER, "looks")
    /\ UNCHANGED <<device, pauses, crossed, state, actual, kept, requests, bg, manipulator, holder,
                   owed, shown, seen, left, histories>>

\* ... and then it waits for the lock, unless the device is there already.
Look ==
    /\ walk[USER].pc = "looks"
    /\ \/ state # walk[USER].dest /\ At(USER, "waits")
       \/ state = walk[USER].dest /\ At(USER, IF walk[USER].keep THEN "keeps" ELSE "idle")
    /\ UNCHANGED <<device, pauses, crossed, state, actual, established, kept, requests, bg,
                   manipulator, holder, owed, shown, seen, left, histories>>

\* The state is kept, in which the device was when it was looked at (history: overlooked, it was
\* left since then, when it was not kept yet, so nobody asks for it).
Keep(t) ==
    /\ kept' = walk[t].dest
    /\ overlooked' = (state # walk[t].dest /\ (overlooked \/ kept # walk[t].dest))

KeepHere ==
    /\ walk[USER].pc = "keeps"
    /\ Keep(USER)
    /\ At(USER, "idle")
    /\ UNCHANGED <<device, pauses, crossed, state, actual, established, requests, bg, manipulator,
                   holder, owed, shown, seen, left, upset, missed>>

\* Mutant: the user's walk does not wait for that of the background thread.
TakeAnyLock ==
    /\ walk[USER].pc = "waits"
    /\ holder' = USER
    /\ walk' = [walk EXCEPT ![USER].pc = "choose"]
    /\ UNCHANGED <<device, pauses, crossed, state, actual, established, kept, requests, bg,
                   manipulator, owed, shown, seen, left, histories>>
TakeLock ==
    /\ walk[USER].pc = "waits" /\ holder = NoThread
    /\ holder' = USER
    /\ walk' = [walk EXCEPT ![USER].pc = "choose"]
    /\ UNCHANGED <<device, pauses, crossed, state, actual, established, kept, requests, bg,
                   manipulator, owed, shown, seen, left, histories>>

\* Mutant: a failure does not let go of _goto_state_lock.
LeaveLocked(t, result) ==
    /\ holder' = IF result = "raised" THEN holder ELSE NoThread
    /\ manipulator' = IF t = BG THEN NoThread ELSE manipulator
    /\ walk' = [walk EXCEPT ![t] = [@ EXCEPT !.result = result,
                    !.pc = IF result = "raised" /\ walk[t].removing THEN "removes" ELSE "idle"]]
    /\ missed' = (missed \/ (result # "arrived" /\ state # walk[t].dest))

\* _goto_state_execute lets go of the locks.  BG ignores exceptions, remove() takes one for a
\* reason to close the connection itself.
Leave(t, result) ==
    /\ holder' = NoThread
    /\ manipulator' = IF t = BG THEN NoThread ELSE manipulator
    /\ walk' = [walk EXCEPT ![t] = [@ EXCEPT !.result = result,
                    !.pc = IF result = "raised" /\ walk[t].removing THEN "removes" ELSE "idle"]]
    /\ missed' = (missed \/ (result # "arrived" /\ state # walk[t].dest))

\* _goto_state_to_run_in_try: the top of its loop.
Choose(t) ==
    LET next == Hop(Tabled, state, walk[t].dest) IN
    /\ walk[t].pc = "choose" /\ state # walk[t].dest
    /\ IF next \in Triggers
       THEN /\ walk' = [walk EXCEPT ![t] = [@ EXCEPT !.pc = "try", !.next = next, !.tries = 0]]
            /\ UNCHANGED <<holder, manipulator, missed>>
       ELSE Leave(t, "raised")
    /\ UNCHANGED <<device, pauses, crossed, state, actual, established, kept, requests, bg, owed,
                   shown, seen, left, upset, overlooked>>

Arrive(t) ==
    /\ walk[t].pc = "choose" /\ state = walk[t].dest
    /\ walk' = [walk EXCEPT ![t] = [@ EXCEPT !.pc = "sleep", !.result = "arrived"]]
    /\ UNCHANGED <<device, pauses, crossed, state, actual, established, kept, requests, bg,
                   manipulator, holder, owed, shown, seen, left, histories>>

\* The time is over after an edge: goto_state returns without a word.
TimeIsOver(t) ==
    /\ walk[t].pc = "choose" /\ state # walk[t].dest
    /\ walk[t].timed /\ walk[t].next # Nowhere
    /\ Trouble
    /\ walk' = [walk EXCEPT ![t] = [@ EXCEPT !.pc = "sleep", !.result = "late"]]
    /\ UNCHANGED <<device, pauses, crossed, state, actual, established, kept, requests, bg,
                   manipulator, holder, owed, shown, seen, histories>>

\* After the sleep: the state is kept from now on, and the locks are let go.
Return(t) ==
    /\ walk[t].pc = "sleep"
    /\ IF walk[t].keep THEN Keep(t) ELSE UNCHANGED <<kept, overlooked>>
    /\ Leave(t, walk[t].result)
    /\ UNCHANGED <<device, pauses, crossed, state, actual, established, requests, bg, owed, shown,
                   seen, left, upset>>

-----------------------------------------------------------------------------
(* Crossing an edge: _trigger_change_state_loop.                            *)

\* The state was entered meanwhile.
NothingToTry(t) ==
    /\ walk[t].pc = "try" /\ state = walk[t].next
    /\ At(t, "choose")
    /\ UNCHANGED <<device, pauses, crossed, state, actual, established, kept, requests, bg,
                   manipulator, holder, owed, shown, seen, left, histories>>

Try(t, kind) ==
    LET edge == <<state, walk[t].next>> IN
    /\ walk[t].pc = "try" /\ state # walk[t].next
    /\ kind = IF edge \in DOMAIN Tabled.transitions THEN Tabled.transitions[edge] ELSE "none"

\* MachineError: no such edge from the state the device is in.
NoTransition(t) ==
    /\ Try(t, "none")
    /\ At(t, "failed")
    /\ UNCHANGED <<device, pauses, crossed, state, actual, established, kept, requests, bg,
                   manipulator, holder, owed, shown, seen, left, histories>>

\* establish_connection, unless it was: opening calls on_connection_made, which sets the base
\* state and may owe the kept one (history: crossed, while remove() closes without the lock) ...
OpenConnection(t) ==
    /\ Try(t, "open")
    /\ IF established
       THEN At(t, "enter") /\ UNCHANGED <<state, actual, owed, shown>>
       ELSE /\ actual' = BaseState(device) /\ shown' = <<>>
            /\ SetState(t, BaseState(device))
            /\ At(t, "opens")
    /\ crossed' = (crossed \/ (~established /\ walk[USER].pc = "removing"))
    /\ UNCHANGED <<device, pauses, established, kept, requests, bg, manipulator, holder, seen,
                   left, histories>>

\* ... and then the event is started.
Opened(t) ==
    /\ walk[t].pc = "opens" /\ owed[t] = Nowhere
    /\ established' = TRUE
    /\ At(t, "enter")
    /\ UNCHANGED <<device, pauses, crossed, state, actual, kept, requests, bg, manipulator, holder,
                   owed, shown, seen, left, histories>>

\* Mutant: the event is not stopped.
CloseIoOnly(t) ==
    /\ shown' = shown
    /\ actual' = NOT_CONNECTED
    /\ IF actual # NOT_CONNECTED THEN SetState(t, NOT_CONNECTED) ELSE UNCHANGED <<state, owed>>

\* The event is stopped, the io closed, and if its terminal lived on_connection_lost is called.
CloseIo(t) ==
    /\ shown' = <<>>
    /\ actual' = NOT_CONNECTED
    /\ IF actual # NOT_CONNECTED THEN SetState(t, NOT_CONNECTED) ELSE UNCHANGED <<state, owed>>

\* A prompt's callback under way still sets its state (history: upset).
CloseConnection(t) ==
    /\ Try(t, "close")
    /\ CloseIo(t)
    /\ upset' = (upset \/ seen # Nowhere)
    /\ At(t, "closes")
    /\ UNCHANGED <<device, pauses, crossed, established, kept, requests, bg, manipulator, holder,
                   seen, left, missed, overlooked>>

Closed(t) ==
    /\ walk[t].pc = "closes" /\ owed[t] = Nowhere
    /\ established' = FALSE
    /\ At(t, "enter")
    /\ UNCHANGED <<device, pauses, crossed, state, actual, kept, requests, bg, manipulator, holder,
                   owed, shown, seen, left, histories>>

\* _execute_command_to_change_state: the command is made in the state of now ...
MakeCommand(t) ==
    /\ Try(t, "command")
    /\ walk' = [walk EXCEPT ![t] = [@ EXCEPT !.pc = "start", !.source = state]]
    /\ UNCHANGED <<device, pauses, crossed, state, actual, established, kept, requests, bg,
                   manipulator, holder, owed, shown, seen, left, histories>>

\* ... and starts in that state only (CommandWrongState).
StartCommand(t) ==
    /\ walk[t].pc = "start"
    /\ At(t, IF state = walk[t].source THEN "running" ELSE "failed")
    /\ UNCHANGED <<device, pauses, crossed, state, actual, established, kept, requests, bg,
                   manipulator, holder, owed, shown, seen, left, histories>>

\* The shell enters the next state; the event sees its prompt too, unless it is paused: then older
\* prompts are still to come, and no newer (history: upset).
CommandDone(t) ==
    /\ walk[t].pc = "running" /\ actual = walk[t].source
    /\ actual' = walk[t].next
    /\ shown' = IF pauses THEN shown ELSE Show(walk[t].next)
    /\ upset' = (upset \/ (pauses /\ (shown # <<>> \/ seen # Nowhere)))
    /\ At(t, "enter")
    /\ UNCHANGED <<device, pauses, crossed, state, established, kept, requests, bg, manipulator,
                   holder, owed, seen, left, missed, overlooked>>

\* It fails, of trouble or because the shell is not where the device believes it.
CommandFails(t) ==
    /\ walk[t].pc = "running"
    /\ IF actual = walk[t].source THEN Trouble ELSE UNCHANGED left
    /\ At(t, "failed")
    /\ UNCHANGED <<device, pauses, crossed, state, actual, established, kept, requests, bg,
                   manipulator, holder, owed, shown, seen, histories>>

\* The shell it is typed into is not the one it was made for, and does as it is told: it enters
\* the next state, or falls back to one it was entered from, which the command does not expect.
\* No event sees that while it is paused (history: upset).
CommandElsewhere(t, s) ==
    /\ walk[t].pc = "running" /\ actual \notin {walk[t].source, NOT_CONNECTED}
    /\ s = walk[t].next \/ <<s, actual>> \in DOMAIN Tabled.commands
    /\ Trouble
    /\ actual' = s
    /\ shown' = IF pauses THEN shown ELSE Show(s)
    /\ upset' = (upset \/ (pauses /\ (s # walk[t].next \/ shown # <<>> \/ seen # Nowhere)))
    /\ At(t, IF s = walk[t].next THEN "enter" ELSE "failed")
    /\ UNCHANGED <<device, pauses, crossed, state, established, kept, requests, bg, manipulator,
                   holder, owed, seen, missed, overlooked>>

\* It times out, and its shell enters the next state after all.
CommandSlow(t) ==
    /\ walk[t].pc = "running" /\ actual = walk[t].source
    /\ Trouble
    /\ actual' = walk[t].next
    /\ shown' = Show(walk[t].next)
    /\ At(t, "failed")
    /\ UNCHANGED <<device, pauses, crossed, state, established, kept, requests, bg, manipulator,
                   holder, owed, seen, histories>>

\* transitions sets the state after the action; nobody looks at the kept state here.
Enter(t) ==
    /\ walk[t].pc = "enter"
    /\ state' = walk[t].next
    /\ At(t, "choose")
    /\ UNCHANGED <<device, pauses, crossed, actual, established, kept, requests, bg, manipulator,
                   holder, owed, shown, seen, left, histories>>

\* An exception while the state is entered all the same is nothing; else one more try, if any.
Failed(t) ==
    LET w == walk[t] IN
    /\ w.pc = "failed"
    /\ \/ /\ state = w.next \/ w.tries < w.rerun
          /\ walk' = [walk EXCEPT ![t] = [@ EXCEPT !.pc = "try",
                          !.tries = IF state = w.next THEN w.tries ELSE w.tries + 1]]
          /\ UNCHANGED <<holder, manipulator, missed>>
       \/ /\ state # w.next /\ w.tries = w.rerun
          /\ Leave(t, "raised")
    /\ UNCHANGED <<device, pauses, crossed, state, actual, established, kept, requests, bg, owed,
                   shown, seen, left, upset, overlooked>>

\* Mutant: remove() leaves the connection of a device that failed to go to NOT_CONNECTED.
RemoveLeavesOpen ==
    /\ walk[USER].pc = "removes"
    /\ upset' = TRUE
    /\ At(USER, "removing")
    /\ UNCHANGED <<device, pauses, crossed, state, actual, established, kept, requests, bg,
                   manipulator, holder, owed, shown, seen, left, missed, overlooked>>
\* remove() closes a device that does not go to NOT_CONNECTED, without _goto_state_lock: over
\* whatever goes on (history: upset).
RemoveCloses ==
    /\ walk[USER].pc = "removes"
    /\ CloseIo(USER)
    /\ upset' = TRUE
    /\ At(USER, "removing")
    /\ UNCHANGED <<device, pauses, crossed, established, kept, requests, bg, manipulator, holder,
                   seen, left, missed, overlooked>>
Removed ==
    /\ walk[USER].pc = "removing" /\ owed[USER] = Nowhere
    /\ established' = FALSE
    /\ At(USER, "idle")
    /\ UNCHANGED <<device, pauses, crossed, state, actual, kept, requests, bg, manipulator, holder,
                   owed, shown, seen, left, histories>>

-----------------------------------------------------------------------------
(* Prompts, and what the far end does.                                      *)

\* _prompts_observer_callback compares, and sets: two steps.  A paused event drops the prompt
\* (history: upset).
EventPaused == pauses /\ \E t \in Walkers : walk[t].pc = "running"
PromptShown ==
    /\ shown # <<>> /\ seen = Nowhere /\ owed[EVENTS] = Nowhere
    /\ shown' = Tail(shown)
    /\ seen' = IF state = Head(shown) \/ EventPaused THEN Nowhere ELSE Head(shown)
    /\ upset' = (upset \/ (state # Head(shown) /\ EventPaused))
    /\ UNCHANGED <<device, pauses, crossed, state, actual, established, kept, requests, bg,
                   manipulator, holder, walk, owed, left, missed, overlooked>>

PromptSetsState ==
    /\ seen # Nowhere
    /\ SetState(EVENTS, seen)
    /\ seen' = Nowhere
    /\ UNCHANGED <<device, pauses, crossed, actual, established, kept, requests, bg, manipulator,
                   holder, walk, shown, left, histories>>

\* The shell falls back to one it was entered from (a session ends, a far end reboots); no event
\* sees it that is paused or not started yet.
Kick(s) ==
    /\ <<s, actual>> \in DOMAIN Tabled.commands
    /\ Trouble
    /\ actual' = s
    /\ shown' = IF EventPaused \/ \E t \in Walkers : walk[t].pc \in {"opens", "connecting"}
              THEN shown ELSE Show(s)
    /\ upset' = (upset \/ \E t \in Walkers : walk[t].pc # "idle")
    /\ UNCHANGED <<device, pauses, crossed, state, established, kept, requests, bg, manipulator,
                   holder, walk, owed, seen, missed, overlooked>>

\* The connection is gone: on_connection_lost; _established stays.
ConnectionLost ==
    /\ actual # NOT_CONNECTED /\ owed[READER] = Nowhere
    /\ Trouble
    /\ actual' = NOT_CONNECTED
    /\ SetState(READER, NOT_CONNECTED)
    /\ upset' = TRUE
    /\ UNCHANGED <<device, pauses, crossed, established, kept, requests, bg, manipulator, holder,
                   walk, shown, seen, missed, overlooked>>

-----------------------------------------------------------------------------

CrossEdge(t) ==
    \/ NothingToTry(t) \/ NoTransition(t) \/ OpenConnection(t) \/ Opened(t) \/ CloseConnection(t)
    \/ Closed(t) \/ MakeCommand(t) \/ StartCommand(t) \/ CommandDone(t) \/ CommandFails(t)
    \/ CommandSlow(t) \/ (\E s \in States : CommandElsewhere(t, s)) \/ Enter(t) \/ Failed(t)
Walk(t) ==
    \/ Choose(t) \/ Arrive(t) \/ TimeIsOver(t) \/ Return(t) \/ CrossEdge(t) \/ RecoverState(t)

User ==
    \/ Connect \/ Connected \/ Look \/ KeepHere \/ TakeLock
    \/ Walk(USER) \/ RemoveCloses \/ Removed
Background == BgTake \/ BgStop \/ Walk(BG)
Prompts == PromptShown \/ PromptSetsState \/ RecoverState(EVENTS)
Reader == RecoverState(READER)

\* Bound: a call that keeps the state has a timeout, the others have none.
Calls ==
    LET flags == IF device \in Disturbed THEN BOOLEAN ELSE {FALSE} IN
    \/ \E dest \in States, keep \in flags : GotoState(dest, keep, keep, 0, FALSE)
    \/ device \in Disturbed /\ GotoState(NOT_CONNECTED, FALSE, FALSE, RemoveRerun, TRUE)
    \/ \E s \in BgStates, keep \in BOOLEAN : GotoStateBg(s, keep)
FarEnd == ConnectionLost \/ \E s \in States : Kick(s)

Next == User \/ Background \/ Prompts \/ Reader \/ Calls \/ FarEnd

\* The two threads that walk go on when they can.  Nothing is assumed of the others: a prompt may
\* wait for ever, and a call, a kick or a loss need never come.
Fairness == WF_vars(User) /\ WF_vars(Background)
Spec == Init /\ [][Next]_vars /\ Fairness

-----------------------------------------------------------------------------
(* Properties.                                                             *)

\* A request of goto_state_bg() or of a kept state never lies in the queue without a thread that
\* will take it, however the thread's giving up falls between the put and the start.
RequestIsServed == requests # <<>> => bg

\* One walk at a time: whoever is in goto_state's loop holds _goto_state_lock.
OneWalk == \A t \in Walkers : Walking(t) <=> holder = t

\* At rest the device believes to be where its shell is, though prompts may have come late, out
\* of step with the walk, and commands failed or been slow: unless the far end moved the shell
\* during a walk, the connection was lost, it was opened or closed without _goto_state_lock while
\* a walk or a prompt's callback was under way, or the event, paused for a command, dropped a
\* prompt that came just then.
StateIsActual == AtRest /\ ~upset => state = actual

\* At rest a device with a kept state believes to be in it, whatever happened to the shell, unless
\* it was given up: the last attempt to return there failed or ran out of time, the request was
\* dropped since a goto_state() was under way; the last goto_state() was called while a request or
\* an edge of the background thread was still to come; goto_state_bg() was told to go without
\* keeping, or was called during a goto_state(); or it was left before it was kept (overlooked;
\* the docstring of goto_state() makes no such exception).
KeptIsReturnedTo == AtRest /\ ~missed /\ ~overlooked /\ kept # Nowhere => state = kept

\* The devices of which the hops of UnixLocal are dropped, which are returned only
\* (UNIX_LOCAL_ROOT to NOT_CONNECTED).
DropsUnixLocalHops(d) ==
    d \in {<<1, "UnixLocal", FALSE, TRUE>>, <<3, "ProxyPc", FALSE, TRUE>>,
           <<2, "ProxyPc", TRUE, TRUE>>, <<2, "UnixRemote", TRUE, TRUE>>,
           <<2, "UnixRemote", FALSE, TRUE>>}

\* Once connected, the tables have an edge to the neighbour over which a state is reached, and that
\* is not NOT_CONNECTED on the way to another: but for those hops.
ASSUME TablesLead ==
    \A d \in Devices :
        LET edges == Tables[d].transitions
            hops == Tables[d].hops
            next(s, dest) == IF <<s, dest>> \in DOMAIN hops THEN hops[<<s, dest>>] ELSE dest
        IN
        /\ {NOT_CONNECTED, BaseState(d)} \subseteq StatesOf[d]
        /\ \A e \in DOMAIN edges : edges[e] \in {"open", "close", "command"}
        /\ \A s, dest \in StatesOf[d] :
              \/ s \in {dest, NOT_CONNECTED}
              \/ /\ next(s, dest) \in TriggersOf[d]
                 /\ <<s, next(s, dest)>> \in DOMAIN edges
                 /\ next(s, dest) = NOT_CONNECTED => dest = NOT_CONNECTED
              \/ DropsUnixLocalHops(d) /\ s = UNIX_LOCAL_ROOT /\ dest = NOT_CONNECTED

\* A device that is not disturbed reaches every state from every state, but for those hops.
GotoArrives ==
    device \notin Disturbed /\ walk[USER].result = "raised" =>
        /\ DropsUnixLocalHops(device)
        /\ state = UNIX_LOCAL_ROOT /\ walk[USER].dest = NOT_CONNECTED

\* A device that remove() has left has no connection open, unless one was opened without
\* _goto_state_lock: by a goto_state() (or remove() itself) during a walk of the background
\* thread, which may have closed the connection just before and then sets NOT_CONNECTED, or by
\* that thread while remove(), which could not go to NOT_CONNECTED, closes without the lock.
RemoveLeavesNothingOpen ==
    [][walk[USER].removing /\ walk[USER].pc # "idle" /\ walk'[USER].pc = "idle" /\ ~crossed
        => actual' = NOT_CONNECTED]_vars

\* BG opens or closes the connection, whose callback asks for the kept state, and that takes the
\* lock BG holds itself, which is not reentrant.
BlocksItself == manipulator = BG /\ owed[BG] # Nowhere

\* Every goto_state() and remove() ends, and so does the background thread, whatever happens to
\* the connection and however often the recovery of a kept state comes between: if the device
\* pauses its prompts during a command and the background thread does not block itself.  (Prompts
\* that are not paused can keep the thread busy for ever: it goes to a state while another is
\* kept, the callback of that state's prompt asks for the kept one, which is not kept any more
\* when the thread gets there, and so on.)
GotoEnds ==
    /\ pauses /\ walk[USER].pc # "idle" ~> walk[USER].pc = "idle" \/ BlocksItself
    /\ pauses /\ bg ~> ~bg \/ BlocksItself

=============================================================================
