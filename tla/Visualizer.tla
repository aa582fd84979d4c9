----------------------------- MODULE Visualizer -----------------------------
(***************************************************************************)
(* The two threads of the visualizer (visualizer/core.py): the simulation  *)
(* thread, which runs the simulator for one sample period at each go       *)
(* signal, and the GUI thread, whose callbacks read the simulator under the*)
(* same lock.  While it waits for the lock, update_view_timeout runs the   *)
(* GTK event loop, so callbacks nest: stack holds the timers whose callback*)
(* is waiting, the innermost last.                                         *)
(*                                                                         *)
(* Of GLib, which is external: a timer lives until it is removed or its    *)
(* callback returns False, a callback is not entered again while it runs,  *)
(* and update_model, which has the highest priority, goes before all else. *)
(***************************************************************************)
EXTENDS Naturals, Sequences, FiniteSets

CONSTANTS
    MaxTimer,      \* bound: update timers that are ever started
    MaxMessage     \* bound: pause messages of the simulation

ASSUME VisualizerAssumption == MaxTimer \in Nat \ {0} /\ MaxMessage \in Nat

VARIABLES
    lock,          \* simulation.lock is taken
    go,            \* simulation.go is set
    quit,          \* simulation.quit
    sim,           \* where the simulation thread is
    gui,           \* where the GUI thread is
    stack,         \* the timers whose update_view_timeout is entered
    active,        \* the play button is down
    live,          \* the update timers GLib has
    timeoutId,     \* _update_timeout_id, 0 for None
    timers,        \* how many update timers were started
    modelDue,      \* the idle callbacks update_model that are due
    scaled,        \* autoscale_view was called
    sent, left, messages, taken, shown,
                   \* pause messages: produced, still with the simulator, in
                   \* simulation.pause_messages, in the list that
                   \* update_view_timeout has taken, shown in a dialog
    extends,       \* the list the simulation thread is about to extend:
                   \* none, the current one, the taken one, one shown before
    mainQuit       \* gtk.main_quit was called

timerVars   == <<active, live, timeoutId, timers>>
messageVars == <<sent, left, messages, taken, shown, extends>>
vars == <<lock, go, quit, sim, gui, stack, timerVars, modelDue, scaled,
          messageVars, mainQuit>>

\* As start leaves it: setting the speed has started the first timer.
Init ==
    /\ lock = FALSE /\ go = FALSE /\ quit = FALSE
    /\ sim = "test" /\ gui = "loop"
    /\ stack = <<>>
    /\ active = FALSE
    /\ live = {1} /\ timeoutId = 1 /\ timers = 1
    /\ modelDue = 0
    /\ scaled = FALSE
    /\ sent = 0 /\ left = 0 /\ messages = 0 /\ taken = 0 /\ shown = 0
    /\ extends = "none"
    /\ mainQuit = FALSE

-----------------------------------------------------------------------------
\* SimulationThread.run, one action per step another thread can see.
SimTest ==
    /\ sim = "test"
    /\ sim' = IF quit THEN "ended" ELSE "wait"
    /\ UNCHANGED <<lock, go, quit, gui, stack, timerVars, modelDue, scaled,
                   messageVars, mainQuit>>

SimWait ==
    /\ sim = "wait" /\ go
    /\ sim' = "clear"
    /\ UNCHANGED <<lock, go, quit, gui, stack, timerVars, modelDue, scaled,
                   messageVars, mainQuit>>

SimClear ==
    /\ sim = "clear"
    /\ go' = FALSE
    /\ sim' = "check"
    /\ UNCHANGED <<lock, quit, gui, stack, timerVars, modelDue, scaled,
                   messageVars, mainQuit>>

SimCheck ==
    /\ sim = "check"
    /\ sim' = IF quit THEN "ended" ELSE "acquire"
    /\ UNCHANGED <<lock, go, quit, gui, stack, timerVars, modelDue, scaled,
                   messageVars, mainQuit>>

SimAcquire ==
    /\ sim = "acquire" /\ ~lock
    /\ lock' = TRUE
    /\ sim' = "run"
    /\ UNCHANGED <<go, quit, gui, stack, timerVars, modelDue, scaled,
                   messageVars, mainQuit>>

\* SimulatorRunUntil is over and has left n pause messages; the list to extend
\* is looked up before they are fetched.
SimRun(n) ==
    /\ sim = "run"
    /\ sent + n <= MaxMessage
    /\ sent' = sent + n /\ left' = n
    /\ extends' = "current"
    /\ sim' = "extend"
    /\ UNCHANGED <<lock, go, quit, gui, stack, timerVars, modelDue, scaled,
                   messages, taken, shown, mainQuit>>

\* They are added to that list, wherever it is by now, and the lock released.
SimExtend ==
    /\ sim = "extend"
    /\ messages' = IF extends = "current" THEN messages + left ELSE messages
    /\ taken' = IF extends = "taken" THEN taken + left ELSE taken
    /\ left' = 0 /\ extends' = "none"
    /\ modelDue' = modelDue + 1
    /\ lock' = FALSE
    /\ sim' = "test"
    /\ UNCHANGED <<go, quit, gui, stack, timerVars, scaled, sent, shown,
                   mainQuit>>

-----------------------------------------------------------------------------
\* Where the GUI thread goes when a callback returns.
Return(st) == gui' = IF mainQuit /\ st = <<>> THEN "over" ELSE "loop"

\* The event loop, the outer or a nested one, dispatches events and timers.
Dispatching == gui = "loop" /\ modelDue = 0

\* Slip: the view does not look whether the lock is taken.
TimerFiresUnlocked(id) ==
    /\ Dispatching
    /\ id \in live
    /\ \A k \in DOMAIN stack : stack[k] # id
    /\ stack' = Append(stack, id)
    /\ gui' = "view" /\ lock' = TRUE
    /\ UNCHANGED <<go, quit, sim, timerVars, modelDue, scaled, messageVars,
                   mainQuit>>

\* update_view_timeout is called, and tries the lock.
TimerFires(id) ==
    /\ Dispatching
    /\ id \in live
    /\ \A k \in DOMAIN stack : stack[k] # id
    /\ stack' = Append(stack, id)
    /\ IF lock THEN UNCHANGED <<lock, gui>> ELSE lock' = TRUE /\ gui' = "view"
    /\ UNCHANGED <<go, quit, sim, timerVars, modelDue, scaled, messageVars,
                   mainQuit>>

\* The innermost one that waits tries again.
SpinAcquire ==
    /\ gui = "loop" /\ stack # <<>>
    /\ ~lock
    /\ lock' = TRUE
    /\ gui' = "view"
    /\ UNCHANGED <<go, quit, sim, stack, timerVars, modelDue, scaled,
                   messageVars, mainQuit>>

\* Slip: the lock is given back once the messages are taken.
TakeMessagesReleases ==
    /\ gui = "view"
    /\ taken' = messages /\ messages' = 0
    /\ extends' = IF extends = "current" THEN "taken" ELSE extends
    /\ lock' = FALSE
    /\ gui' = "update"
    /\ UNCHANGED <<go, quit, sim, stack, timerVars, modelDue, scaled,
                   sent, left, shown, mainQuit>>

\* It takes the list of messages, and an empty one takes its place.  What it has
\* is the list itself: whoever still extends that extends what will be shown.
TakeMessages ==
    /\ gui = "view"
    /\ taken' = messages /\ messages' = 0
    /\ extends' = IF extends = "current" THEN "taken" ELSE extends
    /\ gui' = "update"
    /\ UNCHANGED <<lock, go, quit, sim, stack, timerVars, modelDue, scaled,
                   sent, left, shown, mainQuit>>

\* update_view reads the simulator, and the lock is released.
UpdateView ==
    /\ gui = "update"
    /\ lock' = FALSE
    /\ gui' = "after"
    /\ UNCHANGED <<go, quit, sim, stack, timerVars, modelDue, scaled,
                   messageVars, mainQuit>>

\* What is left of the timers when update_view_timeout of timer id returns,
\* with playing the button: it is False that ends its own timer.
TimersAfter(id, playing) ==
    LET unplayed == IF active /\ ~playing THEN live \ {timeoutId} ELSE live
    IN  IF playing THEN unplayed ELSE unplayed \ {id}

\* Slip: the simulation is not told to go on.
AfterViewSilent ==
    LET id      == stack[Len(stack)]
        playing == active /\ taken = 0
    IN  /\ gui = "after"
        /\ shown' = shown + taken /\ taken' = 0
        /\ extends' = IF extends = "taken" THEN "shown" ELSE extends
        /\ active' = playing
        /\ live' = TimersAfter(id, playing)
        /\ timeoutId' = IF playing THEN timeoutId ELSE 0
        /\ stack' = SubSeq(stack, 1, Len(stack) - 1)
        /\ Return(stack')
        /\ UNCHANGED <<lock, go, quit, sim, timers, modelDue, scaled, sent,
                       left, messages, mainQuit>>

\* It shows the messages, which lets the button up, and, if that is down, has
\* the simulation go on.
AfterView ==
    LET id      == stack[Len(stack)]
        playing == active /\ taken = 0
    IN  /\ gui = "after"
        /\ shown' = shown + taken /\ taken' = 0
        /\ extends' = IF extends = "taken" THEN "shown" ELSE extends
        /\ active' = playing
        /\ live' = TimersAfter(id, playing)
        /\ timeoutId' = IF playing THEN timeoutId ELSE 0
        /\ go' = (go \/ playing)
        /\ stack' = SubSeq(stack, 1, Len(stack) - 1)
        /\ Return(stack')
        /\ UNCHANGED <<lock, quit, sim, timers, modelDue, scaled, sent,
                       left, messages, mainQuit>>

-----------------------------------------------------------------------------
\* Slip: the old timer is removed and no new one started.
StartUpdateTimerNone ==
    /\ timers < MaxTimer
    /\ timers' = timers + 1
    /\ live' = live \ {timeoutId}
    /\ timeoutId' = timers + 1

\* Slip: the number of the timer to come is kept.
StartUpdateTimerOffByOne ==
    /\ timers < MaxTimer
    /\ timers' = timers + 1
    /\ live' = (live \ {timeoutId}) \cup {timers + 1}
    /\ timeoutId' = timers + 2

\* _start_update_timer.
StartUpdateTimer ==
    /\ timers < MaxTimer
    /\ timers' = timers + 1
    /\ live' = (live \ {timeoutId}) \cup {timers + 1}
    /\ timeoutId' = timers + 1

\* The user does something, while the window is there.
UserEvent == Dispatching /\ ~quit

\* _on_play_button_toggled, down and up.
Play ==
    /\ UserEvent
    /\ ~active
    /\ active' = TRUE
    /\ StartUpdateTimer
    /\ UNCHANGED <<lock, go, quit, sim, gui, stack, modelDue, scaled,
                   messageVars, mainQuit>>

Pause ==
    /\ UserEvent
    /\ active
    /\ active' = FALSE
    /\ live' = live \ {timeoutId}
    /\ UNCHANGED <<lock, go, quit, sim, gui, stack, timeoutId, timers,
                   modelDue, scaled, messageVars, mainQuit>>

\* _speed_changed.
SpeedChanged ==
    /\ UserEvent
    /\ StartUpdateTimer
    /\ UNCHANGED <<lock, go, quit, sim, gui, stack, active, modelDue, scaled,
                   messageVars, mainQuit>>

\* A callback that takes the lock and waits for it: tooltip_query,
\* begin_node_drag, node_drag_motion, select_node, add_information_window.
Inspect ==
    /\ UserEvent
    /\ gui' = "locking"
    /\ UNCHANGED <<lock, go, quit, sim, stack, timerVars, modelDue, scaled,
                   messageVars, mainQuit>>

\* The idle callback update_model does so too.
UpdateModel ==
    /\ gui = "loop" /\ modelDue > 0
    /\ modelDue' = modelDue - 1
    /\ gui' = "locking"
    /\ UNCHANGED <<lock, go, quit, sim, stack, timerVars, scaled, messageVars,
                   mainQuit>>

Locked ==
    /\ gui = "locking" /\ ~lock
    /\ lock' = TRUE
    /\ gui' = "locked"
    /\ UNCHANGED <<go, quit, sim, stack, timerVars, modelDue, scaled,
                   messageVars, mainQuit>>

Unlock ==
    /\ gui = "locked"
    /\ lock' = FALSE
    /\ Return(stack)
    /\ UNCHANGED <<go, quit, sim, stack, timerVars, modelDue, scaled,
                   messageVars, mainQuit>>

\* autoscale_view reads the positions of the nodes without the lock.
AutoscaleView ==
    /\ Dispatching /\ ~scaled
    /\ scaled' = TRUE
    /\ gui' = "scale"
    /\ UNCHANGED <<lock, go, quit, sim, stack, timerVars, modelDue,
                   messageVars, mainQuit>>

Autoscaled ==
    /\ gui = "scale"
    /\ Return(stack)
    /\ UNCHANGED <<lock, go, quit, sim, stack, timerVars, modelDue, scaled,
                   messageVars, mainQuit>>

\* Slip: the simulation thread is not woken.
QuitUnsignalled ==
    /\ UserEvent
    /\ live' = live \ {timeoutId} /\ timeoutId' = 0
    /\ quit' = TRUE
    /\ gui' = "join"
    /\ UNCHANGED <<lock, go, sim, stack, active, timers, modelDue, scaled,
                   messageVars, mainQuit>>

\* _quit up to the join, and from there.
Quit ==
    /\ UserEvent
    /\ live' = live \ {timeoutId} /\ timeoutId' = 0
    /\ quit' = TRUE
    /\ go' = TRUE
    /\ gui' = "join"
    /\ UNCHANGED <<lock, sim, stack, active, timers, modelDue, scaled,
                   messageVars, mainQuit>>

Join ==
    /\ gui = "join" /\ sim = "ended"
    /\ mainQuit' = TRUE
    /\ gui' = IF stack = <<>> THEN "over" ELSE "loop"
    /\ UNCHANGED <<lock, go, quit, sim, stack, timerVars, modelDue, scaled,
                   messageVars>>

Sim ==
    \/ SimTest \/ SimWait \/ SimClear \/ SimCheck
    \/ SimExtend
    \/ \E n \in 0 .. 1 : SimRun(n)

Gui ==
    \/ TakeMessages \/ UpdateView \/ AfterView \/ UpdateModel \/ Locked \/ Unlock
    \/ AutoscaleView \/ Autoscaled \/ Join

User == Play \/ Pause \/ SpeedChanged \/ Inspect \/ Quit

Next ==
    \/ Sim \/ SimAcquire
    \/ Gui \/ SpinAcquire \/ User
    \/ \E id \in 1 .. MaxTimer : TimerFires(id)

Spec == Init /\ [][Next]_vars

\* Both threads are scheduled.  Between two timers and two events of the user
\* there is time: who waits for the lock finds it free in the end, and a timer
\* that keeps coming due is dispatched.  The user need not do anything.
FairSpec ==
    /\ Spec
    /\ WF_vars(Sim) /\ WF_vars(Gui)
    /\ SF_vars(SimAcquire) /\ SF_vars(SpinAcquire)
    /\ \A id \in 1 .. MaxTimer : SF_vars(TimerFires(id))

-----------------------------------------------------------------------------
TypeOK ==
    /\ {lock, go, quit, active, scaled, mainQuit} \subseteq BOOLEAN
    /\ sim \in {"test", "wait", "clear", "check", "acquire", "run",
              "extend", "ended"}
    /\ gui \in {"loop", "view", "update", "after", "locking", "locked", "scale",
                "join", "over"}
    /\ stack \in Seq(1 .. MaxTimer)
    /\ live \subseteq 1 .. MaxTimer
    /\ timeoutId \in 0 .. MaxTimer /\ timers \in 0 .. MaxTimer
    /\ modelDue \in Nat
    /\ {sent, left, messages, taken, shown} \subseteq 0 .. MaxMessage
    /\ extends \in {"none", "current", "taken", "shown"}

\* The sections that take the lock never meet: while the simulation thread runs
\* the simulator and hands over its messages, no view, inspection or model
\* update of the GUI thread, however deep it is nested, is under way.
LockExcludes ==
    ~(sim \in {"run", "extend"} /\ gui \in {"view", "update", "locked"})

\* "NS 3 is not thread safe": while the simulation thread runs the simulator no
\* callback of the GUI thread is in the middle of reading it, autoscale_view
\* included.
SimulatorExclusive ==
    ~(sim = "run" /\ gui \in {"update", "locked", "scale"})

\* Each pause message the simulation leaves waits to be handed over or seen, is
\* about to be shown or was shown: none goes into a list that nobody looks at
\* any more, and however many runs are made between two views.
MessagesKept == sent = left + messages + taken + shown

\* While the button is down some timer lives: playing never stalls for want of
\* one, whatever was toggled inside the callback of another.
PlayingHasTimer == active /\ ~quit => live # {}

\* Closing the window ends both threads, wherever they were.
QuitEnds == quit ~> (sim = "ended" /\ gui = "over")

\* While the button stays down the simulation goes on.
PlayRuns == (active /\ ~quit) ~> (sim = "run" \/ ~active \/ quit)

\* "if we're paused, stop the update timer": no second timer is left running
\* beside the one the visualizer knows.
OneTimer == Cardinality(live) <= 1
=============================================================================
