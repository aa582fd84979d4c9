-------------------------- MODULE VisualizerProofs --------------------------
(***************************************************************************)
(* The two threads of the visualizer never meet under the lock, and no     *)
(* pause message is lost, however many timers and messages there are.      *)
(***************************************************************************)
EXTENDS Visualizer, TLAPS

\* The lock is taken exactly by the thread that is in a section it guards, and
\* by one of them only.
LockHeld ==
    /\ lock <=> \/ sim \in {"run", "extend"}
                \/ gui \in {"view", "update", "locked"}
    /\ LockExcludes

\* Messages are in the hands of update_view_timeout only until it shows them, and
\* of the simulator only until they are added to the list that is in use.
MessagesInOrder ==
    /\ {sent, left, messages, taken, shown} \subseteq Nat
    /\ gui \notin {"update", "after"} => taken = 0
    /\ sim # "extend" => left = 0
    /\ sim = "extend" => extends = "current"
    /\ MessagesKept

LEMMA LockStep ==
    ASSUME LockHeld, Next
    PROVE  LockHeld'
<1> USE DEF LockHeld, LockExcludes
<1>1. CASE \E n \in 0 .. 1 : SimRun(n)
  BY <1>1 DEF SimRun
<1>2. CASE TakeMessages \/ UpdateView \/ SimExtend
  BY <1>2 DEF TakeMessages, UpdateView, SimExtend
<1>3. CASE AfterView
  BY <1>3 DEF AfterView, Return
<1>4. CASE SimTest \/ SimWait \/ SimClear \/ SimCheck \/ SimAcquire
  BY <1>4 DEF SimTest, SimWait, SimClear, SimCheck, SimAcquire
<1>5. CASE UpdateModel \/ Locked \/ Unlock \/ AutoscaleView \/ Autoscaled \/ Join
  BY <1>5 DEF UpdateModel, Locked, Unlock, AutoscaleView, Autoscaled, Join,
              Dispatching, Return
<1>6. CASE User
  BY <1>6 DEF User, Play, Pause, SpeedChanged, Inspect, Quit, UserEvent,
              Dispatching
<1>7. CASE SpinAcquire
  BY <1>7 DEF SpinAcquire
<1>8. CASE \E id \in 1 .. MaxTimer : TimerFires(id)
  BY <1>8 DEF TimerFires, Dispatching
<1>. QED BY <1>1, <1>2, <1>3, <1>4, <1>5, <1>6, <1>7, <1>8 DEF Next, Sim, Gui

LEMMA LockNext == LockHeld /\ [Next]_vars => LockHeld'
<1>1. CASE UNCHANGED vars
  BY <1>1 DEF vars, LockHeld, LockExcludes
<1>. QED BY <1>1, LockStep

\* Messages move only under the lock; so the list that the simulation thread has
\* looked up is not taken before it has extended it.
LEMMA MessagesStep ==
    ASSUME LockHeld, MessagesInOrder, Next
    PROVE  MessagesInOrder'
<1> USE DEF MessagesInOrder, MessagesKept
<1>1. CASE \E n \in 0 .. 1 : SimRun(n)
  BY <1>1 DEF SimRun, timerVars
<1>2. CASE TakeMessages \/ UpdateView
  BY <1>2 DEF TakeMessages, UpdateView, messageVars, LockHeld, LockExcludes
<1>3. CASE AfterView
  BY <1>3 DEF AfterView, Return
<1>4. CASE SimTest \/ SimWait \/ SimClear \/ SimCheck \/ SimAcquire
  BY <1>4 DEF SimTest, SimWait, SimClear, SimCheck, SimAcquire, messageVars
<1>5. CASE UpdateModel \/ Locked \/ Unlock \/ AutoscaleView \/ Autoscaled \/ Join
  BY <1>5 DEF UpdateModel, Locked, Unlock, AutoscaleView, Autoscaled, Join,
              Dispatching, Return, messageVars
<1>6. CASE User
  BY <1>6 DEF User, Play, Pause, SpeedChanged, Inspect, Quit, UserEvent,
              Dispatching, messageVars
<1>7. CASE SpinAcquire
  BY <1>7 DEF SpinAcquire, messageVars
<1>8. CASE \E id \in 1 .. MaxTimer : TimerFires(id)
  BY <1>8 DEF TimerFires, Dispatching, messageVars
<1>9. CASE SimExtend
  BY <1>9 DEF SimExtend
<1>. QED BY <1>1, <1>2, <1>3, <1>4, <1>5, <1>6, <1>7, <1>8, <1>9 DEF Next, Sim, Gui

\* Each pause message of the simulation is waiting, about to be shown or shown.
THEOREM MessagesKeptCorrect == Spec => []MessagesKept
<1> DEFINE Inv == LockHeld /\ MessagesInOrder
<1>1. Init => Inv
  BY DEF Init, LockHeld, LockExcludes, MessagesInOrder, MessagesKept
<1>2. Inv /\ [Next]_vars => Inv'
  <2>1. CASE UNCHANGED vars
    BY <2>1, LockNext DEF vars, messageVars, MessagesInOrder, MessagesKept
  <2>. QED BY <2>1, LockNext, MessagesStep
<1>3. Inv => MessagesKept
  BY DEF MessagesInOrder
<1>. QED BY <1>1, <1>2, <1>3, PTL DEF Spec

-----------------------------------------------------------------------------
\* While the simulation thread runs the simulator and hands over its messages no
\* view, inspection or model update is under way, however callbacks nest: only
\* autoscale_view, which takes no lock, can meet it.
THEOREM LockExcludesCorrect == Spec => []LockExcludes
<1>1. Init => LockHeld
  BY DEF Init, LockHeld, LockExcludes
<1>2. LockHeld /\ [Next]_vars => LockHeld'
  BY LockNext
<1>3. LockHeld => LockExcludes
  BY DEF LockHeld
<1>. QED BY <1>1, <1>2, <1>3, PTL DEF Spec

-----------------------------------------------------------------------------
LEMMA TimerStep ==
    ASSUME PlayingHasTimer, Next
    PROVE  PlayingHasTimer'
<1> USE DEF PlayingHasTimer
<1>1. CASE \E n \in 0 .. 1 : SimRun(n)
  BY <1>1 DEF SimRun, timerVars
<1>2. CASE TakeMessages \/ UpdateView \/ SimExtend
  BY <1>2 DEF TakeMessages, UpdateView, SimExtend, timerVars
<1>3. CASE AfterView
  BY <1>3 DEF AfterView, TimersAfter
<1>4. CASE SimTest \/ SimWait \/ SimClear \/ SimCheck \/ SimAcquire
  BY <1>4 DEF SimTest, SimWait, SimClear, SimCheck, SimAcquire, timerVars
<1>5. CASE UpdateModel \/ Locked \/ Unlock \/ AutoscaleView \/ Autoscaled \/ Join
  BY <1>5 DEF UpdateModel, Locked, Unlock, AutoscaleView, Autoscaled, Join, timerVars
<1>6. CASE User
  <2>1. StartUpdateTimer => live' # {}
    BY DEF StartUpdateTimer
  <2>. QED BY <1>6, <2>1 DEF User, Play, Pause, SpeedChanged, Inspect, Quit, timerVars
<1>7. CASE SpinAcquire
  BY <1>7 DEF SpinAcquire, timerVars
<1>8. CASE \E id \in 1 .. MaxTimer : TimerFires(id)
  BY <1>8 DEF TimerFires, timerVars
<1>. QED BY <1>1, <1>2, <1>3, <1>4, <1>5, <1>6, <1>7, <1>8 DEF Next, Sim, Gui

\* While the play button is down some update timer lives, also when timers are
\* started and removed inside the callback of another.
THEOREM PlayingHasTimerCorrect == Spec => []PlayingHasTimer
<1>1. Init => PlayingHasTimer
  BY DEF Init, PlayingHasTimer
<1>2. PlayingHasTimer /\ [Next]_vars => PlayingHasTimer'
  <2>1. CASE UNCHANGED vars
    BY <2>1 DEF vars, timerVars, PlayingHasTimer
  <2>. QED BY <2>1, TimerStep
<1>. QED BY <1>1, <1>2, PTL DEF Spec

-----------------------------------------------------------------------------
\* A view is only ever made inside a callback of some timer.
Nested == gui \in {"view", "update", "after"} => stack # <<>>

ThreadsOK ==
    /\ {lock, go, quit, active, scaled, mainQuit} \subseteq BOOLEAN
    /\ sim \in {"test", "wait", "clear", "check", "acquire", "run", "extend",
              "ended"}
    /\ gui \in {"loop", "view", "update", "after", "locking", "locked", "scale",
                "join", "over"}
    /\ extends \in {"none", "current", "taken", "shown"}

TimersOK ==
    /\ stack \in Seq(1 .. MaxTimer)
    /\ live \subseteq 1 .. MaxTimer
    /\ timeoutId \in 0 .. MaxTimer /\ timers \in 0 .. MaxTimer

CountsOK == modelDue \in Nat /\ sent <= MaxMessage

LEMMA ThreadsStep ==
    ASSUME ThreadsOK, Next
    PROVE  ThreadsOK'
<1> USE DEF ThreadsOK
<1>1. CASE \E n \in 0 .. 1 : SimRun(n)
  BY <1>1 DEF SimRun, timerVars, messageVars
<1>2. CASE TakeMessages \/ UpdateView \/ SimExtend
  BY <1>2 DEF TakeMessages, UpdateView, SimExtend, timerVars, messageVars
<1>3. CASE AfterView
  BY <1>3 DEF AfterView, Return
<1>4. CASE SimTest \/ SimWait \/ SimClear \/ SimCheck \/ SimAcquire
  BY <1>4 DEF SimTest, SimWait, SimClear, SimCheck, SimAcquire, timerVars, messageVars
<1>5. CASE UpdateModel \/ Locked \/ Unlock \/ AutoscaleView \/ Autoscaled \/ Join
  BY <1>5 DEF UpdateModel, Locked, Unlock, AutoscaleView, Autoscaled, Join,
              Return, timerVars, messageVars
<1>6. CASE User
  BY <1>6 DEF User, Play, Pause, SpeedChanged, Inspect, Quit, timerVars, messageVars
<1>7. CASE SpinAcquire
  BY <1>7 DEF SpinAcquire, timerVars, messageVars
<1>8. CASE \E id \in 1 .. MaxTimer : TimerFires(id)
  BY <1>8 DEF TimerFires, timerVars, messageVars
<1>. QED BY <1>1, <1>2, <1>3, <1>4, <1>5, <1>6, <1>7, <1>8 DEF Next, Sim, Gui

LEMMA TimersStep ==
    ASSUME TimersOK, Nested, Next
    PROVE  TimersOK' /\ Nested'
<1> USE DEF TimersOK, Nested
<1>1. CASE \E n \in 0 .. 1 : SimRun(n)
  BY <1>1 DEF SimRun, timerVars
<1>2. CASE TakeMessages \/ UpdateView \/ SimExtend
  BY <1>2 DEF TakeMessages, UpdateView, SimExtend, timerVars
<1>3. CASE AfterView
  <2>1. stack # <<>> /\ stack' = SubSeq(stack, 1, Len(stack) - 1)
        /\ gui' \in {"over", "loop"} /\ timers' = timers
    BY <1>3 DEF AfterView, Return
  <2>2. stack' \in Seq(1 .. MaxTimer)
    <3> DEFINE T == 1 .. MaxTimer
    <3>1. stack \in Seq(T)
      OBVIOUS
    <3> HIDE DEF T
    <3>2. Len(stack) \in Nat /\ Len(stack) > 0
      BY <2>1, <3>1
    <3>3. SubSeq(stack, 1, Len(stack) - 1) \in Seq(T)
      BY <3>1, <3>2
    <3>. QED BY <2>1, <3>3 DEF T
  <2>3. live' \subseteq live /\ timeoutId' \in {timeoutId, 0}
    BY <1>3 DEF AfterView, TimersAfter
  <2>4. 0 \in 0 .. MaxTimer
    BY VisualizerAssumption
  <2>. QED BY <2>1, <2>2, <2>3, <2>4
<1>4. CASE SimTest \/ SimWait \/ SimClear \/ SimCheck \/ SimAcquire
  BY <1>4 DEF SimTest, SimWait, SimClear, SimCheck, SimAcquire, timerVars
<1>5. CASE UpdateModel \/ Locked \/ Unlock \/ AutoscaleView \/ Autoscaled \/ Join
  BY <1>5 DEF UpdateModel, Locked, Unlock, AutoscaleView, Autoscaled, Join,
              Return, timerVars
<1>6. CASE User
  <2>1. ASSUME StartUpdateTimer
        PROVE  /\ live' \subseteq 1 .. MaxTimer
               /\ timeoutId' \in 0 .. MaxTimer /\ timers' \in 0 .. MaxTimer
    BY <2>1, VisualizerAssumption DEF StartUpdateTimer
  <2>2. CASE Play \/ SpeedChanged
    BY <2>1, <2>2 DEF Play, SpeedChanged, UserEvent, Dispatching
  <2>3. 0 \in 0 .. MaxTimer
    BY VisualizerAssumption
  <2>4. CASE Pause \/ Inspect \/ Quit
    BY <2>3, <2>4 DEF Pause, Inspect, Quit, UserEvent, Dispatching, timerVars
  <2>. QED BY <1>6, <2>2, <2>4 DEF User
<1>7. CASE SpinAcquire
  BY <1>7 DEF SpinAcquire, timerVars
<1>8. ASSUME NEW id \in 1 .. MaxTimer, TimerFires(id) PROVE TimersOK' /\ Nested'
  <2>1. stack' = Append(stack, id) /\ UNCHANGED timerVars
    BY <1>8 DEF TimerFires
  <2>2. stack' \in Seq(1 .. MaxTimer) /\ stack' # <<>>
    BY <2>1
  <2>. QED BY <2>1, <2>2 DEF timerVars
<1>. QED BY <1>1, <1>2, <1>3, <1>4, <1>5, <1>6, <1>7, <1>8 DEF Next, Sim, Gui

LEMMA CountsStep ==
    ASSUME CountsOK, MessagesInOrder, Next
    PROVE  CountsOK'
<1> USE DEF CountsOK
<1>1. ASSUME NEW n \in 0 .. 1, SimRun(n) PROVE CountsOK'
  BY <1>1, VisualizerAssumption DEF SimRun, MessagesInOrder
<1>2. CASE TakeMessages \/ UpdateView \/ AfterView \/ SimExtend
  BY <1>2 DEF TakeMessages, UpdateView, AfterView, SimExtend, messageVars
<1>3. CASE SimTest \/ SimWait \/ SimClear \/ SimCheck \/ SimAcquire \/ SpinAcquire
  BY <1>3 DEF SimTest, SimWait, SimClear, SimCheck, SimAcquire, SpinAcquire, messageVars
<1>4. CASE UpdateModel
  BY <1>4 DEF UpdateModel, messageVars
<1>5. CASE Locked \/ Unlock \/ AutoscaleView \/ Autoscaled \/ Join
  BY <1>5 DEF Locked, Unlock, AutoscaleView, Autoscaled, Join, messageVars
<1>6. CASE User
  BY <1>6 DEF User, Play, Pause, SpeedChanged, Inspect, Quit, messageVars
<1>7. CASE \E id \in 1 .. MaxTimer : TimerFires(id)
  BY <1>7 DEF TimerFires, messageVars
<1>. QED BY <1>1, <1>2, <1>3, <1>4, <1>5, <1>6, <1>7 DEF Next, Sim, Gui

\* Threads, timers and messages of the visualizer keep their types and bounds.
THEOREM VisualizerTypeCorrect == Spec => []TypeOK
<1> DEFINE Inv == /\ ThreadsOK /\ TimersOK /\ Nested /\ CountsOK
                  /\ LockHeld /\ MessagesInOrder
<1>1. Init => Inv
  <2> SUFFICES ASSUME Init PROVE Inv
    OBVIOUS
  <2>1. TimersOK
    BY VisualizerAssumption DEF Init, TimersOK
  <2>2. CountsOK
    BY VisualizerAssumption DEF Init, CountsOK
  <2>3. MessagesInOrder
    BY DEF Init, MessagesInOrder, MessagesKept
  <2>. QED BY <2>1, <2>2, <2>3 DEF Init, ThreadsOK, Nested, LockHeld, LockExcludes
<1>2. Inv /\ [Next]_vars => Inv'
  <2>1. CASE UNCHANGED vars
    BY <2>1, LockNext DEF vars, timerVars, messageVars, ThreadsOK, TimersOK, Nested,
                CountsOK, MessagesInOrder, MessagesKept
  <2>. QED BY <2>1, LockNext, ThreadsStep, TimersStep, CountsStep, MessagesStep
<1>3. Inv => TypeOK
  <2> SUFFICES ASSUME Inv PROVE TypeOK
    OBVIOUS
  <2>1. {sent, left, messages, taken, shown} \subseteq 0 .. MaxMessage
    BY VisualizerAssumption DEF CountsOK, MessagesInOrder, MessagesKept
  <2>. QED BY <2>1 DEF ThreadsOK, TimersOK, CountsOK, TypeOK
<1>. QED BY <1>1, <1>2, <1>3, PTL DEF Spec
=============================================================================
