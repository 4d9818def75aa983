# Verification of ilixi

TLA+ models, TLC runs and TLAPS proofs for [ilixi](../src/README.md), a GUI
toolkit on DirectFB whose largest program is a compositor that starts other
ilixi applications and puts their windows on the screen. `tlc -config X.cfg M`
checks a run, `tlapm M.tla` checks the proofs of a module; `PROJECT.json` lists
the runs, the lines of the source every definition stands for, the findings,
the hazards and the theorems. Paths below are relative to `src/ilixi/`.

## 1. The system and its parts

An ilixi program runs one **main loop** (`Application::exec`): run callbacks and
timers (`Engine::cycle`), wait, handle the events in the buffer, update the
windows. Everything else happens on other threads: helper threads of widgets
(`lib/Thread`), the threads on which DirectFB delivers Coma calls, SaWMan's
manager thread, and the SIGCHLD handler of the compositor. The toolkit's locks
are few and local, so most of what can go wrong is in the order of steps of
different threads, or in a call made from inside a callback.

| part | state | operations | what makes it correct |
|---|---|---|---|
| Rectangles (`types/Rectangle`) | a corner and a size | unite, intersect, convert to pixels | nothing that was dirty is lost, nothing outside a clip is drawn |
| Window updates (`ui/WindowWidget`) | update queue, published region, two semaphores, visibility | update, repaint, updateWindow, paint, show, hide, close | painters exclude each other, each composes its own region, no request is lost, the paint gate comes back |
| Callbacks (`core/Callback`, `core/Engine`) | list, `_running` flags | start, stop, one pass per cycle | listed once, flags never stale, what is started is called |
| Timers (`lib/Timer`, `core/Engine`) | sorted list, timer fields, timeout of the loop | start, stop, restart, setInterval, setRepeats, runTimers | limits hold, the loop does not oversleep, no starvation |
| Event buffer and loop (`core/Engine`, `core/Application`) | DirectFB's event buffer, the phase of the loop | post, wake up, wait, reset, stop | events are handled in order and once, updates happen, stop ends the loop |
| Window stack (`core/Application`, `core/Window`) | window list, active window, attached buffers | add, remove, activate, dispatch | the active window is on top and attached, modality holds |
| Focus (`core/EventManager`) | focused, grabbed, exposed, OSK widget | set, clear, dispatch, select next and previous | the widget's flags mirror the manager, no deleted widget is kept |
| Widget tree (`ui/Widget`) | children, root window, flags, geometry | add, remove, restack, show, enable, move, resize, update | a tree, each widget in its parent's list once; the screen shows what the tree says |
| Layouts (`ui/LayoutBase`, `HBoxLayout`, `VBoxLayout`, `GridLayout`) | children, cells, `_modified` | add, remove, tile, doLayout | children fit, fill and respect their limits, tiling is stable |
| Line of text (`ui/LineInput`, `types/TextLayout`) | text, cursor, selection, scrolling | pointer and key handlers, setText, append, clear | the cursor is in the text and in view, the selection is what is replaced |
| Keyboard (`../apps/osk`, `compositor/OSKComponent`) | key that cycles, modifier, timer | tap, shift, delete, timeout | the letters that were chosen get into the text of the other process |
| Gestures (`lib/Gesture`) | moves of a stroke | pointer events, matching | the nearest gesture is reported |
| Animations (`lib/Animation*`) | state, loop, delay | start, stop, sequence | a started animation finishes, a sequence goes to its end |
| Surface listeners (`core/SurfaceEventListener`, `ui/SurfaceView`) | listener list, queue of two updates | attach, detach, consume, acknowledge | the last frame is shown, sources are attached once |
| Threads and repeating buttons (`lib/Thread`, `ui/ToolButton`, `ui/DirectionalButton`) | `_running`, the thread's target | press, release, leave, click | one thread per class of buttons, which runs while a button is held |
| Notifications (`compositor/NotificationManager`) | pending and active lists | add, replace, hide, close | each is shown or replaced, no more at a time than there is place for |
| Application life cycle (`compositor/ApplicationManager`, `AppInstance`, `Compositor`) | child processes, instances, views, current and previous application, CET_* events | start, exit, crash, stop, kill, show, home key | no child is lost, something is on screen, what is current is shown |
| Views (`compositor/AppView`) | opacity, place, `AnimShowing` | show, hide, slide, keyboard | when animations end the current application is whole and alone on the screen |
| Painting, media, platform, utilities, applications | see `components` | | input and output |

How they interact: timers, callbacks and surface listeners run inside
`Engine::cycle` with the engine's lock held and call user code from there;
surface listeners and animations are callbacks themselves; `updateWindows` runs
after the handlers with the list of windows locked, and painting tiles the
layouts first; the event manager of a window is told by its widgets when they
are disabled, hidden or deleted; the compositor's manager thread, Coma threads
and signal handler talk to its main loop by posting events, some of which carry
raw `AppInstance` pointers; the on-screen keyboard's keys travel as Coma calls
to the compositor and as window events to the current application.

The behaviours that are hard to test are listed under `hazards` with the
properties that cover them, or the reason why none does.

## 2. The modules

| module | models |
|---|---|
| `Geometry` | `types/Rectangle`, operators only |
| `RectangleUnion` | the two places that merge rectangles one after the other |
| `WindowUpdates` | one window, the thread of the main loop and helper threads; EXTENDS `Geometry` |
| `Callbacks` | callbacks and the callback half of the engine |
| `Timers` | timers, the timer half of the engine and its wait |
| `MainLoop` | `Application::exec`, the event buffer, the window list and the dispatch of events |
| `EventQueue`, `WindowStack` | abstract: what the buffer and the window list promise; `MainLoop` implements both |
| `FocusOrder`, `Widgets` | the widgets of a window, its event manager and the order of the tab key |
| `BoxTiling`, `BoxLayout` | the distribution of space along one axis, and a box layout |
| `GridTiling`, `GridLayout` | the rows and columns of a grid, its cells, spans and neighbours |
| `Relayout` | nested layouts, the flags a change leaves and the painting that brings the screen up to date; EXTENDS `BoxTiling` |
| `LineEditing` | a line of text |
| `Typing` | letters tapped on the on-screen keyboard; EXTENDS `LineEditing`, the other end of the wire |
| `Gestures` | strokes and gestures |
| `Animations` | animations and sequences |
| `SurfaceEvents` | surface views, their queues and sources |
| `RepeatThreads` | buttons that repeat from a thread |
| `Notifications` | the compositor's notifications |
| `AppLifecycle` | application processes, instances and the screen |
| `ViewSwitching` | the animated views of the compositor |
| `MCScreens`, `MCParts` | several of these side by side (below) |
| `MCWindowUpdates`, `MCCallbacks`, `MCTimers`, `MCMainLoop`, `MCAppLifecycle` | one of them each |
| `Callbacks_proofs`, `Timers_proofs`, `MainLoop_proofs`, `AppLifecycle_proofs`, `SurfaceEvents_proofs` | theorems about the module in the name |
| `Parts_proofs` | theorems about the parts of `MCParts` |
| `Screens_proofs` | theorems about `Geometry`, `WindowUpdates` and the parts of `MCScreens` |
| `SequenceLemmas` | what the proofs use of sequences, numbers and recursion: erasing, appending and moving one element, least and greatest numbers, recursive functions |

`MCScreens` and `MCParts` are *sums*: a variable `part`, chosen at the start and
never changed, says which component a behaviour is of; the others stay as they
begin. Nothing of one part is mixed with another, so a run of a sum is the runs
of its parts, and each invariant of it says for which part it speaks. What the sums take as constants (the widgets of a window with their tree, their
behaviour and the sets under the pointer, the tree of layouts with what it holds at
first and what the application moves, hides, removes and adds in it, the rows and
columns of the grid and the spans asked for, the rectangles, the applications, the
font and the field of the line, the keys and the letters they stand for, and the
points of a stroke; the timers, their threads and the calls they make,
the animations with their order and times, the buttons and the threads they may
make, the notifications, their tags and the places for them, and the surfaces)
is left open by the proofs; named assumptions say what they are.

**WindowUpdates.** Each thread has a program counter `pc` and a rectangle in
hand `temp`. `Request` is the unlocked visibility check of `update()` and
`AddRequest` its locked merge; `TakeQueue` is `updateWindow()` down to its
unlock; `AcquireGate`, `PublishRegion`, `CheckVisible`, `PollReady`, `TakeReady`
and `FinishPaint` are the semaphore operations and checks from there to the
end of `paint()`, shared with `repaint()`. `owed` is a ghost: the pixels that
were asked for and not composed since. What is drawn is abstracted to which
pixels a paint covers, which is taken to be settled when the clip is computed:
a request that comes in later is owed again. The POSIX semaphores are modelled
by their counts.

**Callbacks.** `start` splits into the unlocked look at `_running` and the
locked `addCallback`. A pass is `runCallbacks` (lock and copy), then `CallNext`
and `GoOn` or `Quit` (the functionoid returned non-zero or 0) for each element,
then `EndPass`. In phase `call` the loop thread may run any operation, because
the lock is recursive. `asked` and `again` are ghosts. `Stops` and
`StartsInLastCall` choose what user code does.

**Timers.** Expiry times are kept as `remaining`, relative to the clock.
`start` and `stop` are split at the lock. `runTimersEarly`, `runTimersRetires`
and `fire` are the three branches of `runTimers`, `fired` its end after user
code; `waitForEvents`, `WakeByEvent`, `WakeByTimeout` and `NextCycle` are the
rest of a cycle; `Tick` is a millisecond. `std::list::sort` is stable: `sorted`
is the set of what comes out, given by the one order of the places that puts
nothing behind a timer that expires later, or that ties and stood before it.
`Calls` chooses the operations that user code uses.

**AppLifecycle.** An instance is named by its process. `startApplication` is
split into the unlocked search, `vfork` and `listInstance`; `sigchild_handler`
posts and `eraseInstance` erases afterwards; `showInstance` is split into the
check, the swap of the two pointers, the hide and the show, because several
threads run it without a lock. `killApp` clears and shows first and posts
CET_Term afterwards (`postTerm`). Using a deleted instance or view, or a NULL
one, leads to the single state in which `broken` is set and the model stops: it
says nothing about what undefined behaviour does. That includes the searches
`instanceByPID` and `instanceByAppID`, which read every listed instance up to
the one they look for (`Finds`) and so a deleted one still listed
(`ReadsDeleted`); the
former's climb to a process's parents (`ApplicationManager.cpp:323`) is left
out. Abstractions: a process opens
one window and keeps it while it runs (so CET_Remove, CET_Config and
CET_Restack are left out), views have no animation, the on-screen keyboard and
the status bar are absent, the signal handler does not run in the middle of
another thread's critical section, and finding an instance and posting its
event are one step of the handler and of the manager thread.

**MainLoop.** One turn is `cycle` (the user's callbacks and timers), the decision
to sleep (`waitForEvents`), the handling of one event after another until the
buffer is empty, and a paint of every window with an update, each a step of its
own, with posts, updates and starts of callbacks by other threads in between:
`late` is a ghost that says what was asked for after the loop looked. A handler
opens and closes windows, posts events and stops the loop. Attaching the buffer
to a window, and detaching it, resets it (`Application.cpp:879`), with whatever
was waiting. The same module carries the two refinements: the user events in the
buffer (`UserIds`, their numbers in the order of the posts) are the queue of
`EventQueue`, with a reset as its one way to lose events and with its fairness,
and the window list is the stack of `WindowStack`.

**Widgets.** The tree, the state bits of each widget (disabled, invisible, focused,
exposed, pressed, grabbed) and the pointers of the event manager, for every
operation of both and the window events that reach them. Which widgets the
pointer is over is an input (`Points`). `FocusOrder` holds the recursion of
`selectNext()` and `selectPrevious()`: `selection` is one call of either, and
`search` the recursive function of all of them; where the code would not come
back it yields `Diverges`. `offered` and `consumer` are the recursion of
`consumePointerEvent()` in the same form.

**BoxTiling, BoxLayout, GridTiling, GridLayout.** The passes of `tile()` in the
order of the code: take what everybody prefers, shrink or grow those that can,
expand, give the rest. Sizes have the width of the code's (`IntBits`,
`SizeBits`), because negative space is divided as unsigned. The grid runs the
passes once for each axis, with spans spread over the lines that can grow, and
sets the neighbours for the arrow keys. Where it looks for one before its first
cell without asking whether there is a cell (`ReadsOutside`), `tile` gives way to
`tileOutside`, which sets `broken`, and the model stops.

**Relayout.** A window with nested layouts along one axis. A change (new text,
visibility, move, add, remove) sets `_modified` up the layouts, queues dirty
rectangles, and marks positions for update; painting tiles, updates absolute
positions and draws the dirty part, one widget at a time. `screen` is what the
pixels show.

**LineEditing.** Text is its length and glyphs are of one width; cursor, anchor,
selection rectangle, scroll offset and caret are kept as in the code, for every
pointer and key handler, `setText`, `append` and `clear`. The build is the default
one, without `--enable-wstring`, in which text and cursor count the same units.

**Typing.** The keyboard process, the FIFO of key events and the line input of the
application. `handleCycleKey`, `pressSlot` and the timer send events
(`ShiftRight` accepts the selected letter, a glyph and `ShiftLeft` show the next
one selected); `Hear` is the line input's key handler, with the actions of
`LineEditing` and the text itself beside them. The deleting key is held, and its
thread takes the steps `Accept`, `Choose`, `Delete` and `Forget`, between which
the timer may run. `meant` is a ghost: the letters that were chosen. The user
presses one key at a time and does not move the cursor or the focus meanwhile.

**Gestures.** The rounding of an angle to eight directions compares squares of
integers and is exact; matching goes through the matrix of the edit distance
column by column, as the code does. The property is stated with a definition of
the edit distance of its own (how few letters must be dropped, added or changed).
The pointer has one button, the left one.

**Animations.** An animation is a callback of the engine whose `funck` waits for the
delay, steps and ends a loop; a sequence starts the next one when one finishes.
`played` counts loops that were seen to their end. Handlers of the signals call
start and stop.

**SurfaceEvents.** A turn of the loop is callbacks, events, paint. Updates are queued
at the views, more than two waiting are dropped from the front, a blocking view
acknowledges what it takes. Sources flip and are destroyed whenever they like.
`handled` is a ghost: the last two frames each view took from its queue, and
`_flipCount` as it was left.

**RepeatThreads.** Pointer handlers on the main thread (`cancel`, `join`, the rest),
and the shared thread from its creation through `executeRun`, the test for
cancellation, and the click, whose handlers may disable the button. Events come at
any time, also before a new thread has set `_running`. `missed` is a history
variable: a `cancel()` has found `_running` unset while a thread that was created had
not come to set it (`LooksAtFlag`). After that a handler may join a thread a second
time, which POSIX leaves undefined; the model stops there.

**Notifications.** `addNotification` on a Coma thread step by step against the timer
of the main loop, which collects the hidden ones and fills free places.

**ViewSwitching.** Opacity stands for the zoom too; an animation goes through
*between* and a call may come before it ends. Any of the applications may ask for
the keyboard, from the background too; `broughtUpFor` is a history variable.

## 3. Runs

| run | instance | checks |
|---|---|---|
| Screens | a sum, no fairness: a 2x1 window with Main and two helpers that all paint and hide it (`updates`), the widgets of a window (`widgets`), box layouts of up to three children (`boxes`), a 2x3 grid of four widgets (`grid`), a row with a label, a box and a floating widget (`layouts`), three of all 36 small rectangles (`rectangles`), launcher, application and keyboard (`views`), a line of at most four glyphs (`text`), two keys of two letters (`typing`), five gestures (`strokes`) | TypeOK, OnePainter, PaintsOwnRegion, NoRequestLost, WidgetsConsistent, TabGoesOn, LayoutsTiled, PlacesKept, RectanglesExact, ViewsKept, TextKept, StrokesMatched, CaretFollowed |
| Parts | a sum, with fairness: a window with one helper (`updates`), a timer used by three threads (`timers`), two animations and a sequence of two (`animations`), surfaces with two views or two regions (`surfaces`, `halves`), two repeating buttons (`buttons`), four notifications in two places (`notifications`) | GateKept, TimersListedOnce, AnimationsKept, SurfacesKept, RepeatersKept, NotificationsKept, UpdatesPainted, AnimationsEnd, LastFrameShown, HandlersReturn, EachIsServed |
| MainLoop | an application window and two dialogs, all modal or one not, FairSpec | StackKept, OnlyActiveHears, SleepsOnlyIdle, UpdatesHappen, StopEnds, QueuePromise, StackPromise |
| CallbackThreads | two callbacks, two helpers and the loop start and stop them, FairSpec | ListedOnce, RunningIsListed, StartedIsCalled |
| TimersFire | two timers used by the loop thread: start, stop, restart from a firing timer, FairSpec | ListKept, RepeatsRespected, TimeoutIsNext, DueTimersFire |
| AppKills | launcher and one application, two processes, one Coma thread with two calls | InstancesKept, LauncherReturns |
| WindowHides | one thread that hides the window with setVisible(false) | UpdatesPainted is **violated** |
| TimersRestart | restart from anywhere in the loop thread | TimeoutIsNext is **violated** |
| AppShows | AppKills without a Coma thread | CurrentIsShown is **violated** |
| RectangleBounds | the rectangles of Screens | UniteCovers is **violated** |
| ButtonRepeats | two buttons | RepeatsWhileHeld is **violated** |
| LayoutsNested | the layouts of Screens | RowsTiled is **violated** |

What the less obvious properties say:

* `LayoutsTiled`: tiled rows and lines of a grid fit, are filled when something in
  them can grow, respect limits, and come out the same when tiled again; widgets
  of a grid do not overlap; when nothing is left to paint, every pixel shows the
  widget that has its place there (`L!ScreenIsTrue`) and the layout of the window
  is tiled for the extent it has (`OutermostTiled`).
* `PlacesKept`: no widget is left where it was, unmarked, when one around it moves
  (`InPlace`); a widget keeps its cells of a grid, and arrow keys of opposite
  directions undo one another there, for which, if no widget is over several cells,
  none outside of the grid is read; and a stroke is as many moves as the path
  that is drawn of it, each far from the one before.
* `WidgetsConsistent`: the widgets are a tree, their bits say what the event manager
  says, it holds no deleted widget, a disabled widget loses the focus, and the
  on-screen keyboard goes where the focus goes.
* `TabGoesOn`: the tab key moves the focus to the first widget after the focused one,
  in the order of the tree, that takes keys, the last one keeps the focus
  (`TabInOrder`), and the search comes back in both directions (`TabReturns`).
* `TextKept`: the cursor is in the text and drawn where it is, and what is shown as
  selected while the user selects is what a glyph will replace; and what is chosen
  on the on-screen keyboard is the text of the other process once the wire is
  empty, whenever the timer fires.
* `ViewsKept`: when the animations have ended, the current application is whole and
  alone on the screen; and unless it is on its way out, the keyboard is there only
  over the application that it came up for, while some application is its target
  (which need not be the same one, section 4).
* `RepeatersKept`, `HandlersReturn`: one thread at most clicks, `_running` says whether
  it is there, nothing but the held button is clicked and handlers return, as long
  as no `cancel()` came too early for a new thread (`missed`); ButtonRepeats shows what
  happens from then on.
* `RectanglesExact`: the queue is the smallest rectangle around what was merged, and
  what two valid rectangles have in common is what `intersected()` covers.
* `LastFrameShown`: of a source that stops drawing, the last frame is shown however
  many updates were dropped.
* `OnlyActiveHears`, `SleepsOnlyIdle`: no event of a window below a modal one waits in
  the buffer, and the loop sleeps only when everything there was to do is done.
* `CurrentIsShown`, `LauncherReturns`: what is current is visible, and when the
  current application ends, the launcher or the previous one comes back.

**Bounds.** Two callbacks and two timers are the least with which one can act on
the other; sorting errors show with two timers because the order of two is the
whole order. A window of two pixels has a left and a right half, so requests can
be disjoint, overlap, lie outside the frame or be null. Milliseconds are small
numbers in the order of the code's (1 below intervals and the idle timeout of
100, both below the 10000 cap); `MaxLate` bounds how late the loop may be, and
`CountCap` stops `_count` above every limit in use. `MaxPid`, `MaxCalls` and
`MaxQueue` of AppLifecycle bound processes ever started, Coma calls, and kills
asked for while events wait; with two processes either one can be the current
one while the other ends. In MainLoop three windows are the least with which one
closes between two others; `MaxEvents` events can be in the buffer, in hand and
on their way, and `MaxAttached` admits the double attachment of a non-modal
window. Box layouts have three children because rounding and limits interact
from the third on; extents go from none through one that is too small to one
that is ample. Three flips are one more than a queue of two keeps; `halves` has four, because a
blocking view that is hidden takes a frame without acknowledging it (an earlier
form of the property held with three only: the attempt to prove it showed that). `MaxThreads`
of three lets a press find the thread of the press before the last. Four
notifications are more than the places, and two share a tag. `MaxCalls` of
Animations and Relayout bound what the application asks for in a behaviour, and
`MaxMoves` a stroke. In `text`, 20 pixels show two and a half glyphs of four, so
the text must scroll; `LengthCap` is one above `MaxLength`, and no
appended text is empty (section 4). In `views` both applications use the
keyboard. In `widgets` the button can be disabled,
the panel with its slider hidden, and the panel and the input, which asks for
the on-screen keyboard, removed. In `typing` two
letters and `MaxWire` leave three to five events on their way when the next key
is pressed. `FullUpdate` is FALSE in the runs (the other value publishes the
whole frame); the proofs cover both.

Deadlock is checked in CallbackThreads, TimersFire and TimersRestart. It is not
in the others, where a model stops on purpose (`broken`, `MaxCalls` used up,
merged enough) or the system does: the loop of MainLoop ends, and in Screens and
WindowHides all threads may end up at a lost gate, which is the finding of
WindowHides.

**Fairness.** Every thread inside a call goes on (WF). The rest, by run:

* CallbackThreads, TimersFire: strong fairness for what stands for the main loop
  coming round again (`exec` calls `runCallbacks` and `NextCycle` in every cycle
  and user code returns) and for a mutex that is free again and again being given
  to each of its waiters; time passes (WF on `Tick`).
* MainLoop: WF of the loop's own steps. Handlers return, and the loop that drains
  the buffer is fed a bounded number of events. Nothing is assumed of other
  threads.
* Parts: SF of `TakeQueue` (the loop comes round to `updateWindows`) and WF of the
  painting and of adding a request; no strong fairness of semaphores is needed
  with one painter. Animations: time passes and each listed callback is called.
  Surfaces: turns of the loop go on. Buttons: handlers and threads take their
  steps; a `join` waits. Notifications: the timer's visits recur (SF of `Collect`,
  as the Coma thread holds the lock now and then), the call of a client goes on,
  and a notification's own animations end.

Nothing is assumed of what users, processes and helper threads start to do.

## 4. Findings

* **RectangleBounds**, `types/Rectangle.cpp:204`: `unite()` moves the corner and
  then reads edges derived from it, so the result may miss part of the
  rectangle. `united()`, which the update queue uses, is right (proved).
* **WindowHides**, `ui/WindowWidget.cpp:125`: hiding a window between the paint
  gate and the visibility check strands the token of the gate; every later
  update of the window waits for ever. `closeWindow()` alone does not do that
  when only the main loop paints (Parts; proved).
* **TimersRestart**, `lib/Timer.cpp:97`: restarting a running timer from a handler
  leaves the list unsorted and the loop sleeps past another timer's expiry.
  From inside a firing timer it is harmless, since `runTimers` sorts afterwards
  (TimersFire).
* **AppShows**, `compositor/Compositor.cpp:114`: an instance made current before
  its first frame stays invisible when the frame comes.
* **ButtonRepeats**, `lib/Thread.cpp:128`: a release that comes before the new thread
  has set `_running` does not cancel it, and it clicks on until the next press.
* **LayoutsNested**, `ui/LayoutBase.cpp:194`: a layout whose extent another layout
  changes is painted with its children where they were; `OutermostTiled`, the
  part that does hold, is in LayoutsTiled.

Met while modelling, without a run of their own; where a model needs one of
them not to happen, its module says so.

*Engine, timers, loop.* A callback stopped by an earlier one of the same pass is
still called once (`Engine.cpp:277` walks a copy). `Engine.h:149` says that
`runTimers` executes each timer, it serves one per cycle; `Timer.h:39` says that
by default a timer "will exec only once", its default of 0 repeats means for
ever; `setRepeats` below the current count removes the limit (`Timer.cpp:136`).
Closing a window that is not modal attaches the one below twice; a failed
`initDFBWindow` leaves an active window that is not listed; `addCallback` does not
wake a sleeping loop; resets lose surface events too.

*Widgets and focus.* The tab key never leaves the first container of a window for
its second child and never wraps (`EventManager.cpp:311`); `selectPrevious` does
not return in a window whose children are all childless and unfocusable (403);
`_oskWidget`, `_preSelectedWidget` and neighbours may name removed widgets; an
arrow key while a keyboard widget is set and nothing has the focus dereferences
NULL (`WindowWidget.cpp:507`); `clear()` leaves the grabbed bit and the keyboard;
`removeChild` without destruction dereferences NULL (`Widget.cpp:576`);
`insertChild` always reports failure; a hidden focused widget still hears keys; a
widget pressed and left stays pressed.

*Layouts.* Rows that mix Minimum and MinimumExpanding overflow though they could
fit; children of Maximum keep the width they had, so a first and a second tiling
differ; negative space is divided as unsigned; `moveTo` twice before a paint
leaves a ghost (`Widget.h:1106`); `addChild` of a clean widget keeps a stale
position (`Widget.h:111`). In a grid, removing a spanning widget reads what it
deleted (`GridLayout.cpp:403`), an empty grid divides by zero columns, bounds are
checked with `>`, an occupied cell is overwritten though `GridLayout.h:185` says
that a span stops there (`Overwrites` is FALSE in the run), and lines that mix
rigid and shrinking widgets overlap. `tile()` asks whether there is a cell to the
left, or above, only in the last column (`GridLayout.cpp:867`) and the last row (892):
for a widget from the first cell to a column in the middle it reads `_cells[-1]`
(879), and before the array too for one from the first row to a row in the middle
(899). With children first, the left key of a grid
of one column goes from the third row on to the row above, from where the right
key does not come back (`GridLayout.cpp:857-866`), and a widget over two of its rows
is its own left neighbour; PlacesAreKept asks for two columns.

*Text and keyboard.* `clear` of several glyphs, the deletion of a long selection and
long appended text leave the caret out of view (CaretFollowed speaks of single
glyphs); the rectangle of the selection follows the cursor only while the user
selects (`LineInput.h:108`); `setText` and `append` ignore `_maxLength`; text appended
over a selection at the end puts the cursor past it; text that is empty, appended
over a selection, leaves the rectangle of the selection it took (`Pieces` has no 0). On the keyboard, shift
pressed twice leaves `_modifier` set, and the next timeout turns shift on for
good (`Keyboard.cpp:523`); moving the cursor or the focus while a letter is shown
makes the timer select something else, which the next letter replaces; a field
that is full refuses the second tap; a new layout leaves `_modifier` and `_cycleKey`
pointing to deleted keys. With `--enable-wstring` the cursor counts characters and
the keys measure the text in bytes (`LineInput.cpp:382`, `397`), so it can pass the
end.

*Gestures.* `_lastMove` is never assigned, so repeated directions are pushed. Any
button begins and ends a stroke, but only the left one draws it (`Gesture.cpp:80-91`).

*Animations and surfaces.* Stopping a sequence between two of its animations does not
stop it, and it refuses to start once finished; the delay is waited for only
before the first loop. Detaching a view after its source was destroyed uses NULL
(`Engine.cpp:496`); the regions of dropped updates are not repainted; a view bound
after the last frame stays empty.

*Threads and notifications.* A handler joins the repeating thread while it holds the
window lock, which the thread needs if its click opens a window; threads that
end by themselves are never joined. Free places are filled half-way
(`NotificationManager.cpp:149`); a hidden notification that is replaced before it
is collected is closed twice; `_active` is filled without its mutex.

*Compositor.* The state `broken` of AppLifecycle is reachable in several ways, for
example by killing an application twice before the first CET_Term is handled
(`Compositor.cpp:179-195`, `628-642`), and two instances can be visible at once when
two threads run `showInstance`. `slideTo` is refused while `AnimShowing` is set,
which a show without animation never clears (`AppView.cpp:244`); the keyboard
hidden while it comes up leaves the application lifted; with two users of the
keyboard a background request takes its target away.

## 5. What is proved

For any number of threads, callbacks, rectangles and requests:

* Rectangles, in `Screens_proofs`: `UnitedCovers` (united() covers the pixels of both operands),
  `IntersectedExact` (intersected() covers exactly the pixels two valid
  rectangles share) and `InvalidCoversNothing`.
* `Callbacks_proofs`: `TypeCorrect`, `CallbacksListedOnce`, `FlagsAreListed`. The
  invariant is the conjunction of the three parts. It is inductive because the
  list only grows under the lock after a search of the list, and because
  erasing one of a list without repetitions really removes the callback, which
  is what clearing the flag relies on.
* The window, in `Screens_proofs`: `TypeCorrect`, `PaintersExclude`, `RegionStable`,
  `RequestsKept` and, when the window is hidden only by closing it and only
  Main paints, `GateNeverLost`. None of these is inductive alone. The inductive
  invariant adds `Gate`: while a thread is inside the handshake `paintReady` is
  0, `updateReady` is 1 exactly from its publishing to its `sem_wait`, and it
  is 0 while the gate is open. From it follow that a second thread cannot pass
  the gate, that both semaphores stay binary and that `_updateRegion` belongs
  to the thread inside. `RequestsKept` uses
  `UnitedCovers` for the merge and `IntersectedExact` for the clip: what a paint
  settles is what it composed. `GateNeverLost` adds that a mapped window is
  visible and stays so while Main is in the handshake.

* `Timers_proofs`: `TimersOnce` (no timer is in the list twice) for any number of
  threads. The rest is for the one thread that timers are written for, the main
  loop's in its callbacks and handlers (`Helpers = {}`): with two, one clears the
  flag of a timer between the other's setting it and listing it. `ListIsKept`
  needs to know that between the flag and the list exactly the owed call
  separates them (`Agreed`), and that none is owed when a cycle begins.
  `LimitsRespected` adds that the count of what runs or is listed is within its
  limit (`WithinLimit`); its hypothesis that limits are set of stopped timers
  is needed because `funck()` compares with `==`. `TimeoutReachesTheNext` adds
  that outside of a callback the list is sorted (`SortedList`); its
  hypothesis, that a running timer is restarted in a callback only, is what
  the finding of TimersRestart violates.
* `MainLoop_proofs`: `WindowsConsistent` and `StackIsKept` (list, active window and
  DirectFB's windows agree: the removal of a window must leave the one below
  active, which needs the list to be free of repetitions), `SleepIsIdle` (from
  `NothingToDo`: what the phases between the loop's look and its wait may still
  miss), `ActiveHears` (the attachments follow the active window, and each change
  resets the buffer), and both refinements: `ImplementsStack`, and
  `ImplementsQueue` for the safety part of `EventQueue`. The latter needs that the
  numbers in the buffer grow from its front to its back, above the one taken
  last and below the next one.
* `AppLifecycle_proofs`: `TablesAreKept` (no running child is missing from
  `_instances`) and `LauncherIsBack`. The first needs that whoever erases an entry
  has seen its process die or kills it, through the signal handler's two
  steps, and that a window is announced once (`AddsOnce`), or a second view
  would replace one that is on screen. The second needs the steps between the
  loss of the current instance and the showing of the launcher: as long as
  nothing is current the main loop is inside `showInstance` (`LauncherComes`).
* `Parts_proofs`: `ButtonsRepeatOnlyWhileHeld` for any buttons and threads, and
  events at any time. Its types hold whatever happens; the rest holds as long as no
  `cancel()` has looked at `_running` between the creation of a thread and its setting
  of the flag (`missed`), and fails after that, as ButtonRepeats shows: until then
  the threads before the last have ended, so `_running` speaks of the last alone. `SequenceRunsOneAtATime` for
  any animations and order of them: `_current` is set as long as one of the
  sequence runs, and an animation has one place in the order, so one successor;
  `stop()` between two animations of a sequence is left out, it leaves one running
  (section 4). `TimersAreListedOnce` takes `TimersOnce` for the timers of the sum,
  `SurfacesAreKept` takes `SurfacesAreListenedTo` for both of its instances.
  `NotificationsAreKept` is for any notifications, tags and number of places. A
  tag is used once although each list has a lock of its own: what makes it true
  is that a list that the Coma thread has searched holds no rival of what it adds
  (`Searched`), that of the two threads only this one adds to the waiting list,
  and that the timer moves notifications between the searches in one direction,
  from the list that is searched first to the one searched next. With it go that
  a notification is in one list once (`PendingOnce`, `OneOfATag`) and that
  `PlacesFilled`, where the loop stops half-way, never takes more than is free.
* `SurfaceEvents_proofs`: `SurfacesAreListenedTo`, for any views, surfaces, regions
  and number of frames. The invariant has, besides the types, that the buffer is
  attached once to a source while a view watches it, or after the source was
  destroyed (`AttachedToWatched`); that a view with an update waiting is called, or
  blocks its client and is hidden or about to be painted (`WaitsForCall`); that
  frames are in order in the event buffer (`BufferInOrder`), in each queue, and
  between the two (`QueuesInOrder`); and that a ready view that will not take over
  the next count is hidden or about to be painted, and unless it blocks its
  client, it acknowledged the last frame it took (`CountIsKnown`). Dropping the
  oldest of a full queue keeps the order only because what arrives is later
  than all that wait.
* The other parts of MCScreens, in `Screens_proofs`:
  * `ViewsAreKept`, for any applications of which any number use the keyboard. The
    invariant says of each view, by the flags alone, whether it is bound to be on
    the screen or off it when its animation ends (`IsOn`, `IsOff`), and when
    the application slides for the keyboard (`Slides`).
  * `RectanglesAreExact`, for any rectangles. That the queue is the *smallest*
    rectangle needs that each of its edges is that of a rectangle merged
    before, and no edge lies outside; `intersected()` is exact by
    `IntersectedExact`.
  * `TextIsKept`, for any font, field, pointer and length. Each handler ends with
    a refresh that makes any sound line right (`Sound`, `Drawn`), so the lemmas
    are about the refresh, and a handler has only to leave a sound line. Its half
    about the on-screen keyboard (`Typed`) is for any keys, letters and delays. The
    two processes meet on the wire only, so the invariant is about the future: it
    says that there is a chain of readings, one for each key on its way, that
    begins with the line as it is and ends with the text that was chosen and the
    letter shown selected exactly while the keyboard still turns it over. A key
    pressed adds a reading at the end of the chain, a key that arrives takes the
    first one away. It needs glyphs that have a width and a field without a
    limit of its own: one that is full refuses the second tap (section 4).
  * `CaretStaysInView`, the action property: a cursor in view stays in view when it
    goes by one glyph. It is for the glyphs, fields and margins that satisfy
    `Follows`: a glyph of one to ten pixels, since the last branch of the refresh
    scrolls by ten whatever the glyph, that fits into the field, and twice into
    the field and its margin with two pixels to spare, both of which are nine
    pixels at least. The font and the field of the run satisfy it.
  * `PlacesAreKept`, from three theorems:
    * `WidgetsAreInPlace`, for any tree of layouts and leaves, hidden, removed,
      added and moved in any order, and at every step of a painting. `InPlace`
      alone is not inductive: a mark is passed to the children that a widget has
      when it is painted, so the invariant adds that a widget outside the tree is
      marked (`Detached`: `removeWidget()` must leave the mark that a later
      `addWidget()` relies on), that what is left to paint is in the tree
      (`ToPaint`), and that a tiling moves no widget but children of some widget,
      never the window (`WindowStays`).
    * `GridKeepsItsCells`, for any rows, two columns at least, and any spans. A
      spanning widget takes empty cells only, so nobody else's set of cells
      changes; the arrows are those of the last tiling, which looks at cells
      before the first one of a widget or after the last one, or in another
      column. From a widget in one cell it looks at no others than those of the
      grid (`SinglesLookInside`); a grid that was read outside of its cells has one
      over several, and nothing is said of what it does then. Rows and columns of
      a cell come from dividing its number (`AtInjective`, `CellHasPlace`).
    * `StrokesAreKept`, for any points and least distance.
  * `WidgetsAreConsistent`, for any finite tree of widgets. The invariant keeps
    that the tree is what removals and restacking left of the initial one
    (`Tree`), so each widget has a rank above that of its children; with it,
    the recursive definitions (what is below a widget, which widget takes an
    event, where the tab key goes) satisfy their own equations, which a
    function defined by recursion does only when it is well founded
    (`FixedPoint` in `SequenceLemmas`). From these, by the least counterexample:
    an event and the tab key reach only live widgets, and a removal takes
    the subtree of the removed and nothing that another widget holds.
    The focus, the exposed and the grabbing widget and their bits follow
    (`Focus`, `Exposure`, `Flagged`).
  * `TabKeyReturns` and `TabKeyGoesOn`, for any finite tree, about `selectNext` and
    `selectPrevious`, which call themselves downwards and upwards and keep no
    record of where they were. What they may still do is a set (`Ways`): leave the
    widget they are at and those that hold it, enter and leave those that come
    later. Each call leaves a smaller one to the call it makes (`WaysDown`, `WaysUp`), so
    the bound on the depth of the calls is never reached (`CallsEnd`), and with
    it follows by the least counterexample that a call ends at the first widget that
    takes keys among what it may still reach (`First`). It takes that each widget
    but the window has a live parent at any time (`Rooted`), which removals keep
    as they take a whole subtree. The first theorem has no hypothesis: the search
    forwards always returns, backwards it does unless it begins at the window and
    no child of the window holds a widget (there it goes round for ever, which
    `TabReturns` leaves out). The second is for a window with one child
    (section 4: the search never leaves the first container) and widgets that
    take keys and hold none that do, as a search on its way up takes the parent. The
    instance of the run satisfies both.

Assumptions are the named ASSUMEs of the modules: the main thread is not a
helper, the loop's thread and the main Coma caller are none of the others,
rectangles are rectangles with integer coordinates, the frame is valid, bounds
and the number of places are numbers, the value for no surface is none of them,
and the order of a sequence has each of its animations once, with a
duration; the widgets are a finite tree, given once each, only some of which
are removed, and never the root, and each but the root is held by one;
the layouts and leaves of a window are a tree, whose widgets have at first only
children that name them as parent; a grid has a row and a column, and spans are
numbers; points are pairs of numbers; no key is the one that deletes; and glyphs,
fields and lengths are numbers. TLC evaluates them on the instances. The inductive invariants were
checked by TLC on the instances of section 3 before they were proved.

Only model-checked, and why:

* All liveness (`StartedIsCalled`, `DueTimersFire`, `UpdatesHappen`, `StopEnds`,
  `UpdatesPainted`, `AnimationsEnd`, `LastFrameShown`, `HandlersReturn`,
  `EachIsServed`), and `QueuePromise` with its fairness, whose safety part is
  proved: fairness and ENABLED are out of the proof system's reach.
* `LayoutsTiled` and `StrokesMatched`: tiling and the edit distance are folds over
  sequences, and what the screen should show is a fold over the tree. What a fold
  computes for every input needs an induction the installed provers cannot
  instantiate, and a fold of the community modules cannot be unfolded by them.
  (Recursive functions can: `tiles` is written as one, which `TilesAreInner` uses.)

## 6. Not modelled

* **Selection groups and scrolling widgets** (`ButtonGroup`, `RadioGroup`, `ListBox`,
  `ComboBox`, `TabPanel`, `ScrollArea`, `ScrollBar` and others). Read and left out: the
  indices they keep are not adjusted when items are removed (a removed radio
  button stays selected, `ListBox::insertItem` leaves `_currentIndex`, `TabPanel`
  keeps the removed tab's widget), so a model would need a precondition on
  nearly every call, and what would be left restates assignments. A relaid
  `ScrollArea` moves its content while the bar keeps its value.
* **Window contents** (`graphics/Surface`): every widget shares its window's surface
  in practice. `closeWindow()` releases the surfaces of widgets while another
  thread may be painting them; that race is listed here and not modelled.
* **Multi-line text** (`TextLayout`): breaking of lines depends on font metrics, and only
  LineInput asks for a cursor in it.
* **Switcher**: an abstract base class; its thumbnails are kept by the applications.
* **Coma services**, **painting and styles**, **fonts, images and media**, **platform
  set-up**, **parsing and files**: input and output. The easing curves are
  real-valued arithmetic.
* **Applications and examples**, bindings and build systems; the keyboard application
  is modelled in part, its layouts and its Japanese helper are not.
* Within the modelled parts: window removal and restacking by SaWMan, scaling and
  input forwarding of surface views, rows of a grid with a height of their own,
  heights for widths that change with the width, drag and drop, strokes with other
  buttons of the pointer than the left one, and text in the `--enable-wstring` build.

`PROJECT.json` gives the reason for each component.

## 7. What is left

Modelling is as complete as the code allows without preconditions that the code
does not state, and every safety property of the runs is proved but the two that
speak of what a fold computes (`LayoutsTiled`, `StrokesMatched`; `OutermostTiled` too, as
it needs that a tiling done twice is a tiling done once). A next step could be
the liveness properties, with a proof system that has ENABLED.
