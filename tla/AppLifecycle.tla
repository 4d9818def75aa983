------------------------------ MODULE AppLifecycle -----------------------------
(***************************************************************************)
(* compositor/ApplicationManager and compositor/Compositor: application    *)
(* processes, the AppInstance made for each, and which one is on screen.   *)
(* Four parties touch an instance: the SIGCHLD handler, SaWMan's manager   *)
(* thread (windows, stop requests), the threads that serve Coma calls, and *)
(* the main loop, which alone handles the CET_* events the others post     *)
(* with a raw AppInstance pointer.                                         *)
(*                                                                         *)
(* An instance is named by the pid of its process.  A process opens one    *)
(* window and keeps it while it runs.  Animations, the looks of            *)
(* thumbnails, the on-screen keyboard and the status bar are left out.     *)
(* Using a deleted instance or view, or a NULL current instance, makes the *)
(* model stop with "broken" set.                                           *)
(***************************************************************************)
EXTENDS Integers, Sequences, SequencesExt

CONSTANTS
    Apps, HomeApp,      \* registered applications; the one flagged APP_HOME
    Multiple,           \* those flagged APP_ALLOW_MULTIPLE
    Callers,            \* threads, besides "main", that serve Coma calls
    MaxPid,             \* bound: processes ever started
    MaxCalls,           \* bound: Coma calls made
    MaxQueue            \* bound: no kill is asked for while this many events wait

ASSUME AppsAssumption == HomeApp \in Apps /\ Multiple \subseteq Apps

ASSUME CallersAssumption == "main" \notin Callers

ASSUME BoundsAssumption == {MaxPid, MaxCalls, MaxQueue} \subseteq Nat

Pids    == 1 .. MaxPid
NULL    == 0
Threads == {"main"} \cup Callers

VARIABLES
    process,        \* the child processes: "unborn", "running" or "dead"
    app,            \* AppInstance::_appInfo
    signal,         \* the pending SIGCHLD: at most one, <<>> or <<pid, code>>
    handler,        \* the instance the signal handler is about to erase
    instances,      \* ApplicationManager::_instances
    deleted,        \* instances that have been deleted
    opened,         \* processes whose window has been announced by SaWMan
    queue,          \* CET_* events in the main loop's event buffer
    view,           \* AppInstance::_view: "none", "loading", "ready" or "gone"
    shown,          \* is the view visible and not on its way out
    home, currentApp, previousApp,
    at, arg,        \* where each thread is in showInstance/startApplication
    killing,        \* the instance killApp will post CET_Term for
    calls,          \* Coma calls made so far
    broken          \* a dangling or NULL pointer has been used

processes == <<process, app, signal, handler>>
listing   == <<instances, deleted>>
screen    == <<view, shown>>
pointers  == <<home, currentApp, previousApp>>
threads   == <<at, arg, killing, calls>>
vars == <<processes, listing, opened, queue, screen, pointers, threads, broken>>

EventTypes == {"CET_Add", "CET_Quit", "CET_Term", "CET_Crash"}

Steps == {"idle", "fork", "list", "check", "swap", "hide", "show"}

TypeOK ==
    /\ process \in [Pids -> {"unborn", "running", "dead"}]
    /\ app \in [Pids -> Apps]
    /\ signal \in {<<>>} \cup (Pids \X {"CLD_EXITED", "CLD_KILLED"})
    /\ handler \in Pids \cup {NULL}
    /\ instances \in Seq(Pids) /\ deleted \subseteq Pids
    /\ opened \subseteq Pids
    /\ queue \in Seq(Pids \X EventTypes)
    /\ view \in [Pids -> {"none", "loading", "ready", "gone"}]
    /\ shown \in [Pids -> BOOLEAN]
    /\ \A p \in Pids : shown[p] => view[p] = "ready"
    /\ {home, currentApp, previousApp, killing} \subseteq Pids \cup {NULL}
    /\ at \in [Threads -> Steps]
    /\ arg \in [Threads -> Pids \cup {NULL} \cup Apps]
    /\ calls \in 0 .. MaxCalls
    /\ broken \in BOOLEAN

No(x) == [p \in Pids |-> x]

Init ==
    /\ process = No("unborn") /\ app = No(HomeApp) /\ signal = <<>> /\ handler = NULL
    /\ instances = <<>> /\ deleted = {}
    /\ opened = {} /\ queue = <<>>
    /\ view = No("none") /\ shown = No(FALSE)
    /\ home = NULL /\ currentApp = NULL /\ previousApp = NULL
    /\ at = [t \in Threads |-> "idle"] /\ arg = [t \in Threads |-> NULL]
    /\ killing = NULL /\ calls = 0
    /\ broken = FALSE

Listed   == ToSet(instances)
HasView(p) == view[p] \in {"loading", "ready"}

(* instanceByPID and instanceByAppID read every instance up to the one     *)
(* they find, at i, or all of them; i is 0 if none is found.               *)
Position(p)     == SelectInSeq(instances, LAMBDA q : q = p)
Finds(a, i)     == IF \E j \in DOMAIN instances : app[instances[j]] = a
                   THEN /\ i \in DOMAIN instances /\ app[instances[i]] = a
                        /\ \A j \in 1 .. i - 1 : app[instances[j]] # a
                   ELSE i = 0
ReadsDeleted(i) == \E j \in DOMAIN instances :
                      instances[j] \in deleted /\ (i = 0 \/ j <= i)

(* Dereferencing the view of p is not possible.                            *)
Dangling(p) == p = NULL \/ p \in deleted \/ ~HasView(p)

(* The end of the model: one state, whatever it was that broke.            *)
Break ==
    /\ process' = No("unborn") /\ app' = No(HomeApp) /\ signal' = <<>> /\ handler' = NULL
    /\ instances' = <<>> /\ deleted' = {}
    /\ opened' = {} /\ queue' = <<>>
    /\ view' = No("none") /\ shown' = No(FALSE)
    /\ home' = NULL /\ currentApp' = NULL /\ previousApp' = NULL
    /\ at' = [t \in Threads |-> "idle"] /\ arg' = [t \in Threads |-> NULL]
    /\ killing' = NULL /\ calls' = 0
    /\ broken' = TRUE

Goto(t, step, a) ==
    /\ at'  = [at EXCEPT ![t] = step]
    /\ arg' = [arg EXCEPT ![t] = a]

(* ILXCompositor::toggleLauncher: which instance showInstance is given.    *)
Launcher(visible, h, prev) == IF visible /\ h # NULL THEN h ELSE prev

toggleLauncher(t, visible, h, prev) ==
    IF Launcher(visible, h, prev) = NULL
    THEN Goto(t, "idle", NULL)
    ELSE Goto(t, "check", Launcher(visible, h, prev))

-------------------------------------------------------------------------------
(***************************************************************************)
(* ILXCompositor::showInstance, by any thread, without a lock.             *)
(* toggleSwitcher(false) comes first and focuses the current view.  An     *)
(* instance without a view shows the launcher instead.                     *)
(***************************************************************************)
showInstance(t) ==
    /\ at[t] = "check"
    /\ LET i == arg[t] IN
       IF \/ currentApp # NULL /\ Dangling(currentApp)
          \/ i \in deleted \/ view[i] = "gone"
       THEN Break
       ELSE /\ IF view[i] = "none" THEN toggleLauncher(t, TRUE, home, previousApp)
               ELSE IF i = currentApp THEN Goto(t, "idle", NULL)
               ELSE Goto(t, "swap", i)
            /\ UNCHANGED <<processes, listing, opened, queue, screen, pointers,
                           killing, calls, broken>>

swapInstances(t) ==
    /\ at[t] = "swap"
    /\ previousApp' = currentApp
    /\ currentApp' = arg[t]
    /\ Goto(t, "hide", NULL)
    /\ UNCHANGED <<processes, listing, opened, queue, screen, home, killing, calls, broken>>

(* AppView::hide and AppView::show do nothing before the first frame.      *)
hide(p) == shown' = [shown EXCEPT ![p] = FALSE]
show(p) == shown' = [shown EXCEPT ![p] = (view[p] = "ready")]

hidePrevious(t) ==
    /\ at[t] = "hide"
    /\ IF previousApp # NULL /\ Dangling(previousApp)
       THEN Break
       ELSE /\ IF previousApp = NULL THEN UNCHANGED shown ELSE hide(previousApp)
            /\ Goto(t, "show", NULL)
            /\ UNCHANGED <<processes, listing, opened, queue, view, pointers,
                           killing, calls, broken>>

showCurrent(t) ==
    /\ at[t] = "show"
    /\ IF Dangling(currentApp)
       THEN Break
       ELSE /\ show(currentApp)
            /\ Goto(t, "idle", NULL)
            /\ UNCHANGED <<processes, listing, opened, queue, view, pointers,
                           killing, calls, broken>>

(* A Coma call for ShowHome or HideHome.                                   *)
comaMethod(t) ==
    /\ t # "main" /\ at[t] = "idle"
    /\ calls < MaxCalls /\ calls' = calls + 1
    /\ \E visible \in BOOLEAN : toggleLauncher(t, visible, home, previousApp)
    /\ UNCHANGED <<processes, listing, opened, queue, screen, pointers, killing, broken>>

-------------------------------------------------------------------------------
(***************************************************************************)
(* ApplicationManager::startApplication.  The search for a running         *)
(* instance takes no lock and finds the first one listed.                  *)
(***************************************************************************)
startApplication(t, a) ==
    /\ at[t] = "idle"
    /\ \E i \in 0 .. Len(instances) :
       /\ Finds(a, i)
       /\ IF ReadsDeleted(i) THEN Break
          ELSE /\ IF i # 0 /\ a \notin Multiple /\ process[instances[i]] = "running"
                  THEN Goto(t, "check", instances[i])
                  ELSE Goto(t, "fork", a)
               /\ calls' = calls + (IF t = "main" THEN 0 ELSE 1)
               /\ UNCHANGED <<processes, listing, opened, queue, screen, pointers,
                              killing, broken>>

(* Past MaxPid processes vfork fails.                                      *)
vfork(t) ==
    /\ at[t] = "fork"
    /\ IF \A p \in Pids : process[p] # "unborn"
       THEN Goto(t, "idle", NULL) /\ UNCHANGED <<process, app>>
       ELSE \E p \in Pids :
               /\ process[p] = "unborn"
               /\ \A q \in 1 .. p - 1 : process[q] # "unborn"
               /\ process' = [process EXCEPT ![p] = "running"]
               /\ app' = [app EXCEPT ![p] = arg[t]]
               /\ Goto(t, "list", p)
    /\ UNCHANGED <<signal, handler, listing, opened, queue, screen, pointers, killing,
                   calls, broken>>

listInstance(t) ==
    /\ at[t] = "list"
    /\ instances' = Append(instances, arg[t])
    /\ Goto(t, "idle", NULL)
    /\ UNCHANGED <<processes, deleted, opened, queue, screen, pointers, killing, calls, broken>>

-------------------------------------------------------------------------------
(***************************************************************************)
(* A process ends by itself or is killed from outside.  SIGCHLD does not   *)
(* queue: one that comes while another is pending is lost.                 *)
(***************************************************************************)
Raise(p, code) == signal' = IF signal = <<>> THEN <<p, code>> ELSE signal

Die(p, code) ==
    IF process[p] = "running"
    THEN process' = [process EXCEPT ![p] = "dead"] /\ Raise(p, code)
    ELSE UNCHANGED <<process, signal>>

ProcessEnds(p) ==
    /\ process[p] = "running"
    /\ \E code \in {"CLD_EXITED", "CLD_KILLED"} : Die(p, code)
    /\ UNCHANGED <<app, handler, listing, opened, queue, screen, pointers, threads, broken>>

(* One occurrence of p leaves _instances.                                  *)
erase(p) ==
    \/ p \notin Listed /\ UNCHANGED instances
    \/ \E i \in DOMAIN instances :
          instances[i] = p /\ instances' = RemoveAt(instances, i)

(***************************************************************************)
(* sigchild_handler: an instance killed while it has a view is left alone; *)
(* otherwise processRemoved or processTerminated posts first and erases    *)
(* from the list afterwards.                                               *)
(***************************************************************************)
sigchild_handler ==
    /\ signal # <<>> /\ handler = NULL
    /\ LET p == signal[1] IN
       IF ReadsDeleted(Position(p)) THEN Break
       ELSE /\ IF p \notin Listed \/ (signal[2] = "CLD_KILLED" /\ view[p] # "none")
               THEN UNCHANGED <<handler, queue>>
               ELSE /\ handler' = p
                    /\ queue' = Append(queue, <<p, IF signal[2] = "CLD_EXITED"
                                                   THEN "CET_Quit" ELSE "CET_Crash">>)
            /\ signal' = <<>>
            /\ UNCHANGED <<process, app, listing, opened, screen, pointers, threads, broken>>

eraseInstance ==
    /\ handler # NULL
    /\ erase(handler)
    /\ handler' = NULL
    /\ UNCHANGED <<process, app, signal, deleted, opened, queue, screen, pointers,
                   threads, broken>>

stopByErasing(p) ==         \* mutant: erased and deleted, not killed
    IF p \in Listed
    THEN /\ erase(p)
         /\ deleted' = deleted \cup {p}
         /\ UNCHANGED <<process, signal>>
    ELSE UNCHANGED <<process, signal, listing>>

(* ApplicationManager::stopApplication: kills, erases and deletes.         *)
stopApplication(p) ==
    IF p \in Listed
    THEN /\ Die(p, "CLD_KILLED")
         /\ erase(p)
         /\ deleted' = deleted \cup {p}
    ELSE UNCHANGED <<process, signal, listing>>

(* stop_request, on the manager thread.                                    *)
stop_request(p) ==
    /\ p \in Listed
    /\ IF ReadsDeleted(Position(p)) THEN Break
       ELSE /\ stopApplication(p)
            /\ UNCHANGED <<app, handler, opened, queue, screen, pointers, threads, broken>>

-------------------------------------------------------------------------------
(***************************************************************************)
(* windowAdded, on the manager thread: the window of an instance that is   *)
(* not listed is passed over.                                              *)
(***************************************************************************)
windowAdded(p) ==
    /\ process[p] = "running" /\ p \notin opened
    /\ IF ReadsDeleted(Position(p)) THEN Break
       ELSE /\ opened' = opened \cup {p}
            /\ queue' = IF p \in Listed THEN Append(queue, <<p, "CET_Add">>) ELSE queue
            /\ UNCHANGED <<processes, listing, screen, pointers, threads, broken>>

-------------------------------------------------------------------------------
MainIdle == at["main"] = "idle" /\ killing = NULL

Event(p, type) == MainIdle /\ queue # <<>> /\ Head(queue) = <<p, type>>

(* ILXCompositor::handleUserEvent reads the instance whatever the event.   *)
StaleEvent ==
    /\ MainIdle /\ queue # <<>>
    /\ \/ Head(queue)[1] \in deleted
       \/ Head(queue)[2] # "CET_Add" /\ view[Head(queue)[1]] = "gone"
    /\ Break

(* The window is looked up again: that of a dead process is not found.     *)
AddWindow(p) ==
    /\ Event(p, "CET_Add") /\ p \notin deleted
    /\ queue' = Tail(queue)
    /\ IF process[p] = "running"
       THEN /\ view' = [view EXCEPT ![p] = "loading"]
            /\ home' = IF app[p] = HomeApp THEN p ELSE home
       ELSE UNCHANGED <<view, home>>
    /\ UNCHANGED <<processes, listing, opened, shown, currentApp, previousApp, threads,
                   broken>>

(* removeWidget and removeThumb delete the view and the thumbnail.         *)
removeView(p) ==
    /\ view'  = [view  EXCEPT ![p] = IF @ = "none" THEN "none" ELSE "gone"]
    /\ shown' = [shown EXCEPT ![p] = FALSE]

BuryQuietly(p, type, always) ==     \* mutant: the launcher is left to CET_Crash
    /\ Event(p, type) /\ p \notin deleted /\ view[p] # "gone"
    /\ queue' = Tail(queue)
    /\ currentApp' = IF p = currentApp THEN NULL ELSE currentApp
    /\ removeView(p)
    /\ deleted' = deleted \cup {p}
    /\ IF always THEN toggleLauncher("main", TRUE, home, previousApp)
                 ELSE UNCHANGED <<at, arg>>
    /\ UNCHANGED <<processes, instances, opened, home, previousApp, killing, calls, broken>>

(***************************************************************************)
(* CET_Quit and CET_Crash forget the current instance, delete and show the *)
(* launcher; CET_Quit does so only if nothing is current.                  *)
(***************************************************************************)
Bury(p, type, always) ==
    /\ Event(p, type) /\ p \notin deleted /\ view[p] # "gone"
    /\ queue' = Tail(queue)
    /\ currentApp' = IF p = currentApp THEN NULL ELSE currentApp
    /\ removeView(p)
    /\ deleted' = deleted \cup {p}
    /\ IF always \/ currentApp' = NULL
       THEN toggleLauncher("main", TRUE, home, previousApp)
       ELSE UNCHANGED <<at, arg>>
    /\ UNCHANGED <<processes, instances, opened, home, previousApp, killing, calls, broken>>

Quit(p)  == Bury(p, "CET_Quit", FALSE)
Crash(p) == Bury(p, "CET_Crash", TRUE)

(* CET_Term leaves _currentApp and _previousApp to killApp.                *)
Term(p) ==
    /\ Event(p, "CET_Term") /\ p \notin deleted /\ view[p] # "gone"
    /\ IF ReadsDeleted(Position(p)) THEN Break
       ELSE /\ queue' = Tail(queue)
            /\ removeView(p)
            /\ stopApplication(p)
            /\ UNCHANGED <<app, handler, opened, pointers, threads, broken>>

handleUserEvent ==
    \/ StaleEvent
    \/ \E p \in Pids : AddWindow(p) \/ Quit(p) \/ Term(p) \/ Crash(p)

-------------------------------------------------------------------------------
(***************************************************************************)
(* AppView::madeAvailable, on the first frame of the window.               *)
(***************************************************************************)
madeAvailable(p) ==
    /\ MainIdle
    /\ view[p] = "loading" /\ process[p] = "running"
    /\ IF p \in deleted THEN Break
       ELSE /\ view' = [view EXCEPT ![p] = "ready"]
            /\ Goto("main", "check", p)
            /\ UNCHANGED <<processes, listing, opened, queue, shown, pointers,
                           killing, calls, broken>>

(* A thumbnail of the switcher is picked; the launcher has none.           *)
pickThumb(p) ==
    /\ MainIdle
    /\ HasView(p) /\ app[p] # HomeApp
    /\ Goto("main", "check", p)
    /\ UNCHANGED <<processes, listing, opened, queue, screen, pointers, killing, calls, broken>>

(* The home key in windowPreEventFilter.                                   *)
homeKey ==
    /\ MainIdle
    /\ IF Dangling(home) THEN Break
       ELSE /\ toggleLauncher("main", ~shown[home], home, previousApp)
            /\ UNCHANGED <<processes, listing, opened, queue, screen, pointers, killing,
                           calls, broken>>

(***************************************************************************)
(* ILXCompositor::killApp, from a thumbnail or from handleMemoryState.     *)
(***************************************************************************)
killApp(p) ==
    /\ MainIdle /\ Len(queue) < MaxQueue
    /\ p \in Listed \/ (HasView(p) /\ app[p] # HomeApp)
    /\ killing' = p
    /\ IF p = currentApp
       THEN /\ currentApp' = NULL
            /\ toggleLauncher("main", TRUE, home, previousApp)
       ELSE UNCHANGED <<currentApp, at, arg>>
    /\ UNCHANGED <<processes, listing, opened, queue, screen, home, previousApp, calls,
                   broken>>

postTerm ==
    /\ killing # NULL /\ at["main"] = "idle"
    /\ previousApp' = IF previousApp = killing THEN NULL ELSE previousApp
    /\ queue' = Append(queue, <<killing, "CET_Term">>)
    /\ killing' = NULL
    /\ UNCHANGED <<processes, listing, opened, screen, home, currentApp, at, arg, calls, broken>>

-------------------------------------------------------------------------------
Show(t) == showInstance(t) \/ swapInstances(t) \/ hidePrevious(t) \/ showCurrent(t)

(* initStartup starts the launcher, once; Coma calls start the others.     *)
initStartup ==
    /\ killing = NULL
    /\ \A p \in Pids : process[p] = "unborn" \/ app[p] # HomeApp
    /\ startApplication("main", HomeApp)

startRequest(t) ==
    /\ t # "main"
    /\ calls < MaxCalls
    /\ \E a \in Apps \ {HomeApp} : startApplication(t, a)

Start(t) == startRequest(t) \/ vfork(t) \/ listInstance(t)

User == homeKey \/ \E p \in Pids : pickThumb(p) \/ killApp(p)

Manager == \E p \in Pids : windowAdded(p) \/ stop_request(p)

Next ==
    /\ ~broken
    /\ \/ \E t \in Threads : Show(t) \/ Start(t) \/ comaMethod(t)
       \/ \E p \in Pids : ProcessEnds(p) \/ madeAvailable(p)
       \/ sigchild_handler \/ eraseInstance
       \/ Manager
       \/ initStartup \/ handleUserEvent
       \/ User \/ postTerm

Spec == Init /\ [][Next]_vars

-------------------------------------------------------------------------------
Alive(p) == p \in Listed /\ p \notin deleted

Quiet == MainIdle /\ \A t \in Threads : at[t] = "idle"

(***************************************************************************)
(* When the current application goes, the launcher takes its place: with   *)
(* the launcher ready and no call under way, some instance is current.     *)
(***************************************************************************)
LauncherReturns ==
    broken \/ ~Quiet \/ home = NULL \/ view[home] # "ready" \/ currentApp # NULL

(***************************************************************************)
(* The compositor never loses track of a child: a running process is in    *)
(* _instances, or a thread is about to put it there, whatever the handler, *)
(* stop requests and terminations erase meanwhile.                         *)
(***************************************************************************)
RunningIsListed ==
    \A p \in Pids :
        process[p] = "running" =>
            p \in Listed \/ \E t \in Threads : at[t] = "list" /\ arg[t] = p

(* The tables of the compositor are well formed and complete.              *)
InstancesKept == TypeOK /\ RunningIsListed

(***************************************************************************)
(* The current instance is on screen once its view has had a first frame   *)
(* and no call is under way (Compositor.h:83).                             *)
(***************************************************************************)
CurrentIsShown ==
    \/ broken \/ ~Quiet
    \/ currentApp = NULL \/ ~Alive(currentApp) \/ view[currentApp] # "ready"
    \/ shown[currentApp]
===============================================================================
