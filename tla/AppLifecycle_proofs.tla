-------------------------- MODULE AppLifecycle_proofs --------------------------
(***************************************************************************)
(* The application manager and the compositor, for any numbers of          *)
(* applications, processes, calls and events. A running child is missing   *)
(* from _instances only between its vfork and its entry there: what the    *)
(* signal handler erases is dead, and what a stop request erases it kills  *)
(* first. The launcher comes back because every step that leaves no        *)
(* current instance, with the launcher ready, goes on to show one;         *)
(* LauncherComes says so of the states in between.                         *)
(***************************************************************************)
EXTENDS AppLifecycle, SequenceLemmas, TLAPS

-------------------------------------------------------------------------------
(* The parts of the inductive invariant.                                   *)

(* A thread carries an instance to showInstance and to the list, and the   *)
(* application to vfork.                                                   *)
ArgTypes ==
    \A t \in Threads :
        /\ at[t] \in {"check", "swap", "list"} => arg[t] \in Pids
        /\ at[t] = "fork" => arg[t] \in Apps

(* The handler only ever hears of, and erases, processes that have ended.  *)
DeadAreGone ==
    /\ signal # <<>> => process[signal[1]] = "dead"
    /\ handler # NULL => process[handler] = "dead"

(* A window is announced once, and its instance has no view before.        *)
AddsOnce ==
    /\ \A p \in Pids : view[p] # "none" => p \in opened
    /\ \A i \in DOMAIN queue :
          queue[i][2] = "CET_Add" =>
              /\ queue[i][1] \in opened /\ view[queue[i][1]] = "none"
              /\ \A j \in DOMAIN queue :
                    queue[j][2] = "CET_Add" /\ queue[j][1] = queue[i][1] => j = i

(* With the launcher ready nothing is current only while the main loop is  *)
(* on its way to show it.                                                  *)
LauncherComes ==
    home # NULL /\ view[home] = "ready" /\ currentApp = NULL =>
        at["main"] \in {"check", "swap"}

Tables  == TypeOK /\ ArgTypes /\ DeadAreGone /\ RunningIsListed
Inv     == Tables /\ AddsOnce /\ LauncherComes

(* What the assumptions say of the derived constants.                      *)
LEMMA Parameters ==
    /\ MaxPid \in Nat /\ MaxCalls \in Nat /\ HomeApp \in Apps /\ Multiple \subseteq Apps
    /\ "main" \in Threads /\ NULL \notin Pids /\ NULL = 0
    /\ \A p \in Pids : p \in Nat \ {0}
BY BoundsAssumption, AppsAssumption DEF Threads, Pids, NULL

(* The tables before anything is started.                                  *)
LEMMA EmptyTables ==
    /\ No("unborn") \in [Pids -> {"unborn", "running", "dead"}]
    /\ No(HomeApp) \in [Pids -> Apps]
    /\ No("none") \in [Pids -> {"none", "loading", "ready", "gone"}]
    /\ No(FALSE) \in [Pids -> BOOLEAN]
    /\ \A p \in Pids : No("unborn")[p] = "unborn" /\ No("none")[p] = "none" /\ ~ No(FALSE)[p]
BY Parameters DEF No

(* The first state.                                                        *)
LEMMA InvInit == Init => Inv
<1> SUFFICES ASSUME Init PROVE Inv
  OBVIOUS
<1>1. TypeOK
  <2>1. at \in [Threads -> Steps] /\ arg \in [Threads -> Pids \cup {NULL} \cup Apps]
    BY DEF Init, Steps
  <2>2. instances \in Seq(Pids) /\ queue \in Seq(Pids \X EventTypes)
    BY DEF Init
  <2>3. /\ process \in [Pids -> {"unborn", "running", "dead"}] /\ app \in [Pids -> Apps]
        /\ view \in [Pids -> {"none", "loading", "ready", "gone"}]
        /\ shown \in [Pids -> BOOLEAN]
        /\ \A p \in Pids : shown[p] => view[p] = "ready"
    BY EmptyTables DEF Init
  <2>4. signal = <<>> /\ handler = NULL /\ deleted = {} /\ opened = {} /\ calls \in 0 .. MaxCalls
    BY Parameters DEF Init
  <2>5. {home, currentApp, previousApp, killing} \subseteq Pids \cup {NULL} /\ broken \in BOOLEAN
    BY DEF Init
  <2>6. QED
    BY <2>1, <2>2, <2>3, <2>4, <2>5 DEF TypeOK
<1>2. ArgTypes
  BY DEF Init, ArgTypes
<1>3. DeadAreGone /\ LauncherComes
  BY DEF Init, DeadAreGone, LauncherComes
<1>4. RunningIsListed
  <2>1. \A p \in Pids : process[p] # "running"
    BY EmptyTables DEF Init
  <2>2. QED
    BY <2>1 DEF RunningIsListed
<1>5. AddsOnce
  <2>1. \A p \in Pids : view[p] = "none"
    BY EmptyTables DEF Init
  <2>2. DOMAIN queue = {}
    BY DEF Init
  <2>3. QED
    BY <2>1, <2>2 DEF AddsOnce
<1>6. QED
  BY <1>1, <1>2, <1>3, <1>4, <1>5 DEF Inv, Tables

(* Using what has been deleted leads to the state that ends the model.     *)
LEMMA InvBreak == Break => Inv' /\ broken'
<1> SUFFICES ASSUME Break PROVE Inv' /\ broken'
  OBVIOUS
<1>1. TypeOK'
  <2>1. at' \in [Threads -> Steps] /\ arg' \in [Threads -> Pids \cup {NULL} \cup Apps]
    BY DEF Break, Steps
  <2>2. instances' \in Seq(Pids) /\ queue' \in Seq(Pids \X EventTypes)
    BY DEF Break
  <2>3. /\ process' \in [Pids -> {"unborn", "running", "dead"}] /\ app' \in [Pids -> Apps]
        /\ view' \in [Pids -> {"none", "loading", "ready", "gone"}]
        /\ shown' \in [Pids -> BOOLEAN]
        /\ \A p \in Pids : shown'[p] => view'[p] = "ready"
    BY EmptyTables DEF Break
  <2>4. signal' = <<>> /\ handler' = NULL /\ deleted' = {} /\ opened' = {} /\ calls' \in 0 .. MaxCalls
    BY Parameters DEF Break
  <2>5. {home', currentApp', previousApp', killing'} \subseteq Pids \cup {NULL} /\ broken' \in BOOLEAN
    BY DEF Break
  <2>6. QED
    BY <2>1, <2>2, <2>3, <2>4, <2>5 DEF TypeOK
<1>2. ArgTypes'
  BY DEF Break, ArgTypes
<1>3. DeadAreGone' /\ LauncherComes'
  BY DEF Break, DeadAreGone, LauncherComes
<1>4. RunningIsListed'
  <2>1. \A p \in Pids : process'[p] # "running"
    BY EmptyTables DEF Break
  <2>2. QED
    BY <2>1 DEF RunningIsListed
<1>5. AddsOnce'
  <2>1. \A p \in Pids : view'[p] = "none"
    BY EmptyTables DEF Break
  <2>2. DOMAIN queue' = {}
    BY DEF Break
  <2>3. QED
    BY <2>1, <2>2 DEF AddsOnce
<1>6. QED
  BY <1>1, <1>2, <1>3, <1>4, <1>5 DEF Inv, Tables, Break

-------------------------------------------------------------------------------
(* Where a thread goes.                                                    *)

MayGo(step, a) ==
    /\ step \in Steps /\ a \in Pids \cup {NULL} \cup Apps
    /\ step \in {"check", "swap", "list"} => a \in Pids
    /\ step = "fork" => a \in Apps

(* A thread goes on to its next step.                                      *)
LEMMA GotoTypes ==
    ASSUME TypeOK, ArgTypes, NEW t \in Threads, NEW step, NEW a, MayGo(step, a), Goto(t, step, a)
    PROVE  /\ at' \in [Threads -> Steps] /\ arg' \in [Threads -> Pids \cup {NULL} \cup Apps]
           /\ ArgTypes'
           /\ at'[t] = step /\ arg'[t] = a
           /\ \A u \in Threads \ {t} : at'[u] = at[u] /\ arg'[u] = arg[u]
<1>1. at \in [Threads -> Steps] /\ arg \in [Threads -> Pids \cup {NULL} \cup Apps]
  BY DEF TypeOK
<1>2. at' \in [Threads -> Steps] /\ arg' \in [Threads -> Pids \cup {NULL} \cup Apps]
  BY <1>1 DEF Goto, MayGo
<1>3. /\ at'[t] = step /\ arg'[t] = a
      /\ \A u \in Threads \ {t} : at'[u] = at[u] /\ arg'[u] = arg[u]
  BY <1>1 DEF Goto
<1>4. ArgTypes'
  BY <1>3 DEF ArgTypes, MayGo
<1>5. QED
  BY <1>2, <1>3, <1>4

(* toggleLauncher leads to the launcher, to the previous instance or       *)
(* nowhere.                                                                *)
LEMMA ToggleGoes ==
    ASSUME TypeOK, NEW t \in Threads, NEW visible, toggleLauncher(t, visible, home, previousApp)
    PROVE  \E step, a : /\ MayGo(step, a) /\ Goto(t, step, a) /\ step \in {"idle", "check"}
                        /\ visible = TRUE /\ home # NULL => step = "check"
<1>1. home \in Pids \cup {NULL} /\ previousApp \in Pids \cup {NULL}
  BY DEF TypeOK
<1>2. Launcher(visible, home, previousApp) \in Pids \cup {NULL}
  BY <1>1 DEF Launcher
<1>3. CASE Launcher(visible, home, previousApp) = NULL
  <2>1. ~ (visible = TRUE /\ home # NULL)
    BY <1>3 DEF Launcher
  <2>2. MayGo("idle", NULL) /\ Goto(t, "idle", NULL)
    BY <1>3 DEF MayGo, Steps, toggleLauncher
  <2>3. QED
    BY <2>1, <2>2
<1>4. CASE Launcher(visible, home, previousApp) # NULL
  <2>1. /\ MayGo("check", Launcher(visible, home, previousApp))
        /\ Goto(t, "check", Launcher(visible, home, previousApp))
    BY <1>2, <1>4 DEF MayGo, Steps, toggleLauncher
  <2>2. QED
    BY <2>1
<1>5. QED
  BY <1>3, <1>4

(* A thread that was not about to list an instance goes somewhere.         *)
LEMMA GoingKeepsListed ==
    ASSUME Tables, NEW t \in Threads, at[t] # "list", NEW step, NEW a,
           MayGo(step, a), Goto(t, step, a), UNCHANGED <<process, instances>>
    PROVE  RunningIsListed'
<1>1. \A u \in Threads \ {t} : at'[u] = at[u] /\ arg'[u] = arg[u]
  BY GotoTypes DEF Tables
<1>2. ASSUME NEW p \in Pids, process'[p] = "running", p \notin Listed'
      PROVE  \E u \in Threads : at'[u] = "list" /\ arg'[u] = p
  <2>1. PICK u \in Threads : at[u] = "list" /\ arg[u] = p
    BY <1>2 DEF Tables, RunningIsListed, Listed
  <2>2. u # t
    BY <2>1
  <2>3. QED
    BY <1>1, <2>1, <2>2
<1>3. QED
  BY <1>2 DEF RunningIsListed

(* The tables after a step that moves a thread and changes at most what is *)
(* current, what is shown and the counts.                                  *)
LEMMA GoingKeepsTables ==
    ASSUME Tables, NEW t \in Threads, at[t] # "list", NEW step, NEW a,
           MayGo(step, a), Goto(t, step, a),
           UNCHANGED <<processes, instances>>,
           deleted' \subseteq Pids, UNCHANGED opened, queue' \in Seq(Pids \X EventTypes),
           view' \in [Pids -> {"none", "loading", "ready", "gone"}],
           shown' \in [Pids -> BOOLEAN], \A p \in Pids : shown'[p] => view'[p] = "ready",
           {home', currentApp', previousApp', killing'} \subseteq Pids \cup {NULL},
           calls' \in 0 .. MaxCalls, broken' \in BOOLEAN
    PROVE  Tables'
<1>1. /\ at' \in [Threads -> Steps] /\ arg' \in [Threads -> Pids \cup {NULL} \cup Apps]
      /\ ArgTypes'
  BY GotoTypes DEF Tables
<1>2. UNCHANGED <<process, app, signal, handler, instances>>
  BY DEF processes
<1>3. TypeOK'
  BY <1>1, <1>2 DEF Tables, TypeOK
<1>4. DeadAreGone'
  BY <1>2 DEF Tables, DeadAreGone
<1>5. RunningIsListed'
  BY <1>2, GoingKeepsListed
<1>6. QED
  BY <1>1, <1>3, <1>4, <1>5 DEF Tables

(* Announcements stay unique while none is added and no view comes up.     *)
LEMMA AddsShrink ==
    ASSUME TypeOK, AddsOnce, opened \subseteq opened',
           \A p \in Pids : view'[p] # "none" <=> view[p] # "none",
           \/ UNCHANGED queue
           \/ queue # <<>> /\ queue' = Tail(queue)
           \/ \E e \in Pids \X EventTypes : e[2] # "CET_Add" /\ queue' = Append(queue, e)
    PROVE  AddsOnce'
<1>1. queue \in Seq(Pids \X EventTypes)
  BY DEF TypeOK
<1>2. \A p \in Pids : view'[p] # "none" => p \in opened'
  BY DEF AddsOnce
<1>3. CASE UNCHANGED queue
  <2>1. \A i \in DOMAIN queue : queue[i][1] \in Pids
    BY <1>1
  <2>2. QED
    BY <1>2, <1>3, <2>1 DEF AddsOnce
<1>4. CASE queue # <<>> /\ queue' = Tail(queue)
  <2>1. /\ \A i \in DOMAIN queue' : i + 1 \in DOMAIN queue /\ queue'[i] = queue[i + 1]
        /\ \A i, j \in DOMAIN queue' : j + 1 = i + 1 => j = i
    BY <1>1, <1>4
  <2>2. \A i \in DOMAIN queue : queue[i][1] \in Pids
    BY <1>1
  <2>3. ASSUME NEW i \in DOMAIN queue', queue'[i][2] = "CET_Add"
        PROVE  /\ queue'[i][1] \in opened' /\ view'[queue'[i][1]] = "none"
               /\ \A j \in DOMAIN queue' :
                     queue'[j][2] = "CET_Add" /\ queue'[j][1] = queue'[i][1] => j = i
    BY <2>1, <2>2, <2>3 DEF AddsOnce
  <2>4. QED
    BY <1>2, <2>3 DEF AddsOnce
<1>5. CASE \E e \in Pids \X EventTypes : e[2] # "CET_Add" /\ queue' = Append(queue, e)
  <2>1. \A i \in DOMAIN queue' :
           queue'[i][2] = "CET_Add" => i \in DOMAIN queue /\ queue'[i] = queue[i]
    BY <1>1, <1>5
  <2>2. \A i \in DOMAIN queue : queue[i][1] \in Pids
    BY <1>1
  <2>3. ASSUME NEW i \in DOMAIN queue', queue'[i][2] = "CET_Add"
        PROVE  /\ queue'[i][1] \in opened' /\ view'[queue'[i][1]] = "none"
               /\ \A j \in DOMAIN queue' :
                     queue'[j][2] = "CET_Add" /\ queue'[j][1] = queue'[i][1] => j = i
    BY <2>1, <2>2, <2>3 DEF AddsOnce
  <2>4. QED
    BY <1>2, <2>3 DEF AddsOnce
<1>6. QED
  BY <1>3, <1>4, <1>5

(* The launcher goes on waiting, or coming, while it stays what it is.     *)
LEMMA LauncherWaits ==
    ASSUME LauncherComes, UNCHANGED home,
           home # NULL /\ view'[home] = "ready" => view[home] = "ready",
           \/ currentApp' # NULL
           \/ /\ UNCHANGED currentApp
              /\ at["main"] \in {"check", "swap"} => at'["main"] \in {"check", "swap"}
    PROVE  LauncherComes'
BY DEF LauncherComes

(* A thread that only walks on, to the launcher if nothing is current.     *)
LEMMA WalkKeeps ==
    ASSUME Inv, NEW t \in Threads, at[t] # "list", NEW step, NEW a,
           MayGo(step, a), Goto(t, step, a),
           \/ step \in {"check", "swap"} \/ at[t] \notin {"check", "swap"}
           \/ home = NULL \/ currentApp # NULL,
           UNCHANGED <<processes, listing, opened, queue, screen, pointers, killing, broken>>,
           calls' \in 0 .. MaxCalls
    PROVE  Inv'
<1>1. /\ UNCHANGED <<process, app, signal, handler, instances, deleted, opened, queue, view, shown>>
      /\ UNCHANGED <<home, currentApp, previousApp, killing, broken>>
  BY DEF processes, listing, screen, pointers
<1>2. TypeOK
  BY DEF Inv, Tables
<1>3. Tables'
  BY <1>1, <1>2, GoingKeepsTables DEF Inv, TypeOK
<1>4. AddsOnce'
  BY <1>1, <1>2, AddsShrink DEF Inv
<1>5. LauncherComes'
  <2>1. \/ t # "main" /\ at'["main"] = at["main"]
        \/ t = "main" /\ at'["main"] = step
    BY GotoTypes, Parameters DEF Inv, Tables
  <2>2. LauncherComes
    BY DEF Inv
  <2>3. ASSUME home # NULL, view[home] = "ready", currentApp = NULL
        PROVE  at'["main"] \in {"check", "swap"}
    BY <2>1, <2>2, <2>3 DEF LauncherComes
  <2>4. QED
    BY <1>1, <2>3 DEF LauncherComes
<1>6. QED
  BY <1>3, <1>4, <1>5 DEF Inv

-------------------------------------------------------------------------------
(* showInstance and what comes after it.                                   *)

(* showInstance: the launcher is shown for an instance without a view.     *)
LEMMA ShowInstanceKeeps ==
    ASSUME Inv, NEW t \in Threads, showInstance(t)
    PROVE  Inv'
<1>1. CASE Break
  BY <1>1, InvBreak
<1>2. CASE ~ Break
  <2> DEFINE i == arg[t]
  <2>1. i \in Pids /\ at[t] = "check"
    BY DEF Inv, Tables, ArgTypes, showInstance
  <2>2. /\ UNCHANGED <<processes, listing, opened, queue, screen, pointers, killing, calls, broken>>
        /\ \/ view[i] = "none" /\ toggleLauncher(t, TRUE, home, previousApp)
           \/ i = currentApp /\ Goto(t, "idle", NULL)
           \/ Goto(t, "swap", i)
    BY <1>2 DEF showInstance
  <2>3. PICK step, a :
           /\ MayGo(step, a) /\ Goto(t, step, a)
           /\ step \in {"check", "swap"} \/ home = NULL \/ currentApp # NULL
    <3>1. MayGo("idle", NULL) /\ MayGo("swap", i)
      BY <2>1 DEF MayGo, Steps
    <3>2. CASE toggleLauncher(t, TRUE, home, previousApp)
      BY <3>2, ToggleGoes DEF Inv, Tables
    <3>3. CASE i = currentApp /\ Goto(t, "idle", NULL)
      BY <2>1, <3>1, <3>3, Parameters
    <3>4. CASE Goto(t, "swap", i)
      BY <3>1, <3>4
    <3>5. QED
      BY <2>2, <3>2, <3>3, <3>4
  <2>4. calls' \in 0 .. MaxCalls
    BY <2>2 DEF Inv, Tables, TypeOK
  <2>5. QED
    BY <2>1, <2>2, <2>3, <2>4, WalkKeeps
<1>3. QED
  BY <1>1, <1>2

(* The instance that is to be shown becomes the current one.               *)
LEMMA SwapKeeps ==
    ASSUME Inv, NEW t \in Threads, swapInstances(t)
    PROVE  Inv'
<1>1. /\ at[t] = "swap" /\ arg[t] \in Pids /\ TypeOK
      /\ currentApp' = arg[t] /\ previousApp' = currentApp /\ Goto(t, "hide", NULL)
      /\ UNCHANGED <<processes, listing, opened, queue, screen, home, killing, calls, broken>>
  BY DEF Inv, Tables, ArgTypes, swapInstances
<1>2. /\ UNCHANGED <<process, app, signal, handler, instances, deleted, opened, queue, view, shown>>
      /\ UNCHANGED <<home, killing, calls, broken>>
  BY <1>1 DEF processes, listing, screen
<1>3. MayGo("hide", NULL)
  BY DEF MayGo, Steps
<1>4. Tables'
  BY <1>1, <1>2, <1>3, GoingKeepsTables DEF Inv, TypeOK
<1>5. AddsOnce'
  BY <1>1, <1>2, AddsShrink DEF Inv
<1>6. LauncherComes'
  BY <1>1, <1>2, LauncherWaits, Parameters DEF Inv
<1>7. QED
  BY <1>4, <1>5, <1>6 DEF Inv

(* Hiding or showing one view, on the way.                                 *)
LEMMA ViewStepKeeps ==
    ASSUME Inv, NEW t \in Threads, at[t] \in {"hide", "show"}, NEW step \in {"show", "idle"},
           Goto(t, step, NULL), shown' \in [Pids -> BOOLEAN],
           \A p \in Pids : shown'[p] => view[p] = "ready",
           UNCHANGED <<processes, listing, opened, queue, view, pointers, killing, calls, broken>>
    PROVE  Inv'
<1>1. /\ UNCHANGED <<process, app, signal, handler, instances, deleted, opened, queue, view>>
      /\ UNCHANGED <<home, currentApp, previousApp, killing, calls, broken>>
  BY DEF processes, listing, pointers
<1>2. MayGo(step, NULL) /\ TypeOK
  BY DEF MayGo, Steps, Inv, Tables
<1>3. Tables'
  BY <1>1, <1>2, GoingKeepsTables DEF Inv, TypeOK
<1>4. AddsOnce'
  BY <1>1, <1>2, AddsShrink DEF Inv
<1>5. at["main"] \in {"check", "swap"} => at'["main"] \in {"check", "swap"}
  BY <1>2, GotoTypes, Parameters DEF Inv, Tables
<1>6. LauncherComes'
  BY <1>1, <1>5, LauncherWaits DEF Inv
<1>7. QED
  BY <1>3, <1>4, <1>6 DEF Inv

(* The view of the previous instance is hidden.                            *)
LEMMA HidePreviousKeeps ==
    ASSUME Inv, NEW t \in Threads, hidePrevious(t)
    PROVE  Inv'
<1>1. CASE Break
  BY <1>1, InvBreak
<1>2. CASE ~ Break
  <2>1. /\ at[t] = "hide" /\ Goto(t, "show", NULL)
        /\ UNCHANGED shown \/ hide(previousApp)
        /\ UNCHANGED <<processes, listing, opened, queue, view, pointers, killing, calls, broken>>
    BY <1>2 DEF hidePrevious
  <2>2. shown' \in [Pids -> BOOLEAN] /\ \A p \in Pids : shown'[p] => view[p] = "ready"
    BY <2>1 DEF hide, Inv, Tables, TypeOK
  <2>3. QED
    BY <2>1, <2>2, ViewStepKeeps
<1>3. QED
  BY <1>1, <1>2

(* The view of the current instance is shown.                              *)
LEMMA ShowCurrentKeeps ==
    ASSUME Inv, NEW t \in Threads, showCurrent(t)
    PROVE  Inv'
<1>1. CASE Break
  BY <1>1, InvBreak
<1>2. CASE ~ Break
  <2>1. /\ at[t] = "show" /\ Goto(t, "idle", NULL) /\ show(currentApp)
        /\ UNCHANGED <<processes, listing, opened, queue, view, pointers, killing, calls, broken>>
    BY <1>2 DEF showCurrent
  <2>2. shown' \in [Pids -> BOOLEAN] /\ \A p \in Pids : shown'[p] => view[p] = "ready"
    BY <2>1 DEF show, Inv, Tables, TypeOK
  <2>3. QED
    BY <2>1, <2>2, ViewStepKeeps
<1>3. QED
  BY <1>1, <1>2

(* A Coma call comes in.                                                   *)
LEMMA ComaKeeps ==
    ASSUME Inv, NEW t \in Threads, comaMethod(t)
    PROVE  Inv'
<1>1. /\ at[t] = "idle" /\ TypeOK
      /\ UNCHANGED <<processes, listing, opened, queue, screen, pointers, killing, broken>>
  BY DEF comaMethod, Inv, Tables
<1>2. calls' \in 0 .. MaxCalls
  BY <1>1, Parameters DEF comaMethod, TypeOK
<1>3. PICK visible \in BOOLEAN : toggleLauncher(t, visible, home, previousApp)
  BY DEF comaMethod
<1>4. PICK step, a : MayGo(step, a) /\ Goto(t, step, a)
  BY <1>1, <1>3, ToggleGoes
<1>5. QED
  BY <1>1, <1>2, <1>4, WalkKeeps

-------------------------------------------------------------------------------
(* Starting a process and listing its instance.                            *)

(* startApplication: an instance is looked for or a process made.          *)
LEMMA StartApplicationKeeps ==
    ASSUME Inv, NEW t \in Threads, NEW a \in Apps, startApplication(t, a),
           t = "main" \/ calls < MaxCalls
    PROVE  Inv'
<1>1. CASE Break
  BY <1>1, InvBreak
<1>2. CASE ~ Break
  <2>1. PICK i \in 0 .. Len(instances) :
           /\ \/ i # 0 /\ Goto(t, "check", instances[i])
              \/ Goto(t, "fork", a)
           /\ at[t] = "idle" /\ calls' = calls + (IF t = "main" THEN 0 ELSE 1)
           /\ UNCHANGED <<processes, listing, opened, queue, screen, pointers, killing, broken>>
    BY <1>2 DEF startApplication
  <2>2. calls' \in 0 .. MaxCalls
    BY <2>1, Parameters DEF Inv, Tables, TypeOK
  <2>3. MayGo("fork", a) /\ (i # 0 => MayGo("check", instances[i]))
    BY DEF MayGo, Steps, Inv, Tables, TypeOK
  <2>4. PICK step, b : MayGo(step, b) /\ Goto(t, step, b)
    BY <2>1, <2>3
  <2>5. QED
    BY <2>1, <2>2, <2>4, WalkKeeps
<1>3. QED
  BY <1>1, <1>2

(* The process is made.                                                    *)
LEMMA VforkKeeps ==
    ASSUME Inv, NEW t \in Threads, vfork(t)
    PROVE  Inv'
<1>1. /\ at[t] = "fork" /\ arg[t] \in Apps /\ TypeOK
      /\ UNCHANGED <<signal, handler, listing, opened, queue, screen, pointers, killing, calls, broken>>
  BY DEF vfork, Inv, Tables, ArgTypes
<1>2. CASE Goto(t, "idle", NULL) /\ UNCHANGED <<process, app>>
  <2>1. UNCHANGED processes /\ calls' \in 0 .. MaxCalls
    BY <1>1, <1>2 DEF processes, TypeOK
  <2>2. MayGo("idle", NULL)
    BY DEF MayGo, Steps
  <2>3. QED
    BY <1>1, <1>2, <2>1, <2>2, WalkKeeps
<1>3. ASSUME NEW p \in Pids, process[p] = "unborn",
             process' = [process EXCEPT ![p] = "running"],
             app' = [app EXCEPT ![p] = arg[t]], Goto(t, "list", p)
      PROVE  Inv'
  <2>1. /\ UNCHANGED <<signal, handler, instances, deleted, opened, queue, view, shown>>
        /\ UNCHANGED <<home, currentApp, previousApp, killing, calls, broken>>
    BY <1>1 DEF listing, screen, pointers
  <2>2. MayGo("list", p)
    BY DEF MayGo, Steps
  <2>3. /\ at' \in [Threads -> Steps] /\ arg' \in [Threads -> Pids \cup {NULL} \cup Apps]
        /\ ArgTypes' /\ at'[t] = "list" /\ arg'[t] = p
        /\ \A u \in Threads \ {t} : at'[u] = at[u] /\ arg'[u] = arg[u]
    BY <1>3, <2>2, GotoTypes DEF Inv, Tables
  <2>4. /\ process' \in [Pids -> {"unborn", "running", "dead"}] /\ app' \in [Pids -> Apps]
        /\ process'[p] = "running" /\ \A q \in Pids \ {p} : process'[q] = process[q]
    BY <1>1, <1>3 DEF TypeOK
  <2>5. TypeOK'
    BY <1>1, <2>1, <2>3, <2>4 DEF TypeOK
  <2>6. DeadAreGone'
    BY <1>1, <1>3, <2>1, <2>4 DEF Inv, Tables, DeadAreGone, TypeOK
  <2>7. RunningIsListed'
    <3>1. \A u \in Threads : at[u] = "list" => at'[u] = "list" /\ arg'[u] = arg[u]
      BY <1>1, <2>3
    <3>2. QED
      BY <2>1, <2>3, <2>4, <3>1 DEF Inv, Tables, RunningIsListed, Listed
  <2>8. AddsOnce'
    BY <1>1, <2>1, AddsShrink DEF Inv
  <2>9. at["main"] \in {"check", "swap"} => at'["main"] \in {"check", "swap"}
    BY <1>1, <2>3, Parameters
  <2>10. LauncherComes'
    BY <2>1, <2>9, LauncherWaits DEF Inv
  <2>11. QED
    BY <2>3, <2>5, <2>6, <2>7, <2>8, <2>10 DEF Inv, Tables
<1>4. QED
  BY <1>2, <1>3 DEF vfork

(* Its instance is put into _instances.                                    *)
LEMMA ListInstanceKeeps ==
    ASSUME Inv, NEW t \in Threads, listInstance(t)
    PROVE  Inv'
<1>1. /\ at[t] = "list" /\ arg[t] \in Pids /\ TypeOK
      /\ instances' = Append(instances, arg[t]) /\ Goto(t, "idle", NULL)
      /\ UNCHANGED <<processes, deleted, opened, queue, screen, pointers, killing, calls, broken>>
  BY DEF listInstance, Inv, Tables, ArgTypes
<1>2. /\ UNCHANGED <<process, app, signal, handler, deleted, opened, queue, view, shown>>
      /\ UNCHANGED <<home, currentApp, previousApp, killing, calls, broken>>
  BY <1>1 DEF processes, screen, pointers
<1>3. MayGo("idle", NULL)
  BY DEF MayGo, Steps
<1>4. /\ at' \in [Threads -> Steps] /\ arg' \in [Threads -> Pids \cup {NULL} \cup Apps]
      /\ ArgTypes' /\ at'[t] = "idle"
      /\ \A u \in Threads \ {t} : at'[u] = at[u] /\ arg'[u] = arg[u]
  BY <1>1, <1>3, GotoTypes DEF Inv, Tables
<1>5. instances' \in Seq(Pids) /\ Listed' = Listed \cup {arg[t]}
  BY <1>1, AppendedTo DEF Listed, TypeOK
<1>6. TypeOK'
  BY <1>1, <1>2, <1>4, <1>5 DEF TypeOK
<1>7. DeadAreGone'
  BY <1>2 DEF Inv, Tables, DeadAreGone
<1>8. RunningIsListed'
  BY <1>2, <1>4, <1>5 DEF Inv, Tables, RunningIsListed
<1>9. AddsOnce'
  BY <1>1, <1>2, AddsShrink DEF Inv
<1>10. at["main"] \in {"check", "swap"} => at'["main"] \in {"check", "swap"}
  BY <1>1, <1>4, Parameters
<1>11. LauncherComes'
  BY <1>2, <1>10, LauncherWaits DEF Inv
<1>12. QED
  BY <1>4, <1>6, <1>7, <1>8, <1>9, <1>11 DEF Inv, Tables

-------------------------------------------------------------------------------
(* The end of a process: the handler and stop requests.                    *)

(* An occurrence of p leaves the list; the other instances stay.           *)
LEMMA Erased ==
    ASSUME TypeOK, NEW p, erase(p)
    PROVE  instances' \in Seq(Pids) /\ Listed \ {p} \subseteq Listed'
<1>1. instances \in Seq(Pids)
  BY DEF TypeOK
<1>2. CASE UNCHANGED instances
  BY <1>1, <1>2 DEF Listed
<1>3. ASSUME NEW i \in DOMAIN instances, instances[i] = p, instances' = RemoveAt(instances, i)
      PROVE  instances' \in Seq(Pids) /\ Listed \ {p} \subseteq Listed'
  BY <1>1, <1>3, RemovedAt, RemovedKeeps DEF Listed
<1>4. QED
  BY <1>2, <1>3 DEF erase

(* A process that dies stays dead, and the others go on.                   *)
LEMMA Died ==
    ASSUME Tables, NEW p \in Pids, NEW code \in {"CLD_EXITED", "CLD_KILLED"}, Die(p, code)
    PROVE  /\ process' \in [Pids -> {"unborn", "running", "dead"}]
           /\ process'[p] # "running"
           /\ \A q \in Pids : process'[q] = "running" => process[q] = "running"
           /\ \A q \in Pids : process[q] = "dead" => process'[q] = "dead"
           /\ signal' \in {<<>>} \cup (Pids \X {"CLD_EXITED", "CLD_KILLED"})
           /\ signal' # <<>> => process'[signal'[1]] = "dead"
<1>1. /\ process \in [Pids -> {"unborn", "running", "dead"}]
      /\ signal \in {<<>>} \cup (Pids \X {"CLD_EXITED", "CLD_KILLED"})
      /\ signal # <<>> => signal[1] \in Pids /\ process[signal[1]] = "dead"
  BY DEF Tables, TypeOK, DeadAreGone
<1>2. CASE process[p] = "running"
  <2>1. /\ process' = [process EXCEPT ![p] = "dead"]
        /\ signal' = IF signal = <<>> THEN <<p, code>> ELSE signal
    BY <1>2 DEF Die, Raise
  <2>2. <<p, code>>[1] = p /\ <<p, code>> \in Pids \X {"CLD_EXITED", "CLD_KILLED"}
    OBVIOUS
  <2>3. QED
    BY <1>1, <2>1, <2>2
<1>3. CASE process[p] # "running"
  BY <1>1, <1>3 DEF Die
<1>4. QED
  BY <1>2, <1>3

(* The tables after a step that moves no thread and starts no process.     *)
LEMMA StayingKeepsTables ==
    ASSUME Tables, UNCHANGED <<at, arg>>, TypeOK', DeadAreGone',
           \A q \in Pids : process'[q] = "running" =>
               process[q] = "running" /\ (q \in Listed => q \in Listed')
    PROVE  Tables'
<1>1. ArgTypes'
  BY DEF Tables, ArgTypes
<1>2. RunningIsListed'
  BY DEF Tables, RunningIsListed
<1>3. QED
  BY <1>1, <1>2 DEF Tables

(* A process ends, by itself or by a signal.                               *)
LEMMA ProcessEndsKeeps ==
    ASSUME Inv, NEW p \in Pids, ProcessEnds(p)
    PROVE  Inv'
<1>1. PICK code \in {"CLD_EXITED", "CLD_KILLED"} : Die(p, code)
  BY DEF ProcessEnds
<1>2. /\ UNCHANGED <<app, handler, instances, deleted, opened, queue, view, shown>>
      /\ UNCHANGED <<home, currentApp, previousApp, at, arg, killing, calls, broken>>
  BY DEF ProcessEnds, listing, screen, pointers, threads
<1>3. TypeOK /\ DeadAreGone /\ Tables
  BY DEF Inv, Tables
<1>4. TypeOK'
  BY <1>1, <1>2, <1>3, Died DEF TypeOK
<1>5. DeadAreGone'
  BY <1>1, <1>2, <1>3, Died DEF DeadAreGone, TypeOK
<1>6. Tables'
  BY <1>1, <1>2, <1>3, <1>4, <1>5, Died, StayingKeepsTables DEF Listed
<1>7. AddsOnce'
  BY <1>2, <1>3, AddsShrink DEF Inv
<1>8. LauncherComes'
  BY <1>2, LauncherWaits DEF Inv
<1>9. QED
  BY <1>6, <1>7, <1>8 DEF Inv

(* The SIGCHLD handler.                                                    *)
LEMMA HandlerKeeps ==
    ASSUME Inv, sigchild_handler
    PROVE  Inv'
<1>1. CASE Break
  BY <1>1, InvBreak
<1>2. CASE ~ Break
  <2> DEFINE p == signal[1]
             e == <<p, IF signal[2] = "CLD_EXITED" THEN "CET_Quit" ELSE "CET_Crash">>
  <2>1. /\ signal # <<>> /\ signal' = <<>>
        /\ \/ UNCHANGED <<handler, queue>>
           \/ handler' = p /\ queue' = Append(queue, e)
        /\ UNCHANGED <<process, app, listing, opened, screen, pointers, threads, broken>>
    BY <1>2 DEF sigchild_handler
  <2>2. /\ UNCHANGED <<process, app, instances, deleted, opened, view, shown>>
        /\ UNCHANGED <<home, currentApp, previousApp, at, arg, killing, calls, broken>>
    BY <2>1 DEF listing, screen, pointers, threads
  <2>3. TypeOK /\ DeadAreGone /\ Tables
    BY DEF Inv, Tables
  <2>4. p \in Pids /\ process[p] = "dead"
    BY <2>1, <2>3 DEF TypeOK, DeadAreGone
  <2>5. e \in Pids \X EventTypes /\ e[2] # "CET_Add"
    BY <2>4 DEF EventTypes
  <2> HIDE DEF e, p
  <2>6. queue' \in Seq(Pids \X EventTypes) /\ handler' \in Pids \cup {NULL}
    <3>1. queue \in Seq(Pids \X EventTypes) /\ handler \in Pids \cup {NULL}
      BY <2>3 DEF TypeOK
    <3>2. Append(queue, e) \in Seq(Pids \X EventTypes)
      BY <2>5, <3>1, AppendedTo
    <3>3. QED
      BY <2>1, <2>4, <3>1, <3>2
  <2>7. TypeOK'
    BY <2>1, <2>2, <2>3, <2>6 DEF TypeOK
  <2>8. DeadAreGone'
    BY <2>1, <2>2, <2>3, <2>4 DEF DeadAreGone
  <2>9. Tables'
    BY <2>2, <2>3, <2>7, <2>8, StayingKeepsTables DEF Listed
  <2>10. AddsOnce'
    BY <2>1, <2>2, <2>3, <2>5, AddsShrink DEF Inv
  <2>11. LauncherComes'
    BY <2>2, LauncherWaits DEF Inv
  <2>12. QED
    BY <2>9, <2>10, <2>11 DEF Inv
<1>3. QED
  BY <1>1, <1>2

(* The instance the handler erases is that of a dead process.              *)
LEMMA EraseInstanceKeeps ==
    ASSUME Inv, eraseInstance
    PROVE  Inv'
<1>1. /\ erase(handler) /\ handler # NULL /\ handler' = NULL
      /\ UNCHANGED <<process, app, signal, deleted, opened, queue, view, shown>>
      /\ UNCHANGED <<home, currentApp, previousApp, at, arg, killing, calls, broken>>
  BY DEF eraseInstance, screen, pointers, threads
<1>2. TypeOK /\ DeadAreGone /\ Tables
  BY DEF Inv, Tables
<1>3. instances' \in Seq(Pids) /\ Listed \ {handler} \subseteq Listed'
  BY <1>1, <1>2, Erased
<1>4. process[handler] = "dead"
  BY <1>1, <1>2 DEF DeadAreGone
<1>5. TypeOK'
  BY <1>1, <1>2, <1>3 DEF TypeOK
<1>6. DeadAreGone'
  BY <1>1, <1>2 DEF DeadAreGone
<1>7. Tables'
  BY <1>1, <1>2, <1>3, <1>4, <1>5, <1>6, StayingKeepsTables
<1>8. AddsOnce'
  BY <1>1, <1>2, AddsShrink DEF Inv
<1>9. LauncherComes'
  BY <1>1, LauncherWaits DEF Inv
<1>10. QED
  BY <1>7, <1>8, <1>9 DEF Inv

(* stopApplication takes only what it has killed out of the list.          *)
LEMMA StopKeepsTables ==
    ASSUME Tables, NEW p \in Pids, stopApplication(p),
           UNCHANGED <<app, handler, opened, home, currentApp, previousApp>>,
           UNCHANGED <<at, arg, killing, calls, broken>>,
           queue' \in Seq(Pids \X EventTypes),
           view' \in [Pids -> {"none", "loading", "ready", "gone"}],
           shown' \in [Pids -> BOOLEAN], \A q \in Pids : shown'[q] => view'[q] = "ready"
    PROVE  Tables'
<1>1. TypeOK /\ DeadAreGone
  BY DEF Tables
<1>2. CASE p \in Listed
  <2>1. Die(p, "CLD_KILLED") /\ erase(p) /\ deleted' = deleted \cup {p}
    BY <1>2 DEF stopApplication
  <2>2. instances' \in Seq(Pids) /\ Listed \ {p} \subseteq Listed'
    BY <1>1, <2>1, Erased
  <2>3. /\ process' \in [Pids -> {"unborn", "running", "dead"}]
        /\ process'[p] # "running"
        /\ \A q \in Pids : process'[q] = "running" => process[q] = "running"
        /\ \A q \in Pids : process[q] = "dead" => process'[q] = "dead"
        /\ signal' \in {<<>>} \cup (Pids \X {"CLD_EXITED", "CLD_KILLED"})
        /\ signal' # <<>> => process'[signal'[1]] = "dead"
    BY <2>1, Died
  <2>4. deleted' \subseteq Pids
    BY <1>1, <2>1 DEF TypeOK
  <2>5. TypeOK'
    BY <1>1, <2>2, <2>3, <2>4 DEF TypeOK
  <2>6. DeadAreGone'
    BY <1>1, <2>3 DEF DeadAreGone, TypeOK
  <2>7. QED
    BY <2>2, <2>3, <2>5, <2>6, StayingKeepsTables
<1>3. CASE p \notin Listed
  <2>1. UNCHANGED <<process, signal, instances, deleted>>
    BY <1>3 DEF stopApplication, listing
  <2>2. TypeOK'
    BY <1>1, <2>1 DEF TypeOK
  <2>3. DeadAreGone'
    BY <1>1, <2>1 DEF DeadAreGone
  <2>4. QED
    BY <2>1, <2>2, <2>3, StayingKeepsTables DEF Listed
<1>4. QED
  BY <1>2, <1>3

(* A stop request of the manager thread.                                   *)
LEMMA StopRequestKeeps ==
    ASSUME Inv, NEW p \in Pids, stop_request(p)
    PROVE  Inv'
<1>1. CASE Break
  BY <1>1, InvBreak
<1>2. CASE ~ Break
  <2>1. /\ stopApplication(p)
        /\ UNCHANGED <<app, handler, opened, queue, view, shown>>
        /\ UNCHANGED <<home, currentApp, previousApp, at, arg, killing, calls, broken>>
    BY <1>2 DEF stop_request, screen, pointers, threads
  <2>2. TypeOK /\ Tables
    BY DEF Inv, Tables
  <2>3. Tables'
    BY <2>1, <2>2, StopKeepsTables DEF TypeOK
  <2>4. AddsOnce'
    BY <2>1, <2>2, AddsShrink DEF Inv
  <2>5. LauncherComes'
    BY <2>1, LauncherWaits DEF Inv
  <2>6. QED
    BY <2>3, <2>4, <2>5 DEF Inv
<1>3. QED
  BY <1>1, <1>2

-------------------------------------------------------------------------------
(* The windows and the events of the main loop.                            *)

(* The first window of a process is announced, once.                       *)
LEMMA WindowAddedKeeps ==
    ASSUME Inv, NEW p \in Pids, windowAdded(p)
    PROVE  Inv'
<1>1. CASE Break
  BY <1>1, InvBreak
<1>2. CASE ~ Break
  <2> DEFINE e == <<p, "CET_Add">>
  <2>1. /\ p \notin opened /\ opened' = opened \cup {p}
        /\ queue' = Append(queue, e) \/ UNCHANGED queue
        /\ UNCHANGED <<process, app, signal, handler, instances, deleted, view, shown>>
        /\ UNCHANGED <<home, currentApp, previousApp, at, arg, killing, calls, broken>>
    BY <1>2 DEF windowAdded, processes, listing, screen, pointers, threads
  <2>2. TypeOK /\ DeadAreGone /\ Tables /\ AddsOnce
    BY DEF Inv, Tables
  <2>3. queue \in Seq(Pids \X EventTypes) /\ opened \subseteq Pids
    BY <2>2 DEF TypeOK
  <2>4. e \in Pids \X EventTypes /\ e[1] = p /\ e[2] = "CET_Add"
    BY DEF EventTypes
  <2> HIDE DEF e
  <2>5. Append(queue, e) \in Seq(Pids \X EventTypes)
    BY <2>3, <2>4, AppendedTo
  <2>6. TypeOK'
    BY <2>1, <2>2, <2>3, <2>5 DEF TypeOK
  <2>7. DeadAreGone'
    BY <2>1, <2>2 DEF DeadAreGone
  <2>8. Tables'
    BY <2>1, <2>2, <2>6, <2>7, StayingKeepsTables DEF Listed
  <2>9. AddsOnce'
    <3>1. CASE UNCHANGED queue
      BY <2>1, <2>2, <3>1, AddsShrink
    <3>2. CASE queue' = Append(queue, e)
      <4>1. /\ view[p] = "none" /\ \A i \in DOMAIN queue : queue[i][2] = "CET_Add" => queue[i][1] # p
        BY <2>1, <2>2 DEF AddsOnce
      <4>2. /\ DOMAIN queue' = DOMAIN queue \cup {Len(queue) + 1} /\ Len(queue) + 1 \notin DOMAIN queue
            /\ queue'[Len(queue) + 1] = e /\ \A i \in DOMAIN queue : queue'[i] = queue[i]
        BY <2>3, <2>4, <3>2
      <4>3. ASSUME NEW i \in DOMAIN queue', queue'[i][2] = "CET_Add"
            PROVE  /\ queue'[i][1] \in opened' /\ view'[queue'[i][1]] = "none"
                   /\ \A j \in DOMAIN queue' :
                         queue'[j][2] = "CET_Add" /\ queue'[j][1] = queue'[i][1] => j = i
        <5>1. CASE i \in DOMAIN queue
          BY <2>1, <2>2, <2>4, <4>1, <4>2, <4>3, <5>1 DEF AddsOnce
        <5>2. CASE i = Len(queue) + 1
          BY <2>1, <2>4, <4>1, <4>2, <5>2
        <5>3. QED
          BY <4>2, <5>1, <5>2
      <4>4. QED
        BY <2>1, <2>2, <4>3 DEF AddsOnce
    <3>3. QED
      BY <2>1, <3>1, <3>2
  <2>10. LauncherComes'
    BY <2>1, LauncherWaits DEF Inv
  <2>11. QED
    BY <2>8, <2>9, <2>10 DEF Inv
<1>3. QED
  BY <1>1, <1>2

(* The first event of the queue and the rest.                              *)
LEMMA Headed ==
    ASSUME TypeOK, queue # <<>>
    PROVE  /\ Tail(queue) \in Seq(Pids \X EventTypes)
           /\ 1 \in DOMAIN queue /\ Head(queue) = queue[1]
           /\ \A i \in DOMAIN Tail(queue) :
                 i + 1 \in DOMAIN queue /\ i + 1 # 1 /\ Tail(queue)[i] = queue[i + 1]
BY DEF TypeOK

(* The window of CET_Add is the first one of its instance.                 *)
LEMMA AddWindowKeeps ==
    ASSUME Inv, NEW p \in Pids, AddWindow(p)
    PROVE  Inv'
<1>1. /\ queue # <<>> /\ Head(queue) = <<p, "CET_Add">> /\ queue' = Tail(queue)
      /\ \/ /\ view' = [view EXCEPT ![p] = "loading"]
            /\ home' = IF app[p] = HomeApp THEN p ELSE home
         \/ UNCHANGED <<view, home>>
      /\ UNCHANGED <<process, app, signal, handler, instances, deleted, opened, shown>>
      /\ UNCHANGED <<currentApp, previousApp, at, arg, killing, calls, broken>>
  BY DEF AddWindow, Event, processes, listing, threads
<1>2. TypeOK /\ DeadAreGone /\ Tables /\ AddsOnce
  BY DEF Inv, Tables
<1>3. /\ queue' \in Seq(Pids \X EventTypes) /\ 1 \in DOMAIN queue
      /\ queue[1][1] = p /\ queue[1][2] = "CET_Add"
      /\ \A i \in DOMAIN queue' :
            i + 1 \in DOMAIN queue /\ i + 1 # 1 /\ queue'[i] = queue[i + 1]
  BY <1>1, <1>2, Headed
<1>4. view[p] = "none" /\ p \in opened
  BY <1>2, <1>3 DEF AddsOnce
<1>5. /\ view' \in [Pids -> {"none", "loading", "ready", "gone"}]
      /\ \A q \in Pids \ {p} : view'[q] = view[q]
      /\ view'[p] \in {"none", "loading"}
  BY <1>1, <1>2, <1>4 DEF TypeOK
<1>6. \A q \in Pids : shown'[q] => view'[q] = "ready"
  BY <1>1, <1>2, <1>4, <1>5 DEF TypeOK
<1>7. home' \in Pids \cup {NULL}
  BY <1>1, <1>2 DEF TypeOK
<1>8. TypeOK'
  BY <1>1, <1>2, <1>3, <1>5, <1>6, <1>7 DEF TypeOK
<1>9. DeadAreGone'
  BY <1>1, <1>2 DEF DeadAreGone
<1>10. Tables'
  BY <1>1, <1>2, <1>8, <1>9, StayingKeepsTables DEF Listed
<1>11. AddsOnce'
  <2>1. \A q \in Pids : view'[q] # "none" => q \in opened'
    BY <1>1, <1>2, <1>4, <1>5 DEF AddsOnce
  <2>2. \A i, j \in DOMAIN queue' : j + 1 = i + 1 => j = i
    BY <1>3
  <2>3. \A i \in DOMAIN queue : queue[i][1] \in Pids
    BY <1>2 DEF TypeOK
  <2>4. ASSUME NEW i \in DOMAIN queue', queue'[i][2] = "CET_Add"
        PROVE  /\ queue'[i][1] \in opened' /\ view'[queue'[i][1]] = "none"
               /\ \A j \in DOMAIN queue' :
                     queue'[j][2] = "CET_Add" /\ queue'[j][1] = queue'[i][1] => j = i
    <3>1. queue[i + 1][1] # p /\ i + 1 \in DOMAIN queue /\ queue'[i] = queue[i + 1]
      BY <1>2, <1>3, <2>4 DEF AddsOnce
    <3>2. queue'[i][1] \in opened' /\ view'[queue'[i][1]] = "none"
      BY <1>1, <1>2, <1>5, <2>3, <2>4, <3>1 DEF AddsOnce
    <3>3. \A j \in DOMAIN queue' :
             queue'[j][2] = "CET_Add" /\ queue'[j][1] = queue'[i][1] => j + 1 = i + 1
      BY <1>2, <1>3, <2>4, <3>1 DEF AddsOnce
    <3>4. QED
      BY <2>2, <3>2, <3>3
  <2>5. QED
    BY <2>1, <2>4 DEF AddsOnce
<1>12. LauncherComes'
  <2>1. CASE view'[p] = "loading" /\ home' = p
    BY <2>1 DEF LauncherComes
  <2>2. CASE ~ (view'[p] = "loading" /\ home' = p)
    <3>1. home' = home
      BY <1>1, <1>2, <2>2 DEF TypeOK
    <3>2. home # NULL /\ view'[home] = "ready" => view[home] = "ready"
      BY <1>2, <1>5 DEF TypeOK
    <3>3. QED
      BY <1>1, <3>1, <3>2, LauncherWaits DEF Inv
  <2>3. QED
    BY <2>1, <2>2
<1>13. QED
  BY <1>10, <1>11, <1>12 DEF Inv

(* A view that goes does not come back, and is not shown.                  *)
LEMMA Removed ==
    ASSUME TypeOK, NEW p \in Pids, removeView(p)
    PROVE  /\ view' \in [Pids -> {"none", "loading", "ready", "gone"}]
           /\ shown' \in [Pids -> BOOLEAN] /\ \A q \in Pids : shown'[q] => view'[q] = "ready"
           /\ \A q \in Pids : view'[q] # "none" <=> view[q] # "none"
           /\ \A q \in Pids : view'[q] = "ready" => view[q] = "ready"
BY DEF TypeOK, removeView

(* CET_Quit and CET_Crash forget the current instance and show the         *)
(* launcher if nothing is current then.                                    *)
LEMMA BuryKeeps ==
    ASSUME Inv, NEW p \in Pids, NEW type, NEW always \in BOOLEAN, Bury(p, type, always)
    PROVE  Inv'
<1>1. /\ at["main"] = "idle" /\ queue # <<>> /\ queue' = Tail(queue) /\ removeView(p)
      /\ currentApp' = (IF p = currentApp THEN NULL ELSE currentApp)
      /\ deleted' = deleted \cup {p}
      /\ UNCHANGED <<process, app, signal, handler, instances, opened>>
      /\ UNCHANGED <<home, previousApp, killing, calls, broken>>
      /\ UNCHANGED processes
  BY DEF Bury, Event, MainIdle, processes
<1>2. TypeOK /\ DeadAreGone /\ Tables /\ AddsOnce
  BY DEF Inv, Tables
<1>3. /\ queue' \in Seq(Pids \X EventTypes)
      /\ view' \in [Pids -> {"none", "loading", "ready", "gone"}]
      /\ shown' \in [Pids -> BOOLEAN] /\ \A q \in Pids : shown'[q] => view'[q] = "ready"
      /\ \A q \in Pids : view'[q] # "none" <=> view[q] # "none"
      /\ \A q \in Pids : view'[q] = "ready" => view[q] = "ready"
  BY <1>1, <1>2, Headed, Removed
<1>4. /\ deleted' \subseteq Pids
      /\ {home', currentApp', previousApp', killing'} \subseteq Pids \cup {NULL}
      /\ calls' \in 0 .. MaxCalls /\ broken' \in BOOLEAN
  BY <1>1, <1>2 DEF TypeOK
<1>5. home # NULL /\ view'[home] = "ready" => view[home] = "ready"
  BY <1>2, <1>3 DEF TypeOK
<1>6. AddsOnce'
  BY <1>1, <1>2, <1>3, AddsShrink
<1>7. CASE toggleLauncher("main", TRUE, home, previousApp)
  <2>1. "main" \in Threads
    BY Parameters
  <2>2. PICK step, a : MayGo(step, a) /\ Goto("main", step, a) /\ (home # NULL => step = "check")
    BY <1>2, <1>7, <2>1, ToggleGoes
  <2>3. Tables'
    BY <1>1, <1>2, <1>3, <1>4, <2>1, <2>2, GoingKeepsTables
  <2>4. at'["main"] = step
    BY <1>2, <2>1, <2>2, GotoTypes DEF Tables
  <2>5. LauncherComes'
    BY <1>1, <2>2, <2>4 DEF LauncherComes
  <2>6. QED
    BY <1>6, <2>3, <2>5 DEF Inv
<1>8. CASE UNCHANGED <<at, arg>> /\ currentApp' # NULL
  <2>1. TypeOK'
    BY <1>1, <1>2, <1>3, <1>4, <1>8 DEF TypeOK
  <2>2. DeadAreGone'
    BY <1>1, <1>2 DEF DeadAreGone
  <2>3. Tables'
    BY <1>1, <1>2, <1>8, <2>1, <2>2, StayingKeepsTables DEF Listed
  <2>4. LauncherComes'
    BY <1>8 DEF LauncherComes
  <2>5. QED
    BY <1>6, <2>3, <2>4 DEF Inv
<1>9. QED
  BY <1>7, <1>8 DEF Bury

(* CET_Term takes the view away and leaves what is current alone.          *)
LEMMA TermKeeps ==
    ASSUME Inv, NEW p \in Pids, Term(p)
    PROVE  Inv'
<1>1. CASE Break
  BY <1>1, InvBreak
<1>2. CASE ~ Break
  <2>1. /\ queue # <<>> /\ queue' = Tail(queue) /\ removeView(p) /\ stopApplication(p)
        /\ UNCHANGED <<app, handler, opened, home, currentApp, previousApp>>
        /\ UNCHANGED <<at, arg, killing, calls, broken>>
    BY <1>2 DEF Term, Event, pointers, threads
  <2>2. TypeOK /\ Tables /\ AddsOnce
    BY DEF Inv, Tables
  <2>3. /\ queue' \in Seq(Pids \X EventTypes)
        /\ view' \in [Pids -> {"none", "loading", "ready", "gone"}]
        /\ shown' \in [Pids -> BOOLEAN] /\ \A q \in Pids : shown'[q] => view'[q] = "ready"
        /\ \A q \in Pids : view'[q] # "none" <=> view[q] # "none"
        /\ \A q \in Pids : view'[q] = "ready" => view[q] = "ready"
    BY <2>1, <2>2, Headed, Removed
  <2>4. Tables'
    BY <2>1, <2>2, <2>3, StopKeepsTables
  <2>5. AddsOnce'
    BY <2>1, <2>2, <2>3, AddsShrink
  <2>6. home # NULL /\ view'[home] = "ready" => view[home] = "ready"
    BY <2>2, <2>3 DEF TypeOK
  <2>7. LauncherComes'
    BY <2>1, <2>6, LauncherWaits DEF Inv
  <2>8. QED
    BY <2>4, <2>5, <2>7 DEF Inv
<1>3. QED
  BY <1>1, <1>2

(* The main loop takes an event of its queue.                              *)
LEMMA UserEventKeeps ==
    ASSUME Inv, handleUserEvent
    PROVE  Inv'
<1>1. CASE StaleEvent
  BY <1>1, InvBreak DEF StaleEvent
<1>2. CASE \E p \in Pids : AddWindow(p) \/ Term(p)
  BY <1>2, AddWindowKeeps, TermKeeps
<1>3. ASSUME NEW p \in Pids, Quit(p) \/ Crash(p)
      PROVE  Inv'
  BY <1>3, BuryKeeps DEF Quit, Crash
<1>4. QED
  BY <1>1, <1>2, <1>3 DEF handleUserEvent

-------------------------------------------------------------------------------
(* What the main loop does for the user.                                   *)

(* The first frame makes the view ready on the way to showing it.          *)
LEMMA MadeAvailableKeeps ==
    ASSUME Inv, NEW p \in Pids, madeAvailable(p)
    PROVE  Inv'
<1>1. CASE Break
  BY <1>1, InvBreak
<1>2. CASE ~ Break
  <2>1. /\ at["main"] = "idle" /\ view[p] = "loading" /\ view' = [view EXCEPT ![p] = "ready"]
        /\ Goto("main", "check", p)
        /\ UNCHANGED <<processes, instances, deleted, opened, queue, shown>>
        /\ UNCHANGED <<home, currentApp, previousApp, killing, calls, broken>>
    BY <1>2 DEF madeAvailable, MainIdle, listing, pointers
  <2>2. TypeOK /\ Tables /\ AddsOnce /\ "main" \in Threads
    BY Parameters DEF Inv, Tables
  <2>3. /\ view' \in [Pids -> {"none", "loading", "ready", "gone"}]
        /\ \A q \in Pids : view[q] = "ready" => view'[q] = "ready"
        /\ \A q \in Pids : view'[q] # "none" <=> view[q] # "none"
    BY <2>1, <2>2 DEF TypeOK
  <2>4. MayGo("check", p)
    BY DEF MayGo, Steps
  <2>5. \A q \in Pids : shown'[q] => view'[q] = "ready"
    BY <2>1, <2>2, <2>3 DEF TypeOK
  <2>6. Tables'
    BY <2>1, <2>2, <2>3, <2>4, <2>5, GoingKeepsTables DEF TypeOK
  <2>7. AddsOnce'
    BY <2>1, <2>2, <2>3, AddsShrink
  <2>8. at'["main"] = "check"
    BY <2>1, <2>2, <2>4, GotoTypes DEF Tables
  <2>9. QED
    BY <2>6, <2>7, <2>8 DEF Inv, LauncherComes
<1>3. QED
  BY <1>1, <1>2

(* The home key, and the pick of a thumbnail.                              *)
LEMMA UserKeeps ==
    ASSUME Inv, homeKey \/ \E p \in Pids : pickThumb(p)
    PROVE  Inv'
<1>1. CASE Break
  BY <1>1, InvBreak
<1>2. CASE ~ Break
  <2>1. /\ at["main"] = "idle"
        /\ UNCHANGED <<processes, listing, opened, queue, screen, pointers, killing, calls, broken>>
        /\ \/ toggleLauncher("main", ~ shown[home], home, previousApp)
           \/ \E p \in Pids : Goto("main", "check", p)
    BY <1>2 DEF homeKey, pickThumb, MainIdle
  <2>2. TypeOK /\ "main" \in Threads
    BY Parameters DEF Inv, Tables
  <2>3. \A p \in Pids : MayGo("check", p)
    BY DEF MayGo, Steps
  <2>4. PICK step, a : MayGo(step, a) /\ Goto("main", step, a)
    BY <2>1, <2>2, <2>3, ToggleGoes
  <2>5. calls' \in 0 .. MaxCalls
    BY <2>1, <2>2 DEF TypeOK
  <2>6. QED
    BY <2>1, <2>2, <2>4, <2>5, WalkKeeps
<1>3. QED
  BY <1>1, <1>2

(* The current application that is to be killed gives way to the launcher. *)
LEMMA KillAppKeeps ==
    ASSUME Inv, NEW p \in Pids, killApp(p)
    PROVE  Inv'
<1>1. /\ at["main"] = "idle" /\ killing' = p
      /\ \/ currentApp' = NULL /\ toggleLauncher("main", TRUE, home, previousApp)
         \/ UNCHANGED <<currentApp, at, arg>>
      /\ UNCHANGED <<process, app, signal, handler, instances, deleted, opened, queue, view, shown>>
      /\ UNCHANGED <<home, previousApp, calls, broken>>
      /\ UNCHANGED processes
  BY DEF killApp, MainIdle, processes, listing, screen
<1>2. TypeOK /\ DeadAreGone /\ Tables /\ "main" \in Threads
  BY Parameters DEF Inv, Tables
<1>3. AddsOnce'
  BY <1>1, <1>2, AddsShrink DEF Inv
<1>4. CASE currentApp' = NULL /\ toggleLauncher("main", TRUE, home, previousApp)
  <2>1. PICK step, a : MayGo(step, a) /\ Goto("main", step, a) /\ (home # NULL => step = "check")
    BY <1>2, <1>4, ToggleGoes
  <2>2. {home', currentApp', previousApp', killing'} \subseteq Pids \cup {NULL}
    BY <1>1, <1>2, <1>4 DEF TypeOK
  <2>3. Tables'
    BY <1>1, <1>2, <2>1, <2>2, GoingKeepsTables DEF TypeOK
  <2>4. at'["main"] = step
    BY <1>2, <2>1, GotoTypes DEF Tables
  <2>5. QED
    BY <1>1, <1>3, <2>1, <2>3, <2>4 DEF Inv, LauncherComes
<1>5. CASE UNCHANGED <<currentApp, at, arg>>
  <2>1. TypeOK'
    BY <1>1, <1>2, <1>5 DEF TypeOK
  <2>2. DeadAreGone'
    BY <1>1, <1>2 DEF DeadAreGone
  <2>3. Tables'
    BY <1>1, <1>2, <1>5, <2>1, <2>2, StayingKeepsTables DEF Listed
  <2>4. LauncherComes'
    BY <1>1, <1>5, LauncherWaits DEF Inv
  <2>5. QED
    BY <1>3, <2>3, <2>4 DEF Inv
<1>6. QED
  BY <1>1, <1>4, <1>5

(* A termination is posted.                                                *)
LEMMA PostTermKeeps ==
    ASSUME Inv, postTerm
    PROVE  Inv'
<1> DEFINE e == <<killing, "CET_Term">>
<1>1. /\ killing # NULL /\ killing' = NULL /\ queue' = Append(queue, e)
      /\ previousApp' = IF previousApp = killing THEN NULL ELSE previousApp
      /\ UNCHANGED <<process, app, signal, handler, instances, deleted, opened, view, shown>>
      /\ UNCHANGED <<home, currentApp, at, arg, calls, broken>>
  BY DEF postTerm, processes, listing, screen
<1>2. TypeOK /\ DeadAreGone /\ Tables
  BY DEF Inv, Tables
<1>3. e \in Pids \X EventTypes /\ e[2] # "CET_Add"
  BY <1>1, <1>2 DEF TypeOK, EventTypes
<1> HIDE DEF e
<1>4. queue' \in Seq(Pids \X EventTypes)
  BY <1>1, <1>2, <1>3, AppendedTo DEF TypeOK
<1>5. TypeOK'
  BY <1>1, <1>2, <1>4 DEF TypeOK
<1>6. DeadAreGone'
  BY <1>1, <1>2 DEF DeadAreGone
<1>7. Tables'
  BY <1>1, <1>2, <1>5, <1>6, StayingKeepsTables DEF Listed
<1>8. AddsOnce'
  BY <1>1, <1>2, <1>3, AddsShrink DEF Inv
<1>9. LauncherComes'
  BY <1>1, LauncherWaits DEF Inv
<1>10. QED
  BY <1>7, <1>8, <1>9 DEF Inv

-------------------------------------------------------------------------------
(* Every step keeps the invariant.                                         *)
LEMMA InvStep == Inv /\ [Next]_vars => Inv'
<1> SUFFICES ASSUME Inv, [Next]_vars PROVE Inv'
  OBVIOUS
<1>1. ASSUME NEW t \in Threads, Show(t) \/ Start(t) \/ comaMethod(t)
      PROVE  Inv'
  <2>1. CASE Show(t)
    BY <2>1, ShowInstanceKeeps, SwapKeeps, HidePreviousKeeps, ShowCurrentKeeps DEF Show
  <2>2. CASE startRequest(t)
    BY <2>2, StartApplicationKeeps DEF startRequest
  <2>3. CASE vfork(t) \/ listInstance(t)
    BY <2>3, VforkKeeps, ListInstanceKeeps
  <2>4. CASE comaMethod(t)
    BY <2>4, ComaKeeps
  <2>5. QED
    BY <1>1, <2>1, <2>2, <2>3, <2>4 DEF Start
<1>2. ASSUME NEW p \in Pids, ProcessEnds(p) \/ madeAvailable(p)
      PROVE  Inv'
  BY <1>2, ProcessEndsKeeps, MadeAvailableKeeps
<1>3. CASE sigchild_handler \/ eraseInstance
  BY <1>3, HandlerKeeps, EraseInstanceKeeps
<1>4. CASE Manager
  BY <1>4, WindowAddedKeeps, StopRequestKeeps DEF Manager
<1>5. CASE initStartup
  BY <1>5, Parameters, StartApplicationKeeps DEF initStartup
<1>6. CASE handleUserEvent
  BY <1>6, UserEventKeeps
<1>7. CASE User \/ postTerm
  BY <1>7, UserKeeps, KillAppKeeps, PostTermKeeps DEF User
<1>8. CASE UNCHANGED vars
  <2>1. /\ UNCHANGED <<process, app, signal, handler, instances, deleted, opened, queue, view, shown>>
        /\ UNCHANGED <<home, currentApp, previousApp, at, arg, killing, calls, broken>>
    BY <1>8 DEF vars, processes, listing, screen, pointers, threads
  <2>2. TypeOK /\ DeadAreGone /\ Tables
    BY DEF Inv, Tables
  <2>3. TypeOK'
    BY <2>1, <2>2 DEF TypeOK
  <2>4. DeadAreGone'
    BY <2>1, <2>2 DEF DeadAreGone
  <2>5. Tables'
    BY <2>1, <2>2, <2>3, <2>4, StayingKeepsTables DEF Listed
  <2>6. AddsOnce' /\ LauncherComes'
    BY <2>1, <2>2, AddsShrink, LauncherWaits DEF Inv
  <2>7. QED
    BY <2>5, <2>6 DEF Inv
<1>9. QED
  BY <1>1, <1>2, <1>3, <1>4, <1>5, <1>6, <1>7, <1>8 DEF Next

(***************************************************************************)
(* Whatever the signal handler, the manager thread, the Coma threads and   *)
(* the main loop do, in whatever order, the tables of the compositor keep  *)
(* their types and no running child is missing from _instances: what is    *)
(* erased from it has ended, or is killed first (ApplicationManager.cpp    *)
(* 495-503).                                                               *)
(***************************************************************************)
THEOREM TablesAreKept == Spec => []InstancesKept
<1>1. Inv => InstancesKept
  BY DEF Inv, Tables, InstancesKept
<1>2. QED
  BY <1>1, InvInit, InvStep, PTL DEF Spec

(***************************************************************************)
(* With the launcher ready and nothing under way some instance is current: *)
(* every step that forgets the current instance sends the main loop to     *)
(* show the launcher, and nothing but showing one takes it off that way.   *)
(***************************************************************************)
THEOREM LauncherIsBack == Spec => []LauncherReturns
<1>1. Inv => LauncherReturns
  BY DEF Inv, LauncherComes, LauncherReturns, Quiet, MainIdle
<1>2. QED
  BY <1>1, InvInit, InvStep, PTL DEF Spec
===============================================================================
