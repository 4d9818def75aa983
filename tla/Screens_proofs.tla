---------------------------- MODULE Screens_proofs ----------------------------
(***************************************************************************)
(* What the parts of MCScreens keep true, for every set of threads and     *)
(* every frame, any rectangles, any tree of widgets, any applications and  *)
(* any line of text: the paint handshake of a window first, then the views *)
(* of the compositor, merged rectangles, the line of text, the widgets and *)
(* their layouts, and where the tab key goes.                              *)
(***************************************************************************)
EXTENDS MCScreens, SequenceLemmas, FiniteSetTheorems, TLAPS

-------------------------------------------------------------------------------
(***************************************************************************)
(* What the operators of types/Rectangle.cpp guarantee about the pixels    *)
(* they cover, for all rectangles.                                         *)
(***************************************************************************)

(* Membership in Pixels, coordinate by coordinate.                         *)
LEMMA PixelsMembership ==
    ASSUME NEW r \in Rectangles, NEW p
    PROVE  p \in Pixels(r) <=>
              /\ p \in Int \X Int
              /\ r.x <= p[1] /\ p[1] < Right(r)
              /\ r.y <= p[2] /\ p[2] < Bottom(r)
  BY DEF Pixels, Right, Bottom, Rectangles

(* united() returns a rectangle whose edges are the outer ones.            *)
LEMMA UnitedEdges ==
    ASSUME NEW r \in Rectangles, NEW s \in Rectangles
    PROVE  /\ united(r, s) \in Rectangles
           /\ united(r, s).x <= r.x /\ united(r, s).x <= s.x
           /\ united(r, s).y <= r.y /\ united(r, s).y <= s.y
           /\ Right(united(r, s)) >= Right(r) /\ Right(united(r, s)) >= Right(s)
           /\ Bottom(united(r, s)) >= Bottom(r) /\ Bottom(united(r, s)) >= Bottom(s)
  BY DEF united, Corners, Lesser, Greater, Right, Bottom, Rectangles

(***************************************************************************)
(* Merging two dirty regions never drops a pixel of either (what           *)
(* UpdateQueue::add relies on).                                            *)
(***************************************************************************)
THEOREM UnitedCovers ==
    ASSUME NEW r \in Rectangles, NEW s \in Rectangles
    PROVE  /\ united(r, s) \in Rectangles
           /\ Pixels(r) \cup Pixels(s) \subseteq Pixels(united(r, s))
  <1>1. united(r, s) \in Rectangles
    BY UnitedEdges
  <1>2. ASSUME NEW p \in Pixels(r) PROVE p \in Pixels(united(r, s))
    <2>1. /\ p \in Int \X Int
          /\ r.x <= p[1] /\ p[1] < Right(r) /\ r.y <= p[2] /\ p[2] < Bottom(r)
      BY PixelsMembership
    <2>2. /\ united(r, s).x <= p[1] /\ p[1] < Right(united(r, s))
          /\ united(r, s).y <= p[2] /\ p[2] < Bottom(united(r, s))
      BY <1>1, <2>1, UnitedEdges DEF Rectangles, Right, Bottom
    <2> QED BY <1>1, <2>1, <2>2, PixelsMembership
  <1>3. ASSUME NEW p \in Pixels(s) PROVE p \in Pixels(united(r, s))
    <2>1. /\ p \in Int \X Int
          /\ s.x <= p[1] /\ p[1] < Right(s) /\ s.y <= p[2] /\ p[2] < Bottom(s)
      BY PixelsMembership
    <2>2. /\ united(r, s).x <= p[1] /\ p[1] < Right(united(r, s))
          /\ united(r, s).y <= p[2] /\ p[2] < Bottom(united(r, s))
      BY <1>1, <2>1, UnitedEdges DEF Rectangles, Right, Bottom
    <2> QED BY <1>1, <2>1, <2>2, PixelsMembership
  <1> QED BY <1>1, <1>2, <1>3

(***************************************************************************)
(* intersected() is exact on pixels, although it also answers a (zero      *)
(* sized) rectangle for operands that only share an edge.                  *)
(***************************************************************************)
THEOREM IntersectedExact ==
    ASSUME NEW r \in Rectangles, NEW s \in Rectangles
    PROVE  /\ intersected(r, s) \in Rectangles
           /\ Pixels(intersected(r, s)) = Pixels(r) \cap Pixels(s)
  <1>1. intersected(r, s) \in Rectangles
    BY DEF intersected, Corners, NullRectangle, Lesser, Greater, Right, Bottom, Rectangles
  <1>2. ASSUME NEW p \in Int \X Int
        PROVE  p \in Pixels(intersected(r, s)) <=> p \in Pixels(r) /\ p \in Pixels(s)
    <2>1. p[1] \in Int /\ p[2] \in Int
      OBVIOUS
    <2> DEFINE i == intersected(r, s)
               a == p[1]
               b == p[2]
    <2>2. (i.x <= a /\ a < Right(i) /\ i.y <= b /\ b < Bottom(i)) <=>
             /\ r.x <= a /\ a < Right(r) /\ r.y <= b /\ b < Bottom(r)
             /\ s.x <= a /\ a < Right(s) /\ s.y <= b /\ b < Bottom(s)
      <3> HIDE DEF a, b
      <3>1. a \in Int /\ b \in Int
        BY <2>1 DEF a, b
      <3> QED
        BY <3>1 DEF i, intersected, intersects, Corners, NullRectangle, Lesser,
                    Greater, Right, Bottom, Rectangles
    <2> QED BY <1>1, <2>2, PixelsMembership
  <1>3. Pixels(intersected(r, s)) \subseteq Int \X Int /\ Pixels(r) \subseteq Int \X Int
    BY <1>1, PixelsMembership
  <1> QED BY <1>1, <1>2, <1>3

(* A rectangle that is not valid, and so a null one, covers nothing.       *)
THEOREM InvalidCoversNothing ==
    ASSUME NEW r \in Rectangles
    PROVE  /\ ~isValid(r) => Pixels(r) = {}
           /\ isNull(r) => Pixels(r) = {}
  <1>1. ~isValid(r) => Pixels(r) = {}
    <2> SUFFICES ASSUME NEW p \in Pixels(r) PROVE isValid(r)
      OBVIOUS
    <2>1. /\ p \in Int \X Int
          /\ r.x <= p[1] /\ p[1] < Right(r) /\ r.y <= p[2] /\ p[2] < Bottom(r)
      BY PixelsMembership
    <2> QED BY <2>1 DEF isValid, Right, Bottom, Rectangles
  <1>2. isNull(r) => ~isValid(r)
    BY DEF isNull, isValid, Right, Bottom, Rectangles
  <1> QED BY <1>1, <1>2

-------------------------------------------------------------------------------

(***************************************************************************)
(* What the two semaphores say about where the threads are.  OnePainter    *)
(* alone is not inductive: a thread may only pass the gate because an open *)
(* gate means that nobody is inside.                                       *)
(***************************************************************************)
Gate ==
    /\ paintReady = 1 => updateReady = 0
    /\ \A t \in Threads :
          /\ pc[t] \in Inside => paintReady = 0
          /\ pc[t] \in {"publish", "painting"} => updateReady = 0
          /\ pc[t] \in {"check", "poll", "take"} => updateReady = 1

IInv == TypeOK /\ OnePainter /\ Gate /\ PaintsOwnRegion /\ NoRequestLost

(* The initial queue and region are rectangles.                            *)
LEMMA NullRectangleType == NullRectangle \in Rectangles
  BY DEF NullRectangle, Rectangles

(* The invariant holds of a window as WindowWidget's constructor leaves it. *)
LEMMA InitIInv == Init => IInv
  <1> SUFFICES ASSUME Init PROVE IInv
    OBVIOUS
  <1>1. TypeOK
    <2>1. queue \in [rect: Rectangles, valid: BOOLEAN]
      BY NullRectangleType DEF Init
    <2>2. visible \in BOOLEAN /\ mapped \in BOOLEAN
      BY DEF Init
    <2>3. pc \in [Threads -> Places] /\ temp \in [Threads -> Rectangles]
      BY NullRectangleType DEF Init, Places
    <2>4. paintReady \in 0 .. 1 /\ updateReady \in 0 .. 1 /\ owed \subseteq Pixels(Frame)
      BY DEF Init
    <2>5. region \in Rectangles
      BY NullRectangleType DEF Init
    <2> QED BY <2>1, <2>2, <2>3, <2>4, <2>5 DEF TypeOK
  <1>2. OnePainter /\ Gate /\ PaintsOwnRegion /\ NoRequestLost
    BY DEF Init, OnePainter, Gate, PaintsOwnRegion, NoRequestLost, Inside
  <1> QED BY <1>1, <1>2 DEF IInv

-------------------------------------------------------------------------------
(* queueAdd keeps every pixel of both the queue and the request.           *)
LEMMA QueueAddCovers ==
    ASSUME NEW q \in [rect: Rectangles, valid: BOOLEAN], NEW r \in Rectangles
    PROVE  /\ queueAdd(q, r) \in [rect: Rectangles, valid: BOOLEAN]
           /\ queueAdd(q, r).valid
           /\ Pixels(r) \subseteq Pixels(queueAdd(q, r).rect)
           /\ q.valid => Pixels(q.rect) \subseteq Pixels(queueAdd(q, r).rect)
  BY UnitedCovers DEF queueAdd

(***************************************************************************)
(* Type correctness is preserved: the semaphores stay 0 or 1 because of    *)
(* Gate.                                                                   *)
(***************************************************************************)
LEMMA TypeStep == IInv /\ [Next]_vars => TypeOK'
  <1> SUFFICES ASSUME IInv, [Next]_vars PROVE TypeOK'
    OBVIOUS
  <1> USE DEF IInv, TypeOK, Places
  <1>1. ASSUME NEW t \in Threads, AddRequest(t) PROVE TypeOK'
    <2>1. queue' \in [rect: Rectangles, valid: BOOLEAN]
      BY <1>1, QueueAddCovers DEF AddRequest
    <2>2. owed' \subseteq Pixels(Frame)
      BY <1>1 DEF AddRequest, OnScreen
    <2> QED BY <1>1, <2>1, <2>2 DEF AddRequest, Goto, sems
  <1>2. ASSUME NEW t \in Threads, Paint(t) PROVE TypeOK'
    <2>1. CASE AcquireGate(t)
      BY <2>1 DEF AcquireGate, Goto
    <2>2. CASE PublishRegion(t)
      BY <2>2 DEF PublishRegion, Goto, Gate
    <2>3. CASE CheckVisible(t)
      BY <2>3 DEF CheckVisible, Goto, sems
    <2>4. CASE PollReady(t)
      BY <2>4 DEF PollReady, Goto, sems
    <2>5. CASE TakeReady(t)
      BY <2>5 DEF TakeReady, Goto
    <2>6. CASE FinishPaint(t)
      BY <2>6 DEF FinishPaint, Goto, Gate, Inside
    <2> QED BY <1>2, <2>1, <2>2, <2>3, <2>4, <2>5, <2>6 DEF Paint
  <1>3. ASSUME NEW t \in Threads, NEW r \in Requests, Request(t, r) PROVE TypeOK'
    BY <1>3, RectanglesAssumption DEF Request, Goto, sems
  <1>4. ASSUME NEW t \in Threads, NEW r \in Requests, ComposeRequest(t, r) PROVE TypeOK'
    <2>1. queue' \in [rect: Rectangles, valid: BOOLEAN]
      BY <1>4, QueueAddCovers, RectanglesAssumption DEF ComposeRequest
    <2>2. owed' \subseteq Pixels(Frame)
      BY <1>4 DEF ComposeRequest, OnScreen
    <2> QED BY <1>4, <2>1, <2>2 DEF ComposeRequest, sems
  <1>5. ASSUME NEW t \in {Main} \cup Painters, NEW r \in Requests, BeginRepaint(t, r)
        PROVE  TypeOK'
    <2>1. owed' \subseteq Pixels(Frame)
      BY <1>5 DEF BeginRepaint, OnScreen
    <2> QED BY <1>5, <2>1, RectanglesAssumption DEF BeginRepaint, Goto, sems
  <1>6. CASE TakeQueue
    BY <1>6, RectanglesAssumption DEF TakeQueue, Goto, sems
  <1>7. CASE ShowWindow
    BY <1>7, RectanglesAssumption DEF ShowWindow, Goto, sems
  <1>8. CASE Reveal
    BY <1>8, RectanglesAssumption DEF Reveal, Goto, sems
  <1>9. CASE Hide
    BY <1>9 DEF Hide, sems
  <1>10. CASE CloseWindow
    BY <1>10 DEF CloseWindow, sems
  <1>11. CASE UNCHANGED vars
    BY <1>11 DEF vars
  <1> QED
    BY <1>1, <1>2, <1>3, <1>4, <1>5, <1>6, <1>7, <1>8, <1>9, <1>10, <1>11 DEF Next, Ask

-------------------------------------------------------------------------------
(***************************************************************************)
(* The steps that move neither a semaphore nor a thread through the gate.  *)
(***************************************************************************)
Bystanding ==
    /\ UNCHANGED <<region, paintReady, updateReady>>
    /\ \A t \in Threads : pc'[t] \in Inside \/ pc[t] \in Inside => pc'[t] = pc[t]
    /\ \A t \in Threads : pc[t] \in Inside => temp'[t] = temp[t]

(* Every step outside the handshake leaves those inside it alone.          *)
LEMMA BystandingSteps ==
    ASSUME IInv,
           \/ \E t \in Threads : AddRequest(t)
           \/ \E t \in Threads, r \in Requests : Ask(t, r)
           \/ \E t \in {Main} \cup Painters, r \in Requests : BeginRepaint(t, r)
           \/ TakeQueue \/ ShowWindow \/ Reveal \/ Hide \/ CloseWindow
           \/ UNCHANGED vars
    PROVE  Bystanding
  <1> USE DEF IInv, TypeOK, Bystanding, Inside, Goto, sems
  <1>0. {Main} \cup Painters \subseteq Threads /\ Main \in Threads
    BY ThreadsAssumption DEF Threads
  <1>1. ASSUME NEW t \in Threads, AddRequest(t) PROVE Bystanding
    BY <1>1 DEF AddRequest
  <1>2. ASSUME NEW t \in Threads, NEW r \in Requests, Request(t, r) PROVE Bystanding
    BY <1>2 DEF Request
  <1>3. ASSUME NEW t \in Threads, NEW r \in Requests, ComposeRequest(t, r) PROVE Bystanding
    BY <1>3 DEF ComposeRequest
  <1>4. ASSUME NEW t \in Threads, NEW r \in Requests, BeginRepaint(t, r) PROVE Bystanding
    BY <1>4 DEF BeginRepaint
  <1>5. ASSUME TakeQueue PROVE Bystanding
    BY <1>0, <1>5 DEF TakeQueue
  <1>6. ASSUME ShowWindow \/ Reveal PROVE Bystanding
    BY <1>0, <1>6 DEF ShowWindow, Reveal
  <1>7. ASSUME Hide \/ CloseWindow \/ UNCHANGED vars PROVE Bystanding
    BY <1>7 DEF Hide, CloseWindow, vars
  <1> QED
    BY <1>0, <1>1, <1>2, <1>3, <1>4, <1>5, <1>6, <1>7 DEF Ask

(* Every step is one of these or a thread's step through the handshake.    *)
LEMMA StepKinds ==
    ASSUME IInv, [Next]_vars
    PROVE  Bystanding \/ \E t \in Threads : Paint(t)
  BY BystandingSteps DEF Next

(* Who is inside, what it published and what the semaphores say.           *)
LEMMA HandshakeStep ==
    IInv /\ [Next]_vars => (OnePainter /\ Gate /\ PaintsOwnRegion)'
  <1> SUFFICES ASSUME IInv, [Next]_vars PROVE (OnePainter /\ Gate /\ PaintsOwnRegion)'
    OBVIOUS
  <1> USE DEF IInv, TypeOK, OnePainter, Gate, PaintsOwnRegion, Inside
  <1>1. CASE Bystanding
    BY <1>1 DEF Bystanding
  <1>2. ASSUME NEW t \in Threads, Paint(t)
        PROVE  (OnePainter /\ Gate /\ PaintsOwnRegion)'
    <2> USE DEF Goto, sems
    <2>1. CASE AcquireGate(t)
      BY <2>1 DEF AcquireGate
    <2>2. CASE PublishRegion(t)
      BY <2>2 DEF PublishRegion
    <2>3. CASE CheckVisible(t)
      BY <2>3 DEF CheckVisible
    <2>4. CASE PollReady(t)
      BY <2>4 DEF PollReady
    <2>5. CASE TakeReady(t)
      BY <2>5 DEF TakeReady
    <2>6. CASE FinishPaint(t)
      BY <2>6 DEF FinishPaint
    <2> QED BY <1>2, <2>1, <2>2, <2>3, <2>4, <2>5, <2>6 DEF Paint
  <1> QED BY <1>1, <1>2, StepKinds

-------------------------------------------------------------------------------
(***************************************************************************)
(* A pixel owed stays owed to somebody.  The steps that matter: the merge  *)
(* into the queue, the hand-over from queue to region, and TakeReady,      *)
(* which forgives exactly the pixels of the clip.                          *)
(***************************************************************************)
Held(p) ==
    \/ queue.valid /\ p \in Pixels(queue.rect)
    \/ \E t \in Threads : pc[t] \in Pending /\ p \in Pixels(temp[t])
    \/ updateReady > 0 /\ p \in Pixels(region)

(* NoRequestLost, pixel by pixel.                                          *)
LEMMA HeldPixels == NoRequestLost <=> \A p \in owed : Held(p)
  BY DEF NoRequestLost, Held, Queued, InHand, Published

(* No step drops an owed pixel, or owes one that nobody holds.             *)
LEMMA OwedStep ==
    ASSUME IInv, [Next]_vars, TypeOK',
           NEW p \in owed'
    PROVE  Held(p)'
  <1> USE DEF IInv, TypeOK, Pending
  <1>0. /\ p \in owed => Held(p)
        /\ {Main} \cup Painters \subseteq Threads /\ Main \in Threads
        /\ p \in Pixels(Frame)
    BY HeldPixels, ThreadsAssumption DEF Threads
  <1>1. ASSUME NEW t \in Threads, AddRequest(t) PROVE Held(p)'
    <2>1. /\ queue'.valid
          /\ Pixels(temp[t]) \subseteq Pixels(queue'.rect)
          /\ queue.valid => Pixels(queue.rect) \subseteq Pixels(queue'.rect)
      BY <1>1, QueueAddCovers DEF AddRequest
    <2>2. p \in owed \/ p \in Pixels(temp[t])
      BY <1>1 DEF AddRequest, OnScreen
    <2> QED BY <1>0, <1>1, <2>1, <2>2 DEF AddRequest, Held, Goto, sems
  <1>2. ASSUME NEW t \in Threads, NEW r \in Requests, Request(t, r) PROVE Held(p)'
    BY <1>0, <1>2 DEF Request, Held, Goto, sems
  <1>3. ASSUME NEW t \in Threads, NEW r \in Requests, ComposeRequest(t, r) PROVE Held(p)'
    <2>1. /\ queue'.valid
          /\ Pixels(r) \subseteq Pixels(queue'.rect)
          /\ queue.valid => Pixels(queue.rect) \subseteq Pixels(queue'.rect)
      BY <1>3, QueueAddCovers, RectanglesAssumption DEF ComposeRequest
    <2>2. p \in owed \/ p \in Pixels(r)
      BY <1>3 DEF ComposeRequest, OnScreen
    <2> QED BY <1>0, <1>3, <2>1, <2>2 DEF ComposeRequest, Held, sems
  <1>4. ASSUME NEW t \in Threads, NEW r \in Requests, BeginRepaint(t, r) PROVE Held(p)'
    BY <1>0, <1>4 DEF BeginRepaint, Held, OnScreen, Goto, sems
  <1>5. CASE TakeQueue
    <2>1. isNull(queue.rect) => Pixels(queue.rect) = {}
      BY InvalidCoversNothing
    <2> QED BY <1>0, <1>5, <2>1 DEF TakeQueue, Held, Goto, sems
  <1>6. CASE ShowWindow \/ Reveal \/ Hide \/ CloseWindow \/ UNCHANGED vars
    BY <1>0, <1>6 DEF ShowWindow, Reveal, Hide, CloseWindow, vars, Held, Goto, sems
  <1>7. ASSUME NEW t \in Threads, Paint(t) PROVE Held(p)'
    <2>1. CASE AcquireGate(t)
      BY <1>0, <2>1 DEF AcquireGate, Held, Goto
    <2>2. CASE PublishRegion(t)
      BY <1>0, <2>2 DEF PublishRegion, Held, Goto, Gate
    <2>3. CASE CheckVisible(t) \/ PollReady(t)
      BY <1>0, <2>3 DEF CheckVisible, PollReady, Held, Goto, sems
    <2>4. CASE TakeReady(t)
      <3>1. /\ Pixels(Clip) = Pixels(Frame) \cap Pixels(region)
            /\ ~isValid(Clip) => Pixels(Clip) = {}
        BY IntersectedExact, InvalidCoversNothing, RectanglesAssumption DEF Clip
      <3>2. p \notin Pixels(region)
        BY <1>0, <2>4, <3>1 DEF TakeReady
      <3> QED BY <1>0, <2>4, <3>2 DEF TakeReady, Held, Goto
    <2>5. CASE FinishPaint(t)
      BY <1>0, <2>5 DEF FinishPaint, Held, Goto
    <2> QED BY <1>7, <2>1, <2>2, <2>3, <2>4, <2>5 DEF Paint
  <1> QED
    BY <1>0, <1>1, <1>2, <1>3, <1>4, <1>5, <1>6, <1>7 DEF Next, Ask

(* No step breaks the invariant.                                           *)
LEMMA StepIInv == IInv /\ [Next]_vars => IInv'
  <1> SUFFICES ASSUME IInv, [Next]_vars PROVE IInv'
    OBVIOUS
  <1>1. TypeOK'
    BY TypeStep
  <1>2. (OnePainter /\ Gate /\ PaintsOwnRegion)'
    BY HandshakeStep
  <1>3. \A p \in owed' : Held(p)'
    BY <1>1, OwedStep
  <1>4. NoRequestLost'
    BY <1>3 DEF NoRequestLost, Held, Queued, InHand, Published
  <1> QED BY <1>1, <1>2, <1>4 DEF IInv

(* The inductive invariant holds in every reachable state.                 *)
THEOREM Invariance == Spec => []IInv
  BY InitIInv, StepIInv, PTL DEF Spec

(* The semaphores, the queue and the threads keep their types.             *)
THEOREM TypeCorrect == Spec => []TypeOK
  <1>1. IInv => TypeOK
    BY DEF IInv
  <1> QED BY <1>1, Invariance, PTL

(* No two threads are ever between the gate and the end of a paint.        *)
THEOREM PaintersExclude == Spec => []OnePainter
  <1>1. IInv => OnePainter
    BY DEF IInv
  <1> QED BY <1>1, Invariance, PTL

(* A painter composes the region it published itself.                      *)
THEOREM RegionStable == Spec => []PaintsOwnRegion
  <1>1. IInv => PaintsOwnRegion
    BY DEF IInv
  <1> QED BY <1>1, Invariance, PTL

(* Every requested pixel is queued, in hand or published until composed.   *)
THEOREM RequestsKept == Spec => []NoRequestLost
  <1>1. IInv => NoRequestLost
    BY DEF IInv
  <1> QED BY <1>1, Invariance, PTL

-------------------------------------------------------------------------------
(***************************************************************************)
(* The gate comes back as long as the window is only ever hidden by        *)
(* closing it and only Main paints: then a window in the list is visible,  *)
(* and stays so while Main is on its way through the handshake, so paint() *)
(* never takes the early return that would strand the token.               *)
(***************************************************************************)
OnlyMainPaints ==
    /\ \A t \in Helpers : pc[t] \in {"idle", "add"}
    /\ mapped => visible
    /\ pc[Main] \in {"showAdd", "flush", "gate"} \cup Inside => visible

(* No step makes a helper paint or a mapped window invisible.             *)
LEMMA HelpersStep ==
    ASSUME ~HidesMapped, Painters = {}, IInv, OnlyMainPaints, [Next]_vars
    PROVE  OnlyMainPaints'
  <1> USE ThreadsAssumption
      DEF IInv, TypeOK, OnlyMainPaints, Threads, Inside, Goto, sems
  <1>1. ASSUME NEW t \in Threads, AddRequest(t) PROVE OnlyMainPaints'
    BY <1>1 DEF AddRequest
  <1>2. ASSUME NEW t \in Threads, NEW r \in Requests, Request(t, r) PROVE OnlyMainPaints'
    BY <1>2 DEF Request
  <1>3. ASSUME NEW t \in Threads, NEW r \in Requests, ComposeRequest(t, r)
        PROVE  OnlyMainPaints'
    BY <1>3 DEF ComposeRequest
  <1>4. ASSUME NEW r \in Requests, BeginRepaint(Main, r) PROVE OnlyMainPaints'
    BY <1>4 DEF BeginRepaint
  <1>5. CASE TakeQueue
    BY <1>5 DEF TakeQueue
  <1>6. CASE ShowWindow \/ Reveal
    BY <1>6 DEF ShowWindow, Reveal
  <1>7. CASE Hide \/ CloseWindow \/ UNCHANGED vars
    BY <1>7 DEF Hide, CloseWindow, vars
  <1>8. ASSUME NEW t \in Threads, Paint(t) PROVE OnlyMainPaints'
    <2>1. CASE AcquireGate(t) \/ PublishRegion(t)
      BY <2>1 DEF AcquireGate, PublishRegion
    <2>2. CASE CheckVisible(t) \/ PollReady(t)
      BY <2>2 DEF CheckVisible, PollReady
    <2>3. CASE TakeReady(t) \/ FinishPaint(t)
      BY <2>3 DEF TakeReady, FinishPaint
    <2> QED BY <1>8, <2>1, <2>2, <2>3 DEF Paint
  <1> QED
    BY <1>1, <1>2, <1>3, <1>4, <1>5, <1>6, <1>7, <1>8 DEF Next, Ask

(* While that holds, every step that takes the token leaves it in hand.    *)
LEMMA GateStep ==
    ASSUME IInv, OnlyMainPaints, GateKept, [Next]_vars
    PROVE  GateKept'
  <1> USE DEF IInv, TypeOK, OnlyMainPaints, GateKept, Gate
  <1>1. CASE Bystanding
    BY <1>1 DEF Bystanding
  <1>2. ASSUME NEW t \in Threads, Paint(t) PROVE GateKept'
    <2> USE DEF Goto, sems, Inside
    <2>1. CASE AcquireGate(t)
      BY <2>1 DEF AcquireGate
    <2>2. CASE PublishRegion(t)
      BY <2>2 DEF PublishRegion
    <2>3. CASE CheckVisible(t)
      BY <2>3, ThreadsAssumption DEF CheckVisible, Threads
    <2>4. CASE PollReady(t)
      BY <2>4 DEF PollReady
    <2>5. CASE TakeReady(t)
      BY <2>5 DEF TakeReady
    <2>6. CASE FinishPaint(t)
      BY <2>6 DEF FinishPaint
    <2> QED BY <1>2, <2>1, <2>2, <2>3, <2>4, <2>5, <2>6 DEF Paint
  <1> QED BY <1>1, <1>2, StepKinds

(* Under those two conditions the paint gate is never lost.                *)
THEOREM GateNeverLost ==
    ASSUME ~HidesMapped, Painters = {}
    PROVE  Spec => []GateKept
  <1> DEFINE J == IInv /\ OnlyMainPaints /\ GateKept
  <1>1. Init => J
    BY InitIInv, ThreadsAssumption DEF Init, OnlyMainPaints, GateKept, Threads, Inside
  <1>2. J /\ [Next]_vars => J'
    BY StepIInv, HelpersStep, GateStep
  <1>3. J => GateKept
    OBVIOUS
  <1> QED BY <1>1, <1>2, <1>3, PTL DEF Spec


-------------------------------------------------------------------------------
(***************************************************************************)
(* The views of the compositor.  The current application's view may only   *)
(* be on its way in, every other one that can still be seen is on its way  *)
(* out: what ends an animation does not decide, only the flags it was      *)
(* begun with.                                                             *)
(***************************************************************************)
Flags == {"showing", "hiding", "hideWhenDone"}

(* A view and the animation it is in.                                      *)
Moves(v) == v.moving => v.tween # V!Still

(* It is shown, and if it is not opaque yet it becomes so.  A slide takes  *)
(* the place of no fading, as it is refused while the view is shown.       *)
IsOn(v) ==
    /\ v.visible /\ v.flags \subseteq {"showing"}
    /\ v.moving /\ v.tween.opacity # "off" => v.tween.opacity = "full" /\ "showing" \in v.flags
    /\ v.opacity # "full" => v.moving /\ v.tween.opacity # "off"

(* It can be seen only until its animation ends.                           *)
IsOff(v) ==
    /\ "showing" \notin v.flags
    /\ v.visible => v.moving /\ "hideWhenDone" \in v.flags

(* The keyboard slides and does not fade.                                  *)
Slides(v) ==
    /\ v.opacity = "full" /\ v.tween.opacity = "off"
    /\ "hiding" \in v.flags => "hideWhenDone" \in v.flags

ViewTypes ==
    /\ view \in [V!Views -> V!View]
    /\ currentApp \in Apps /\ previousApp \in Apps \cup {None}
    /\ oskTarget \in KeyboardUsers \cup {None} /\ broughtUpFor \in KeyboardUsers \cup {None}
    /\ oskCovers \in BOOLEAN /\ showProps \in BOOLEAN /\ hideProps \in BOOLEAN

ViewsInv ==
    /\ ViewTypes
    /\ \A a \in V!Views : Moves(view[a])
    /\ \A a \in Apps : IF a = currentApp THEN IsOn(view[a]) ELSE IsOff(view[a])
    /\ Slides(view[keyboard])
    /\ V!KeyboardHasTarget

(* What shown(), hidden() and slid() make of a view.                       *)
LEMMA TweensType ==
    ASSUME NEW v \in V!View, NEW fade \in BOOLEAN, NEW p \in {"home", "lifted", v.place},
           NEW end \in {"clear", "full"}
    PROVE  /\ V!Tweens(v, fade, p, end) \in [opacity : {"off", "clear", "full"},
                                             place : {"off", "home", "lifted"}]
           /\ V!Tweens(v, fade, p, end).opacity = IF fade THEN end ELSE "off"
           /\ V!Tweens(v, fade, p, end) # V!Still =>
                 fade \/ V!Tweens(v, fade, p, end).place # "off"
<1>1. V!Towards(v, p) \in {"off", "home", "lifted"}
  BY DEF V!Towards, V!View
<1>2. QED
  BY <1>1 DEF V!Tweens, V!Still

LEMMA ShownIsOn ==
    ASSUME NEW v \in V!View, NEW fade \in BOOLEAN, NEW p \in {"home", "lifted", v.place},
           Moves(v)
    PROVE  /\ V!shown(v, fade, p) \in V!View /\ Moves(V!shown(v, fade, p))
           /\ "showing" \notin v.flags => IsOn(V!shown(v, fade, p))
           /\ Slides(v) /\ ~ fade => Slides(V!shown(v, fade, p))
<1> DEFINE t == V!Tweens(v, fade, p, "full")
           new == [v EXCEPT !.visible = TRUE, !.flags = {"showing"}, !.tween = t,
                            !.opacity = IF fade THEN "clear" ELSE "full",
                            !.moving = t # V!Still]
<1>1. V!shown(v, fade, p) = IF "showing" \in v.flags THEN v ELSE new
  BY DEF V!shown
<1>2. /\ t \in [opacity : {"off", "clear", "full"}, place : {"off", "home", "lifted"}]
      /\ t.opacity = IF fade THEN "full" ELSE "off"
  BY TweensType
<1>3. t # V!Still \/ ~ fade
  BY <1>2 DEF V!Still
<1> HIDE DEF t
<1>4. /\ new \in V!View /\ new.visible /\ new.flags = {"showing"} /\ new.tween = t
      /\ new.opacity = (IF fade THEN "clear" ELSE "full") /\ new.moving = (t # V!Still)
  BY <1>2 DEF V!View
<1> HIDE DEF new
<1>5. QED
  BY <1>1, <1>2, <1>3, <1>4 DEF Moves, IsOn, Slides

LEMMA HiddenIsOff ==
    ASSUME NEW v \in V!View, NEW fade \in BOOLEAN, NEW p \in {"home", "lifted", v.place},
           Moves(v)
    PROVE  /\ V!hidden(v, fade, p) \in V!View /\ Moves(V!hidden(v, fade, p))
           /\ "hiding" \notin v.flags => IsOff(V!hidden(v, fade, p))
           /\ "hiding" \in V!hidden(v, fade, p).flags
           /\ Slides(v) /\ ~ fade => Slides(V!hidden(v, fade, p))
<1> DEFINE t == V!Tweens(v, fade, p, "clear")
           new == [v EXCEPT !.visible = @ /\ t # V!Still, !.tween = t, !.moving = t # V!Still,
                            !.flags = {"hiding", "hideWhenDone"},
                            !.opacity = IF fade THEN "full" ELSE @]
<1>1. V!hidden(v, fade, p) = IF "hiding" \in v.flags THEN v ELSE new
  BY DEF V!hidden
<1>2. /\ t \in [opacity : {"off", "clear", "full"}, place : {"off", "home", "lifted"}]
      /\ t.opacity = IF fade THEN "clear" ELSE "off"
  BY TweensType
<1> HIDE DEF t
<1>4. /\ new \in V!View /\ (new.visible => t # V!Still)
      /\ new.flags = {"hiding", "hideWhenDone"} /\ new.tween = t
      /\ new.opacity = (IF fade THEN "full" ELSE v.opacity) /\ (new.moving <=> t # V!Still)
  BY <1>2 DEF V!View
<1> HIDE DEF new
<1>5. CASE "hiding" \in v.flags
  BY <1>1, <1>5
<1>6. CASE "hiding" \notin v.flags
  <2>1. V!hidden(v, fade, p) = new
    BY <1>1, <1>6
  <2>2. /\ Moves(new) /\ IsOff(new) /\ "hiding" \in new.flags
        /\ Slides(v) /\ ~ fade => Slides(new)
    BY <1>2, <1>4 DEF Moves, IsOff, Slides
  <2>3. QED
    BY <1>4, <2>1, <2>2
<1>7. QED
  BY <1>5, <1>6

LEMMA SlidIsOn ==
    ASSUME NEW v \in V!View, NEW p \in {"home", "lifted"}, Moves(v), IsOn(v)
    PROVE  V!slid(v, p) \in V!View /\ Moves(V!slid(v, p)) /\ IsOn(V!slid(v, p))
<1> DEFINE t == [opacity |-> "off", place |-> V!Towards(v, p)]
           new == [v EXCEPT !.tween = t, !.moving = t # V!Still]
<1>1. V!slid(v, p) = IF {"showing", "hiding"} \cap v.flags # {} THEN v ELSE new
  BY DEF V!slid
<1>2. t \in [opacity : {"off", "clear", "full"}, place : {"off", "home", "lifted"}] /\ t.opacity = "off"
  BY DEF V!Towards, V!View
<1> HIDE DEF t
<1>3. /\ new \in V!View /\ new.visible = v.visible /\ new.flags = v.flags /\ new.tween = t
      /\ new.opacity = v.opacity /\ new.moving = (t # V!Still)
  BY <1>2 DEF V!View
<1> HIDE DEF new
<1>4. QED
  BY <1>1, <1>2, <1>3 DEF Moves, IsOn

LEMMA ViewsBegin == V!Init => ViewsInv
<1> SUFFICES ASSUME V!Init PROVE ViewsInv
  OBVIOUS
<1> USE ScreenViewsAssumption DEF V!ViewsAssumption
<1>1. V!NewView \in V!View /\ V!ShownView \in V!View
  BY DEF V!NewView, V!ShownView, V!View, V!Still
<1>2. ViewTypes
  BY <1>1 DEF ViewTypes, V!Init, V!Views
<1>3. /\ Moves(V!NewView) /\ Moves(V!ShownView) /\ IsOn(V!ShownView) /\ IsOff(V!NewView)
      /\ Slides(V!NewView) /\ ~ V!NewView.visible
  BY DEF Moves, IsOn, IsOff, Slides, V!NewView, V!ShownView, V!Still
<1>4. \A a \in V!Views : view[a] = IF a = home THEN V!ShownView ELSE V!NewView
  BY DEF V!Init
<1>5. view[keyboard] = V!NewView /\ currentApp = home
  BY <1>4 DEF V!Init, V!Views
<1>6. \A a \in Apps : IF a = currentApp THEN IsOn(view[a]) ELSE IsOff(view[a])
  BY <1>3, <1>4, <1>5 DEF V!Views
<1>7. V!KeyboardHasTarget
  BY <1>3, <1>5 DEF V!KeyboardHasTarget
<1>8. QED
  BY <1>2, <1>3, <1>4, <1>5, <1>6, <1>7 DEF ViewsInv

(* A step that changes the views one by one and leaves those that are on   *)
(* and off what they are.                                                  *)
LEMMA PlaysKeepView ==
    ASSUME ViewsInv, NEW a \in V!Views, V!Plays(a)
    PROVE  ViewsInv'
<1> USE ScreenViewsAssumption DEF V!ViewsAssumption
<1> DEFINE v == view[a]
<1>1. v \in V!View /\ v.moving /\ v.tween # V!Still
  BY DEF ViewsInv, ViewTypes, Moves, V!Plays, V!tweenSlot, V!Finish
<1>2. PICK new \in V!View :
         /\ view' = [view EXCEPT ![a] = new]
         /\ Moves(new)
         /\ IsOn(v) => IsOn(new)
         /\ IsOff(v) => IsOff(new)
         /\ Slides(v) => Slides(new)
         /\ Slides(v) /\ new.visible /\ "hiding" \notin new.flags =>
               v.visible /\ "hiding" \notin v.flags
  <2>1. CASE V!tweenSlot(a)
    <3> DEFINE new == [v EXCEPT !.opacity = IF v.tween.opacity = "off" THEN @ ELSE "part",
                                !.place = IF v.tween.place = "off" THEN @ ELSE "between"]
    <3>1. view' = [view EXCEPT ![a] = new]
      BY <2>1 DEF V!tweenSlot, ViewsInv, ViewTypes
    <3>2. /\ new \in V!View /\ new.visible = v.visible /\ new.flags = v.flags
          /\ new.tween = v.tween /\ new.moving = v.moving
          /\ new.opacity = IF v.tween.opacity = "off" THEN v.opacity ELSE "part"
      BY <1>1 DEF V!View
    <3> HIDE DEF new
    <3>3. QED
      BY <1>1, <3>1, <3>2 DEF Moves, IsOn, IsOff, Slides
  <2>2. CASE V!Finish(a)
    <3> DEFINE new == [v EXCEPT
                !.opacity = IF v.tween.opacity = "off" THEN @ ELSE v.tween.opacity,
                !.place = IF v.tween.place = "off" THEN @ ELSE v.tween.place,
                !.visible = @ /\ "hideWhenDone" \notin v.flags,
                !.flags = @ \ {"showing", "hiding"},
                !.moving = FALSE]
    <3>1. view' = [view EXCEPT ![a] = new]
      BY <2>2 DEF V!Finish, ViewsInv, ViewTypes
    <3>2. /\ new \in V!View /\ new.flags = v.flags \ {"showing", "hiding"}
          /\ new.visible <=> v.visible /\ "hideWhenDone" \notin v.flags
          /\ new.tween = v.tween /\ ~ new.moving
          /\ new.opacity = IF v.tween.opacity = "off" THEN v.opacity ELSE v.tween.opacity
      BY <1>1 DEF V!View
    <3> HIDE DEF new
    <3>3. QED
      BY <1>1, <3>1, <3>2 DEF Moves, IsOn, IsOff, Slides
  <2>3. QED
    BY <2>1, <2>2 DEF V!Plays
<1>3. /\ UNCHANGED <<currentApp, previousApp, oskTarget, oskCovers, broughtUpFor,
                    showProps, hideProps>>
      /\ view' \in [V!Views -> V!View]
      /\ \A b \in V!Views : view'[b] = IF b = a THEN new ELSE view[b]
  BY <1>2 DEF V!Plays, V!tweenSlot, V!Finish, V!compositor, V!settings, ViewsInv, ViewTypes
<1>4. ViewTypes'
  BY <1>3 DEF ViewsInv, ViewTypes
<1>5. \A b \in V!Views : Moves(view'[b])
  BY <1>2, <1>3 DEF ViewsInv
<1>6. \A b \in Apps : IF b = currentApp' THEN IsOn(view'[b]) ELSE IsOff(view'[b])
  BY <1>2, <1>3 DEF ViewsInv, V!Views
<1>7. Slides(view'[keyboard]) /\ V!KeyboardHasTarget'
  BY <1>2, <1>3 DEF ViewsInv, V!Views, V!KeyboardHasTarget
<1>8. QED
  BY <1>4, <1>5, <1>6, <1>7 DEF ViewsInv

(* A view that is on is not hiding, one that is off is not showing.        *)
LEMMA SwitchKeeps ==
    ASSUME ViewsInv, NEW a \in Apps, V!showInstance(a)
    PROVE  ViewsInv'
<1> USE ScreenViewsAssumption DEF V!ViewsAssumption
<1>1. /\ a # currentApp /\ currentApp' = a /\ previousApp' = currentApp
      /\ UNCHANGED <<oskTarget, oskCovers, broughtUpFor, showProps, hideProps>>
      /\ view' = V!switched(a)
  BY DEF V!showInstance, V!settings
<1>2. /\ \A b \in V!Views : view[b] \in V!View /\ Moves(view[b])
      /\ currentApp \in Apps /\ showProps \in BOOLEAN /\ hideProps \in BOOLEAN
      /\ \A b \in Apps : IF b = currentApp THEN IsOn(view[b]) ELSE IsOff(view[b])
      /\ Slides(view[keyboard])
      /\ a \in V!Views /\ currentApp \in V!Views /\ keyboard \in V!Views
      /\ keyboard # a /\ keyboard # currentApp
  BY DEF ViewsInv, ViewTypes, V!Views
<1> DEFINE p == IF V!keyboardUp THEN "home" ELSE view[currentApp].place
<1>3. /\ view'[a] = V!shown(view[a], showProps, view[a].place)
      /\ view'[currentApp] = V!hidden(view[currentApp], hideProps, p)
      /\ view'[keyboard] = IF V!keyboardUp THEN V!hidden(view[keyboard], FALSE, "home")
                           ELSE view[keyboard]
      /\ \A b \in Apps : b # a /\ b # currentApp => view'[b] = view[b]
  BY <1>1, <1>2 DEF V!switched, V!Views
<1>4. /\ view'[a] \in V!View /\ Moves(view'[a]) /\ IsOn(view'[a])
  <2>1. "showing" \notin view[a].flags
    BY <1>1, <1>2 DEF IsOff
  <2>2. QED
    BY <1>2, <1>3, <2>1, ShownIsOn
<1>5. /\ view'[currentApp] \in V!View /\ Moves(view'[currentApp]) /\ IsOff(view'[currentApp])
  <2>1. "hiding" \notin view[currentApp].flags
    BY <1>2 DEF IsOn
  <2>2. p \in {"home", "lifted", view[currentApp].place}
    OBVIOUS
  <2> DEFINE v == view[currentApp]
  <2>3. /\ v \in V!View /\ Moves(v) /\ hideProps \in BOOLEAN /\ "hiding" \notin v.flags
        /\ p \in {"home", "lifted", v.place} /\ view'[currentApp] = V!hidden(v, hideProps, p)
    BY <1>2, <1>3, <2>1, <2>2
  <2> HIDE DEF p, v
  <2>4. QED
    BY <2>3, HiddenIsOff
<1>6. /\ view'[keyboard] \in V!View /\ Moves(view'[keyboard]) /\ Slides(view'[keyboard])
      /\ view'[keyboard].visible => "hiding" \in view'[keyboard].flags
  <2>1. CASE V!keyboardUp
    BY <1>2, <1>3, <2>1, HiddenIsOff
  <2>2. CASE ~ V!keyboardUp
    BY <1>2, <1>3, <2>2 DEF V!keyboardUp
  <2>3. QED
    BY <2>1, <2>2
<1>7. /\ \A b \in Apps : b # a /\ b # currentApp => IsOff(view'[b])
      /\ \A b \in V!Views : view'[b] \in V!View /\ Moves(view'[b])
  BY <1>2, <1>3, <1>4, <1>5, <1>6 DEF V!Views
<1>8. view' \in [V!Views -> V!View]
  BY <1>1, <1>7 DEF V!switched
<1>9. ViewTypes'
  BY <1>1, <1>8 DEF ViewsInv, ViewTypes
<1>10. V!KeyboardHasTarget'
  BY <1>6 DEF V!KeyboardHasTarget
<1>11. QED
  BY <1>1, <1>4, <1>5, <1>6, <1>7, <1>9, <1>10 DEF ViewsInv

LEMMA ShowOSKKeeps ==
    ASSUME ViewsInv, NEW a \in KeyboardUsers, NEW covered \in BOOLEAN, V!showOSK(a, covered)
    PROVE  ViewsInv'
<1> USE ScreenViewsAssumption DEF V!ViewsAssumption
<1>1. /\ oskTarget' = a /\ oskCovers' = covered
      /\ broughtUpFor' = IF a # currentApp THEN broughtUpFor ELSE a
      /\ UNCHANGED <<currentApp, previousApp, showProps, hideProps>>
  BY DEF V!showOSK, V!settings
<1>2. /\ \A b \in V!Views : view[b] \in V!View /\ Moves(view[b])
      /\ \A b \in Apps : IF b = currentApp THEN IsOn(view[b]) ELSE IsOff(view[b])
      /\ Slides(view[keyboard]) /\ view \in [V!Views -> V!View]
      /\ a \in V!Views /\ keyboard \in V!Views /\ keyboard # a /\ a \in Apps
  BY DEF ViewsInv, ViewTypes, V!Views
<1>3. CASE a # currentApp
  <2>1. view' = view
    BY <1>3 DEF V!showOSK
  <2>2. V!KeyboardHasTarget'
    BY <1>1, <1>3, <2>1 DEF ViewsInv, V!KeyboardHasTarget
  <2>3. QED
    BY <1>1, <1>3, <2>1, <2>2 DEF ViewsInv, ViewTypes
<1>4. CASE a = currentApp
  <2> DEFINE p == IF covered THEN "lifted" ELSE "home"
  <2>1. /\ view'[a] = V!slid(view[a], p)
        /\ view'[keyboard] = V!shown(view[keyboard], FALSE, "lifted")
        /\ \A b \in Apps : b # a => view'[b] = view[b]
        /\ DOMAIN view' = V!Views /\ view' = [b \in V!Views |-> view'[b]]
    BY <1>2, <1>4 DEF V!showOSK, V!Views
  <2>2. view'[a] \in V!View /\ Moves(view'[a]) /\ IsOn(view'[a])
    <3>1. p \in {"home", "lifted"}
      OBVIOUS
    <3> HIDE DEF p
    <3>2. QED
      BY <1>2, <1>4, <2>1, <3>1, SlidIsOn
  <2>3. view'[keyboard] \in V!View /\ Moves(view'[keyboard]) /\ Slides(view'[keyboard])
    BY <1>2, <2>1, ShownIsOn
  <2>4. \A b \in V!Views : view'[b] \in V!View /\ Moves(view'[b])
    BY <1>2, <2>1, <2>2, <2>3 DEF V!Views
  <2>5. ViewTypes'
    BY <1>1, <2>1, <2>4 DEF ViewsInv, ViewTypes
  <2>6. V!KeyboardHasTarget'
    BY <1>1, <1>4 DEF V!KeyboardHasTarget
  <2>7. \A b \in Apps : IF b = currentApp' THEN IsOn(view'[b]) ELSE IsOff(view'[b])
    BY <1>1, <1>2, <1>4, <2>1, <2>2
  <2>8. QED
    BY <2>3, <2>4, <2>5, <2>6, <2>7 DEF ViewsInv
<1>5. QED
  BY <1>3, <1>4

LEMMA HideOSKKeeps ==
    ASSUME ViewsInv, V!hideOSK
    PROVE  ViewsInv'
<1> USE ScreenViewsAssumption DEF V!ViewsAssumption
<1>1. /\ oskTarget' = None
      /\ UNCHANGED <<currentApp, previousApp, oskCovers, broughtUpFor, showProps, hideProps>>
  BY DEF V!hideOSK, V!settings
<1>2. /\ \A b \in V!Views : view[b] \in V!View /\ Moves(view[b])
      /\ \A b \in Apps : IF b = currentApp THEN IsOn(view[b]) ELSE IsOff(view[b])
      /\ Slides(view[keyboard]) /\ view \in [V!Views -> V!View]
      /\ currentApp \in V!Views /\ keyboard \in V!Views /\ keyboard # currentApp /\ currentApp \in Apps
  BY DEF ViewsInv, ViewTypes, V!Views
<1>3. /\ view'[currentApp] = V!slid(view[currentApp], "home")
      /\ view'[keyboard] = V!hidden(view[keyboard], FALSE, "home")
      /\ \A b \in Apps : b # currentApp => view'[b] = view[b]
      /\ DOMAIN view' = V!Views /\ view' = [b \in V!Views |-> view'[b]]
  BY <1>2 DEF V!hideOSK, V!Views
<1>4. view'[currentApp] \in V!View /\ Moves(view'[currentApp]) /\ IsOn(view'[currentApp])
  BY <1>2, <1>3, SlidIsOn
<1>5. /\ view'[keyboard] \in V!View /\ Moves(view'[keyboard]) /\ Slides(view'[keyboard])
      /\ "hiding" \in view'[keyboard].flags
  BY <1>2, <1>3, HiddenIsOff
<1>6. \A b \in V!Views : view'[b] \in V!View /\ Moves(view'[b])
  BY <1>2, <1>3, <1>4, <1>5 DEF V!Views
<1>7. ViewTypes'
  BY <1>1, <1>3, <1>6 DEF ViewsInv, ViewTypes
<1>8. V!KeyboardHasTarget'
  BY <1>5 DEF V!KeyboardHasTarget
<1>9. \A b \in Apps : IF b = currentApp' THEN IsOn(view'[b]) ELSE IsOff(view'[b])
  BY <1>1, <1>2, <1>3, <1>4
<1>10. QED
  BY <1>5, <1>6, <1>7, <1>8, <1>9 DEF ViewsInv

LEMMA ViewsStep == ViewsInv /\ [V!Next]_viewVars => ViewsInv'
<1> SUFFICES ASSUME ViewsInv, [V!Next]_viewVars PROVE ViewsInv'
  OBVIOUS
<1> USE ScreenViewsAssumption DEF V!ViewsAssumption
<1>1. CASE \E a \in Apps : V!showInstance(a)
  BY <1>1, SwitchKeeps
<1>2. CASE \E show \in BOOLEAN : V!toggleLauncher(show)
  <2>1. PICK a \in Apps \cup {None} : a # None /\ V!showInstance(a)
    BY <1>2 DEF V!toggleLauncher, ViewsInv, ViewTypes
  <2>2. QED
    BY <2>1, SwitchKeeps
<1>3. CASE \E a \in KeyboardUsers, covered \in BOOLEAN : V!showOSK(a, covered)
  BY <1>3, ShowOSKKeeps
<1>4. CASE V!hideOSK
  BY <1>4, HideOSKKeeps
<1>5. CASE V!changeSettings
  BY <1>5 DEF ViewsInv, ViewTypes, V!changeSettings, V!KeyboardHasTarget
<1>6. CASE \E a \in V!Views : V!Plays(a)
  BY <1>6, PlaysKeepView
<1>7. CASE UNCHANGED viewVars
  BY <1>7 DEF viewVars, ViewsInv, ViewTypes, V!KeyboardHasTarget
<1>8. QED
  BY <1>1, <1>2, <1>3, <1>4, <1>5, <1>6, <1>7 DEF V!Next

(***************************************************************************)
(* For any applications, any number of which use the keyboard, however the *)
(* calls interrupt the animations: what is left on the screen when they    *)
(* end is the current application, whole, and the keyboard only over the   *)
(* one that it came up for, while some application is its target.          *)
(***************************************************************************)
THEOREM ViewsAreKept == ScreensSpec => []ViewsKept
<1> DEFINE Inv == part = "views" => ViewsInv
<1>1. ScreensInit => Inv
  BY ViewsBegin DEF ScreensInit
<1>2. Inv /\ [ScreensNext]_all => Inv'
  <2> SUFFICES ASSUME Inv, [ScreensNext]_all, part' = "views" PROVE ViewsInv'
    OBVIOUS
  <2>1. part = "views" /\ [V!Next]_viewVars
    BY DEF ScreensNext, Others, all
  <2>2. QED
    BY <2>1, ViewsStep
<1>3. Inv => ViewsKept
  <2> SUFFICES ASSUME ViewsInv
               PROVE  V!TypeOK /\ V!CurrentIsOnScreen /\ V!ShownIsWhole /\ V!KeyboardHasTarget
    BY DEF ViewsKept
  <2>1. V!TypeOK
    BY DEF ViewsInv, ViewTypes, Moves, V!TypeOK
  <2>2. V!CurrentIsOnScreen
    BY DEF ViewsInv, IsOn, IsOff, V!CurrentIsOnScreen, V!AtRest
  <2>3. V!ShownIsWhole
    BY DEF ViewsInv, IsOn, IsOff, Slides, V!ShownIsWhole, V!AtRest, V!Views
  <2>4. QED
    BY <2>1, <2>2, <2>3 DEF ViewsInv
<1>4. QED
  BY <1>1, <1>2, <1>3, PTL DEF ScreensSpec

-------------------------------------------------------------------------------
(***************************************************************************)
(* Merged rectangles, of any number: the queue's edges are each that of a  *)
(* merged rectangle and outside of the same edge of all others, so they    *)
(* are the least and the largest ones.                                     *)
(***************************************************************************)
Around(q, set) ==
    /\ \E r \in set : q.x = r.x
    /\ \E r \in set : q.y = r.y
    /\ \E r \in set : Right(q) = Right(r)
    /\ \E r \in set : Bottom(q) = Bottom(r)
    /\ \A r \in set :
          q.x <= r.x /\ q.y <= r.y /\ Right(q) >= Right(r) /\ Bottom(q) >= Bottom(r)

RectanglesInv ==
    /\ merged \subseteq Given /\ queued \in Rectangles
    /\ merged # {} => Around(queued, merged)

(* The operators of the part are those proved about above.                 *)
LEMMA SameRectangles ==
    /\ R!Rectangles = Rectangles
    /\ \A r, s : R!united(r, s) = united(r, s) /\ R!intersected(r, s) = intersected(r, s)
    /\ \A r : /\ R!Right(r) = Right(r) /\ R!Bottom(r) = Bottom(r)
              /\ R!Pixels(r) = Pixels(r) /\ (R!isValid(r) <=> isValid(r))
<1>1. /\ \A a, b : R!Lesser(a, b) = Lesser(a, b) /\ R!Greater(a, b) = Greater(a, b)
      /\ \A a, b, c, d : R!Corners(a, b, c, d) = Corners(a, b, c, d)
      /\ R!NullRectangle = NullRectangle
  BY DEF R!Lesser, Lesser, R!Greater, Greater, R!Corners, Corners, R!NullRectangle, NullRectangle
<1>2. \A r : R!Right(r) = Right(r) /\ R!Bottom(r) = Bottom(r)
  BY DEF R!Right, Right, R!Bottom, Bottom
<1>3. \A r, s : R!intersects(r, s) <=> intersects(r, s)
  BY <1>2 DEF R!intersects, intersects
<1>4. \A r, s : R!united(r, s) = united(r, s)
  BY <1>1, <1>2 DEF R!united, united
<1>5. \A r, s : R!intersected(r, s) = intersected(r, s)
  BY <1>1, <1>2, <1>3 DEF R!intersected, intersected
<1>6. \A r : R!Pixels(r) = Pixels(r) /\ (R!isValid(r) <=> isValid(r))
  BY <1>2 DEF R!Pixels, Pixels, R!isValid, isValid
<1>7. R!Rectangles = Rectangles
  BY DEF R!Rectangles, Rectangles
<1>8. QED
  BY <1>2, <1>4, <1>5, <1>6, <1>7

LEMMA GivenAreValid == Given \subseteq Rectangles /\ \A r \in Given : isValid(r)
BY ScreenRectanglesAssumption, SameRectangles DEF R!GivenAssumption

LEMMA UnitedIsAround ==
    ASSUME NEW set \in SUBSET Rectangles, NEW q \in Rectangles, NEW r \in Rectangles,
           Around(q, set)
    PROVE  Around(united(q, r), set \cup {r})
<1> DEFINE u == united(q, r)
<1>1. /\ u.x \in {q.x, r.x} /\ u.y \in {q.y, r.y}
      /\ Right(u) \in {Right(q), Right(r)} /\ Bottom(u) \in {Bottom(q), Bottom(r)}
  BY DEF united, Corners, Lesser, Greater, Right, Bottom, Rectangles
<1>2. /\ u.x <= q.x /\ u.y <= q.y /\ Right(u) >= Right(q) /\ Bottom(u) >= Bottom(q)
      /\ u.x <= r.x /\ u.y <= r.y /\ Right(u) >= Right(r) /\ Bottom(u) >= Bottom(r)
      /\ u \in Rectangles
  BY UnitedEdges
<1>3. \A s \in Rectangles : s.x \in Int /\ s.y \in Int /\ Right(s) \in Int /\ Bottom(s) \in Int
  BY DEF Right, Bottom, Rectangles
<1> HIDE DEF u
<1>4. \A s \in set \cup {r} :
         u.x <= s.x /\ u.y <= s.y /\ Right(u) >= Right(s) /\ Bottom(u) >= Bottom(s)
  <2>1. ASSUME NEW s \in set
        PROVE  u.x <= s.x /\ u.y <= s.y /\ Right(u) >= Right(s) /\ Bottom(u) >= Bottom(s)
    <3>1. /\ q.x <= s.x /\ q.y <= s.y /\ Right(q) >= Right(s) /\ Bottom(q) >= Bottom(s)
          /\ s \in Rectangles
      BY DEF Around
    <3>2. QED
      BY <1>2, <1>3, <3>1
  <2>2. QED
    BY <1>2, <2>1
<1>5. /\ \E s \in set \cup {r} : u.x = s.x
      /\ \E s \in set \cup {r} : u.y = s.y
      /\ \E s \in set \cup {r} : Right(u) = Right(s)
      /\ \E s \in set \cup {r} : Bottom(u) = Bottom(s)
  BY <1>1 DEF Around
<1>6. QED
  BY <1>4, <1>5 DEF Around, u

LEMMA RectanglesStep == RectanglesInv /\ [R!Next]_rectVars => RectanglesInv'
<1> SUFFICES ASSUME RectanglesInv, [R!Next]_rectVars PROVE RectanglesInv'
  OBVIOUS
<1>1. CASE R!Next
  <2>1. PICK r \in Given : R!Merge(r)
    BY <1>1 DEF R!Next
  <2>2. /\ merged' = merged \cup {r}
        /\ queued' = IF merged = {} THEN r ELSE united(queued, r)
        /\ merged \subseteq Rectangles /\ r \in Rectangles
    BY <2>1, SameRectangles, GivenAreValid DEF R!Merge, RectanglesInv
  <2>3. CASE merged = {}
    <3>1. merged' = {r} /\ queued' = r
      BY <2>2, <2>3
    <3>2. /\ r.x <= r.x /\ r.y <= r.y /\ Right(r) >= Right(r) /\ Bottom(r) >= Bottom(r)
      BY <2>2 DEF Rectangles, Right, Bottom
    <3>3. QED
      BY <2>2, <3>1, <3>2 DEF RectanglesInv, Around
  <2>4. CASE merged # {}
    <3>1. Around(queued', merged') /\ queued' \in Rectangles
      BY <2>2, <2>4, UnitedIsAround, UnitedEdges DEF RectanglesInv
    <3>2. QED
      BY <2>2, <3>1 DEF RectanglesInv
  <2>5. QED
    BY <2>3, <2>4
<1>2. CASE UNCHANGED rectVars
  BY <1>2 DEF rectVars, RectanglesInv
<1>3. QED
  BY <1>1, <1>2

(* The edges are those of the hull.                                        *)
LEMMA AroundIsHull ==
    ASSUME NEW set \in SUBSET Rectangles, NEW q \in Rectangles, Around(q, set)
    PROVE  /\ q.x = R!Min({r.x : r \in set}) /\ q.y = R!Min({r.y : r \in set})
           /\ Right(q) = R!Max({Right(r) : r \in set})
           /\ Bottom(q) = R!Max({Bottom(r) : r \in set})
<1>1. \A r \in Rectangles : r.x \in Int /\ r.y \in Int /\ Right(r) \in Int /\ Bottom(r) \in Int
  BY DEF Right, Bottom, Rectangles
<1>2. ASSUME NEW nums \in SUBSET Int, NEW m \in nums, \A n \in nums : m <= n
      PROVE  m = R!Min(nums)
  <2>1. \A k \in nums : (\A n \in nums : k <= n) => k = m
    BY <1>2
  <2>2. QED
    BY <1>2, <2>1 DEF R!Min
<1>3. ASSUME NEW nums \in SUBSET Int, NEW m \in nums, \A n \in nums : m >= n
      PROVE  m = R!Max(nums)
  <2>1. \A k \in nums : (\A n \in nums : k >= n) => k = m
    BY <1>3
  <2>2. QED
    BY <1>3, <2>1 DEF R!Max
<1>4. q.x = R!Min({r.x : r \in set})
  <2>1. q.x \in {r.x : r \in set} /\ \A n \in {r.x : r \in set} : q.x <= n /\ n \in Int
    BY <1>1 DEF Around
  <2>2. QED
    BY <1>2, <2>1
<1>5. q.y = R!Min({r.y : r \in set})
  <2>1. q.y \in {r.y : r \in set} /\ \A n \in {r.y : r \in set} : q.y <= n /\ n \in Int
    BY <1>1 DEF Around
  <2>2. QED
    BY <1>2, <2>1
<1>6. Right(q) = R!Max({Right(r) : r \in set})
  <2>1. /\ Right(q) \in {Right(r) : r \in set}
        /\ \A n \in {Right(r) : r \in set} : Right(q) >= n /\ n \in Int
    BY <1>1 DEF Around
  <2>2. QED
    BY <1>3, <2>1
<1>7. Bottom(q) = R!Max({Bottom(r) : r \in set})
  <2>1. /\ Bottom(q) \in {Bottom(r) : r \in set}
        /\ \A n \in {Bottom(r) : r \in set} : Bottom(q) >= n /\ n \in Int
    BY <1>1 DEF Around
  <2>2. QED
    BY <1>3, <2>1
<1>8. QED
  BY <1>4, <1>5, <1>6, <1>7

(* What an intersection covers decides whether it is valid.                *)
LEMMA ValidCovers ==
    ASSUME NEW r \in Rectangles
    PROVE  isValid(r) <=> Pixels(r) # {}
<1>1. ASSUME isValid(r) PROVE <<r.x, r.y>> \in Pixels(r)
  BY <1>1, PixelsMembership DEF isValid, Rectangles, Right, Bottom
<1>2. QED
  BY <1>1, InvalidCoversNothing

(***************************************************************************)
(* For any rectangles in any order: the update queue is the smallest       *)
(* rectangle around everything merged, and clipping it is exact.           *)
(***************************************************************************)
THEOREM RectanglesAreExact == ScreensSpec => []RectanglesExact
<1> DEFINE Inv == part = "rectangles" => RectanglesInv
<1>1. ScreensInit => Inv
  <2> SUFFICES ASSUME R!Init PROVE RectanglesInv
    BY DEF ScreensInit
  <2>1. queued = R!NullRectangle /\ merged = {}
    BY DEF R!Init
  <2>2. QED
    BY <2>1 DEF RectanglesInv, R!NullRectangle, Rectangles
<1>2. Inv /\ [ScreensNext]_all => Inv'
  <2> SUFFICES ASSUME Inv, [ScreensNext]_all, part' = "rectangles" PROVE RectanglesInv'
    OBVIOUS
  <2>1. part = "rectangles" /\ [R!Next]_rectVars
    BY DEF ScreensNext, Others, all
  <2>2. QED
    BY <2>1, RectanglesStep
<1>3. Inv => RectanglesExact
  <2> SUFFICES ASSUME RectanglesInv PROVE R!UnitedIsHull /\ R!IntersectedIsCommon
    BY DEF RectanglesExact
  <2>1. R!UnitedIsHull
    <3> SUFFICES ASSUME merged # {}
                 PROVE  /\ queued.x = R!Min({r.x : r \in merged})
                        /\ queued.y = R!Min({r.y : r \in merged})
                        /\ R!Right(queued) = R!Max({R!Right(r) : r \in merged})
                        /\ R!Bottom(queued) = R!Max({R!Bottom(r) : r \in merged})
      BY DEF R!UnitedIsHull
    <3>1. Around(queued, merged) /\ merged \subseteq Rectangles /\ queued \in Rectangles
      BY GivenAreValid DEF RectanglesInv
    <3>2. /\ {R!Right(r) : r \in merged} = {Right(r) : r \in merged}
          /\ {R!Bottom(r) : r \in merged} = {Bottom(r) : r \in merged}
          /\ R!Right(queued) = Right(queued) /\ R!Bottom(queued) = Bottom(queued)
      BY SameRectangles
    <3>3. QED
      BY <3>1, <3>2, AroundIsHull
  <2>2. R!IntersectedIsCommon
    <3> SUFFICES ASSUME NEW r \in Given
                 PROVE  /\ Pixels(intersected(queued, r)) = Pixels(queued) \cap Pixels(r)
                        /\ isValid(intersected(queued, r)) <=> Pixels(intersected(queued, r)) # {}
      BY SameRectangles DEF R!IntersectedIsCommon
    <3>1. queued \in Rectangles /\ r \in Rectangles
      BY GivenAreValid DEF RectanglesInv
    <3>2. QED
      BY <3>1, IntersectedExact, ValidCovers
  <2>3. QED
    BY <2>1, <2>2
<1>4. QED
  BY <1>1, <1>2, <1>3, PTL DEF ScreensSpec

-------------------------------------------------------------------------------
(***************************************************************************)
(* The line of text: whatever is done to it ends in a refresh, and that    *)
(* puts the caret and the selection right if the cursor is in the text.    *)
(***************************************************************************)

Lines == [length : Nat, cursor : Nat, selected : Nat, selecting : BOOLEAN,
          x : Int, caret : Int, selection : [x : Int, right : Int]]

(* A line to be refreshed: the cursor is in the text.                      *)
Sound(l) == l \in Lines /\ l.cursor <= l.length

(* The selection goes between the place it began at and the cursor.        *)
Spans(l, i, j) == l.selection = [x |-> T!cursorPositon(l, i), right |-> T!cursorPositon(l, j)]

(* A refreshed line.                                                       *)
Drawn(l) ==
    /\ Sound(l)
    /\ l.caret = T!cursorPositon(l, l.cursor)
    /\ l.selecting /\ l.selection # T!NoSelection =>
          /\ l.selected < l.cursor => Spans(l, l.selected, l.cursor)
          /\ ~ l.selected < l.cursor => Spans(l, l.cursor, l.selected)

(* A place in the text is a pixel, wherever the text is scrolled to.       *)
LEMMA PlaceType ==
    ASSUME NEW l \in Lines, NEW i \in Int
    PROVE  T!cursorPositon(l, i) \in Int
<1>1. Advance \in Nat /\ i * Advance \in Int
  BY ScreenTextAssumption DEF T!LineAssumption
<1>2. QED
  BY <1>1 DEF T!cursorPositon, Lines

(* Where the text is scrolled to depends on no more than its fields.       *)
LEMMA ScrolledType == ASSUME NEW l \in Lines PROVE T!scrolled(l) \in Int
<1>1. /\ Advance \in Nat /\ Visible \in Nat /\ Left \in Nat /\ l.length \in Nat
      /\ l.cursor \in Nat /\ l.x \in Int
  BY ScreenTextAssumption DEF T!LineAssumption, Lines
<1>2. l.length * Advance \in Int
  BY <1>1
<1>3. /\ T!cursorPositon(l, l.cursor) \in Int
      /\ T!cursorPositon(l, l.cursor - 1) \in Int
      /\ T!cursorPositon(l, l.cursor + 2) \in Int
  BY <1>1, PlaceType
<1>4. QED
  BY <1>1, <1>2, <1>3 DEF T!scrolled

(* A scrolled line has its caret where the cursor is.                      *)
LEMMA CaretDrawn ==
    ASSUME NEW l, Sound(l)
    PROVE  LET m == T!updateCursorPosition(l)
           IN  /\ Sound(m)
               /\ m.caret = T!cursorPositon(m, m.cursor)
               /\ m.selecting = l.selecting /\ m.selected = l.selected
               /\ m.selection = l.selection
               /\ m.length = l.length /\ m.cursor = l.cursor
<1> DEFINE moved == [l EXCEPT !.x = T!scrolled(l)]
           at == T!cursorPositon(moved, l.cursor)
           m == [moved EXCEPT !.caret = at]
<1>1. T!updateCursorPosition(l) = m
  BY DEF T!updateCursorPosition
<1>2. T!scrolled(l) \in Int
  BY ScrolledType DEF Sound
<1>3. /\ moved \in Lines /\ moved.cursor = l.cursor /\ moved.length = l.length
      /\ moved.selecting = l.selecting /\ moved.selected = l.selected
      /\ moved.selection = l.selection
  BY <1>2 DEF Sound, Lines
<1> HIDE DEF moved
<1>4. at \in Int
  BY <1>3, PlaceType DEF Sound, Lines
<1> HIDE DEF at
<1>5. /\ m \in Lines /\ m.cursor = moved.cursor /\ m.length = moved.length /\ m.x = moved.x
      /\ m.selecting = moved.selecting /\ m.selected = moved.selected
      /\ m.selection = moved.selection /\ m.caret = at
  BY <1>3, <1>4 DEF Lines
<1> HIDE DEF m
<1>6. T!cursorPositon(m, m.cursor) = T!cursorPositon(moved, l.cursor)
  BY <1>3, <1>5 DEF T!cursorPositon
<1>7. QED
  BY <1>1, <1>3, <1>5, <1>6 DEF Sound, at

(* A refresh makes every line with its cursor in the text right.           *)
LEMMA RefreshedIsDrawn == ASSUME NEW l, Sound(l) PROVE Drawn(T!refreshed(l))
<1> DEFINE m == T!updateCursorPosition(l)
           at == T!cursorPositon(m, m.selected)
<1>1. /\ Sound(m) /\ m.caret = T!cursorPositon(m, m.cursor)
      /\ T!refreshed(l) = T!updateSelectionRect(m)
  BY CaretDrawn DEF T!refreshed
<1> HIDE DEF m
<1>2. /\ m \in Lines /\ m.cursor \in Nat /\ m.selected \in Nat /\ m.caret \in Int
      /\ m.cursor <= m.length
  BY <1>1 DEF Sound, Lines
<1>3. at \in Int
  BY <1>2, PlaceType
<1>4. ASSUME NEW v \in [x : Int, right : Int]
      PROVE  LET k == [m EXCEPT !.selection = v]
             IN  /\ Sound(k) /\ k.caret = m.caret /\ k.cursor = m.cursor
                 /\ k.selected = m.selected /\ k.selection = v
                 /\ \A i \in Int : T!cursorPositon(k, i) = T!cursorPositon(m, i)
  BY <1>2 DEF Sound, Lines, T!cursorPositon
<1>5. CASE ~ m.selecting
  BY <1>1, <1>5 DEF T!updateSelectionRect, Drawn
<1>6. CASE m.selecting /\ m.selected = m.cursor
  <2>1. T!NoSelection \in [x : Int, right : Int]
    BY DEF T!NoSelection
  <2>2. T!refreshed(l) = [m EXCEPT !.selection = T!NoSelection]
    BY <1>1, <1>6 DEF T!updateSelectionRect
  <2>3. QED
    BY <1>1, <1>2, <1>4, <2>1, <2>2 DEF Drawn
<1>7. CASE m.selecting /\ m.selected > m.cursor
  <2> DEFINE v == [x |-> m.caret, right |-> at]
             k == [m EXCEPT !.selection = v]
  <2>1. v \in [x : Int, right : Int]
    BY <1>2, <1>3
  <2>2. T!refreshed(l) = k
    BY <1>1, <1>2, <1>7 DEF T!updateSelectionRect
  <2>3. /\ Sound(k) /\ k.caret = m.caret /\ k.cursor = m.cursor
        /\ k.selected = m.selected /\ k.selection = v
        /\ \A i \in Int : T!cursorPositon(k, i) = T!cursorPositon(m, i)
    BY <1>4, <2>1
  <2> HIDE DEF k
  <2>4. /\ T!cursorPositon(k, k.cursor) = m.caret
        /\ T!cursorPositon(k, k.selected) = at
    BY <1>1, <1>2, <2>3
  <2>5. ~ k.selected < k.cursor
    BY <1>2, <1>7, <2>3
  <2>6. QED
    BY <2>2, <2>3, <2>4, <2>5 DEF Drawn, Spans
<1>8. CASE m.selecting /\ m.selected < m.cursor
  <2> DEFINE v == [x |-> at, right |-> m.caret]
             k == [m EXCEPT !.selection = v]
  <2>1. v \in [x : Int, right : Int]
    BY <1>2, <1>3
  <2>2. T!refreshed(l) = k
    BY <1>1, <1>2, <1>8 DEF T!updateSelectionRect
  <2>3. /\ Sound(k) /\ k.caret = m.caret /\ k.cursor = m.cursor
        /\ k.selected = m.selected /\ k.selection = v
        /\ \A i \in Int : T!cursorPositon(k, i) = T!cursorPositon(m, i)
    BY <1>4, <2>1
  <2> HIDE DEF k
  <2>4. /\ T!cursorPositon(k, k.cursor) = m.caret
        /\ T!cursorPositon(k, k.selected) = at
    BY <1>1, <1>2, <2>3
  <2>5. k.selected < k.cursor
    BY <1>2, <1>8, <2>3
  <2>6. QED
    BY <2>2, <2>3, <2>4, <2>5 DEF Drawn, Spans
<1>9. QED
  BY <1>2, <1>5, <1>6, <1>7, <1>8

(* A pointer over a text that is not empty is at a place in it.            *)
LEMMA PointedInText ==
    ASSUME NEW l \in Lines, l.length > 0, NEW x
    PROVE  T!xyToIndex(l, x) \in 0 .. l.length
<1> DEFINE within == {i \in 1 .. l.length :
                         x > l.x + (i - 1) * Advance /\ x <= l.x + i * Advance}
<1>1. within \subseteq 1 .. l.length /\ l.length \in Nat
  BY DEF Lines
<1>2. within # {} => (CHOOSE i \in within : TRUE) \in within
  OBVIOUS
<1>3. T!xyToIndex(l, x) = IF x < l.x THEN 0
                          ELSE IF within = {} THEN l.length ELSE CHOOSE i \in within : TRUE
  BY DEF T!xyToIndex, Lines
<1> HIDE DEF within
<1>4. 0 \in 0 .. l.length /\ l.length \in 0 .. l.length /\ 1 .. l.length \subseteq 0 .. l.length
  BY <1>1
<1>5. CASE within = {}
  BY <1>3, <1>4, <1>5
<1>6. CASE within # {}
  BY <1>1, <1>2, <1>3, <1>4, <1>6
<1>7. QED
  BY <1>5, <1>6

(* A line to be refreshed that is as far scrolled as the one there is.     *)
Still(l) == Sound(l) /\ l.x = line.x

(* A selection that is replaced leaves the cursor in what is left of the   *)
(* text, or behind the first glyph that is put there.                      *)
LEMMA ReplacedIsStill ==
    ASSUME NEW l \in Lines, l.cursor <= l.length, line = l
    PROVE  /\ Still(T!replaced(0, T!pos1))
           /\ \A n \in Nat \ {0} : Still(T!replaced(n, T!pos1 + 1))
<1>1. /\ l.length \in Nat /\ l.cursor \in Nat /\ l.selected \in Nat
      /\ T!NoSelection \in [x : Int, right : Int]
  BY DEF Lines, T!NoSelection
<1>2. T!pos1 \in Nat /\ T!pos1 <= l.length /\ T!n1 \in Nat
  BY <1>1 DEF T!pos1, T!n1
<1>3. T!erased(T!pos1, T!n1) \in Nat /\ T!pos1 <= T!erased(T!pos1, T!n1)
  BY <1>1, <1>2 DEF T!erased
<1>4. ASSUME NEW n \in Nat, NEW c \in Nat, c <= T!erased(T!pos1, T!n1) + n
      PROVE  Still(T!replaced(n, c))
  <2> DEFINE e == T!erased(T!pos1, T!n1) + n
  <2>1. e \in Nat
    BY <1>3
  <2>2. T!replaced(n, c) = [l EXCEPT !.length = e, !.selection = T!NoSelection, !.cursor = c]
    BY DEF T!replaced
  <2> HIDE DEF e
  <2>3. QED
    BY <1>1, <1>4, <2>1, <2>2 DEF Still, Sound, Lines, e
<1>5. QED
  BY <1>2, <1>3, <1>4

(* The line is right in the beginning.                                     *)
LEMMA LineBegins == T!Init => Drawn(line)
<1>1. Left \in Nat
  BY ScreenTextAssumption DEF T!LineAssumption
<1>2. QED
  BY <1>1 DEF T!Init, Drawn, Sound, Lines, T!NoSelection, T!cursorPositon

(* Changes that are followed by a refresh.                                 *)
Moved(l, n, c) == [l EXCEPT !.length = n, !.cursor = c]
MovedBack(l, n, c) == [l EXCEPT !.cursor = c, !.length = n]
Emptied(l, n, c, s) == [l EXCEPT !.length = n, !.cursor = c, !.selected = s]

LEMMA MovedIsSound ==
    ASSUME NEW l \in Lines, NEW n \in Nat, NEW c \in Nat, c <= n
    PROVE  /\ Sound(Moved(l, n, c)) /\ Moved(l, n, c).x = l.x
           /\ Sound(MovedBack(l, n, c)) /\ MovedBack(l, n, c).x = l.x
  BY DEF Sound, Lines, Moved, MovedBack

LEMMA EmptiedIsSound ==
    ASSUME NEW l \in Lines, NEW n \in Nat, NEW c \in Nat, NEW s \in Nat, c <= n
    PROVE  Sound(Emptied(l, n, c, s)) /\ Emptied(l, n, c, s).x = l.x
  BY DEF Sound, Lines, Emptied

LEMMA SelectionStarts ==
    ASSUME NEW l, Sound(l)
    PROVE  LET k == T!startSelection(l)
           IN  /\ Sound(k) /\ k.selection = T!NoSelection
               /\ k.caret = l.caret /\ k.cursor = l.cursor /\ k.x = l.x /\ k.length = l.length
               /\ k.selecting = TRUE /\ k.selected = l.cursor
<1>1. /\ T!NoSelection \in [x : Int, right : Int]
      /\ l \in Lines /\ l.cursor \in Nat /\ l.cursor <= l.length
  BY DEF T!NoSelection, Sound, Lines
<1> DEFINE c == l.cursor  none == T!NoSelection
           k == [l EXCEPT !.selecting = TRUE, !.selected = c, !.selection = none]
<1>2. T!startSelection(l) = k /\ c \in Nat /\ none \in [x : Int, right : Int]
  BY <1>1 DEF T!startSelection
<1> HIDE DEF c, none
<1>3. /\ k \in Lines /\ k.selection = none
      /\ k.caret = l.caret /\ k.cursor = l.cursor /\ k.x = l.x /\ k.length = l.length
      /\ k.selecting = TRUE /\ k.selected = c
  BY <1>1, <1>2 DEF Lines
<1> HIDE DEF k
<1>4. QED
  BY <1>1, <1>2, <1>3 DEF Sound, none, c

(* What the keys, the pointer and the application do to the line: they     *)
(* change it and scroll it, or only what is selected.                      *)
LEMMA LineMoves ==
    ASSUME Drawn(line), T!Next
    PROVE  \/ \E l : Still(l) /\ line' = T!refreshed(l)
           \/ \E l : Still(l) /\ line' = T!startSelection(T!updateCursorPosition(l))
           \/ line' = [line EXCEPT !.selecting = FALSE]
           \/ line' = [line EXCEPT !.selection = T!NoSelection]
<1> DEFINE Steps == \/ \E l : Still(l) /\ line' = T!refreshed(l)
                    \/ \E l : Still(l) /\ line' = T!startSelection(T!updateCursorPosition(l))
                    \/ line' = [line EXCEPT !.selecting = FALSE]
                    \/ line' = [line EXCEPT !.selection = T!NoSelection]
<1> SUFFICES Steps
  OBVIOUS
<1>1. /\ line \in Lines /\ Still(line) /\ line.cursor <= line.length
      /\ line.length \in Nat /\ line.cursor \in Nat /\ line.selected \in Nat
      /\ Pieces \subseteq Nat \ {0}
  BY ScreenTextAssumption DEF Drawn, Still, Sound, Lines, T!LineAssumption
<1>2. /\ Still(T!replaced(0, T!pos1))
      /\ \A n \in Nat \ {0} : Still(T!replaced(n, T!pos1 + 1))
  BY <1>1, ReplacedIsStill
<1>3. ASSUME NEW l, Still(l), line' = T!refreshed(l) PROVE Steps
  BY <1>3
<1>4. ASSUME NEW l, Still(l), line' = T!refreshed([l EXCEPT !.selecting = FALSE])
      PROVE  Steps
  <2>1. Still([l EXCEPT !.selecting = FALSE])
    BY <1>4 DEF Still, Sound, Lines
  <2>2. QED
    BY <1>3, <1>4, <2>1
<1>5. ASSUME NEW n \in Pieces, T!setText(n) PROVE Steps
  <2>1. Still([line EXCEPT !.length = n, !.cursor = n, !.selected = 0])
    <3>1. Still(Emptied(line, n, n, 0))
      BY <1>1, EmptiedIsSound DEF Still
    <3>2. QED
      BY <3>1 DEF Emptied
  <2>2. QED
    BY <1>3, <1>5, <2>1 DEF T!setText
<1>6. ASSUME NEW n \in Pieces, T!append(n) PROVE Steps
  <2>1. Still([line EXCEPT !.length = @ + n, !.cursor = @ + n])
    <3>1. line.length + n \in Nat /\ line.cursor + n \in Nat /\ line.cursor + n <= line.length + n
      BY <1>1
    <3>2. Sound(Moved(line, line.length + n, line.cursor + n)) /\ Moved(line, line.length + n, line.cursor + n).x = line.x
      BY <1>1, <3>1, MovedIsSound
    <3>3. QED
      BY <3>2, <1>1 DEF Moved, Still
  <2>2. CASE T!isNull(line.selection)
    BY <1>3, <1>6, <2>1, <2>2 DEF T!append
  <2>3. CASE ~ T!isNull(line.selection)
    BY <1>1, <1>2, <1>3, <1>6, <2>3 DEF T!append
  <2>4. QED
    BY <2>2, <2>3
<1>7. ASSUME T!clear PROVE Steps
  <2> DEFINE n == IF line.length > 0 THEN 0 ELSE line.selected
  <2>1. n \in Nat
    BY <1>1
  <2>2. Still([line EXCEPT !.length = 0, !.cursor = 0, !.selected = n])
    <3>1. 0 \in Nat /\ 0 <= 0
      OBVIOUS
    <3>2. Sound(Emptied(line, 0, 0, n)) /\ Emptied(line, 0, 0, n).x = line.x
      BY <1>1, <2>1, <3>1, EmptiedIsSound
    <3>3. QED
      BY <3>2, <1>1 DEF Emptied, Still
  <2>3. QED
    BY <1>3, <1>7, <2>2 DEF T!clear
<1>8. ASSUME T!clearBefore(1) PROVE Steps
  <2> DEFINE chars == IF 1 > line.cursor THEN line.cursor ELSE 1
             c == line.cursor - chars
             n == T!erased(c, chars)
  <2>1. c \in Nat /\ n \in Nat /\ c <= n
    BY <1>1 DEF T!erased
  <2>2. Still([line EXCEPT !.cursor = c, !.length = n])
    BY <1>1, <2>1 DEF Still, Sound, Lines
  <2>3. CASE T!isNull(line.selection)
    BY <1>4, <1>8, <2>2, <2>3 DEF T!clearBefore
  <2>4. CASE ~ T!isNull(line.selection)
    BY <1>2, <1>4, <1>8, <2>4 DEF T!clearBefore
  <2>5. QED
    BY <2>3, <2>4
<1>9. ASSUME NEW x \in Pointer, T!pointerButtonDownEvent(x) PROVE Steps
  <2>1. T!xyToIndex(line, x) \in 0 .. line.length
    BY <1>1, <1>9, PointedInText DEF T!pointerButtonDownEvent
  <2>2. Still([line EXCEPT !.cursor = T!xyToIndex(line, x)])
    BY <1>1, <2>1 DEF Still, Sound, Lines
  <2>3. QED
    BY <1>9, <2>2 DEF T!pointerButtonDownEvent
<1>10. ASSUME NEW x \in Pointer, T!pointerMotionEvent(x) PROVE Steps
  <2>1. T!xyToIndex(line, x) \in 0 .. line.length
    BY <1>1, <1>10, PointedInText DEF T!pointerMotionEvent
  <2>2. Still([line EXCEPT !.cursor = T!xyToIndex(line, x)])
    BY <1>1, <2>1 DEF Still, Sound, Lines
  <2>3. QED
    BY <1>3, <1>10, <2>2 DEF T!pointerMotionEvent
<1>11. ASSUME line' = [line EXCEPT !.selecting = FALSE] PROVE Steps
  BY <1>11
<1>12. ASSUME T!cursorLeft \/ T!cursorRight \/ T!homeKey \/ T!endKey PROVE Steps
  <2>1. PICK c \in Nat : c <= line.length /\ line' = T!refreshed([line EXCEPT !.cursor = c])
    <3>1. T!cursorLeft => line.cursor - 1 \in Nat /\ line.cursor - 1 <= line.length
      BY <1>1 DEF T!cursorLeft
    <3>2. T!cursorRight => line.cursor + 1 \in Nat /\ line.cursor + 1 <= line.length
      BY <1>1 DEF T!cursorRight
    <3>3. 0 \in Nat /\ 0 <= line.length /\ line.length <= line.length
      BY <1>1
    <3>4. QED
      BY <1>1, <1>12, <3>1, <3>2, <3>3 DEF T!cursorLeft, T!cursorRight, T!homeKey, T!endKey
  <2>2. QED
    <3>1. Still([line EXCEPT !.cursor = c])
      BY <1>1, <2>1 DEF Still, Sound, Lines
    <3>2. QED
      BY <1>3, <2>1, <3>1
<1>13. ASSUME T!deleteKey PROVE Steps
  <2> DEFINE n == IF line.cursor < line.length THEN line.length - 1 ELSE line.length
  <2>1. n \in Nat /\ n >= line.cursor
    BY <1>1
  <2>2. Still([line EXCEPT !.length = n])
    BY <1>1, <2>1 DEF Still, Sound, Lines
  <2>3. CASE T!isNull(line.selection)
    BY <1>4, <1>13, <2>2, <2>3 DEF T!deleteKey
  <2>4. CASE ~ T!isNull(line.selection)
    BY <1>2, <1>4, <1>13, <2>4 DEF T!deleteKey
  <2>5. QED
    BY <2>3, <2>4
<1>14. ASSUME T!backspaceKey PROVE Steps
  <2>1. line.cursor > 0 => Still([line EXCEPT !.cursor = @ - 1, !.length = @ - 1])
    <3>1. line.cursor > 0 => /\ line.length - 1 \in Nat /\ line.cursor - 1 \in Nat
                             /\ line.cursor - 1 <= line.length - 1
      BY <1>1
    <3>2. line.cursor > 0 => Still(MovedBack(line, line.length - 1, line.cursor - 1))
      BY <1>1, <3>1, MovedIsSound DEF Still
    <3>3. QED
      BY <3>2 DEF MovedBack
  <2>2. CASE ~ T!isNull(line.selection)
    BY <1>2, <1>4, <1>14, <2>2 DEF T!backspaceKey
  <2>3. CASE T!isNull(line.selection) /\ line.cursor > 0
    BY <1>4, <1>14, <2>1, <2>3 DEF T!backspaceKey
  <2>4. CASE T!isNull(line.selection) /\ ~ line.cursor > 0
    BY <1>1, <1>4, <1>14, <2>4 DEF T!backspaceKey
  <2>5. QED
    BY <2>2, <2>3, <2>4
<1>15. ASSUME T!shiftKey PROVE Steps
  <2>1. Still(T!startSelection(line))
    BY <1>1, SelectionStarts DEF Still
  <2>2. QED
    BY <1>1, <1>3, <1>15, <2>1 DEF T!shiftKey
<1>16. ASSUME T!glyphKey PROVE Steps
  <2>1. Still([line EXCEPT !.cursor = @ + 1, !.length = @ + 1])
    <3>1. line.length + 1 \in Nat /\ line.cursor + 1 \in Nat /\ line.cursor + 1 <= line.length + 1
      BY <1>1
    <3>2. Sound(MovedBack(line, line.length + 1, line.cursor + 1)) /\ MovedBack(line, line.length + 1, line.cursor + 1).x = line.x
      BY <1>1, <3>1, MovedIsSound
    <3>3. QED
      BY <3>2, <1>1 DEF MovedBack, Still
  <2>2. CASE MaxLength > 0 /\ line.length = MaxLength
    BY <1>11, <1>16, <2>2 DEF T!glyphKey
  <2>3. CASE ~ (MaxLength > 0 /\ line.length = MaxLength) /\ T!isNull(line.selection)
    BY <1>4, <1>16, <2>1, <2>3 DEF T!glyphKey
  <2>4. CASE ~ (MaxLength > 0 /\ line.length = MaxLength) /\ ~ T!isNull(line.selection)
    <3>1. 1 \in Nat \ {0} /\ Still(T!replaced(1, T!pos1 + 1))
      BY <1>2
    <3>2. QED
      BY <1>4, <1>16, <2>4, <3>1 DEF T!glyphKey
  <2>5. QED
    BY <2>2, <2>3, <2>4
<1>17. ASSUME T!focusOutEvent PROVE Steps
  BY <1>17 DEF T!focusOutEvent
<1> HIDE DEF Steps
<1>18. QED
  BY <1>1, <1>3, <1>5, <1>6, <1>7, <1>8, <1>9, <1>10, <1>11, <1>12, <1>13, <1>14, <1>15,
     <1>16, <1>17 DEF T!Next, T!pointerButtonUpEvent, T!enterKey

(* What the keys, the pointer and the application do keeps the line right. *)
LEMMA LineStep == Drawn(line) /\ [T!Next]_line => Drawn(line')
<1> SUFFICES ASSUME Drawn(line), [T!Next]_line PROVE Drawn(line')
  OBVIOUS
<1>1. ASSUME NEW l, Still(l), line' = T!refreshed(l) PROVE Drawn(line')
  BY <1>1, RefreshedIsDrawn DEF Still
<1>2. ASSUME NEW l, Still(l), line' = T!startSelection(T!updateCursorPosition(l))
      PROVE  Drawn(line')
  <2> DEFINE m == T!updateCursorPosition(l)
  <2>1. Sound(m) /\ m.caret = T!cursorPositon(m, m.cursor)
    BY <1>2, CaretDrawn DEF Still
  <2> HIDE DEF m
  <2>2. /\ Sound(line') /\ line'.selection = T!NoSelection
        /\ line'.caret = m.caret /\ line'.cursor = m.cursor /\ line'.x = m.x
        /\ line'.length = m.length
    BY <1>2, <2>1, SelectionStarts DEF m
  <2>3. QED
    BY <2>1, <2>2 DEF Drawn, T!cursorPositon
<1>3. ASSUME line' = [line EXCEPT !.selecting = FALSE] PROVE Drawn(line')
  BY <1>3 DEF Drawn, Sound, Lines, T!cursorPositon
<1>4. ASSUME line' = [line EXCEPT !.selection = T!NoSelection] PROVE Drawn(line')
  BY <1>4 DEF Drawn, Sound, Lines, T!cursorPositon, T!NoSelection
<1>5. CASE T!Next
  BY <1>1, <1>2, <1>3, <1>4, <1>5, LineMoves
<1>6. CASE UNCHANGED line
  BY <1>6
<1>7. QED
  BY <1>5, <1>6

-------------------------------------------------------------------------------
(***************************************************************************)
(* Letters tapped on the keyboard, heard by the line input of another      *)
(* process.  The keys on their way, played on what the application has     *)
(* now, lead to what it will have: the letters that were chosen, the last  *)
(* of them marked while another may still take its place.  So it does not  *)
(* matter when the timer fires or when the application gets to the keys.   *)
(***************************************************************************)

(* What the keys of the keyboard do to the application: its text, the      *)
(* cursor, and where a selection began if the user is selecting.           *)
Reading(t, c, s, b) == [text |-> t, cursor |-> c, selected |-> s, selecting |-> b]

Reader(l, t) == Reading(t, l.cursor, l.selected, l.selecting)

Events == {<<"shift">>, <<"left">>, <<"right">>, <<"back">>}
          \cup {<<"glyph", c>> : c \in Y!Characters}

(* The part of the text between two places becomes others.                 *)
Between(t, i, j, u) == SubSeq(t, 1, i) \o u \o SubSeq(t, j + 1, Len(t))

Marked(r) == r.selecting /\ r.selected # r.cursor
Low(r)  == IF r.selected < r.cursor THEN r.selected ELSE r.cursor
High(r) == IF r.selected < r.cursor THEN r.cursor ELSE r.selected

Played(r, e) ==
    IF e[1] = "shift" THEN
        Reading(r.text, r.cursor, IF r.selecting THEN r.selected ELSE r.cursor, TRUE)
    ELSE IF e[1] = "left" THEN
        Reading(r.text, IF r.cursor > 0 THEN r.cursor - 1 ELSE r.cursor, r.selected, r.selecting)
    ELSE IF e[1] = "right" THEN
        Reading(r.text, IF r.cursor < Len(r.text) THEN r.cursor + 1 ELSE r.cursor,
                r.selected, r.selecting)
    ELSE IF e[1] = "back" THEN
        IF Marked(r) THEN Reading(Between(r.text, Low(r), High(r), << >>), Low(r), r.selected, FALSE)
        ELSE IF r.cursor > 0
        THEN Reading(Between(r.text, r.cursor - 1, r.cursor, << >>), r.cursor - 1,
                     r.selected, FALSE)
        ELSE Reading(r.text, r.cursor, r.selected, FALSE)
    ELSE IF Marked(r)
    THEN Reading(Between(r.text, Low(r), High(r), <<e[2]>>), Low(r) + 1, r.selected, FALSE)
    ELSE Reading(Between(r.text, r.cursor, r.cursor, <<e[2]>>), r.cursor + 1, r.selected, FALSE)

(* The line of the application while it is typed into: something is marked *)
(* only while the user selects, from a place in the text.                  *)
Told(l) ==
    /\ l \in Lines
    /\ l.cursor <= l.length
    /\ l.selecting => l.selected <= l.length
    /\ l.selection = Y!NoSelection <=> ~ l.selecting \/ l.selected = l.cursor

(* The letter that is shown may still be replaced by another: the key is   *)
(* the one that was tapped, and nobody has accepted its letter.            *)
Undecided == cycleKey \in Keys /\ timer # "finish" /\ helper # "choose"

(* What the application will have when it has heard all that is on its way:*)
(* the letters that were chosen, the last of them marked if it is pending. *)
Arrived(r, m, undecided) ==
    /\ r.text = m /\ r.selecting \in BOOLEAN
    /\ undecided =>
          /\ m # << >> /\ r.selecting
          /\ r.selected = Len(m) /\ r.cursor = Len(m) - 1
    /\ ~ undecided =>
          /\ r.cursor = Len(m)
          /\ r.selecting => r.selected = r.cursor

(* Keys lead from one reading to another.                                  *)
Leads(r, w, s) ==
    \E f : /\ f[0] = r /\ f[Len(w)] = s
          /\ \A i \in 1 .. Len(w) : f[i] = Played(f[i - 1], w[i])

(* The keyboard, and the two calls that it may be in at once.              *)
Tapping ==
    /\ cycleKey \in Keys \cup {None, erase}
    /\ cycleCharacter \in Y!Characters \cup {None, erase}
    /\ modifier \in BOOLEAN /\ symbolState \in 1 .. 2 /\ ticking \in BOOLEAN
    /\ timer \in {"idle", "accept", "finish"}
    /\ helper \in {"idle", "accept", "choose", "delete", "forget"}
    /\ meant \in Seq(Y!Characters)
    /\ cycleKey \in Keys => cycleCharacter \in Y!Characters
    /\ cycleKey = erase => helper \in {"delete", "forget"}
    /\ helper \in {"delete", "forget"} => cycleKey \notin Keys

(* The line input hears a key as the keyboard means it.                     *)
Listening == Told(field) /\ text \in Seq(Y!Characters) /\ Len(text) = field.length

TypingInv ==
    /\ Tapping /\ Listening /\ wire \in Seq(Events)
    /\ \E r : Leads(Reader(field, text), wire, r) /\ Arrived(r, meant, Undecided)

(* The field of the application scrolls and selects as the line does.      *)
LEMMA SameLine ==
    ASSUME NEW l
    PROVE  /\ Y!refreshed(l) = T!refreshed(l)
           /\ Y!startSelection(l) = T!startSelection(l)
           /\ Y!NoSelection = T!NoSelection
<1>1. \A k, i : Y!cursorPositon(k, i) = T!cursorPositon(k, i)
  BY DEF Y!cursorPositon, T!cursorPositon
<1>2. \A k : Y!scrolled(k) = T!scrolled(k)
  BY <1>1 DEF Y!scrolled, T!scrolled
<1>3. \A k : Y!updateCursorPosition(k) = T!updateCursorPosition(k)
  BY <1>1, <1>2, Zenon DEF Y!updateCursorPosition, T!updateCursorPosition
<1>4. Y!NoSelection = T!NoSelection
  BY DEF Y!NoSelection, T!NoSelection
<1>5. \A k : Y!updateSelectionRect(k) = T!updateSelectionRect(k)
  BY <1>1, <1>4 DEF Y!updateSelectionRect, T!updateSelectionRect
<1>6. QED
  BY <1>3, <1>4, <1>5 DEF Y!refreshed, Y!startSelection, T!refreshed, T!startSelection

(* Two places of the text are not drawn at the same pixel.                 *)
LEMMA PlacesDiffer ==
    ASSUME NEW l \in Lines, NEW i \in 0 .. l.length, NEW j \in 0 .. l.length, i < j
    PROVE  T!cursorPositon(l, i) < T!cursorPositon(l, j)
<1>1. Advance \in Nat /\ Advance > 0 /\ l.length \in Nat /\ l.x \in Int
  BY ScreenTypingAssumption DEF Y!TypingAssumption, Lines
<1>2. T!cursorPositon(l, i) = l.x + i * Advance
  BY <1>1 DEF T!cursorPositon
<1>3. T!cursorPositon(l, j) = l.x + j * Advance
  BY <1>1 DEF T!cursorPositon
<1>4. j * Advance = i * Advance + (j - i) * Advance /\ (j - i) * Advance > 0
  BY <1>1
<1>5. i * Advance \in Int /\ j * Advance \in Int
  BY <1>1
<1>6. QED
  BY <1>1, <1>2, <1>3, <1>4, <1>5

(* A refresh leaves the text and the cursor, and marks what is between the *)
(* cursor and the place where the selection began.                         *)
LEMMA RefreshedIsTold ==
    ASSUME NEW l \in Lines, l.cursor <= l.length, l.selecting => l.selected <= l.length,
           ~ l.selecting => l.selection = T!NoSelection
    PROVE  LET r == Y!refreshed(l)
           IN  /\ Told(r) /\ r.length = l.length /\ r.cursor = l.cursor
               /\ r.selected = l.selected /\ r.selecting = l.selecting
<1> DEFINE m == T!updateCursorPosition(l)
           at == T!cursorPositon(m, m.selected)
           r == Y!refreshed(l)
<1>1. /\ m \in Lines /\ m.caret = T!cursorPositon(m, m.cursor)
      /\ m.length = l.length /\ m.cursor = l.cursor /\ m.selected = l.selected
      /\ m.selecting = l.selecting /\ m.selection = l.selection
      /\ r = T!updateSelectionRect(m) /\ r = Y!refreshed(l)
  BY CaretDrawn, SameLine DEF Sound, T!refreshed
<1> HIDE DEF m, r
<1>2. /\ m.length \in Nat /\ m.cursor \in Nat /\ m.selected \in Nat /\ m.caret \in Int
      /\ m.cursor <= m.length /\ m.selecting \in BOOLEAN
      /\ m.selecting => m.selected <= m.length
  BY <1>1 DEF Lines
<1>3. at \in Int /\ (m.selecting /\ m.selected # m.cursor => at # m.caret)
  <2>1. at \in Int
    BY <1>1, <1>2, PlaceType
  <2>2. m.selecting /\ m.selected < m.cursor => at < m.caret
    BY <1>1, <1>2, PlacesDiffer
  <2>3. m.selecting /\ m.cursor < m.selected => m.caret < at
    BY <1>1, <1>2, PlacesDiffer
  <2>4. QED
    BY <1>2, <2>1, <2>2, <2>3
<1> HIDE DEF at
<1>4. ASSUME NEW v \in [x : Int, right : Int], r = [m EXCEPT !.selection = v]
      PROVE  /\ r \in Lines /\ r.length = l.length /\ r.cursor = l.cursor
             /\ r.selected = l.selected /\ r.selecting = l.selecting /\ r.selection = v
  BY <1>1, <1>4 DEF Lines
<1>5. T!NoSelection \in [x : Int, right : Int] /\ T!NoSelection = Y!NoSelection
  BY SameLine DEF T!NoSelection
<1>6. CASE ~ m.selecting
  <2>1. r = m
    BY <1>1, <1>6 DEF T!updateSelectionRect
  <2>2. ~ r.selecting /\ r.selection = Y!NoSelection
    BY <1>1, <1>5, <1>6, <2>1
  <2>3. QED
    BY <1>1, <1>2, <2>1, <2>2 DEF Told
<1>7. CASE m.selecting /\ m.selected = m.cursor
  <2>1. r = [m EXCEPT !.selection = T!NoSelection]
    BY <1>1, <1>7 DEF T!updateSelectionRect
  <2>2. /\ r \in Lines /\ r.length = l.length /\ r.cursor = l.cursor
        /\ r.selected = l.selected /\ r.selecting = l.selecting
        /\ r.selection = Y!NoSelection /\ r.selected = r.cursor
    BY <1>1, <1>4, <1>5, <1>7, <2>1
  <2>3. QED
    BY <1>1, <1>2, <2>2 DEF Told
<1>8. CASE m.selecting /\ m.selected # m.cursor
  <2>1. PICK a \in {at, m.caret}, b \in {at, m.caret} :
           a # b /\ r = [m EXCEPT !.selection = [x |-> a, right |-> b]]
    <3>1. m.selected > m.cursor \/ m.selected < m.cursor
      BY <1>2, <1>8
    <3>2. CASE m.selected > m.cursor
      <4>1. r = [m EXCEPT !.selection = [x |-> m.caret, right |-> at]]
        BY <1>1, <1>8, <3>2 DEF T!updateSelectionRect, at
      <4>2. QED
        BY <1>3, <1>8, <4>1
    <3>3. CASE m.selected < m.cursor
      <4>1. r = [m EXCEPT !.selection = [x |-> at, right |-> m.caret]]
        BY <1>1, <1>2, <1>8, <3>3 DEF T!updateSelectionRect, at
      <4>2. QED
        BY <1>3, <1>8, <4>1
    <3>4. QED
      BY <3>1, <3>2, <3>3
  <2> DEFINE v == [x |-> a, right |-> b]
  <2>2. v \in [x : Int, right : Int] /\ v # T!NoSelection
    BY <1>2, <1>3, <2>1 DEF T!NoSelection
  <2>3. r = [m EXCEPT !.selection = v]
    BY <2>1
  <2> HIDE DEF v
  <2>4. /\ r \in Lines /\ r.length = l.length /\ r.cursor = l.cursor
        /\ r.selected = l.selected /\ r.selecting = l.selecting
        /\ r.selection # Y!NoSelection
    BY <1>4, <1>5, <2>2, <2>3
  <2>5. r.selecting /\ r.selected # r.cursor
    BY <1>1, <1>8, <2>4
  <2>6. QED
    BY <1>1, <1>2, <2>4, <2>5 DEF Told
<1>9. QED
  BY <1>6, <1>7, <1>8 DEF r

(* What is put into a text, and taken out of it, leaves a text.            *)
LEMMA BetweenType ==
    ASSUME NEW C, NEW t \in Seq(C), NEW i \in 0 .. Len(t), NEW j \in i .. Len(t),
           NEW u \in Seq(C)
    PROVE  /\ Between(t, i, j, u) \in Seq(C)
           /\ Len(Between(t, i, j, u)) = i + Len(u) + (Len(t) - j)
<1>1. SubSeq(t, 1, i) \in Seq(C) /\ Len(SubSeq(t, 1, i)) = i
  OBVIOUS
<1>2. SubSeq(t, j + 1, Len(t)) \in Seq(C) /\ Len(SubSeq(t, j + 1, Len(t))) = Len(t) - j
  OBVIOUS
<1>3. /\ SubSeq(t, 1, i) \o u \in Seq(C)
      /\ Len(SubSeq(t, 1, i) \o u) = i + Len(u)
  BY <1>1
<1> DEFINE a == SubSeq(t, 1, i) \o u
           b == SubSeq(t, j + 1, Len(t))
<1>4. Between(t, i, j, u) = a \o b
  BY DEF Between
<1> HIDE DEF a, b
<1>5. a \o b \in Seq(C) /\ Len(a \o b) = Len(a) + Len(b)
  BY <1>2, <1>3 DEF a, b
<1>6. QED
  BY <1>2, <1>3, <1>4, <1>5 DEF a, b

(* A letter in the place of what is between two others.                    *)
Put(t, i, j, c) == Between(t, i, j, <<c>>)

LEMMA PutType ==
    ASSUME NEW C, NEW t \in Seq(C), NEW i \in 0 .. Len(t), NEW j \in i .. Len(t), NEW c \in C
    PROVE  /\ Put(t, i, j, c) \in Seq(C)
           /\ Len(Put(t, i, j, c)) = i + 1 + (Len(t) - j)
<1> DEFINE u == <<c>>
<1>1. u \in Seq(C) /\ Len(u) = 1
  OBVIOUS
<1> HIDE DEF u
<1>2. /\ Between(t, i, j, u) \in Seq(C)
      /\ Len(Between(t, i, j, u)) = i + Len(u) + (Len(t) - j)
  BY <1>1, BetweenType
<1>3. QED
  BY <1>1, <1>2 DEF u, Put

(* The application hears a key as Played says, and its line stays one that *)
(* is typed into.                                                          *)
Hears(e) ==
    /\ Told(field') /\ text' \in Seq(Y!Characters) /\ Len(text') = field'.length
    /\ Reader(field', text') = Played(Reader(field, text), e)

(* What is marked is a part of the text.                                   *)
LEMMA MarkedInText ==
    ASSUME Listening
    PROVE  LET r == Reader(field, text)
           IN  /\ Y!isNull(field.selection) <=> ~ Marked(r)
               /\ Y!pos1 = Low(r) /\ Y!n1 = High(r) - Low(r)
               /\ Low(r) \in Nat /\ High(r) \in Nat /\ Low(r) <= High(r)
               /\ Marked(r) => High(r) <= Len(text)
<1>1. /\ field.cursor \in Nat /\ field.selected \in Nat /\ field.length \in Nat
      /\ field.cursor <= field.length
      /\ field.selecting => field.selected <= field.length
  BY DEF Listening, Told, Lines
<1> DEFINE r == Reader(field, text)
<1>2. r.cursor = field.cursor /\ r.selected = field.selected /\ r.selecting = field.selecting
  BY DEF Reader, Reading
<1> HIDE DEF r
<1>3. Y!isNull(field.selection) <=> ~ Marked(r)
  BY <1>2 DEF Listening, Told, Marked, Y!isNull
<1>4. /\ Y!pos1 = Low(r) /\ Y!n1 = High(r) - Low(r)
      /\ Low(r) \in Nat /\ High(r) \in Nat /\ Low(r) <= High(r)
  BY <1>1, <1>2 DEF Y!pos1, Y!n1, Low, High
<1>5. Marked(r) => High(r) <= Len(text)
  <2>1. Len(text) = field.length
    BY DEF Listening
  <2>2. SUFFICES ASSUME Marked(r) PROVE High(r) <= Len(text)
    OBVIOUS
  <2>3. field.selecting
    BY <1>2, <2>2 DEF Marked
  <2>4. field.selected <= field.length
    BY <1>1, <2>3
  <2>5. QED
    BY <1>1, <1>2, <2>1, <2>4 DEF High
<1>6. QED
  BY <1>3, <1>4, <1>5 DEF r

(* The shift key starts a selection unless one was started.                *)
LEMMA ShiftHeard ==
    ASSUME Listening, NEW e, e[1] = "shift", Y!HearShift("shift")
    PROVE  Hears(e)
<1> DEFINE k == IF field.selecting THEN field ELSE T!startSelection(field)
<1>1. field' = Y!refreshed(k) /\ text' = text
  BY SameLine DEF Y!HearShift, Y!shiftKey
<1>2. /\ field \in Lines /\ Sound(field) /\ field.cursor \in Nat /\ field.cursor <= field.length
      /\ field.selecting \in BOOLEAN
      /\ field.selecting => field.selected <= field.length
  BY DEF Listening, Told, Lines, Sound
<1>3. /\ k \in Lines /\ k.cursor = field.cursor /\ k.length = field.length
      /\ k.selecting = TRUE /\ k.selected <= k.length
      /\ k.selected = IF field.selecting THEN field.selected ELSE field.cursor
  <2>1. CASE field.selecting
    BY <1>2, <2>1
  <2>2. CASE ~ field.selecting
    BY <1>2, <2>2, SelectionStarts DEF Sound
  <2>3. QED
    BY <2>1, <2>2
<1> HIDE DEF k
<1>4. /\ Told(field') /\ field'.length = k.length /\ field'.cursor = k.cursor
      /\ field'.selected = k.selected /\ field'.selecting = k.selecting
  BY <1>1, <1>2, <1>3, RefreshedIsTold
<1>5. Reader(field', text') = Played(Reader(field, text), e)
  BY <1>1, <1>3, <1>4 DEF Reader, Reading, Played
<1>6. QED
  BY <1>1, <1>3, <1>4, <1>5 DEF Hears, Listening

CursorAt(l, c) == [l EXCEPT !.cursor = c]

(* An arrow moves the cursor by one glyph, if it can.                      *)
LEMMA ArrowHeard ==
    ASSUME Listening, NEW e,
           \/ e[1] = "left" /\ Y!HearLeft("left")
           \/ e[1] = "right" /\ Y!HearRight("right")
    PROVE  Hears(e)
<1>1. /\ field \in Lines /\ field.cursor \in Nat /\ field.cursor <= field.length
      /\ field.length \in Nat /\ text' = text /\ field.selecting \in BOOLEAN
      /\ field.selecting => field.selected <= field.length
      /\ ~ field.selecting => field.selection = T!NoSelection
  BY SameLine DEF Listening, Told, Lines, Y!HearLeft, Y!HearRight
<1>2. ASSUME NEW c \in Nat, c <= field.length,
             field' = Y!refreshed(CursorAt(field, c)) \/ (c = field.cursor /\ field' = field)
      PROVE  /\ Told(field') /\ field'.length = field.length /\ field'.cursor = c
             /\ field'.selected = field.selected /\ field'.selecting = field.selecting
  <2> DEFINE k == CursorAt(field, c)
  <2>1. /\ k \in Lines /\ k.cursor = c /\ k.length = field.length
        /\ k.selected = field.selected /\ k.selecting = field.selecting
        /\ k.selection = field.selection
    BY <1>1 DEF Lines, CursorAt
  <2> HIDE DEF k
  <2>2. CASE field' = Y!refreshed(k)
    BY <1>1, <1>2, <2>1, <2>2, RefreshedIsTold
  <2>3. CASE c = field.cursor /\ field' = field
    BY <2>3 DEF Listening
  <2>4. QED
    BY <1>2, <2>2, <2>3 DEF k
<1>3. CASE e[1] = "left" /\ Y!HearLeft("left")
  <2> DEFINE c == IF field.cursor > 0 THEN field.cursor - 1 ELSE field.cursor
  <2>1. c \in Nat /\ c <= field.length
    BY <1>1
  <2>2. field' = Y!refreshed(CursorAt(field, c)) \/ (c = field.cursor /\ field' = field)
    BY <1>3 DEF Y!HearLeft, Y!cursorLeft, CursorAt
  <2> HIDE DEF c
  <2>3. /\ Told(field') /\ field'.length = field.length /\ field'.cursor = c
        /\ field'.selected = field.selected /\ field'.selecting = field.selecting
    BY <1>2, <2>1, <2>2
  <2>4. Reader(field', text') = Played(Reader(field, text), e)
    BY <1>1, <1>3, <2>3 DEF Reader, Reading, Played, c
  <2>5. QED
    BY <1>1, <2>3, <2>4 DEF Hears, Listening
<1>4. CASE e[1] = "right" /\ Y!HearRight("right")
  <2> DEFINE c == IF field.cursor < field.length THEN field.cursor + 1 ELSE field.cursor
  <2>1. c \in Nat /\ c <= field.length
    BY <1>1
  <2>2. field' = Y!refreshed(CursorAt(field, c)) \/ (c = field.cursor /\ field' = field)
    BY <1>4 DEF Y!HearRight, Y!cursorRight, CursorAt
  <2> HIDE DEF c
  <2>3. /\ Told(field') /\ field'.length = field.length /\ field'.cursor = c
        /\ field'.selected = field.selected /\ field'.selecting = field.selecting
    BY <1>2, <2>1, <2>2
  <2>4. Reader(field', text') = Played(Reader(field, text), e)
    BY <1>1, <1>4, <2>3 DEF Reader, Reading, Played, c, Listening
  <2>5. QED
    BY <1>1, <2>3, <2>4 DEF Hears, Listening
<1>5. QED
  BY <1>3, <1>4

(* A line that was edited shows no selection, and is not selecting.        *)
LEMMA EditedIsTold ==
    ASSUME NEW b \in Lines, b.cursor <= b.length, b.selection = Y!NoSelection,
           field' = Y!refreshed([b EXCEPT !.selecting = FALSE])
    PROVE  /\ Told(field') /\ field'.length = b.length /\ field'.cursor = b.cursor
           /\ field'.selected = b.selected /\ field'.selecting = FALSE
<1> DEFINE k == [b EXCEPT !.selecting = FALSE]
<1>1. /\ k \in Lines /\ k.length = b.length /\ k.cursor = b.cursor
      /\ k.selected = b.selected /\ k.selecting = FALSE /\ k.selection = T!NoSelection
  BY SameLine DEF Lines
<1> HIDE DEF k
<1>2. QED
  BY <1>1, RefreshedIsTold DEF k

(* What is marked is replaced by some glyphs.                              *)
LEMMA ReplacedMarked ==
    ASSUME Listening, Marked(Reader(field, text)), NEW k \in Nat, NEW c \in Nat,
           c <= Low(Reader(field, text)) + k
    PROVE  LET r == Reader(field, text)
               b == Y!replaced(k, c)
           IN  /\ b \in Lines /\ b.cursor = c /\ b.selected = field.selected
               /\ b.length = Len(text) - (High(r) - Low(r)) + k
               /\ b.selection = Y!NoSelection
               /\ b.cursor <= b.length
<1> DEFINE r == Reader(field, text)
           n == Y!erased(Y!pos1, Y!n1) + k
           none == Y!NoSelection
           b == [field EXCEPT !.length = n, !.selection = none, !.cursor = c]
<1>1. /\ Y!pos1 = Low(r) /\ Y!n1 = High(r) - Low(r)
      /\ Low(r) \in Nat /\ High(r) \in Nat /\ Low(r) <= High(r)
      /\ High(r) <= Len(text)
  BY MarkedInText
<1>2. Len(text) = field.length /\ field \in Lines /\ field.length \in Nat
  BY DEF Listening, Told, Lines
<1>3. Y!replaced(k, c) = b
  BY DEF Y!replaced
<1> HIDE DEF r
<1>4. n = Len(text) - (High(r) - Low(r)) + k /\ n \in Nat /\ c <= n
  BY <1>1, <1>2 DEF Y!erased, r
<1>5. none \in [x : Int, right : Int]
  BY DEF Y!NoSelection
<1> HIDE DEF n, none
<1>6. /\ b \in Lines /\ b.cursor = c /\ b.selected = field.selected
      /\ b.length = n /\ b.selection = none
  BY <1>2, <1>4, <1>5 DEF Lines
<1> HIDE DEF b
<1>7. QED
  BY <1>3, <1>4, <1>6 DEF r, none

LEMMA MovedBackFields ==
    ASSUME NEW l \in Lines, NEW n \in Nat, NEW c \in Nat
    PROVE  LET b == MovedBack(l, n, c)
           IN  /\ b \in Lines /\ b.length = n /\ b.cursor = c
               /\ b.selected = l.selected /\ b.selection = l.selection
  BY DEF MovedBack, Lines

(* The key that deletes takes what is marked, or the glyph before.         *)
LEMMA BackHeard ==
    ASSUME Listening, NEW e, e[1] = "back", Y!HearBack("back")
    PROVE  Hears(e)
<1> DEFINE r == Reader(field, text)
<1>1. /\ Y!isNull(field.selection) <=> ~ Marked(r)
      /\ Y!pos1 = Low(r) /\ Y!n1 = High(r) - Low(r)
      /\ Low(r) \in Nat /\ High(r) \in Nat /\ Low(r) <= High(r)
      /\ Marked(r) => High(r) <= Len(text)
  BY MarkedInText
<1>2. /\ Len(text) = field.length /\ field \in Lines /\ field.length \in Nat
      /\ field.cursor \in Nat /\ field.cursor <= field.length /\ text \in Seq(Y!Characters)
      /\ << >> \in Seq(Y!Characters)
      /\ r.text = text /\ r.cursor = field.cursor /\ r.selected = field.selected
  BY DEF Listening, Told, Lines, Reader, Reading
<1> HIDE DEF r
<1>3. CASE Marked(r)
  <2> DEFINE b == Y!replaced(0, Low(r))
  <2>1. /\ b \in Lines /\ b.cursor = Low(r) /\ b.selected = field.selected
        /\ b.length = Len(text) - (High(r) - Low(r)) /\ b.selection = Y!NoSelection
        /\ b.cursor <= b.length
    <3>1. 0 \in Nat /\ Low(r) <= Low(r) + 0
      BY <1>1
    <3>2. /\ b \in Lines /\ b.cursor = Low(r) /\ b.selected = field.selected
          /\ b.length = Len(text) - (High(r) - Low(r)) + 0 /\ b.selection = Y!NoSelection
          /\ b.cursor <= b.length
      BY <1>1, <1>3, <3>1, ReplacedMarked DEF r
    <3>3. QED
      BY <1>1, <1>2, <3>2
  <2>2. field' = Y!refreshed([b EXCEPT !.selecting = FALSE])
    BY <1>1, <1>3 DEF Y!HearBack, Y!backspaceKey
  <2>3. text' = Between(text, Low(r), High(r), << >>)
    <3>1. Low(r) + (High(r) - Low(r)) = High(r)
      BY <1>1
    <3>2. QED
      BY <1>1, <1>3, <3>1 DEF Y!HearBack, Y!Spliced, Between
  <2> HIDE DEF b
  <2>4. /\ Told(field') /\ field'.length = b.length /\ field'.cursor = b.cursor
        /\ field'.selected = b.selected /\ field'.selecting = FALSE
    BY <2>1, <2>2, EditedIsTold
  <2>5. /\ text' \in Seq(Y!Characters)
        /\ Len(text') = Low(r) + Len(<< >>) + (Len(text) - High(r))
    <3>1. Low(r) \in 0 .. Len(text) /\ High(r) \in Low(r) .. Len(text)
      BY <1>1, <1>2, <1>3
    <3>2. QED
      BY <1>2, <2>3, <3>1, BetweenType
  <2>6. Len(text') = field'.length
    BY <1>1, <1>2, <1>3, <2>1, <2>4, <2>5
  <2>7. Reader(field', text') = Reading(text', Low(r), field.selected, FALSE)
    BY <2>1, <2>4 DEF Reader
  <2>8. Played(r, e) = Reading(text', Low(r), field.selected, FALSE)
    BY <1>2, <1>3, <2>3 DEF Played
  <2>9. QED
    BY <2>4, <2>5, <2>6, <2>7, <2>8 DEF Hears, r
<1>4. CASE ~ Marked(r) /\ field.cursor > 0
  <2> DEFINE b == MovedBack(field, field.length - 1, field.cursor - 1)
  <2>1. /\ b \in Lines /\ b.cursor = field.cursor - 1 /\ b.selected = field.selected
        /\ b.length = field.length - 1 /\ b.selection = field.selection
        /\ b.cursor <= b.length
    <3>1. /\ field.length - 1 \in Nat /\ field.cursor - 1 \in Nat
          /\ field.cursor - 1 <= field.length - 1
      BY <1>2, <1>4
    <3> DEFINE n == field.length - 1  k == field.cursor - 1
    <3>2. b = MovedBack(field, n, k) /\ n \in Nat /\ k \in Nat /\ k <= n
      BY <3>1
    <3> HIDE DEF n, k, b
    <3>3. /\ b \in Lines /\ b.length = n /\ b.cursor = k
          /\ b.selected = field.selected /\ b.selection = field.selection
      BY <1>2, <3>2, MovedBackFields, ZenonT(30)
    <3>4. QED
      BY <3>2, <3>3 DEF n, k
  <2>2. /\ field' = Y!refreshed([b EXCEPT !.selecting = FALSE])
        /\ b.selection = Y!NoSelection
    BY <1>1, <1>4, <2>1 DEF Y!HearBack, Y!backspaceKey, MovedBack, Y!isNull
  <2>3. text' = Between(text, field.cursor - 1, field.cursor, << >>)
    <3>1. field.cursor - 1 + 1 = field.cursor
      BY <1>2
    <3>2. QED
      BY <1>1, <1>4, <3>1 DEF Y!HearBack, Y!Spliced, Between
  <2> HIDE DEF b
  <2>4. /\ Told(field') /\ field'.length = b.length /\ field'.cursor = b.cursor
        /\ field'.selected = b.selected /\ field'.selecting = FALSE
    BY <2>1, <2>2, EditedIsTold
  <2>5. /\ text' \in Seq(Y!Characters)
        /\ Len(text') = field.cursor - 1 + Len(<< >>) + (Len(text) - field.cursor)
    <3>1. field.cursor - 1 \in 0 .. Len(text) /\ field.cursor \in field.cursor - 1 .. Len(text)
      BY <1>2, <1>4
    <3>2. QED
      BY <1>2, <2>3, <3>1, BetweenType
  <2>6. Len(text') = field'.length
    BY <1>2, <2>1, <2>4, <2>5
  <2>7. Reader(field', text') = Reading(text', field.cursor - 1, field.selected, FALSE)
    BY <2>1, <2>4 DEF Reader
  <2>8. Played(r, e) = Reading(text', field.cursor - 1, field.selected, FALSE)
    BY <1>2, <1>4, <2>3 DEF Played
  <2>9. QED
    BY <2>4, <2>5, <2>6, <2>7, <2>8 DEF Hears, r
<1>5. CASE ~ Marked(r) /\ ~ field.cursor > 0
  <2>1. /\ field' = Y!refreshed([field EXCEPT !.selecting = FALSE])
        /\ field.selection = Y!NoSelection /\ text' = text
    BY <1>1, <1>5 DEF Y!HearBack, Y!backspaceKey, Y!isNull
  <2>2. /\ Told(field') /\ field'.length = field.length /\ field'.cursor = field.cursor
        /\ field'.selected = field.selected /\ field'.selecting = FALSE
    BY <1>2, <2>1, EditedIsTold
  <2>3. Reader(field', text') = Reading(text, field.cursor, field.selected, FALSE)
    BY <2>1, <2>2 DEF Reader
  <2>4. Played(r, e) = Reading(text, field.cursor, field.selected, FALSE)
    BY <1>2, <1>5 DEF Played
  <2>5. QED
    BY <1>2, <2>1, <2>2, <2>3, <2>4 DEF Hears, r
<1>6. QED
  BY <1>3, <1>4, <1>5

(* A letter replaces what is marked, or goes where the cursor is.          *)
LEMMA GlyphHeard ==
    ASSUME Listening, NEW c \in Y!Characters, Head(wire) = <<"glyph", c>>,
           Y!HearCharacter("glyph")
    PROVE  Hears(<<"glyph", c>>)
<1> DEFINE r == Reader(field, text)
<1>1. /\ Y!isNull(field.selection) <=> ~ Marked(r)
      /\ Y!pos1 = Low(r) /\ Y!n1 = High(r) - Low(r)
      /\ Low(r) \in Nat /\ High(r) \in Nat /\ Low(r) <= High(r)
      /\ Marked(r) => High(r) <= Len(text)
  BY MarkedInText
<1>2. /\ Len(text) = field.length /\ field \in Lines /\ field.length \in Nat
      /\ field.cursor \in Nat /\ field.cursor <= field.length /\ text \in Seq(Y!Characters)
      /\ <<c>> \in Seq(Y!Characters) /\ Len(<<c>>) = 1 /\ Head(wire)[2] = c
      /\ r.text = text /\ r.cursor = field.cursor /\ r.selected = field.selected
  BY DEF Listening, Told, Lines, Reader, Reading
<1> HIDE DEF r
<1>3. CASE Marked(r)
  <2> DEFINE b == Y!replaced(1, Low(r) + 1)
  <2>1. /\ b \in Lines /\ b.cursor = Low(r) + 1 /\ b.selected = field.selected
        /\ b.length = Len(text) - (High(r) - Low(r)) + 1 /\ b.selection = Y!NoSelection
        /\ b.cursor <= b.length
    BY <1>1, <1>2, <1>3, ReplacedMarked DEF r
  <2>2. field' = Y!refreshed([b EXCEPT !.selecting = FALSE])
    BY <1>1, <1>3 DEF Y!HearCharacter, Y!glyphKey
  <2>3. text' = Put(text, Low(r), High(r), c)
    <3>1. Low(r) + (High(r) - Low(r)) = High(r)
      BY <1>1
    <3>2. QED
      BY <1>1, <1>2, <1>3, <3>1 DEF Y!HearCharacter, Y!Spliced, Between, Put
  <2> HIDE DEF b
  <2>4. /\ Told(field') /\ field'.length = b.length /\ field'.cursor = b.cursor
        /\ field'.selected = b.selected /\ field'.selecting = FALSE
    BY <2>1, <2>2, EditedIsTold
  <2>5. /\ text' \in Seq(Y!Characters)
        /\ Len(text') = Low(r) + 1 + (Len(text) - High(r))
    <3>1. Low(r) \in 0 .. Len(text) /\ High(r) \in Low(r) .. Len(text)
      BY <1>1, <1>2, <1>3
    <3> DEFINE C == Y!Characters
    <3>2. text \in Seq(C) /\ c \in C
      BY <1>2
    <3> HIDE DEF C
    <3>3. QED
      BY <2>3, <3>1, <3>2, PutType DEF C
  <2>6. Len(text') = field'.length
    BY <1>1, <1>2, <1>3, <2>1, <2>4, <2>5
  <2>7. Reader(field', text') = Reading(text', Low(r) + 1, field.selected, FALSE)
    BY <2>1, <2>4 DEF Reader
  <2>8. Played(r, <<"glyph", c>>) = Reading(text', Low(r) + 1, field.selected, FALSE)
    BY <1>2, <1>3, <2>3 DEF Played, Put
  <2>9. QED
    BY <2>4, <2>5, <2>6, <2>7, <2>8 DEF Hears, r
<1>4. CASE ~ Marked(r)
  <2> DEFINE b == MovedBack(field, field.length + 1, field.cursor + 1)
  <2>1. /\ b \in Lines /\ b.cursor = field.cursor + 1 /\ b.selected = field.selected
        /\ b.length = field.length + 1 /\ b.selection = field.selection
        /\ b.cursor <= b.length
    <3>1. /\ field.length + 1 \in Nat /\ field.cursor + 1 \in Nat
          /\ field.cursor + 1 <= field.length + 1
      BY <1>2, <1>4
    <3> DEFINE n == field.length + 1  k == field.cursor + 1
    <3>2. b = MovedBack(field, n, k) /\ n \in Nat /\ k \in Nat /\ k <= n
      BY <3>1
    <3> HIDE DEF n, k, b
    <3>3. /\ b \in Lines /\ b.length = n /\ b.cursor = k
          /\ b.selected = field.selected /\ b.selection = field.selection
      BY <1>2, <3>2, MovedBackFields
    <3>4. QED
      BY <3>2, <3>3 DEF n, k
  <2>2. /\ field' = Y!refreshed([b EXCEPT !.selecting = FALSE])
        /\ b.selection = Y!NoSelection
    <3>1. Y!isNull(field.selection) /\ field.selection = Y!NoSelection
      BY <1>1, <1>4 DEF Y!isNull
    <3>2. Y!glyphKey
      BY DEF Y!HearCharacter
    <3>3. b = [field EXCEPT !.cursor = field.cursor + 1, !.length = field.length + 1]
      BY DEF MovedBack
    <3> HIDE DEF b
    <3>4. field' = Y!refreshed([b EXCEPT !.selecting = FALSE])
      <4>1. ~ (0 > 0)
        OBVIOUS
      <4>2. QED
        BY <3>1, <3>2, <3>3, <4>1, Zenon DEF Y!glyphKey
    <3>5. QED
      BY <2>1, <3>1, <3>4
  <2>3. text' = Put(text, field.cursor, field.cursor, c)
    <3>1. field.cursor + 0 = field.cursor
      BY <1>2
    <3>2. QED
      BY <1>1, <1>2, <1>4, <3>1 DEF Y!HearCharacter, Y!Spliced, Between, Put
  <2> HIDE DEF b
  <2>4. /\ Told(field') /\ field'.length = b.length /\ field'.cursor = b.cursor
        /\ field'.selected = b.selected /\ field'.selecting = FALSE
    BY <2>1, <2>2, EditedIsTold
  <2>5. /\ text' \in Seq(Y!Characters)
        /\ Len(text') = field.cursor + 1 + (Len(text) - field.cursor)
    <3>1. field.cursor \in 0 .. Len(text) /\ field.cursor \in field.cursor .. Len(text)
      BY <1>2
    <3> DEFINE C == Y!Characters
    <3>2. text \in Seq(C) /\ c \in C
      BY <1>2
    <3> HIDE DEF C
    <3>3. QED
      BY <2>3, <3>1, <3>2, PutType, ZenonT(30) DEF C
  <2>6. Len(text') = field'.length
    BY <1>2, <2>1, <2>4, <2>5
  <2>7. Reader(field', text') = Reading(text', field.cursor + 1, field.selected, FALSE)
    BY <2>1, <2>4 DEF Reader
  <2>8. Played(r, <<"glyph", c>>) = Reading(text', field.cursor + 1, field.selected, FALSE)
    BY <1>2, <1>4, <2>3 DEF Played, Put
  <2>9. QED
    BY <2>4, <2>5, <2>6, <2>7, <2>8 DEF Hears, r
<1>5. QED
  BY <1>3, <1>4

(* The application hears the first key on its way.                         *)
LEMMA HeadHeard ==
    ASSUME Listening, wire \in Seq(Events), Y!Hear
    PROVE  /\ wire # << >> /\ wire' = Tail(wire) /\ Head(wire) \in Events
           /\ Hears(Head(wire))
<1>1. wire # << >> /\ wire' = Tail(wire) /\ Head(wire) \in Events
  BY DEF Y!Hear
<1> DEFINE e == Head(wire)
<1>2. CASE e = <<"shift">>
  <2>1. Y!HearShift("shift") /\ e[1] = "shift"
    BY <1>2 DEF Y!Hear, Y!HearShift, Y!HearLeft, Y!HearRight, Y!HearBack, Y!HearCharacter
  <2>2. QED
    BY <1>1, <2>1, ShiftHeard
<1>3. CASE e = <<"left">> \/ e = <<"right">>
  <2>1. \/ e[1] = "left" /\ Y!HearLeft("left")
        \/ e[1] = "right" /\ Y!HearRight("right")
    BY <1>3 DEF Y!Hear, Y!HearShift, Y!HearLeft, Y!HearRight, Y!HearBack, Y!HearCharacter
  <2>2. QED
    BY <1>1, <2>1, ArrowHeard
<1>4. CASE e = <<"back">>
  <2>1. Y!HearBack("back") /\ e[1] = "back"
    BY <1>4 DEF Y!Hear, Y!HearShift, Y!HearLeft, Y!HearRight, Y!HearBack, Y!HearCharacter
  <2>2. QED
    BY <1>1, <2>1, BackHeard
<1>5. CASE \E c \in Y!Characters : e = <<"glyph", c>>
  <2>1. PICK c \in Y!Characters : e = <<"glyph", c>>
    BY <1>5
  <2>2. Y!HearCharacter("glyph")
    BY <2>1 DEF Y!Hear, Y!HearShift, Y!HearLeft, Y!HearRight, Y!HearBack, Y!HearCharacter
  <2>3. QED
    BY <1>1, <2>1, <2>2, GlyphHeard
<1>6. QED
  BY <1>1, <1>2, <1>3, <1>4, <1>5 DEF Events

(* The first key is heard, and the others lead on from there.              *)
LEMMA LeadsTail ==
    ASSUME NEW w \in Seq(Events), w # << >>, NEW r, NEW s, Leads(r, w, s)
    PROVE  Leads(Played(r, Head(w)), Tail(w), s)
<1>1. PICK f : /\ f[0] = r /\ f[Len(w)] = s
               /\ \A i \in 1 .. Len(w) : f[i] = Played(f[i - 1], w[i])
  BY DEF Leads
<1> DEFINE n == Len(w)  t == Tail(w)
           g == [i \in 0 .. n - 1 |-> f[i + 1]]
<1>2. /\ n \in Nat /\ n >= 1 /\ Len(t) = n - 1
      /\ \A i \in 1 .. n - 1 : t[i] = w[i + 1]
      /\ Head(w) = w[1]
  OBVIOUS
<1> HIDE DEF n, t
<1>3. f[1] = Played(r, Head(w))
  <2>1. 1 \in 1 .. n /\ 1 - 1 = 0
    BY <1>2
  <2>2. f[1] = Played(f[1 - 1], w[1])
    BY <1>1, <2>1 DEF n
  <2>3. QED
    BY <1>1, <1>2, <2>1, <2>2
<1>4. g[0] = Played(r, Head(w))
  BY <1>2, <1>3
<1>5. g[Len(t)] = s
  BY <1>1, <1>2 DEF n
<1>6. ASSUME NEW i \in 1 .. Len(t) PROVE g[i] = Played(g[i - 1], t[i])
  <2>1. i + 1 \in 1 .. n /\ i \in 0 .. n - 1 /\ i - 1 \in 0 .. n - 1 /\ i \in 1 .. n - 1
    BY <1>2
  <2>2. f[i + 1] = Played(f[i + 1 - 1], w[i + 1])
    BY <1>1, <2>1 DEF n
  <2>3. g[i] = f[i + 1] /\ g[i - 1] = f[i] /\ i + 1 - 1 = i /\ t[i] = w[i + 1]
    BY <1>2, <2>1
  <2>4. QED
    BY <2>2, <2>3
<1> HIDE DEF g
<1>7. QED
  BY <1>4, <1>5, <1>6 DEF Leads, t

(* A key that is sent is heard after all that are on their way.            *)
LEMMA LeadsOn ==
    ASSUME NEW w \in Seq(Events), NEW e \in Events, NEW r, NEW s, Leads(r, w, s)
    PROVE  /\ Append(w, e) \in Seq(Events)
           /\ Leads(r, Append(w, e), Played(s, e))
<1>1. PICK f : /\ f[0] = r /\ f[Len(w)] = s
               /\ \A i \in 1 .. Len(w) : f[i] = Played(f[i - 1], w[i])
  BY DEF Leads
<1> DEFINE n == Len(w)  x == Append(w, e)
           g == [i \in 0 .. n + 1 |-> IF i <= n THEN f[i] ELSE Played(s, e)]
<1>2. /\ n \in Nat /\ Len(x) = n + 1 /\ x[n + 1] = e
      /\ \A i \in 1 .. n : x[i] = w[i]
      /\ x \in Seq(Events)
  OBVIOUS
<1> HIDE DEF n, x
<1>3. g[0] = r /\ g[n + 1] = Played(s, e)
  BY <1>1, <1>2
<1>4. ASSUME NEW i \in 1 .. n + 1 PROVE g[i] = Played(g[i - 1], x[i])
  <2>1. CASE i \in 1 .. n
    <3>1. f[i] = Played(f[i - 1], w[i])
      BY <1>1, <2>1 DEF n
    <3>2. g[i] = f[i] /\ g[i - 1] = f[i - 1] /\ x[i] = w[i]
      BY <1>2, <2>1
    <3>3. QED
      BY <3>1, <3>2
  <2>2. CASE i = n + 1
    <3>1. i - 1 = n /\ n \in 0 .. n + 1 /\ n <= n
      BY <1>2, <2>2
    <3>2. g[i - 1] = s
      BY <1>1, <1>2, <3>1 DEF n
    <3>3. QED
      BY <1>2, <1>3, <2>2, <3>2
  <2>3. QED
    BY <1>2, <2>1, <2>2
<1> HIDE DEF g
<1>5. Leads(r, x, Played(s, e))
  BY <1>2, <1>3, <1>4 DEF Leads
<1>6. QED
  BY <1>2, <1>5 DEF x

(* Nothing on its way.                                                     *)
LEMMA LeadsNowhere == ASSUME NEW r, NEW s, Leads(r, << >>, s) PROVE r = s
  BY DEF Leads

(* The keys that accept a letter end the selection behind it.              *)
LEMMA AcceptedArrives ==
    ASSUME NEW C, NEW m \in Seq(C), NEW r, NEW u \in BOOLEAN, Arrived(r, m, u)
    PROVE  Arrived(Played(Played(r, <<"shift">>), <<"right">>), m, FALSE)
<1> DEFINE s == IF r.selecting THEN r.selected ELSE r.cursor
           a == Played(r, <<"shift">>)
           b == Played(a, <<"right">>)
<1>1. Len(m) \in Nat
  OBVIOUS
<1>2. a = Reading(m, r.cursor, s, TRUE)
  BY DEF Played, Arrived
<1> HIDE DEF a
<1>3. a.text = m /\ a.cursor = r.cursor /\ a.selected = s /\ a.selecting = TRUE
  BY <1>2 DEF Reading
<1>4. b = Reading(m, IF r.cursor < Len(m) THEN r.cursor + 1 ELSE r.cursor, s, TRUE)
  BY <1>3 DEF Played
<1> HIDE DEF b
<1>5. /\ b.text = m /\ b.selecting = TRUE /\ b.selected = s
      /\ b.cursor = IF r.cursor < Len(m) THEN r.cursor + 1 ELSE r.cursor
  BY <1>4 DEF Reading
<1>6. s = Len(m) /\ b.cursor = Len(m)
  BY <1>1, <1>5 DEF Arrived
<1>7. QED
  BY <1>5, <1>6 DEF Arrived, a, b

(* A letter that is shown is marked: the next one takes its place.         *)
LEMMA MarkedArrives ==
    ASSUME NEW C, NEW m \in Seq(C), NEW t \in Seq(C), t # << >>, NEW r, NEW c,
           r = Reading(t, Len(t), c, FALSE)
    PROVE  Arrived(Played(Played(r, <<"shift">>), <<"left">>), t, TRUE)
<1> DEFINE a == Played(r, <<"shift">>)
           b == Played(a, <<"left">>)
<1>1. Len(t) \in Nat /\ Len(t) > 0
  OBVIOUS
<1>2. a = Reading(t, Len(t), Len(t), TRUE)
  BY DEF Played, Reading
<1> HIDE DEF a
<1>3. a.text = t /\ a.cursor = Len(t) /\ a.selected = Len(t) /\ a.selecting = TRUE
  BY <1>2 DEF Reading
<1>4. b = Reading(t, Len(t) - 1, Len(t), TRUE)
  BY <1>1, <1>3 DEF Played
<1> HIDE DEF b
<1>5. /\ b.text = t /\ b.cursor = Len(t) - 1 /\ b.selected = Len(t)
      /\ b.selecting = TRUE
  BY <1>4 DEF Reading
<1>6. Arrived(b, t, TRUE)
  BY <1>5 DEF Arrived
<1>7. QED
  BY <1>6 DEF a, b

(* All but the last letter.                                                *)
LEMMA WithoutLast ==
    ASSUME NEW C, NEW m \in Seq(C), m # << >>
    PROVE  /\ SubSeq(m, 1, Len(m) - 1) \in Seq(C)
           /\ Len(SubSeq(m, 1, Len(m) - 1)) = Len(m) - 1
<1>1. Len(m) \in Nat /\ Len(m) > 0
  OBVIOUS
<1> DEFINE n == Len(m) - 1
<1>2. n \in 0 .. Len(m)
  BY <1>1
<1> HIDE DEF n
<1>3. SubSeq(m, 1, n) \in Seq(C) /\ Len(SubSeq(m, 1, n)) = n
  BY <1>2
<1>4. QED
  BY <1>3 DEF n

(* The letter of another key goes behind the text.                         *)
LEMMA LetterArrives ==
    ASSUME NEW C, NEW m \in Seq(C), NEW c \in C, NEW r, Arrived(r, m, FALSE)
    PROVE  LET s == Played(r, <<"glyph", c>>)
           IN  Arrived(Played(Played(s, <<"shift">>), <<"left">>), Append(m, c), TRUE)
<1> DEFINE s == Played(r, <<"glyph", c>>)
           t == Append(m, c)
<1>1. t \in Seq(C) /\ t # << >> /\ Len(t) = Len(m) + 1
  <2>1. t \in Seq(C) /\ Len(t) = Len(m) + 1 /\ Len(m) \in Nat
    OBVIOUS
  <2>2. QED
    BY <2>1
<1>2. Between(m, Len(m), Len(m), <<c>>) = t
  <2>1. SubSeq(m, 1, Len(m)) = m /\ SubSeq(m, Len(m) + 1, Len(m)) = << >>
    OBVIOUS
  <2>2. (m \o <<c>>) \o << >> = Append(m, c)
    OBVIOUS
  <2>3. QED
    BY <2>1, <2>2 DEF Between
<1> HIDE DEF t
<1>3. ~ Marked(r) /\ r.cursor = Len(m) /\ r.text = m
  BY DEF Arrived, Marked
<1>4. s = Reading(t, Len(m) + 1, r.selected, FALSE)
  BY <1>2, <1>3 DEF Played
<1> HIDE DEF s
<1>5. QED
  BY <1>1, <1>4, MarkedArrives DEF s, t

(* Another letter of the same key takes the place of the one that is shown.*)
LEMMA NextArrives ==
    ASSUME NEW C, NEW m \in Seq(C), NEW c \in C, NEW r, Arrived(r, m, TRUE)
    PROVE  LET s == Played(r, <<"glyph", c>>)
           IN  /\ [m EXCEPT ![Len(m)] = c] \in Seq(C)
               /\ Arrived(Played(Played(s, <<"shift">>), <<"left">>),
                          [m EXCEPT ![Len(m)] = c], TRUE)
<1> DEFINE s == Played(r, <<"glyph", c>>)
           t == [m EXCEPT ![Len(m)] = c]
<1>1. m # << >> /\ Len(m) \in Nat /\ Len(m) > 0
  BY DEF Arrived
<1>2. t \in Seq(C) /\ Len(t) = Len(m) /\ t # << >>
  BY <1>1
<1>3. Between(m, Len(m) - 1, Len(m), <<c>>) = t
  <2> DEFINE k == SubSeq(m, 1, Len(m) - 1)
  <2>1. /\ k \in Seq(C) /\ Len(k) = Len(m) - 1
        /\ \A i \in 1 .. Len(m) - 1 : k[i] = m[i]
        /\ SubSeq(m, Len(m) + 1, Len(m)) = << >>
    <3>1. SubSeq(m, Len(m) + 1, Len(m)) = << >>
      OBVIOUS
    <3>2. k \in Seq(C) /\ Len(k) = Len(m) - 1
      BY <1>1, WithoutLast
    <3>3. \A i \in 1 .. Len(m) - 1 : k[i] = m[i]
      BY <1>1
    <3>4. QED
      BY <3>1, <3>2, <3>3
  <2> HIDE DEF k
  <2>2. (k \o <<c>>) \o << >> = Append(k, c)
    BY <2>1
  <2>3. Append(k, c) = t
    <3>1. Append(k, c) \in Seq(C) /\ Len(Append(k, c)) = Len(m)
      BY <1>1, <2>1
    <3>2. \A i \in 1 .. Len(m) : Append(k, c)[i] = t[i]
      BY <1>1, <2>1
    <3> DEFINE x == Append(k, c)
    <3> HIDE DEF x, t
    <3>3. x \in Seq(C) /\ t \in Seq(C) /\ Len(x) = Len(t) /\ \A i \in 1 .. Len(x) : x[i] = t[i]
      BY <1>2, <3>1, <3>2 DEF x
    <3>4. x = t
      BY <3>3
    <3>5. QED
      BY <3>4 DEF x
  <2>4. QED
    BY <2>1, <2>2, <2>3, Zenon DEF Between, k
<1> HIDE DEF t
<1>4. /\ Marked(r) /\ Low(r) = Len(m) - 1 /\ High(r) = Len(m) /\ r.text = m
  BY <1>1 DEF Arrived, Marked, Low, High
<1>5. s = Reading(t, Len(m), r.selected, FALSE)
  <2>1. Len(m) - 1 + 1 = Len(m)
    BY <1>1
  <2>2. QED
    BY <1>3, <1>4, <2>1, ZenonT(30) DEF Played
<1> HIDE DEF s
<1>6. QED
  BY <1>2, <1>5, MarkedArrives DEF s, t

(* The last letter is deleted, if there is one.                            *)
LEMMA ErasedArrives ==
    ASSUME NEW C, NEW m \in Seq(C), NEW r, Arrived(r, m, FALSE)
    PROVE  LET t == IF m = << >> THEN m ELSE SubSeq(m, 1, Len(m) - 1)
           IN  t \in Seq(C) /\ Arrived(Played(r, <<"back">>), t, FALSE)
<1> DEFINE t == IF m = << >> THEN m ELSE SubSeq(m, 1, Len(m) - 1)
           s == Played(r, <<"back">>)
<1>1. ~ Marked(r) /\ r.cursor = Len(m) /\ r.text = m /\ Len(m) \in Nat
  BY DEF Arrived, Marked
<1>2. CASE m = << >>
  <2>1. s = Reading(t, Len(t), r.selected, FALSE)
    BY <1>1, <1>2 DEF Played
  <2>2. t = << >> /\ t \in Seq(C)
    BY <1>2
  <2> HIDE DEF t, s
  <2>3. Arrived(s, t, FALSE)
    BY <2>1 DEF Arrived, Reading
  <2>4. QED
    BY <2>2, <2>3 DEF s, t
<1>3. CASE m # << >>
  <2>1. /\ t \in Seq(C) /\ Len(t) = Len(m) - 1 /\ Len(m) > 0
        /\ SubSeq(m, Len(m) + 1, Len(m)) = << >>
    <3>1. SubSeq(m, Len(m) + 1, Len(m)) = << >>
      OBVIOUS
    <3>2. Len(m) > 0
      BY <1>1, <1>3
    <3>3. t \in Seq(C) /\ Len(t) = Len(m) - 1
      BY <1>3, WithoutLast
    <3>4. QED
      BY <3>1, <3>2, <3>3
  <2>2. Between(m, Len(m) - 1, Len(m), << >>) = t
    <3>1. (t \o << >>) \o << >> = t
      BY <2>1
    <3>2. QED
      BY <1>3, <2>1, <3>1 DEF Between
  <2> HIDE DEF t
  <2>3. s = Reading(t, Len(m) - 1, r.selected, FALSE)
    BY <1>1, <2>1, <2>2, ZenonT(30) DEF Played
  <2> HIDE DEF s
  <2>4. Arrived(s, t, FALSE)
    BY <2>1, <2>3 DEF Arrived, Reading
  <2>5. QED
    BY <2>1, <2>4 DEF s, t
<1>4. QED
  BY <1>2, <1>3

(* Two keys, and three, that are sent after those on their way.            *)
LEMMA TwoMore ==
    ASSUME NEW w \in Seq(Events), NEW a \in Events, NEW b \in Events,
           NEW r, NEW s, Leads(r, w, s)
    PROVE  /\ w \o <<a, b>> \in Seq(Events)
           /\ Leads(r, w \o <<a, b>>, Played(Played(s, a), b))
<1>1. w \o <<a, b>> = Append(Append(w, a), b)
  OBVIOUS
<1> DEFINE v == Append(w, a)
           t == Played(s, a)
<1>2. v \in Seq(Events) /\ Leads(r, v, t)
  BY LeadsOn
<1> HIDE DEF v, t
<1>3. Append(v, b) \in Seq(Events) /\ Leads(r, Append(v, b), Played(t, b))
  BY <1>2, LeadsOn
<1>4. QED
  BY <1>1, <1>3 DEF v, t

(* A letter is sent, and then the selection of it.                         *)
LEMMA LetterSent ==
    ASSUME NEW w \in Seq(Events), NEW c \in Y!Characters, NEW r, NEW s, Leads(r, w, s)
    PROVE  LET x == w \o <<Y!Glyph(c)>> \o Y!ShiftLeft
               g == Played(s, <<"glyph", c>>)
           IN  x \in Seq(Events) /\ Leads(r, x, Played(Played(g, <<"shift">>), <<"left">>))
<1> DEFINE e == <<"glyph", c>>
           a == <<"shift">>
           b == <<"left">>
           g == Played(s, e)
           v == Append(w, e)
<1>1. e \in Events /\ a \in Events /\ b \in Events
  BY DEF Events
<1>2. Y!Glyph(c) = e /\ Y!ShiftLeft = <<a, b>>
  BY DEF Y!Glyph, Y!ShiftLeft
<1> HIDE DEF e, a, b
<1>3. w \o <<e>> = v
  BY <1>1
<1>4. v \in Seq(Events) /\ Leads(r, v, g)
  BY <1>1, LeadsOn
<1> HIDE DEF v, g
<1>5. v \o <<a, b>> \in Seq(Events) /\ Leads(r, v \o <<a, b>>, Played(Played(g, a), b))
  BY <1>1, <1>4, TwoMore
<1>6. QED
  BY <1>2, <1>3, <1>5 DEF a, b, e, g

(* The keys that accept a letter.                                          *)
LEMMA AcceptSent ==
    ASSUME NEW w \in Seq(Events), NEW r, NEW s, Leads(r, w, s)
    PROVE  LET x == w \o Y!ShiftRight
           IN  x \in Seq(Events) /\ Leads(r, x, Played(Played(s, <<"shift">>), <<"right">>))
<1> DEFINE a == <<"shift">>
           b == <<"right">>
<1>1. a \in Events /\ b \in Events
  BY DEF Events
<1>2. w \o Y!ShiftRight = w \o <<a, b>>
  BY DEF Y!ShiftRight
<1> HIDE DEF a, b
<1>3. w \o <<a, b>> \in Seq(Events) /\ Leads(r, w \o <<a, b>>, Played(Played(s, a), b))
  BY <1>1, TwoMore
<1>4. QED
  BY <1>2, <1>3 DEF a, b

(* The keyboard and the line begin with nothing on its way.                *)
LEMMA TypingBegins == ASSUME Y!TypingInit PROVE TypingInv
<1> DEFINE r == Reader(field, text)
<1>1. Tapping
  <2>1. None \notin Keys /\ None # erase
    BY ScreenTypingAssumption DEF Y!TypingAssumption
  <2>2. /\ cycleKey = None /\ cycleCharacter = None /\ modifier = FALSE /\ ticking = FALSE
        /\ symbolState = 1 /\ timer = "idle" /\ helper = "idle" /\ meant \in Seq(Y!Characters)
    BY DEF Y!TypingInit
  <2>3. cycleKey \notin Keys /\ cycleKey # erase /\ helper \notin {"delete", "forget"}
    BY <2>1, <2>2
  <2>4. /\ modifier \in BOOLEAN /\ ticking \in BOOLEAN
        /\ timer \in {"idle", "accept", "finish"}
        /\ helper \in {"idle", "accept", "choose", "delete", "forget"}
    BY <2>2
  <2>5. /\ cycleKey \in Keys \cup {None, erase}
        /\ cycleCharacter \in Y!Characters \cup {None, erase}
        /\ symbolState \in 1 .. 2
    BY <2>2
  <2>6. QED
    BY <2>2, <2>3, <2>4, <2>5 DEF Tapping
<1>2. Listening
  <2>1. field \in Lines /\ field.cursor = 0 /\ field.length = 0 /\ field.selecting = FALSE
        /\ field.selection = Y!NoSelection
    <3>1. Left \in Int
      BY ScreenTypingAssumption DEF Y!TypingAssumption
    <3>2. QED
      BY <3>1 DEF Y!TypingInit, Y!Init, Y!NoSelection, Lines
  <2>2. text = << >>
    BY DEF Y!TypingInit
  <2>3. QED
    BY <2>1, <2>2 DEF Listening, Told
<1>3. wire \in Seq(Events) /\ Len(wire) = 0
  BY DEF Y!TypingInit
<1>4. Leads(r, wire, r)
  <2> DEFINE f == [i \in {0} |-> r]
  <2>1. f[0] = r /\ f[Len(wire)] = r /\ 1 .. Len(wire) = {}
    BY <1>3
  <2> HIDE DEF f
  <2>2. QED
    BY <2>1 DEF Leads
<1>5. Arrived(r, meant, Undecided)
  <2>1. ~ Undecided
    BY ScreenTypingAssumption DEF Y!TypingInit, Y!TypingAssumption, Undecided
  <2>2. r.text = << >> /\ r.cursor = 0 /\ r.selecting = FALSE /\ meant = << >>
    BY DEF Y!TypingInit, Y!Init, Reader, Reading
  <2>3. QED
    BY <2>1, <2>2 DEF Arrived
<1>6. QED
  BY <1>1, <1>2, <1>3, <1>4, <1>5 DEF TypingInv

(* A step of the keyboard: what the application will have heard is again   *)
(* what was chosen.                                                        *)
LEMMA KeyboardSteps ==
    ASSUME TypingInv, Tapping', UNCHANGED <<field, text>>, wire' \in Seq(Events),
           ASSUME NEW r, Leads(Reader(field, text), wire, r), Arrived(r, meant, Undecided)
           PROVE  \E s : Leads(Reader(field, text), wire', s) /\ Arrived(s, meant', Undecided')
    PROVE  TypingInv'
<1>1. PICK r : Leads(Reader(field, text), wire, r) /\ Arrived(r, meant, Undecided)
  BY DEF TypingInv
<1>2. PICK s : Leads(Reader(field, text), wire', s) /\ Arrived(s, meant', Undecided')
  BY <1>1
<1>3. Reader(field, text)' = Reader(field, text)
  BY DEF Reader, Reading
<1>4. Listening'
  BY DEF TypingInv, Listening
<1>5. QED
  BY <1>2, <1>3, <1>4 DEF TypingInv

(* The keyboard sends the keys that accept a letter.                       *)
LEMMA AcceptSteps ==
    ASSUME TypingInv, Tapping', UNCHANGED <<field, text, meant>>, wire' = wire \o Y!ShiftRight,
           ~ Undecided'
    PROVE  TypingInv'
<1>1. wire \in Seq(Events) /\ meant \in Seq(Y!Characters) /\ Undecided \in BOOLEAN
  BY DEF TypingInv, Tapping, Undecided
<1>2. ASSUME NEW r, Leads(Reader(field, text), wire, r), Arrived(r, meant, Undecided)
      PROVE  \E s : Leads(Reader(field, text), wire', s) /\ Arrived(s, meant', Undecided')
  <2>1. Leads(Reader(field, text), wire', Played(Played(r, <<"shift">>), <<"right">>))
    BY <1>1, <1>2, AcceptSent
  <2>2. Arrived(Played(Played(r, <<"shift">>), <<"right">>), meant, FALSE)
    BY <1>1, <1>2, AcceptedArrives
  <2>3. Undecided' = FALSE
    BY DEF Undecided
  <2>4. QED
    BY <2>1, <2>2, <2>3
<1>3. wire' \in Seq(Events)
  <2>1. PICK r : Leads(Reader(field, text), wire, r)
    BY DEF TypingInv
  <2>2. QED
    BY <1>1, <2>1, AcceptSent
<1>4. QED
  BY <1>2, <1>3, KeyboardSteps

(* The keyboard sends nothing.                                             *)
LEMMA SilentSteps ==
    ASSUME TypingInv, Tapping', UNCHANGED <<field, text, meant, wire>>,
           Undecided' = Undecided
    PROVE  TypingInv'
<1>1. wire' \in Seq(Events)
  BY DEF TypingInv
<1>2. QED
  BY <1>1, KeyboardSteps

(* While the main thread is free, the letter of the key that was tapped    *)
(* last may be replaced, and there is one.                                 *)
LEMMA LetterShown ==
    ASSUME TypingInv, Y!mainIsFree
    PROVE  /\ Undecided <=> cycleKey \in Keys
           /\ Undecided => meant # << >>
           /\ cycleKey # erase
<1>1. (Undecided <=> cycleKey \in Keys) /\ cycleKey # erase
  BY DEF Y!mainIsFree, Undecided, TypingInv, Tapping
<1>2. PICK r : Arrived(r, meant, Undecided)
  BY DEF TypingInv
<1>3. QED
  BY <1>1, <1>2 DEF Arrived

(* A key with letters chooses one of its own, in the place of the letter   *)
(* that is shown for this key or behind the text.                          *)
LEMMA LetterChosen ==
    ASSUME TypingInv, NEW key \in Keys, Y!handleCycleKey(key)
    PROVE  /\ cycleCharacter' \in Y!Characters
           /\ meant' \in Seq(Y!Characters)
<1>1. Letters \in Nat \ {0} /\ symbolState \in 1 .. 2
  BY ScreenTypingAssumption DEF TypingInv, Tapping, Y!TypingAssumption
<1>2. <<key, symbolState, 1>> \in Y!Characters
  BY <1>1 DEF Y!Characters
<1>3. CASE cycleKey = key
  <2>1. cycleCharacter \in Y!Characters
    BY <1>3 DEF TypingInv, Tapping
  <2>2. cycleCharacter[3] \in 1 .. Letters
    BY <2>1 DEF Y!Characters
  <2>3. 1 + (cycleCharacter[3] % Letters) \in 1 .. Letters
    <3>1. cycleCharacter[3] % Letters \in 0 .. Letters - 1
      BY <1>1, <2>2
    <3>2. QED
      BY <1>1, <3>1
  <2>4. Y!nextCharacter(key) \in Y!Characters
    BY <1>1, <2>1, <2>3 DEF Y!nextCharacter, Y!Characters
  <2>5. cycleCharacter' = Y!nextCharacter(key) /\ meant' = [meant EXCEPT ![Len(meant)] = cycleCharacter']
    BY <1>3 DEF Y!handleCycleKey
  <2> DEFINE c == cycleCharacter'  C == Y!Characters
  <2>6. c \in C /\ meant \in Seq(C)
    BY <2>4, <2>5 DEF TypingInv, Tapping
  <2> HIDE DEF c, C
  <2>7. meant # << >>
    BY <1>3, LetterShown DEF Y!handleCycleKey
  <2>8. [meant EXCEPT ![Len(meant)] = c] \in Seq(C)
    BY <2>6, <2>7
  <2>9. QED
    BY <2>5, <2>6, <2>8 DEF c, C
<1>4. CASE cycleKey # key
  <2>1. cycleCharacter' = <<key, symbolState, 1>> /\ meant' = Append(meant, cycleCharacter')
    BY <1>4 DEF Y!handleCycleKey
  <2>2. QED
    BY <1>2, <2>1 DEF TypingInv, Tapping
<1>5. QED
  BY <1>3, <1>4

(* The keyboard's own state after a step.                                  *)
LEMMA KeyboardState ==
    ASSUME TypingInv, Y!TypingNext
    PROVE  Tapping'
<1> USE DEF TypingInv
<1>1. None \notin Keys /\ erase \notin Keys /\ None # erase
  BY ScreenTypingAssumption DEF Y!TypingAssumption
<1>2. symbolState \in 1 .. 2 /\ Y!getNextState \in 1 .. 2
  BY DEF Tapping, Y!getNextState
<1>3. ASSUME NEW key, Y!unsetModifier(key)
      PROVE  modifier' \in BOOLEAN /\ symbolState' \in 1 .. 2
  BY <1>2, <1>3 DEF Tapping, Y!unsetModifier
<1>4. ASSUME NEW key \in Keys, Y!handleCycleKey(key) PROVE Tapping'
  <2>1. cycleCharacter' \in Y!Characters
    BY <1>4, LetterChosen
  <2>2. meant' \in Seq(Y!Characters)
    BY <1>4, <2>1, LetterChosen
  <2>3. cycleKey' = key /\ helper' = helper /\ helper = "idle" /\ ticking' = TRUE
    BY <1>4 DEF Y!handleCycleKey, Y!mainIsFree
  <2>4. UNCHANGED <<modifier, symbolState, timer>>
    BY <1>4 DEF Y!handleCycleKey
  <2>5. QED
    BY <1>1, <2>1, <2>2, <2>3, <2>4 DEF Tapping
<1>5. ASSUME Y!pressSlot PROVE Tapping'
  <2>1. symbolState' \in 1 .. 2 /\ UNCHANGED <<cycleCharacter, timer, helper, meant>>
    BY <1>2, <1>5 DEF Y!pressSlot
  <2>2. CASE symbolState = 1
    <3>1. /\ cycleKey' = None /\ modifier' = TRUE
          /\ ticking' = (ticking /\ cycleKey = None)
      BY <1>5, <2>2 DEF Y!pressSlot
    <3>2. ticking' \in BOOLEAN
      BY <3>1
    <3>3. QED
      BY <1>1, <2>1, <3>1, <3>2 DEF Tapping
  <2>3. CASE symbolState # 1
    <3>1. UNCHANGED <<ticking, cycleKey, modifier>>
      BY <1>5, <2>3 DEF Y!pressSlot
    <3>2. QED
      BY <2>1, <3>1 DEF Tapping
  <2>4. QED
    BY <2>2, <2>3
<1>6. ASSUME Y!HoldDelete PROVE Tapping'
  <2>1. helper' \in {"choose", "accept"} /\ helper = "idle"
    BY <1>6 DEF Y!HoldDelete, Y!mainIsFree
  <2>2. UNCHANGED <<cycleKey, cycleCharacter, modifier, symbolState, ticking, timer, meant>>
    BY <1>6 DEF Y!HoldDelete, Y!keyVars
  <2>3. QED
    BY <2>1, <2>2 DEF Tapping
<1>7. ASSUME Y!Accept PROVE Tapping'
  <2>1. /\ helper = "accept" /\ helper' = "choose"
        /\ UNCHANGED <<cycleKey, cycleCharacter, ticking, timer, meant>>
        /\ Y!unsetModifier(cycleKey)
    BY <1>7 DEF Y!Accept
  <2>2. modifier' \in BOOLEAN /\ symbolState' \in 1 .. 2
    BY <1>3, <2>1
  <2>3. QED
    BY <2>1, <2>2 DEF Tapping
<1>8. ASSUME Y!Choose PROVE Tapping'
  <2>1. /\ helper' = "delete" /\ cycleKey' = erase /\ cycleCharacter' = erase
        /\ UNCHANGED <<modifier, symbolState, ticking, timer, meant>>
    BY <1>8 DEF Y!Choose
  <2>2. QED
    BY <1>1, <2>1 DEF Tapping
<1>9. ASSUME Y!Delete PROVE Tapping'
  <2>1. /\ helper = "delete" /\ helper' = "forget"
        /\ UNCHANGED <<cycleKey, cycleCharacter, ticking, timer>>
        /\ Y!unsetModifier(cycleKey)
        /\ meant' = IF meant = << >> THEN meant ELSE SubSeq(meant, 1, Len(meant) - 1)
    BY <1>9 DEF Y!Delete
  <2>2. modifier' \in BOOLEAN /\ symbolState' \in 1 .. 2
    BY <1>3, <2>1
  <2>3. meant' \in Seq(Y!Characters)
    BY <2>1, WithoutLast DEF Tapping
  <2>4. QED
    BY <2>1, <2>2, <2>3 DEF Tapping
<1>10. ASSUME Y!Forget PROVE Tapping'
  <2>1. /\ helper' = "idle" /\ ticking' = FALSE /\ cycleKey' = None
        /\ UNCHANGED <<cycleCharacter, modifier, symbolState, timer, meant>>
    BY <1>10 DEF Y!Forget
  <2>2. QED
    BY <1>1, <2>1 DEF Tapping
<1>11. ASSUME Y!Expire PROVE Tapping'
  <2>1. timer' = "accept" /\ UNCHANGED <<cycleKey, cycleCharacter, modifier, symbolState,
                                         ticking, helper, meant>>
    BY <1>11 DEF Y!Expire, Y!keyVars
  <2>2. QED
    BY <2>1 DEF Tapping
<1>12. ASSUME Y!AcceptLetter PROVE Tapping'
  <2>1. /\ timer' = "finish" /\ UNCHANGED <<cycleKey, cycleCharacter, ticking, helper, meant>>
        /\ Y!unsetModifier(cycleKey)
    BY <1>12 DEF Y!AcceptLetter
  <2>2. modifier' \in BOOLEAN /\ symbolState' \in 1 .. 2
    BY <1>3, <2>1
  <2>3. QED
    BY <2>1, <2>2 DEF Tapping
<1>13. ASSUME Y!FinishLetter PROVE Tapping'
  <2>1. /\ timer' = "idle" /\ modifier' = FALSE /\ cycleKey' = None
        /\ UNCHANGED <<cycleCharacter, ticking, helper, meant>>
        /\ symbolState' = IF modifier THEN Y!getNextState ELSE symbolState
    BY <1>13 DEF Y!FinishLetter
  <2>2. symbolState' \in 1 .. 2
    BY <1>2, <2>1
  <2>3. QED
    BY <1>1, <2>1, <2>2 DEF Tapping
<1>14. ASSUME Y!Hear PROVE Tapping'
  <2>1. UNCHANGED <<cycleKey, cycleCharacter, modifier, symbolState, ticking, timer, helper, meant>>
    BY <1>14 DEF Y!Hear, Y!keyVars
  <2>2. QED
    BY <2>1 DEF Tapping
<1>15. QED
  BY <1>4, <1>5, <1>6, <1>7, <1>8, <1>9, <1>10, <1>11, <1>12, <1>13, <1>14 DEF Y!TypingNext

(* A step of the keyboard or of the application.                           *)
LEMMA TypingStep == ASSUME TypingInv, Y!TypingNext PROVE TypingInv'
<1>1. Tapping' /\ None \notin Keys /\ erase \notin Keys
  BY KeyboardState, ScreenTypingAssumption DEF Y!TypingAssumption
<1> DEFINE h == Reader(field, text)
<1>2. wire \in Seq(Events) /\ meant \in Seq(Y!Characters) /\ Tapping /\ Listening
  BY DEF TypingInv, Tapping
<1>3. ASSUME NEW key \in Keys, Y!handleCycleKey(key) PROVE TypingInv'
  <2> DEFINE c == cycleCharacter'
             w == IF cycleKey \in {None, key} THEN wire ELSE wire \o Y!ShiftRight
             x == w \o <<Y!Glyph(c)>> \o Y!ShiftLeft
  <2>1. c \in Y!Characters
    BY <1>3, LetterChosen
  <2>2. /\ Y!mainIsFree /\ cycleKey' = key
        /\ UNCHANGED <<timer, helper, field, text>>
        /\ IF cycleKey = key THEN meant' = [meant EXCEPT ![Len(meant)] = c]
           ELSE meant' = Append(meant, c)
    BY <1>3 DEF Y!handleCycleKey
  <2>3. (Undecided <=> cycleKey \in Keys) /\ cycleKey # erase /\ Undecided' = TRUE
    BY <1>3, <2>2, LetterShown DEF Undecided, Y!mainIsFree
  <2>4. wire' = x
    <3>1. wire \o << >> = wire
      BY <1>2
    <3>2. wire' = wire \o (IF cycleKey \in {None, key} THEN << >> ELSE Y!ShiftRight)
                       \o <<Y!Glyph(c)>> \o Y!ShiftLeft
      BY <1>3 DEF Y!handleCycleKey
    <3> HIDE DEF c
    <3>3. QED
      BY <3>1, <3>2
  <2> HIDE DEF x, c
  <2>5. ASSUME NEW r, Leads(h, wire, r), Arrived(r, meant, Undecided)
        PROVE  /\ x \in Seq(Events)
               /\ \E s : Leads(h, x, s) /\ Arrived(s, meant', TRUE)
    <3> DEFINE a == Played(Played(r, <<"shift">>), <<"right">>)
               b == IF cycleKey \in {None, key} THEN r ELSE a
               s == Played(Played(Played(b, <<"glyph", c>>), <<"shift">>), <<"left">>)
    <3>1. w \in Seq(Events) /\ Leads(h, w, b)
      <4>1. CASE cycleKey \in {None, key}
        BY <1>2, <2>5, <4>1
      <4>2. CASE cycleKey \notin {None, key}
        <5>1. wire \o Y!ShiftRight \in Seq(Events) /\ Leads(h, wire \o Y!ShiftRight, a)
          BY <1>2, <2>5, AcceptSent
        <5>2. QED
          BY <4>2, <5>1
      <4>3. QED
        BY <4>1, <4>2
    <3>2. Arrived(s, meant', TRUE)
      <4>1. CASE cycleKey = key
        <5>1. b = r /\ Arrived(r, meant, TRUE)
          BY <2>3, <2>5, <4>1
        <5>2. meant' = [meant EXCEPT ![Len(meant)] = c]
          BY <2>2, <4>1
        <5> HIDE DEF b
        <5>3. QED
          BY <1>2, <2>1, <5>1, <5>2, NextArrives
      <4>2. CASE cycleKey # key
        <5>1. Arrived(b, meant, FALSE)
          <6>1. CASE cycleKey = None
            <7>1. Undecided = FALSE /\ b = r
              BY <1>1, <2>3, <6>1 DEF Undecided
            <7>2. QED
              BY <2>5, <7>1
          <6>2. CASE cycleKey # None
            <7>1. Arrived(a, meant, FALSE)
              <8>1. Undecided \in BOOLEAN
                BY DEF Undecided
              <8>2. QED
                BY <1>2, <2>5, <8>1, AcceptedArrives
            <7>2. QED
              BY <4>2, <6>2, <7>1
          <6>3. QED
            BY <6>1, <6>2
        <5>2. meant' = Append(meant, c)
          BY <2>2, <4>2
        <5> HIDE DEF b
        <5>3. QED
          BY <1>2, <2>1, <5>1, <5>2, LetterArrives
      <4>3. QED
        BY <4>1, <4>2
    <3> HIDE DEF b, w, h
    <3>3. x \in Seq(Events) /\ Leads(h, x, s)
      BY <2>1, <3>1, LetterSent DEF x
    <3>4. QED
      BY <3>2, <3>3
  <2>6. wire' \in Seq(Events)
    BY <2>4, <2>5 DEF TypingInv
  <2>7. QED
    BY <1>1, <2>2, <2>3, <2>4, <2>5, <2>6, KeyboardSteps, Zenon
<1>4. ASSUME Y!pressSlot PROVE TypingInv'
  <2>1. Y!mainIsFree /\ UNCHANGED <<timer, helper, field, text, meant>>
    BY <1>4 DEF Y!pressSlot
  <2>2. CASE symbolState = 1 /\ cycleKey # None
    <3>1. wire' = wire \o Y!ShiftRight /\ cycleKey' = None
      BY <1>4, <2>2 DEF Y!pressSlot
    <3>2. ~ Undecided'
      BY <1>1, <3>1 DEF Undecided
    <3>3. QED
      BY <1>1, <2>1, <3>1, <3>2, AcceptSteps
  <2>3. CASE ~ (symbolState = 1 /\ cycleKey # None)
    <3>1. wire' = wire /\ cycleKey' = cycleKey
      <4>1. wire \o << >> = wire
        BY <1>2
      <4>2. QED
        BY <1>4, <2>3, <4>1 DEF Y!pressSlot
    <3>2. Undecided' = Undecided
      BY <2>1, <3>1 DEF Undecided
    <3>3. QED
      BY <1>1, <2>1, <3>1, <3>2, SilentSteps
  <2>4. QED
    BY <2>2, <2>3
<1>5. ASSUME Y!HoldDelete PROVE TypingInv'
  <2>1. /\ helper = "idle" /\ helper' = IF cycleKey \in {None, erase} THEN "choose" ELSE "accept"
        /\ UNCHANGED <<cycleKey, timer, wire, field, text, meant>>
    BY <1>5 DEF Y!HoldDelete, Y!mainIsFree, Y!keyVars
  <2>2. Undecided' = Undecided
    BY <1>1, <2>1 DEF Undecided
  <2>3. QED
    BY <1>1, <2>1, <2>2, SilentSteps
<1>6. ASSUME Y!Accept PROVE TypingInv'
  <2>1. helper' = "choose" /\ wire' = wire \o Y!ShiftRight /\ UNCHANGED <<field, text, meant>>
    BY <1>6 DEF Y!Accept
  <2>2. ~ Undecided'
    BY <2>1 DEF Undecided
  <2>3. QED
    BY <1>1, <2>1, <2>2, AcceptSteps
<1>7. ASSUME Y!Choose PROVE TypingInv'
  <2>1. helper = "choose" /\ cycleKey' = erase /\ UNCHANGED <<wire, field, text, meant>>
    BY <1>7 DEF Y!Choose
  <2>2. Undecided' = Undecided
    BY <1>1, <2>1 DEF Undecided
  <2>3. QED
    BY <1>1, <2>1, <2>2, SilentSteps
<1>8. ASSUME Y!Delete PROVE TypingInv'
  <2> DEFINE e == <<"back">>
             C == Y!Characters
  <2>1. /\ helper = "delete" /\ cycleKey' = cycleKey /\ UNCHANGED <<field, text>>
        /\ wire' = Append(wire, e)
        /\ meant' = IF meant = << >> THEN meant ELSE SubSeq(meant, 1, Len(meant) - 1)
    BY <1>8 DEF Y!Delete
  <2>2. cycleKey \notin Keys
    BY <1>2, <2>1 DEF Tapping
  <2>3. ~ Undecided /\ ~ Undecided'
    BY <2>1, <2>2 DEF Undecided
  <2>4. e \in Events
    BY DEF Events
  <2> HIDE DEF C
  <2>5. ASSUME NEW r, Leads(h, wire, r), Arrived(r, meant, Undecided)
        PROVE  \E s : Leads(h, wire', s) /\ Arrived(s, meant', Undecided')
    <3>1. Leads(h, wire', Played(r, e))
      BY <1>2, <2>1, <2>4, <2>5, LeadsOn
    <3>2. Arrived(r, meant, FALSE) /\ Undecided' = FALSE
      BY <2>3, <2>5 DEF Undecided
    <3>3. Arrived(Played(r, e), meant', FALSE)
      BY <1>2, <2>1, <3>2, ErasedArrives
    <3>4. QED
      BY <3>1, <3>2, <3>3
  <2>6. wire' \in Seq(Events)
    BY <1>2, <2>1, <2>4
  <2>7. QED
    BY <1>1, <2>1, <2>5, <2>6, KeyboardSteps, Zenon
<1>9. ASSUME Y!Forget PROVE TypingInv'
  <2>1. /\ helper = "forget" /\ cycleKey' = None /\ UNCHANGED <<wire, field, text, meant>>
    BY <1>9 DEF Y!Forget
  <2>2. cycleKey \notin Keys
    BY <1>2, <2>1 DEF Tapping
  <2>3. Undecided' = Undecided
    BY <1>1, <2>1, <2>2 DEF Undecided
  <2>4. QED
    BY <1>1, <2>1, <2>3, SilentSteps
<1>10. ASSUME Y!Expire PROVE TypingInv'
  <2>1. /\ timer = "idle" /\ timer' = "accept"
        /\ UNCHANGED <<cycleKey, helper, wire, field, text, meant>>
    BY <1>10 DEF Y!Expire, Y!keyVars
  <2>2. Undecided' = Undecided
    BY <2>1 DEF Undecided
  <2>3. QED
    BY <1>1, <2>1, <2>2, SilentSteps
<1>11. ASSUME Y!AcceptLetter PROVE TypingInv'
  <2>1. timer' = "finish" /\ wire' = wire \o Y!ShiftRight /\ UNCHANGED <<field, text, meant>>
    BY <1>11 DEF Y!AcceptLetter
  <2>2. ~ Undecided'
    BY <2>1 DEF Undecided
  <2>3. QED
    BY <1>1, <2>1, <2>2, AcceptSteps
<1>12. ASSUME Y!FinishLetter PROVE TypingInv'
  <2>1. timer = "finish" /\ cycleKey' = None /\ UNCHANGED <<wire, field, text, meant>>
    BY <1>12 DEF Y!FinishLetter
  <2>2. Undecided' = Undecided
    BY <1>1, <2>1 DEF Undecided
  <2>3. QED
    BY <1>1, <2>1, <2>2, SilentSteps
<1>13. ASSUME Y!Hear PROVE TypingInv'
  <2>1. /\ wire # << >> /\ wire' = Tail(wire) /\ Head(wire) \in Events /\ Hears(Head(wire))
    BY <1>2, <1>13, HeadHeard
  <2>2. UNCHANGED <<cycleKey, timer, helper, meant>>
    BY <1>13 DEF Y!Hear, Y!keyVars
  <2>3. Undecided' = Undecided
    BY <2>2 DEF Undecided
  <2>4. PICK r : Leads(h, wire, r) /\ Arrived(r, meant, Undecided)
    BY DEF TypingInv
  <2>5. Leads(Played(h, Head(wire)), Tail(wire), r)
    BY <1>2, <2>1, <2>4, LeadsTail
  <2>6. Leads(Reader(field', text'), wire', r) /\ Arrived(r, meant', Undecided')
    BY <2>1, <2>2, <2>3, <2>4, <2>5 DEF Hears
  <2>7. Listening' /\ wire' \in Seq(Events)
    BY <1>2, <2>1 DEF Hears, Listening
  <2>8. QED
    BY <1>1, <2>6, <2>7 DEF TypingInv
<1>14. QED
  BY <1>3, <1>4, <1>5, <1>6, <1>7, <1>8, <1>9, <1>10, <1>11, <1>12, <1>13 DEF Y!TypingNext

(* When all is heard and nobody is in a call, the text is what was chosen. *)
LEMMA TypingInvTyped == ASSUME TypingInv PROVE Y!TypingTypeOK /\ Y!Typed
<1>1. Y!TypingTypeOK
  BY DEF TypingInv, Tapping, Listening, Y!TypingTypeOK
<1>2. Y!Typed
  <2> SUFFICES ASSUME wire = << >>, timer = "idle", helper = "idle"
               PROVE  /\ text = meant
                      /\ IF cycleKey \in Keys
                         THEN ~ Y!isNull(field.selection) /\ Y!pos1 = Len(text) - 1 /\ Y!n1 = 1
                         ELSE Y!isNull(field.selection) /\ field.cursor = Len(text)
    BY DEF Y!Typed
  <2> DEFINE r == Reader(field, text)
  <2>1. Leads(r, << >>, r) /\ Arrived(r, meant, Undecided)
    BY LeadsNowhere DEF TypingInv
  <2>2. /\ Listening /\ Len(text) \in Nat
        /\ r.text = text /\ r.cursor = field.cursor /\ r.selected = field.selected
        /\ r.selecting = field.selecting
    BY DEF TypingInv, Listening, Reader, Reading
  <2>3. /\ Y!isNull(field.selection) <=> ~ Marked(r)
        /\ Y!pos1 = Low(r) /\ Y!n1 = High(r) - Low(r)
    BY <2>2, MarkedInText
  <2>4. Undecided <=> cycleKey \in Keys
    BY DEF Undecided
  <2> HIDE DEF r
  <2>5. text = meant
    BY <2>1, <2>2 DEF Arrived
  <2>6. CASE cycleKey \in Keys
    BY <2>1, <2>2, <2>3, <2>4, <2>5, <2>6 DEF Arrived, Marked, Low, High
  <2>7. CASE cycleKey \notin Keys
    BY <2>1, <2>2, <2>3, <2>4, <2>5, <2>7 DEF Arrived, Marked
  <2>8. QED
    BY <2>5, <2>6, <2>7
<1>3. QED
  BY <1>1, <1>2

(* A step that changes nothing of the typing.                              *)
LEMMA TypingStutters == ASSUME TypingInv, UNCHANGED typingVars PROVE TypingInv'
<1>1. UNCHANGED <<cycleKey, cycleCharacter, modifier, symbolState, ticking, timer, helper,
                  wire, field, text, meant>>
  BY DEF typingVars
<1>2. Tapping'
  BY <1>1 DEF TypingInv, Tapping
<1>3. Undecided' = Undecided
  BY <1>1 DEF Undecided
<1>4. QED
  BY <1>1, <1>2, <1>3, SilentSteps

(***************************************************************************)
(* The caret in view.  A line is scrolled by the width of a glyph or two,  *)
(* or by ten pixels near the end of the text; that is enough, and not too  *)
(* much, for glyphs and fields of certain widths.                          *)
(***************************************************************************)
Follows ==
    /\ Advance >= 1 /\ Advance <= 10 /\ Advance <= Visible
    /\ 2 * Advance <= Visible + Left + 2 /\ Visible + Left >= 9

(* A place in the text is so many glyphs from where the text begins.       *)
LEMMA PlaceOf ==
    ASSUME NEW l \in Lines, NEW i \in 0 .. l.length
    PROVE  T!cursorPositon(l, i) = l.x + i * Advance
<1>1. Advance \in Nat /\ l.length \in Nat /\ l.x \in Int
  BY ScreenTextAssumption DEF T!LineAssumption, Lines
<1>2. CASE i = 0
  <2>1. i * Advance = 0
    BY <1>1, <1>2
  <2>2. QED
    BY <1>1, <1>2, <2>1 DEF T!cursorPositon
<1>3. CASE i # 0
  BY <1>1, <1>3 DEF T!cursorPositon
<1>4. QED
  BY <1>2, <1>3

(* A text that is scrolled for a cursor in it, less than a glyph from what *)
(* is in view, shows the cursor.                                           *)
LEMMA ScrolledShows ==
    ASSUME Follows, NEW l, Sound(l),
           LET x == l.x + l.cursor * Advance
           IN  x >= 0 - Advance /\ x <= Visible + Left + Advance
    PROVE  LET m == T!updateCursorPosition(l)
           IN  m.caret >= 0 /\ m.caret <= Visible + Left
<1> DEFINE c == l.cursor  n == l.length  m == T!updateCursorPosition(l)
           p == c * Advance  q == n * Advance  x == l.x + p
           y == T!scrolled(l)
<1>1. /\ Advance \in Nat /\ Visible \in Nat /\ Left \in Nat
      /\ c \in Nat /\ n \in Nat /\ c <= n /\ l.x \in Int /\ l \in Lines
  BY ScreenTextAssumption DEF T!LineAssumption, Sound, Lines
<1>2. p \in Nat /\ q \in Nat /\ p <= q /\ (c = 0 => p = 0)
  <2>1. \A i, j, a \in Nat : i <= j => i * a \in Nat /\ j * a \in Nat /\ i * a <= j * a
    OBVIOUS
  <2>2. c = 0 => p = 0
    BY <1>1
  <2>3. QED
    BY <1>1, <2>1, <2>2
<1>3. T!cursorPositon(l, c) = x
  BY <1>1, PlaceOf
<1>4. c > 0 => T!cursorPositon(l, c - 1) = x - Advance
  <2>1. (c - 1) * Advance = p - Advance
    BY <1>1
  <2>2. c > 0 => c - 1 \in 0 .. n
    BY <1>1
  <2>3. c > 0 => T!cursorPositon(l, c - 1) = l.x + (c - 1) * Advance
    BY <1>1, <2>2, PlaceOf
  <2> HIDE DEF p, c, n
  <2>4. QED
    BY <1>1, <1>2, <2>1, <2>3
<1>5. c + 2 < n => T!cursorPositon(l, c + 2) = x + 2 * Advance
  <2>1. (c + 2) * Advance = p + 2 * Advance
    BY <1>1
  <2>2. c + 2 < n => c + 2 \in 0 .. n
    BY <1>1
  <2>3. c + 2 < n => T!cursorPositon(l, c + 2) = l.x + (c + 2) * Advance
    BY <1>1, <2>2, PlaceOf
  <2> HIDE DEF p, c, n
  <2>4. QED
    BY <1>1, <1>2, <2>1, <2>3
<1>6. m.caret = y + p
  <2> DEFINE moved == [l EXCEPT !.x = y]
  <2>1. y \in Int
    BY ScrolledType DEF Sound
  <2> HIDE DEF y
  <2>2. moved \in Lines /\ moved.x = y /\ moved.length = n
    BY <1>1, <2>1 DEF Lines
  <2>3. m.caret = T!cursorPositon(moved, c)
    <3> DEFINE at == T!cursorPositon(moved, l.cursor)
    <3>1. m = [moved EXCEPT !.caret = at]
      BY DEF T!updateCursorPosition, y
    <3> HIDE DEF at, moved, m
    <3>2. m.caret = at
      BY <2>2, <3>1 DEF Lines
    <3>3. QED
      BY <3>2 DEF at
  <2> HIDE DEF moved
  <2>4. c \in 0 .. moved.length
    BY <1>1, <2>2
  <2>5. QED
    BY <2>2, <2>3, <2>4, PlaceOf
<1>7. x >= 0 - Advance /\ x <= Visible + Left + Advance
  OBVIOUS
<1>8. y = IF c = 0 \/ q <= Visible THEN Left
          ELSE IF c = n THEN Visible - q
          ELSE IF x < Left THEN l.x - (T!cursorPositon(l, c - 1) - x) + 1
          ELSE IF x <= Visible + Left THEN l.x
          ELSE IF c + 2 < n THEN l.x - (T!cursorPositon(l, c + 2) - x) + 1
          ELSE l.x - 10
  BY <1>3 DEF T!scrolled
<1>9. /\ c = n => p = q
      /\ Advance >= 1 /\ Advance <= 10 /\ Advance <= Visible
      /\ 2 * Advance <= Visible + Left + 2 /\ Visible + Left >= 9
      /\ x = l.x + p
  BY DEF Follows
<1> HIDE DEF m, c, n, p, q, x, y
<1>10. CASE c = 0 \/ q <= Visible
  BY <1>1, <1>2, <1>6, <1>8, <1>9, <1>10 DEF m
<1>11. CASE c # 0 /\ ~ q <= Visible /\ c = n
  BY <1>1, <1>2, <1>6, <1>8, <1>9, <1>11 DEF m
<1>12. CASE c # 0 /\ ~ q <= Visible /\ c # n /\ x < Left
  <2>1. y = l.x + Advance + 1
    <3>1. T!cursorPositon(l, c - 1) = x - Advance
      BY <1>1, <1>4, <1>12
    <3>2. y = l.x - (T!cursorPositon(l, c - 1) - x) + 1
      BY <1>8, <1>12
    <3>3. QED
      BY <1>1, <1>2, <1>9, <3>1, <3>2
  <2>2. m.caret = x + Advance + 1
    BY <1>1, <1>2, <1>6, <1>9, <2>1
  <2>3. QED
    BY <1>1, <1>2, <1>7, <1>9, <1>12, <2>2 DEF m
<1>13. CASE c # 0 /\ ~ q <= Visible /\ c # n /\ ~ x < Left /\ x <= Visible + Left
  <2>1. m.caret = x
    BY <1>1, <1>2, <1>6, <1>8, <1>9, <1>13
  <2>2. QED
    BY <1>1, <1>2, <1>9, <1>13, <2>1 DEF m
<1>14. CASE /\ c # 0 /\ ~ q <= Visible /\ c # n /\ ~ x < Left /\ ~ x <= Visible + Left
            /\ c + 2 < n
  <2>1. y = l.x - 2 * Advance + 1
    <3>1. y = l.x - (T!cursorPositon(l, c + 2) - x) + 1
      BY <1>8, <1>14
    <3>2. QED
      BY <1>1, <1>2, <1>5, <1>9, <1>14, <3>1
  <2>2. m.caret = x - 2 * Advance + 1
    BY <1>1, <1>2, <1>6, <1>9, <2>1
  <2>3. QED
    BY <1>1, <1>2, <1>7, <1>9, <1>14, <2>2 DEF m
<1>15. CASE /\ c # 0 /\ ~ q <= Visible /\ c # n /\ ~ x < Left /\ ~ x <= Visible + Left
            /\ ~ c + 2 < n
  <2>1. m.caret = x - 10
    BY <1>1, <1>2, <1>6, <1>8, <1>9, <1>15
  <2>2. QED
    BY <1>1, <1>2, <1>7, <1>9, <1>15, <2>1 DEF m
<1>16. QED
  BY <1>10, <1>11, <1>12, <1>13, <1>14, <1>15

(* A refresh draws the caret where the scrolled line has it.               *)
LEMMA RefreshKeepsPlace ==
    ASSUME NEW l, Sound(l)
    PROVE  LET k == T!refreshed(l)  m == T!updateCursorPosition(l)
           IN  k.caret = m.caret /\ k.cursor = m.cursor /\ k.length = m.length
<1> DEFINE m == T!updateCursorPosition(l)
           at == T!cursorPositon(m, m.selected)
<1>1. m \in Lines /\ T!refreshed(l) = T!updateSelectionRect(m)
  BY CaretDrawn DEF T!refreshed, Sound
<1> HIDE DEF m
<1>2. ASSUME NEW v
      PROVE  LET k == [m EXCEPT !.selection = v]
             IN  k.caret = m.caret /\ k.cursor = m.cursor /\ k.length = m.length
  BY <1>1 DEF Lines
<1>3. \/ T!refreshed(l) = m
      \/ \E v : T!refreshed(l) = [m EXCEPT !.selection = v]
  BY <1>1 DEF T!updateSelectionRect
<1>4. QED
  BY <1>2, <1>3 DEF m

(* A step of a line whose caret is in view.                                *)
LEMMA CaretStep == ASSUME Follows, Drawn(line), T!Next PROVE T!CaretFollowed
<1> SUFFICES ASSUME T!InView(line), T!Near(line.cursor, line'.cursor),
                    T!Near(line.length, line'.length)
             PROVE  T!InView(line')
  BY DEF T!CaretFollowed
<1>1. /\ Sound(line) /\ line \in Lines /\ line.cursor \in 0 .. line.length
      /\ line.caret = T!cursorPositon(line, line.cursor)
      /\ line.x \in Int /\ line.caret \in Int /\ line.cursor \in Nat /\ Advance \in Nat
      /\ Visible \in Nat /\ Left \in Nat
  BY ScreenTextAssumption DEF T!LineAssumption, Drawn, Sound, Lines
<1>2. /\ line.caret = line.x + line.cursor * Advance
      /\ line.caret >= 0 /\ line.caret <= Visible + Left
  BY <1>1, PlaceOf DEF T!InView
<1>3. ASSUME NEW l, Still(l), l.cursor = line'.cursor
      PROVE  LET m == T!updateCursorPosition(l)
             IN  m.caret >= 0 /\ m.caret <= Visible + Left
  <2>1. Sound(l) /\ l.x = line.x /\ l.cursor \in Nat
    BY <1>3 DEF Still, Sound, Lines
  <2> DEFINE a == line.cursor  b == l.cursor
  <2>2. a \in Nat /\ b \in Nat /\ (b = a - 1 \/ b = a \/ b = a + 1)
    BY <1>1, <1>3, <2>1 DEF T!Near
  <2>3. line.caret = line.x + a * Advance /\ l.x = line.x
    BY <1>2, <2>1
  <2>4. (a - 1) * Advance = a * Advance - Advance /\ (a + 1) * Advance = a * Advance + Advance
    BY <1>1
  <2>5. a * Advance \in Int
    BY <1>1
  <2> DEFINE p == a * Advance
  <2>6. /\ line.caret = l.x + p /\ p \in Int
        /\ b * Advance = p - Advance \/ b * Advance = p \/ b * Advance = p + Advance
    BY <2>2, <2>3, <2>4, <2>5
  <2> DEFINE r == b * Advance
  <2>7. r \in {p - Advance, p, p + Advance}
    BY <2>6
  <2> HIDE DEF p, r, a
  <2>8. l.x + r >= 0 - Advance /\ l.x + r <= Visible + Left + Advance
    BY <1>1, <1>2, <2>1, <2>6, <2>7
  <2>9. QED
    BY <2>1, <2>8, ScrolledShows DEF r
<1>4. ASSUME NEW l, Still(l), line' = T!refreshed(l) PROVE T!InView(line')
  <2> DEFINE m == T!updateCursorPosition(l)
  <2>1. Sound(l) /\ m.cursor = l.cursor
    BY <1>4, CaretDrawn DEF Still
  <2>2. line'.caret = m.caret /\ line'.cursor = l.cursor
    BY <1>4, <2>1, RefreshKeepsPlace
  <2>3. QED
    BY <1>3, <1>4, <2>2 DEF T!InView
<1>5. ASSUME NEW l, Still(l), line' = T!startSelection(T!updateCursorPosition(l))
      PROVE  T!InView(line')
  <2> DEFINE m == T!updateCursorPosition(l)
  <2>1. Sound(m) /\ m.cursor = l.cursor
    BY <1>5, CaretDrawn DEF Still
  <2> HIDE DEF m
  <2>2. line'.caret = m.caret /\ line'.cursor = l.cursor
    BY <1>5, <2>1, SelectionStarts DEF m
  <2>3. QED
    BY <1>3, <1>5, <2>2 DEF T!InView, m
<1>6. ASSUME \/ line' = [line EXCEPT !.selecting = FALSE]
             \/ line' = [line EXCEPT !.selection = T!NoSelection]
      PROVE  T!InView(line')
  <2>1. line'.caret = line.caret
    BY <1>1, <1>6 DEF Lines
  <2>2. QED
    BY <1>2, <2>1 DEF T!InView
<1>7. QED
  BY <1>4, <1>5, <1>6, LineMoves

(***************************************************************************)
(* A cursor that is in view stays in view when it goes by one glyph, for   *)
(* every text, if a glyph is not wider than the ten pixels by which the    *)
(* text is moved near its end, nor than the field, and two glyphs are      *)
(* hardly wider than the field with its frame.                             *)
(***************************************************************************)
THEOREM CaretStaysInView == ASSUME Follows PROVE ScreensSpec => CaretFollowed
<1> DEFINE Inv == part = "text" => Drawn(line)
           Follow == part = "text" => T!CaretFollowed
<1>1. ScreensInit => Inv
  BY LineBegins DEF ScreensInit
<1>2. Inv /\ [ScreensNext]_all => Inv'
  <2> SUFFICES ASSUME Inv, [ScreensNext]_all, part' = "text" PROVE Drawn(line')
    OBVIOUS
  <2>1. part = "text" /\ [T!Next]_line
    BY DEF ScreensNext, Others, all
  <2>2. QED
    BY <2>1, LineStep
<1>3. Inv /\ [ScreensNext]_all => [Follow]_line
  <2> SUFFICES ASSUME Inv, [ScreensNext]_all, line' # line, part = "text" PROVE T!CaretFollowed
    OBVIOUS
  <2>1. T!Next
    BY DEF ScreensNext, Others, all
  <2>2. QED
    BY <2>1, CaretStep
<1>4. QED
  BY <1>1, <1>2, <1>3, PTL DEF ScreensSpec, CaretFollowed

(***************************************************************************)
(* For any font, field and pointer: the cursor stays in the text and is    *)
(* drawn where it is, and while the user selects, what is shown as         *)
(* selected is what a glyph would replace.  For any keys and letters:      *)
(* when all that the keyboard sent is heard, the text is the letters that  *)
(* were chosen, and what is selected is the one that may be replaced.      *)
(***************************************************************************)
THEOREM TextIsKept == ScreensSpec => []TextKept
<1> DEFINE TextInv == part = "text" => Drawn(line)
           KeysInv == part = "typing" => TypingInv
<1>1. ScreensInit => TextInv /\ KeysInv
  BY LineBegins, TypingBegins DEF ScreensInit
<1>2. TextInv /\ KeysInv /\ [ScreensNext]_all => (TextInv /\ KeysInv)'
  <2> SUFFICES ASSUME TextInv, KeysInv, [ScreensNext]_all PROVE (TextInv /\ KeysInv)'
    OBVIOUS
  <2>1. ASSUME part' = "text" PROVE Drawn(line')
    <3>1. part = "text" /\ [T!Next]_line
      BY <2>1 DEF ScreensNext, Others, all
    <3>2. QED
      BY <3>1, LineStep
  <2>2. ASSUME part' = "typing" PROVE TypingInv'
    <3>1. part = "typing" /\ (Y!TypingNext \/ UNCHANGED typingVars)
      BY <2>2 DEF ScreensNext, Others, all
    <3>2. CASE Y!TypingNext
      BY <3>1, <3>2, TypingStep
    <3>3. CASE UNCHANGED typingVars
      BY <3>1, <3>3, TypingStutters
    <3>4. QED
      BY <3>1, <3>2, <3>3
  <2>3. QED
    BY <2>1, <2>2
<1>3. TextInv /\ KeysInv => TextKept
  <2> SUFFICES ASSUME Drawn(line) PROVE T!CursorKept
    BY TypingInvTyped DEF TextKept
  <2>1. line.cursor \in Nat /\ line.selected \in Nat
    BY DEF Drawn, Sound, Lines
  <2>2. CASE line.selected < line.cursor
    <3>1. T!pos1 = line.selected /\ T!pos1 + T!n1 = line.cursor
      BY <2>1, <2>2 DEF T!pos1, T!n1
    <3>2. QED
      BY <2>1, <2>2, <3>1 DEF Drawn, Sound, Spans, T!CursorKept, T!SelectionCovers, T!isNull
  <2>3. CASE ~ line.selected < line.cursor
    <3>1. T!pos1 = line.cursor /\ T!pos1 + T!n1 = line.selected
      BY <2>1, <2>3 DEF T!pos1, T!n1
    <3>2. QED
      BY <2>1, <2>3, <3>1 DEF Drawn, Sound, Spans, T!CursorKept, T!SelectionCovers, T!isNull
  <2>4. QED
    BY <2>2, <2>3
<1>4. QED
  BY <1>1, <1>2, <1>3, PTL DEF ScreensSpec

-------------------------------------------------------------------------------
(***************************************************************************)
(* The widgets of a window.  Two facts carry the proof: whoever is sought  *)
(* in the tree, by the pointer or by the tab key, is a live widget, and a  *)
(* widget that is removed takes with it what no other widget holds.  Both  *)
(* rest on the tree being part of the one it was at the start, so that the *)
(* recursions over it have an end.                                         *)
(***************************************************************************)

(* The operators of the instance are those the lemmas speak of.            *)
LEMMA SameOps ==
    /\ \A s : F!ToSet(s) = ToSet(s)
    /\ \A s : F!IsInjective(s) <=> IsInjective(s)
    /\ \A s, i : F!RemoveAt(s, i) = RemoveAt(s, i)
<1>1. \A s : F!ToSet(s) = ToSet(s)
  BY DEF F!ToSet, ToSet
<1>2. \A s : F!IsInjective(s) <=> IsInjective(s)
  BY DEF F!IsInjective, IsInjective
<1>3. \A s, i : F!RemoveAt(s, i) = RemoveAt(s, i)
  BY DEF F!RemoveAt, RemoveAt
<1>4. QED
  BY <1>1, <1>2, <1>3

(* A finite set has a number of elements.                                  *)
LEMMA SameCard == ASSUME NEW X, F!IsFiniteSet(X) PROVE F!Cardinality(X) \in Nat
<1>1. IsFiniteSet(X)
  BY DEF F!IsFiniteSet, IsFiniteSet
<1>2. Cardinality(X) = F!Cardinality(X)
  BY DEF F!Cardinality, Cardinality
<1>3. QED
  BY <1>1, <1>2, FS_CardinalityType

(* The tree of widgets as it is: parts of the tree it was at the start.    *)
Tree ==
    /\ kids \in [Widgets -> Seq(Widgets)]
    /\ live \subseteq Widgets /\ window \in live
    /\ \A w \in Widgets : /\ IsInjective(kids[w])
                          /\ ToSet(kids[w]) \subseteq live \cap ToSet(Kids[w])

(* Ranks that fall from each widget to its children.                       *)
Ranks(rank, n) ==
    /\ rank \in [Widgets -> Nat] /\ n \in Nat
    /\ \A w \in Widgets : rank[w] < n /\ \A v \in ToSet(Kids[w]) : rank[v] < rank[w]

(* What is assumed of the widgets, in the operators used here.             *)
LEMMA WidgetsGiven ==
    /\ window \in Widgets /\ None \notin Widgets /\ Diverges \notin Widgets
    /\ None # Diverges /\ \A v \in Widgets \ {window} : \E w \in Widgets : v \in ToSet(Kids[w])
    /\ Kids \in [Widgets -> Seq(Widgets)]
    /\ \A w \in Widgets : IsInjective(Kids[w]) /\ window \notin ToSet(Kids[w])
    /\ \A v, w \in Widgets : v # w => ToSet(Kids[v]) \cap ToSet(Kids[w]) = {}
    /\ \A w \in Widgets : ToSet(Kids[w]) \subseteq Widgets
    /\ KeyInput \subseteq Widgets /\ OSKInput \subseteq Widgets
    /\ PointerInput \subseteq Widgets /\ PointerGrabbing \subseteq Widgets
    /\ window \notin Removable /\ Removable \subseteq Widgets
<1>1. /\ window \in Widgets /\ None \notin Widgets /\ Diverges \notin Widgets
      /\ None # Diverges /\ window \notin Removable /\ Removable \subseteq Widgets
  BY ScreenWidgetsAssumption DEF F!WidgetsAssumption
<1>2. /\ KeyInput \subseteq Widgets /\ OSKInput \subseteq Widgets
      /\ PointerInput \subseteq Widgets /\ PointerGrabbing \subseteq Widgets
  BY ScreenWidgetsAssumption DEF F!WidgetsAssumption
<1>3. /\ Kids \in [Widgets -> Seq(Widgets)]
      /\ \A w \in Widgets : IsInjective(Kids[w]) /\ window \notin ToSet(Kids[w])
      /\ \A v, w \in Widgets : v # w => ToSet(Kids[v]) \cap ToSet(Kids[w]) = {}
      /\ \A v \in Widgets \ {window} : \E w \in Widgets : v \in ToSet(Kids[w])
  BY ScreenWidgetsAssumption, SameOps DEF F!WidgetsAssumption
<1>4. \A w \in Widgets : ToSet(Kids[w]) \subseteq Widgets
  BY <1>3 DEF ToSet
<1>5. QED
  BY <1>1, <1>2, <1>3, <1>4

LEMMA RanksExist == \E rank, n : Ranks(rank, n)
<1> DEFINE top == F!Cardinality(Widgets)
<1>1. top \in Nat
  BY ScreenWidgetsAssumption, SameCard DEF F!WidgetsAssumption
<1>2. PICK depth \in [Widgets -> 0 .. top] :
         \A w \in Widgets : \A v \in ToSet(Kids[w]) : depth[w] < depth[v]
  BY ScreenWidgetsAssumption, SameOps DEF F!WidgetsAssumption
<1> HIDE DEF top
<1> DEFINE rank == [w \in Widgets |-> top - depth[w]]
<1>3. \A w \in Widgets : rank[w] \in Nat /\ rank[w] < top + 1
  BY <1>1
<1>4. \A w \in Widgets : \A v \in ToSet(Kids[w]) : rank[v] < rank[w]
  <2> SUFFICES ASSUME NEW w \in Widgets, NEW v \in ToSet(Kids[w]) PROVE rank[v] < rank[w]
    OBVIOUS
  <2>1. v \in Widgets /\ depth[w] < depth[v] /\ depth[w] \in 0 .. top /\ depth[v] \in 0 .. top
    BY <1>2, WidgetsGiven
  <2>2. QED
    BY <1>1, <2>1
<1>5. Ranks(rank, top + 1)
  <2>1. rank \in [Widgets -> Nat] /\ top + 1 \in Nat
    BY <1>1, <1>3
  <2> HIDE DEF rank
  <2>2. QED
    BY <1>3, <1>4, <2>1 DEF Ranks
<1>6. QED
  BY <1>5

(* The recursion of `below` ends, so that it is what it says.              *)
LEMMA BelowIs ==
    ASSUME Tree
    PROVE  F!below = [w \in Widgets |-> {w} \cup UNION {F!below[v] : v \in ToSet(kids[w])}]
<1> DEFINE D == Widgets
           P == SUBSET Widgets
           once(g) == [w \in D |-> {w} \cup UNION {g[v] : v \in ToSet(kids[w])}]
           step == [g \in [D -> P] |-> once(g)]
<1>1. PICK rank, n : Ranks(rank, n)
  BY RanksExist
<1>2. rank \in [D -> Nat] /\ n \in Nat /\ \A x \in D : rank[x] < n
  BY <1>1 DEF Ranks
<1>3. \A w \in D : \A v \in ToSet(kids[w]) : v \in D /\ rank[v] < rank[w]
  BY <1>1 DEF Tree, Ranks
<1>4. step \in [[D -> P] -> [D -> P]]
  <2> SUFFICES ASSUME NEW g \in [D -> P] PROVE once(g) \in [D -> P]
    OBVIOUS
  <2> SUFFICES ASSUME NEW w \in D PROVE {w} \cup UNION {g[v] : v \in ToSet(kids[w])} \in P
    OBVIOUS
  <2>1. \A v \in ToSet(kids[w]) : g[v] \subseteq Widgets
    BY <1>3
  <2>2. QED
    BY <2>1
<1>5. ASSUME NEW g \in [D -> P], NEW h \in [D -> P], NEW x \in D,
             \A y \in D : rank[y] < rank[x] => g[y] = h[y]
      PROVE  step[g][x] = step[h][x]
  <2>1. \A v \in ToSet(kids[x]) : g[v] = h[v]
    BY <1>3, <1>5
  <2>2. {g[v] : v \in ToSet(kids[x])} = {h[v] : v \in ToSet(kids[x])}
    BY <2>1
  <2>3. QED
    BY <2>2
<1>6. [D -> P] # {}
  <2>1. [w \in D |-> {}] \in [D -> P]
    OBVIOUS
  <2>2. QED
    BY <2>1
<1>7. \E g \in [D -> P] : step[g] = g
  <2> HIDE DEF step, D, P
  <2>1. \A g, h \in [D -> P], x \in D :
           (\A y \in D : rank[y] < rank[x] => g[y] = h[y]) => step[g][x] = step[h][x]
    BY <1>5
  <2>2. Recursion(D, P, step, rank, n)
    BY <1>2, <1>4, <1>6, <2>1 DEF Recursion
  <2>3. QED
    BY <2>2, FixedPoint
<1>8. PICK g : g = [w \in Widgets |-> {w} \cup UNION {g[v] : v \in ToSet(kids[w])}]
  BY <1>7
<1>9. F!below = CHOOSE f : f = [w \in Widgets |-> {w} \cup UNION {f[v] : v \in F!ToSet(kids[w])}]
  BY DEF F!below
<1>10. F!below = CHOOSE f : f = [w \in Widgets |-> {w} \cup UNION {f[v] : v \in ToSet(kids[w])}]
  BY <1>9, SameOps
<1> DEFINE Solves(f) == f = [w \in Widgets |-> {w} \cup UNION {f[v] : v \in ToSet(kids[w])}]
<1>11. Solves(CHOOSE f : Solves(f))
  <2>1. Solves(g)
    BY <1>8
  <2> HIDE DEF Solves
  <2>2. QED
    BY <2>1, Zenon
<1>12. QED
  BY <1>10, <1>11, ZenonT(30)

(* What holds of every widget if it holds of one whenever it does of its   *)
(* children.                                                               *)
LEMMA WidgetsInduct ==
    ASSUME Tree, NEW good,
           \A w \in Widgets : (\A v \in ToSet(kids[w]) : v \in good) => w \in good
    PROVE  Widgets \subseteq good
<1>1. PICK rank, n : Ranks(rank, n)
  BY RanksExist
<1> DEFINE bad == {w \in Widgets : w \notin good}
           I == {rank[w] : w \in bad}
<1>2. I \subseteq Nat
  BY <1>1 DEF Ranks
<1>3. SUFFICES ASSUME bad # {} PROVE FALSE
  OBVIOUS
<1>4. PICK w \in bad : \A k \in I : rank[w] <= k
  BY <1>2, <1>3, LeastNat
<1>5. \A v \in ToSet(kids[w]) : v \in Widgets /\ rank[v] < rank[w]
  BY <1>1 DEF Tree, Ranks
<1>6. ASSUME NEW v \in ToSet(kids[w]) PROVE v \in good
  <2> SUFFICES ASSUME v \in bad PROVE FALSE
    BY <1>5
  <2>1. rank[v] \in I /\ rank[v] \in Nat /\ rank[w] \in Nat
    BY <1>1 DEF Ranks
  <2>2. QED
    BY <1>4, <1>5, <2>1
<1>7. QED
  BY <1>6

(* What is below a widget has its parent there too, but for the widget.    *)
LEMMA BelowFacts ==
    ASSUME Tree, NEW w \in Widgets
    PROVE  /\ F!below[w] \subseteq Widgets /\ w \in F!below[w]
           /\ \A u \in F!below[w] : u = w \/ \E p \in F!below[w] : u \in ToSet(kids[p])
<1>1. \A x \in Widgets : F!below[x] = {x} \cup UNION {F!below[v] : v \in ToSet(kids[x])}
  BY BelowIs
<1> DEFINE good == {x \in Widgets :
                       /\ F!below[x] \subseteq Widgets
                       /\ \A u \in F!below[x] :
                             u = x \/ \E p \in F!below[x] : u \in ToSet(kids[p])}
<1>2. ASSUME NEW x \in Widgets, \A v \in ToSet(kids[x]) : v \in good PROVE x \in good
  <2>1. F!below[x] \subseteq Widgets
    BY <1>1, <1>2
  <2>2. ASSUME NEW u \in F!below[x], u # x
        PROVE  \E p \in F!below[x] : u \in ToSet(kids[p])
    <3>1. PICK v \in ToSet(kids[x]) : u \in F!below[v]
      BY <1>1, <2>2
    <3>2. F!below[v] \subseteq F!below[x] /\ x \in F!below[x]
      BY <1>1
    <3>3. u = v \/ \E p \in F!below[v] : u \in ToSet(kids[p])
      BY <1>2, <3>1
    <3>4. QED
      BY <3>1, <3>2, <3>3
  <2>3. QED
    BY <2>1, <2>2
<1>3. Widgets \subseteq good
  <2> HIDE DEF good
  <2>1. QED
    BY <1>2, WidgetsInduct
<1>4. QED
  BY <1>1, <1>3

(* The window is not in what a child of it holds.                          *)
LEMMA WindowNotBelow ==
    ASSUME Tree, NEW w \in Widgets, w # window
    PROVE  window \notin F!below[w]
<1>1. \A p \in Widgets : window \notin ToSet(kids[p])
  BY WidgetsGiven DEF Tree
<1>2. QED
  BY <1>1, BelowFacts

(* Removing a widget and what it holds leaves a tree.                      *)
LEMMA RemovingKeepsTree ==
    ASSUME Tree, NEW w \in Widgets, F!removeChild(w)
    PROVE  Tree'
<1> DEFINE gone == F!below[w]
<1>1. /\ w \in Removable /\ w \in live /\ w # window
      /\ live' = live \ gone
      /\ kids' = [v \in Widgets |->
                    IF v \in gone THEN << >>
                    ELSE IF w \in ToSet(kids[v])
                    THEN RemoveAt(kids[v], CHOOSE i \in DOMAIN kids[v] : kids[v][i] = w)
                    ELSE kids[v]]
  BY SameOps, WidgetsGiven DEF F!removeChild
<1>2. /\ gone \subseteq Widgets /\ w \in gone
      /\ \A u \in gone : u = w \/ \E p \in gone : u \in ToSet(kids[p])
      /\ window \notin gone
  BY <1>1, BelowFacts, WindowNotBelow
<1> HIDE DEF gone
<1>3. live' \subseteq Widgets /\ window \in live'
  BY <1>1, <1>2 DEF Tree
<1>4. ASSUME NEW v \in Widgets
      PROVE  /\ kids'[v] \in Seq(Widgets) /\ IsInjective(kids'[v])
             /\ ToSet(kids'[v]) \subseteq live' \cap ToSet(Kids[v])
  <2>1. /\ kids[v] \in Seq(Widgets) /\ IsInjective(kids[v])
        /\ ToSet(kids[v]) \subseteq live \cap ToSet(Kids[v])
    BY DEF Tree
  <2>2. CASE v \in gone
    <3>1. kids'[v] = << >>
      BY <1>1, <2>2
    <3>2. QED
      BY <3>1 DEF ToSet, IsInjective
  <2>3. CASE v \notin gone
    <3>1. ASSUME NEW u \in ToSet(kids[v]), u # w PROVE u \notin gone
      <4> SUFFICES ASSUME u \in gone PROVE FALSE
        OBVIOUS
      <4>1. PICK p \in gone : u \in ToSet(kids[p])
        BY <1>2, <3>1
      <4>2. u \in ToSet(Kids[p]) /\ u \in ToSet(Kids[v]) /\ p # v /\ p \in Widgets
        BY <1>2, <2>1, <2>3, <4>1 DEF Tree
      <4>3. QED
        BY <4>2, WidgetsGiven
    <3>2. CASE w \in ToSet(kids[v])
      <4> DEFINE i == CHOOSE i \in DOMAIN kids[v] : kids[v][i] = w
      <4>1. i \in DOMAIN kids[v] /\ kids[v][i] = w
        BY <3>2 DEF ToSet
      <4>2. kids'[v] = RemoveAt(kids[v], i)
        BY <1>1, <2>3, <3>2
      <4> HIDE DEF i
      <4>3. /\ kids'[v] \in Seq(Widgets) /\ IsInjective(kids'[v])
            /\ ToSet(kids'[v]) = ToSet(kids[v]) \ {w}
        <5>1. RemoveAt(kids[v], i) \in Seq(Widgets)
          BY <2>1, <4>1, RemovedAt
        <5>2. /\ IsInjective(RemoveAt(kids[v], i))
              /\ ToSet(RemoveAt(kids[v], i)) = ToSet(kids[v]) \ {kids[v][i]}
          BY <2>1, <4>1, RemovedOnce
        <5>3. QED
          BY <4>1, <4>2, <5>1, <5>2
      <4>4. QED
        BY <1>1, <2>1, <3>1, <4>3
    <3>3. CASE w \notin ToSet(kids[v])
      <4>1. kids'[v] = kids[v]
        BY <1>1, <2>3, <3>3
      <4>2. QED
        BY <1>1, <2>1, <3>1, <3>3, <4>1
    <3>4. QED
      BY <3>2, <3>3
  <2>4. QED
    BY <2>2, <2>3
<1>5. kids' \in [Widgets -> Seq(Widgets)]
  BY <1>1, <1>4
<1>6. QED
  BY <1>3, <1>4, <1>5 DEF Tree

(* Restacking the children of a widget keeps them.                         *)
LEMMA RestackingKeepsTree ==
    ASSUME Tree, NEW v \in Widgets, F!restack(v)
    PROVE  /\ Tree' /\ live' = live
           /\ \A w \in Widgets : ToSet(kids'[w]) = ToSet(kids[w])
<1>0. PICK i \in DOMAIN kids[v] :
         \E s \in F!Restacked(kids[v], i) : kids' = [kids EXCEPT ![v] = s]
  BY DEF F!restack
<1>1. PICK s \in F!Restacked(kids[v], i) : kids' = [kids EXCEPT ![v] = s]
  BY <1>0
<1>2. live' = live
  BY DEF F!restack
<1>3. /\ kids[v] \in Seq(Widgets) /\ IsInjective(kids[v])
      /\ kids \in [Widgets -> Seq(Widgets)]
  BY DEF Tree
<1> DEFINE q == kids[v]
           r == RemoveAt(q, i)
           Same(t) == t \in Seq(Widgets) /\ IsInjective(t) /\ ToSet(t) = ToSet(q)
<1>4. \/ s = Append(r, q[i])
      \/ i > 1 /\ s = <<q[i]>> \o r
      \/ i < Len(q) /\ s = F!Swapped(q, i)
      \/ i > 2 /\ s = F!Swapped(q, i - 1)
  BY SameOps DEF F!Restacked
<1>5. q \in Seq(Widgets) /\ IsInjective(q) /\ i \in DOMAIN q /\ i \in 1 .. Len(q)
  BY <1>3
<1> HIDE DEF q
<1>6. Same(Append(r, q[i])) /\ Same(<<q[i]>> \o r)
  BY <1>5, MovedToBack, MovedToFront
<1>7. ASSUME NEW j \in 1 .. Len(q) - 1 PROVE Same(F!Swapped(q, j))
  BY <1>5, Exchanged DEF F!Swapped
<1>8. Same(s)
  <2>1. i < Len(q) => i \in 1 .. Len(q) - 1
    BY <1>5
  <2>2. i > 2 => i - 1 \in 1 .. Len(q) - 1
    BY <1>5
  <2> HIDE DEF Same, r
  <2>3. QED
    BY <1>4, <1>6, <1>7, <2>1, <2>2
<1>9. s \in Seq(Widgets) /\ IsInjective(s) /\ ToSet(s) = ToSet(kids[v])
  BY <1>8 DEF q
<1>10. /\ kids' \in [Widgets -> Seq(Widgets)]
       /\ kids'[v] = s /\ \A w \in Widgets : w # v => kids'[w] = kids[w]
  BY <1>1, <1>3, <1>9
<1>11. QED
  BY <1>2, <1>9, <1>10 DEF Tree

(* A widget that is offered an event takes it itself, or a child does.     *)
LEMMA OfferedType ==
    ASSUME Tree, NEW v \in Widgets, NEW f, NEW hit, NEW keeps, NEW greedy, NEW closed,
           NEW some, v \in some, \A u \in ToSet(kids[v]) : f[u] \in some \cup {None}
    PROVE  F!offered(v, f, hit, keeps, greedy, closed) \in some \cup {None}
<1> DEFINE takes == {i \in DOMAIN kids[v] : f[kids[v][i]] # None}
           child == IF takes = {} THEN None ELSE f[kids[v][F!Max(takes)]]
<1>1. \A i \in DOMAIN kids[v] : kids[v][i] \in ToSet(kids[v])
  BY DEF ToSet
<1>2. child \in some \cup {None}
  <2>1. ASSUME takes # {} PROVE F!Max(takes) \in DOMAIN kids[v]
    <3>1. takes \subseteq 1 .. Len(kids[v]) /\ Len(kids[v]) \in Nat
      BY DEF Tree
    <3>2. PICK m \in takes : \A k \in takes : k <= m
      BY <2>1, <3>1, GreatestNat
    <3>3. \A k \in takes : m >= k
      BY <3>1, <3>2
    <3> HIDE DEF takes
    <3>4. F!Max(takes) \in takes
      BY <3>3 DEF F!Max
    <3>5. QED
      BY <3>4 DEF takes
  <2>2. QED
    BY <1>1, <2>1
<1>3. F!offered(v, f, hit, keeps, greedy, closed) \in {None, v, child}
  <2> HIDE DEF child
  <2>1. F!offered(v, f, hit, keeps, greedy, closed) =
           IF v \in closed \/ (keeps # v /\ v \notin hit) THEN None
           ELSE IF v \in greedy \cap PointerInput THEN v
           ELSE IF v \in PointerInput /\ child = None THEN v
           ELSE IF v \in PointerInput \cup PointerPassthrough \cup {window}
           THEN child ELSE None
    BY DEF F!offered, child
  <2>2. QED
    BY <2>1
<1>4. QED
  BY <1>2, <1>3

(* What it makes of the event depends on what its children make of it.     *)
LEMMA OfferedSame ==
    ASSUME Tree, NEW v \in Widgets, NEW f, NEW g, NEW hit, NEW keeps, NEW greedy, NEW closed,
           \A u \in ToSet(kids[v]) : f[u] = g[u]
    PROVE  F!offered(v, f, hit, keeps, greedy, closed) = F!offered(v, g, hit, keeps, greedy, closed)
<1>1. \A i \in DOMAIN kids[v] : f[kids[v][i]] = g[kids[v][i]]
  BY DEF ToSet
<1> DEFINE takes(h) == {i \in DOMAIN kids[v] : h[kids[v][i]] # None}
<1>2. takes(f) = takes(g)
  BY <1>1
<1>3. takes(f) # {} => F!Max(takes(f)) \in DOMAIN kids[v]
  <2>1. takes(f) \subseteq 1 .. Len(kids[v]) /\ Len(kids[v]) \in Nat
    BY DEF Tree
  <2> SUFFICES ASSUME takes(f) # {} PROVE F!Max(takes(f)) \in takes(f)
    BY DEF Tree
  <2> DEFINE set == takes(f)
  <2>2. PICK m \in set : \A k \in set : k <= m
    BY <2>1, GreatestNat
  <2>3. \A k \in set : m >= k
    BY <2>1, <2>2
  <2> HIDE DEF set
  <2>4. F!Max(set) \in set
    BY <2>3 DEF F!Max
  <2>5. QED
    BY <2>4 DEF set
<1> DEFINE child(h) == IF takes(h) = {} THEN None ELSE h[kids[v][F!Max(takes(h))]]
<1>4. child(f) = child(g)
  BY <1>1, <1>2, <1>3
<1>5. ASSUME NEW h
      PROVE  F!offered(v, h, hit, keeps, greedy, closed) =
               IF v \in closed \/ (keeps # v /\ v \notin hit) THEN None
               ELSE IF v \in greedy \cap PointerInput THEN v
               ELSE IF v \in PointerInput /\ child(h) = None THEN v
               ELSE IF v \in PointerInput \cup PointerPassthrough \cup {window}
               THEN child(h) ELSE None
  BY DEF F!offered
<1> HIDE DEF child
<1>6. QED
  BY <1>4, <1>5

(* An event that a widget is offered is taken by a live one, or by none.   *)
LEMMA ConsumerIsLive ==
    ASSUME Tree, NEW w \in live, NEW hit, NEW keeps, NEW greedy, NEW closed
    PROVE  F!consumer(w, hit, keeps, greedy, closed) \in live \cup {None}
<1> DEFINE D == Widgets
           P == Widgets \cup {None}
           body(v, f) == F!offered(v, f, hit, keeps, greedy, closed)
           step == [f \in [D -> P] |-> [v \in D |-> body(v, f)]]
<1>1. PICK rank, n : Ranks(rank, n)
  BY RanksExist
<1>2. rank \in [D -> Nat] /\ n \in Nat /\ \A x \in D : rank[x] < n
  BY <1>1 DEF Ranks
<1>3. \A v \in D : \A u \in ToSet(kids[v]) : u \in D /\ rank[u] < rank[v]
  BY <1>1 DEF Tree, Ranks
<1>4. step \in [[D -> P] -> [D -> P]]
  <2>1. ASSUME NEW f \in [D -> P], NEW v \in D PROVE body(v, f) \in P
    <3>1. \A u \in ToSet(kids[v]) : f[u] \in Widgets \cup {None}
      BY <1>3
    <3>2. QED
      BY <3>1, OfferedType
  <2> HIDE DEF body
  <2>2. QED
    BY <2>1
<1>5. ASSUME NEW g \in [D -> P], NEW h \in [D -> P], NEW x \in D,
             \A y \in D : rank[y] < rank[x] => g[y] = h[y]
      PROVE  step[g][x] = step[h][x]
  <2>1. \A v \in ToSet(kids[x]) : g[v] = h[v]
    BY <1>3, <1>5
  <2>2. body(x, g) = body(x, h)
    BY <2>1, OfferedSame
  <2> HIDE DEF body
  <2>3. QED
    BY <2>2
<1>6. [D -> P] # {}
  <2>1. [v \in D |-> None] \in [D -> P]
    OBVIOUS
  <2>2. QED
    BY <2>1
<1> DEFINE Solves(f) == f = [v \in Widgets |-> body(v, f)]
<1>7. \E g : Solves(g)
  <2>1. \E g \in [D -> P] : step[g] = g
    <3> HIDE DEF step, D, P
    <3>1. \A g, h \in [D -> P], x \in D :
             (\A y \in D : rank[y] < rank[x] => g[y] = h[y]) => step[g][x] = step[h][x]
      BY <1>5
    <3>2. Recursion(D, P, step, rank, n)
      BY <1>2, <1>4, <1>6, <3>1 DEF Recursion
    <3>3. QED
      BY <3>2, FixedPoint
  <2> HIDE DEF body
  <2>2. QED
    BY <2>1
<1> DEFINE taken == CHOOSE f : Solves(f)
<1>8. Solves(taken)
  <2> HIDE DEF Solves
  <2>1. QED
    BY <1>7, Zenon
<1>9. F!consumer(w, hit, keeps, greedy, closed) = taken[w]
  BY DEF F!consumer
<1>10. \A v \in Widgets : taken[v] = body(v, taken)
  <2> HIDE DEF taken, body
  <2>1. QED
    BY <1>8
<1> DEFINE good == {v \in Widgets : v \in live => taken[v] \in live \cup {None}}
<1> HIDE DEF taken
<1>11. ASSUME NEW v \in Widgets, \A u \in ToSet(kids[v]) : u \in good PROVE v \in good
  <2> SUFFICES ASSUME v \in live PROVE taken[v] \in live \cup {None}
    OBVIOUS
  <2>1. \A u \in ToSet(kids[v]) : taken[u] \in live \cup {None}
    BY <1>11 DEF Tree
  <2>2. body(v, taken) \in live \cup {None}
    BY <2>1, OfferedType
  <2>3. QED
    BY <1>10, <2>2
<1>12. Widgets \subseteq good
  <2> HIDE DEF good
  <2>1. QED
    BY <1>11, WidgetsInduct
<1>13. QED
  BY <1>9, <1>12 DEF Tree

(* A tree that can be searched, the calls of a search and their results.   *)
Searchable(t) ==
    /\ t.kids \in [Widgets -> Seq(Widgets)]
    /\ t.parent \in [Widgets -> Widgets \cup {None}]
    /\ t.accepts \subseteq Widgets

Calls == [target : Widgets \cup {None}, startFrom : Widgets \cup {None},
          iter : 0 .. 1, fuel : 0 .. 2 * F!Cardinality(Widgets)]
Results(t, focused) == [ok : BOOLEAN, focused : t.accepts \cup {focused, Diverges}]

(* The children in either order, and those that follow one.                *)
LEMMA ReversedType ==
    ASSUME NEW X, NEW s \in Seq(X)
    PROVE  F!Reverse(s) \in Seq(X)
<1>1. \A i \in 1 .. Len(s) : s[(Len(s) - i) + 1] \in X
  BY Z3
<1>2. F!Reverse(s) = [i \in 1 .. Len(s) |-> s[(Len(s) - i) + 1]]
  BY DEF F!Reverse
<1>3. F!Reverse(s) \in [1 .. Len(s) -> X]
  BY <1>1, <1>2
<1>4. QED
  BY <1>3, SeqDef

LEMMA AfterType ==
    ASSUME NEW X, NEW s \in Seq(X), NEW w
    PROVE  F!After(s, w) \in Seq(X)
<1>1. CASE \E i \in DOMAIN s : s[i] = w
  <2> DEFINE k == CHOOSE i \in DOMAIN s : s[i] = w
  <2>1. k \in 0 .. Len(s) /\ 1 + k = k + 1
    BY <1>1
  <2>2. F!After(s, w) = SubSeq(s, 1 + k, Len(s))
    BY <1>1 DEF F!After
  <2> HIDE DEF k
  <2>3. QED
    BY <2>1, <2>2, SplitAfter
<1>2. CASE ~ \E i \in DOMAIN s : s[i] = w
  BY <1>2 DEF F!After
<1>3. QED
  BY <1>1, <1>2

(* A call yields a result if those with less fuel do, and depends on no    *)
(* others.                                                                 *)
LEMMA SelectionRecurs ==
    ASSUME NEW t, Searchable(t), NEW forward \in BOOLEAN,
           NEW focused \in Widgets \cup {None}, NEW call \in Calls, NEW f, NEW g
    PROVE  /\ (\A c \in Calls : c.fuel < call.fuel => f[c] \in Results(t, focused))
              => F!selection(t, forward, focused, f, call) \in Results(t, focused)
           /\ (\A c \in Calls : c.fuel < call.fuel => f[c] = g[c])
              => F!selection(t, forward, focused, f, call)
                 = F!selection(t, forward, focused, g, call)
<1> DEFINE round == call.startFrom # None /\ call.target = window
           above == forward /\ call.target = None /\ call.startFrom = window
           here == IF call.target # None THEN call.target
                   ELSE IF focused # None THEN focused ELSE window
           ordered == IF forward THEN t.kids[here] ELSE F!Reverse(t.kids[here])
           ahead == IF round \/ call.startFrom = None THEN ordered
                    ELSE F!After(ordered, call.startFrom)
           next == IF round \/ above THEN 1 ELSE call.iter
           inner(a, b) == [target |-> a, startFrom |-> b, iter |-> next, fuel |-> call.fuel - 1]
           again(h, a, b) == h[inner(a, b)]
           found(h, v) == IF t.kids[v] # << >> THEN again(h, v, None)
                          ELSE [ok |-> F!CanTake(t, v, focused), focused |-> v]
           hits(h) == {i \in DOMAIN ahead : found(h, ahead[i]).ok}
           result(h) ==
              IF call.iter > 0 THEN [ok |-> TRUE, focused |-> focused]
              ELSE IF call.fuel = 0 THEN [ok |-> TRUE, focused |-> Diverges]
              ELSE IF F!CanTake(t, here, focused) THEN [ok |-> TRUE, focused |-> here]
              ELSE IF hits(h) # {} THEN found(h, ahead[F!Min(hits(h))])
              ELSE IF ordered # << >> \/ here # window THEN again(h, t.parent[here], here)
              ELSE [ok |-> FALSE, focused |-> focused]
<1>1. \A h : F!selection(t, forward, focused, h, call) = result(h)
  BY DEF F!selection
<1>2. here \in Widgets /\ t.parent[here] \in Widgets \cup {None}
  BY WidgetsGiven DEF Calls, Searchable
<1>3. ordered \in Seq(Widgets)
  <2>1. t.kids[here] \in Seq(Widgets)
    BY <1>2 DEF Searchable
  <2> HIDE DEF here
  <2>2. QED
    BY <2>1, ReversedType
<1>4. ahead \in Seq(Widgets)
  <2> HIDE DEF ordered, round
  <2>1. QED
    BY <1>3, AfterType
<1>5. next \in 0 .. 1
  BY DEF Calls
<1> HIDE DEF next, round, above
<1>6. ASSUME call.fuel # 0, NEW a \in Widgets \cup {None}, NEW b \in Widgets \cup {None}
      PROVE  inner(a, b) \in Calls /\ inner(a, b).fuel < call.fuel
  <2> DEFINE n == 2 * F!Cardinality(Widgets)
  <2>1. call.fuel \in 0 .. n /\ n \in Int
    <3>1. F!Cardinality(Widgets) \in Nat
      BY ScreenWidgetsAssumption, SameCard DEF F!WidgetsAssumption
    <3>2. QED
      BY <3>1 DEF Calls
  <2> HIDE DEF n
  <2>2. call.fuel - 1 \in 0 .. n /\ call.fuel - 1 < call.fuel
    BY <1>6, <2>1
  <2>3. QED
    BY <1>5, <2>2 DEF Calls, n
<1>7. \A i \in DOMAIN ahead : ahead[i] \in Widgets
  BY <1>4
<1>8. ASSUME NEW h, hits(h) # {} PROVE F!Min(hits(h)) \in hits(h)
  <2> DEFINE set == hits(h)
  <2>1. set \subseteq Nat
    BY <1>4
  <2> HIDE DEF set, hits
  <2>2. set # {}
    BY <1>8 DEF set
  <2>3. PICK m \in set : \A k \in set : m <= k
    BY <2>1, <2>2, LeastNat
  <2>4. F!Min(set) \in set
    BY <2>3 DEF F!Min
  <2>5. QED
    BY <2>4 DEF set
<1> HIDE DEF here, ordered, ahead, inner
<1>9. ASSUME \A c \in Calls : c.fuel < call.fuel => f[c] \in Results(t, focused)
      PROVE  result(f) \in Results(t, focused)
  <2>1. ASSUME call.fuel # 0, NEW a \in Widgets \cup {None}, NEW b \in Widgets \cup {None}
        PROVE  again(f, a, b) \in Results(t, focused)
    BY <1>6, <1>9, <2>1
  <2> HIDE DEF again
  <2>2. ASSUME call.fuel # 0, NEW v \in Widgets, found(f, v).ok
        PROVE  found(f, v) \in Results(t, focused)
    <3>1. CASE t.kids[v] # << >>
      BY <2>1, <2>2, <3>1
    <3>2. CASE t.kids[v] = << >>
      <4> DEFINE b == F!CanTake(t, v, focused)
      <4>1. b \in BOOLEAN /\ (b => v \in t.accepts)
        BY DEF F!CanTake
      <4>2. found(f, v) = [ok |-> b, focused |-> v]
        BY <3>2
      <4> HIDE DEF b
      <4>3. b
        BY <2>2, <4>1, <4>2
      <4>4. \A x \in t.accepts : [ok |-> b, focused |-> x] \in Results(t, focused)
        BY <4>1 DEF Results
      <4>5. QED
        BY <4>1, <4>2, <4>3, <4>4
    <3>3. QED
      BY <3>1, <3>2
  <2> HIDE DEF found
  <2>3. ASSUME call.fuel # 0, hits(f) # {}
        PROVE  found(f, ahead[F!Min(hits(f))]) \in Results(t, focused)
    <3>1. F!Min(hits(f)) \in hits(f)
      BY <1>8, <2>3
    <3> DEFINE i == F!Min(hits(f))
    <3>2. i \in DOMAIN ahead /\ found(f, ahead[i]).ok
      BY <3>1
    <3> HIDE DEF i
    <3>3. found(f, ahead[i]) \in Results(t, focused)
      BY <1>7, <2>2, <2>3, <3>2
    <3>4. QED
      BY <3>3 DEF i
  <2>4. F!CanTake(t, here, focused) => here \in t.accepts
    BY DEF F!CanTake
  <2>5. call.fuel # 0 => again(f, t.parent[here], here) \in Results(t, focused)
    BY <1>2, <2>1
  <2> HIDE DEF hits
  <2>6. \A x \in t.accepts \cup {focused, Diverges}, b \in BOOLEAN :
           [ok |-> b, focused |-> x] \in Results(t, focused)
    BY DEF Results
  <2>7. QED
    BY <2>3, <2>4, <2>5, <2>6
<1>10. ASSUME \A c \in Calls : c.fuel < call.fuel => f[c] = g[c]
       PROVE  result(f) = result(g)
  <2>1. CASE call.fuel = 0
    BY <2>1
  <2>2. CASE call.fuel # 0
    <3>1. ASSUME NEW a \in Widgets \cup {None}, NEW b \in Widgets \cup {None}
          PROVE  again(f, a, b) = again(g, a, b)
      BY <1>6, <1>10, <2>2
    <3> HIDE DEF again
    <3>2. \A v \in Widgets : found(f, v) = found(g, v)
      BY <3>1
    <3> HIDE DEF found
    <3>3. hits(f) = hits(g)
      BY <1>7, <3>2
    <3>4. hits(f) # {} => found(f, ahead[F!Min(hits(f))]) = found(g, ahead[F!Min(hits(f))])
      <4> SUFFICES ASSUME hits(f) # {}
                   PROVE  found(f, ahead[F!Min(hits(f))]) = found(g, ahead[F!Min(hits(f))])
        OBVIOUS
      <4>1. F!Min(hits(f)) \in DOMAIN ahead
        BY <1>8
      <4> HIDE DEF hits
      <4>2. QED
        BY <1>7, <3>2, <4>1
    <3>5. again(f, t.parent[here], here) = again(g, t.parent[here], here)
      BY <1>2, <3>1
    <3> HIDE DEF hits
    <3>6. QED
      BY <3>3, <3>4, <3>5
  <2>3. QED
    BY <2>1, <2>2
<1> HIDE DEF result
<1>11. QED
  BY <1>1, <1>9, <1>10

(* A search ends at a widget that takes keys, or where it began.           *)
Solves(t, forward, focused, select) ==
    \A c \in Calls : select[c] = F!selection(t, forward, focused, select, c)

Start == [target |-> None, startFrom |-> None, iter |-> 0, fuel |-> 2 * F!Cardinality(Widgets)]

LEMMA SearchSolves ==
    ASSUME NEW t, Searchable(t), NEW forward \in BOOLEAN, NEW focused \in Widgets \cup {None}
    PROVE  /\ 2 * F!Cardinality(Widgets) \in Nat /\ Start \in Calls
           /\ \E select : /\ Solves(t, forward, focused, select)
                          /\ F!search(t, forward, focused) = select[Start].focused
<1> DEFINE top == 2 * F!Cardinality(Widgets)
           D == Calls
           P == Results(t, focused)
           body(c, f) == F!selection(t, forward, focused, f, c)
           step == [f \in [D -> P] |-> [c \in D |-> body(c, f)]]
           rank == [c \in D |-> c.fuel]
           start == [target |-> None, startFrom |-> None, iter |-> 0, fuel |-> top]
<1>1. top \in Nat
  <2>1. F!Cardinality(Widgets) \in Nat
    BY ScreenWidgetsAssumption, SameCard DEF F!WidgetsAssumption
  <2>2. QED
    BY <2>1
<1>2. start \in D
  <2> HIDE DEF top
  <2>1. top \in 0 .. top
    BY <1>1
  <2>2. QED
    BY <2>1 DEF Calls, top
<1>3. rank \in [D -> Nat] /\ top + 1 \in Nat /\ \A c \in D : rank[c] < top + 1
  <2>1. \A c \in D : c.fuel \in 0 .. top
    BY DEF Calls
  <2> HIDE DEF top, D
  <2>2. QED
    BY <1>1, <2>1
<1>4. ASSUME NEW f, NEW c \in D, \A x \in D : x.fuel < c.fuel => f[x] \in P
      PROVE  body(c, f) \in P
  BY <1>4, SelectionRecurs
<1>5. ASSUME NEW f, NEW g, NEW c \in D, \A x \in D : x.fuel < c.fuel => f[x] = g[x]
      PROVE  body(c, f) = body(c, g)
  BY <1>5, SelectionRecurs
<1>6. step \in [[D -> P] -> [D -> P]]
  <2> HIDE DEF body, D, P
  <2>1. \A f \in [D -> P], c \in D : body(c, f) \in P
    BY <1>4
  <2>2. QED
    BY <2>1
<1>7. \A g, h \in [D -> P], c \in D :
         (\A x \in D : rank[x] < rank[c] => g[x] = h[x]) => step[g][c] = step[h][c]
  <2> HIDE DEF body, D, P
  <2> SUFFICES ASSUME NEW g \in [D -> P], NEW h \in [D -> P], NEW c \in D,
                      \A x \in D : rank[x] < rank[c] => g[x] = h[x]
               PROVE  step[g][c] = step[h][c]
    OBVIOUS
  <2>1. \A x \in D : x.fuel < c.fuel => g[x] = h[x]
    OBVIOUS
  <2>2. body(c, g) = body(c, h)
    BY <1>5, <2>1
  <2>3. QED
    BY <2>2
<1>8. [D -> P] # {}
  <2>1. [ok |-> TRUE, focused |-> Diverges] \in P
    BY DEF Results
  <2> HIDE DEF D, P
  <2>2. [c \in D |-> [ok |-> TRUE, focused |-> Diverges]] \in [D -> P]
    BY <2>1
  <2>3. QED
    BY <2>2
<1> DEFINE Fixed(f) == f = [c \in D |-> body(c, f)]
<1>9. \E g : Fixed(g)
  <2>1. \E g \in [D -> P] : step[g] = g
    <3> HIDE DEF step, D, P, rank, top
    <3>1. Recursion(D, P, step, rank, top + 1)
      BY <1>3, <1>6, <1>7, <1>8 DEF Recursion
    <3>2. QED
      BY <3>1, FixedPoint
  <2> HIDE DEF body, D, P
  <2>2. QED
    BY <2>1
<1> DEFINE select == CHOOSE f : Fixed(f)
<1>10. Fixed(select)
  <2> HIDE DEF Fixed
  <2>1. QED
    BY <1>9, Zenon
<1>11. F!search(t, forward, focused) = select[start].focused
  <2>1. DOMAIN t.kids = Widgets
    BY DEF Searchable
  <2>2. QED
    BY <2>1 DEF F!search, Calls
<1>12. \A c \in D : select[c] = body(c, select)
  <2> HIDE DEF select, body, D
  <2>1. QED
    BY <1>10
<1> HIDE DEF select
<1> HIDE DEF top
<1>13. QED
  BY <1>1, <1>2, <1>11, <1>12 DEF Solves, Start, top

(* A search yields a widget that takes keys, if it yields another one.     *)
LEMMA SearchResult ==
    ASSUME NEW t, Searchable(t), NEW forward \in BOOLEAN, NEW focused \in Widgets \cup {None}
    PROVE  F!search(t, forward, focused) \in t.accepts \cup {focused, Diverges}
<1> DEFINE D == Calls
           P == Results(t, focused)
<1>1. 2 * F!Cardinality(Widgets) \in Nat /\ Start \in D
  BY SearchSolves
<1>2. PICK select : /\ Solves(t, forward, focused, select)
                    /\ F!search(t, forward, focused) = select[Start].focused
  BY SearchSolves
<1>3. \A c \in D : select[c] \in P
  <2> DEFINE bad == {c \in D : select[c] \notin P}
             I == {c.fuel : c \in bad}
  <2>1. I \subseteq Nat
    BY <1>1 DEF Calls
  <2> SUFFICES ASSUME bad # {} PROVE FALSE
    OBVIOUS
  <2>2. PICK c \in bad : \A k \in I : c.fuel <= k
    BY <2>1, LeastNat
  <2>3. \A x \in D : x.fuel < c.fuel => select[x] \in P
    <3> SUFFICES ASSUME NEW x \in D, x.fuel < c.fuel, x \in bad PROVE FALSE
      OBVIOUS
    <3>1. x.fuel \in I /\ c.fuel \in I
      OBVIOUS
    <3>2. QED
      BY <2>1, <2>2, <3>1
  <2>4. F!selection(t, forward, focused, select, c) \in P
    BY <2>3, SelectionRecurs
  <2>5. QED
    BY <1>2, <2>4 DEF Solves
<1>4. select[Start] \in P
  BY <1>1, <1>3
<1>5. QED
  BY <1>2, <1>4 DEF Results

(* The event manager, its bits and the flags of the widgets.               *)
Keyboard ==
    /\ oskWidget \in Widgets \cup {None} /\ osk \in BOOLEAN
    /\ osk <=> oskWidget # None
    /\ osk /\ focusedWidget # None => oskWidget = focusedWidget

Focus ==
    /\ hasFocus = {focusedWidget} \ {None}
    /\ focusedWidget \in (live \ disabled) \cup {None}
    /\ Keyboard

Exposure ==
    /\ exposed = {exposedWidget} \ {None} /\ {grabbedWidget} \ {None} \subseteq grabs
    /\ exposedWidget \in live \cup {None} /\ grabbedWidget \in live \cup {None}
    /\ pressed \subseteq live /\ grabs \subseteq live

Flagged == disabled \subseteq live /\ invisible \subseteq live /\ down \in BOOLEAN

WidgetsInv == Tree /\ Focus /\ Exposure /\ Flagged

(* A disabled widget is shut, with all it holds.                           *)
LEMMA DisabledIsShut == ASSUME Tree, Flagged PROVE disabled \subseteq F!shut
  BY BelowFacts DEF F!shut, Tree, Flagged

(* Moving the focus takes the bit and the keyboard along.                  *)
LEMMA FocusTaken ==
    ASSUME Focus, NEW w, w \in Widgets \cup {None}, F!takeFocus(w), w # focusedWidget
    PROVE  /\ hasFocus' = {focusedWidget'} \ {None} /\ focusedWidget' = w
           /\ Keyboard'
<1>1. hasFocus' = {focusedWidget'} \ {None} /\ focusedWidget' = w
  BY DEF F!takeFocus, Focus
<1>2. F!setOSKWidget(w) /\ None \notin OSKInput
  BY WidgetsGiven DEF F!takeFocus
<1>3. CASE w = oskWidget /\ UNCHANGED <<oskWidget, osk>>
  <2>1. oskWidget' = oskWidget /\ osk' = osk
    BY <1>3
  <2>2. /\ oskWidget' \in Widgets \cup {None} /\ osk' \in BOOLEAN
        /\ osk' <=> oskWidget' # None
    BY <2>1 DEF Focus, Keyboard
  <2>3. oskWidget' = focusedWidget'
    BY <1>1, <1>3, <2>1, <2>2
  <2>4. QED
    BY <1>1, <2>2, <2>3 DEF Keyboard
<1>4. CASE oskWidget' = None /\ osk' = FALSE
  BY <1>1, <1>4 DEF Keyboard
<1>5. CASE w \in OSKInput /\ oskWidget' = w /\ osk' = TRUE
  BY <1>1, <1>2, <1>5 DEF Keyboard
<1>6. CASE oskWidget = None /\ UNCHANGED <<oskWidget, osk>>
  <2>1. oskWidget' = oskWidget /\ osk' = osk
    BY <1>6
  <2>2. /\ oskWidget' \in Widgets \cup {None} /\ osk' \in BOOLEAN
        /\ osk' <=> oskWidget' # None
    BY <2>1 DEF Focus, Keyboard
  <2>3. ~ osk'
    BY <1>1, <1>6, <2>1, <2>2
  <2>4. QED
    BY <1>1, <2>2, <2>3 DEF Keyboard
<1>7. QED
  BY <1>1, <1>2, <1>3, <1>4, <1>5, <1>6 DEF F!setOSKWidget

(* The focus stays, goes, or moves to a live widget that is not shut.      *)
LEMMA FocusSet ==
    ASSUME Focus, Tree, NEW w, w \in live \cup {None, Diverges, focusedWidget},
           F!setFocusedWidget(w)
    PROVE  /\ hasFocus' = {focusedWidget'} \ {None}
           /\ Keyboard'
           /\ \/ focusedWidget' = focusedWidget
              \/ focusedWidget' = None
              \/ focusedWidget' \in live \ F!shut
<1>1. CASE F!keepFocus
  BY <1>1 DEF F!keepFocus, Focus, Keyboard
<1>2. CASE F!takeFocus(w) /\ w # focusedWidget /\ (w # None => F!acceptsKeyInput(w))
  <2>1. w = None \/ (w \in KeyInput /\ w \notin F!shut)
    BY <1>2 DEF F!acceptsKeyInput
  <2>2. w = None \/ w \in live
    BY <1>2, <2>1, WidgetsGiven
  <2>3. w \in Widgets \cup {None}
    BY <2>2 DEF Tree
  <2>4. QED
    BY <1>2, <2>1, <2>2, <2>3, FocusTaken
<1>3. QED
  BY <1>1, <1>2 DEF F!setFocusedWidget

(* The same, where nothing is deleted or disabled.                         *)
LEMMA FocusMoves ==
    ASSUME WidgetsInv, NEW w, w \in live \cup {None, Diverges, focusedWidget},
           F!setFocusedWidget(w), UNCHANGED <<live, disabled>>
    PROVE  Focus'
<1>1. /\ hasFocus' = {focusedWidget'} \ {None}
      /\ Keyboard'
      /\ \/ focusedWidget' = focusedWidget
         \/ focusedWidget' = None
         \/ focusedWidget' \in live \ F!shut
  BY FocusSet DEF WidgetsInv
<1>2. disabled \subseteq F!shut
  BY DisabledIsShut DEF WidgetsInv
<1>3. focusedWidget' \in (live \ disabled) \cup {None}
  BY <1>1, <1>2 DEF WidgetsInv, Focus
<1>4. QED
  BY <1>1, <1>3 DEF Focus

LEMMA FocusStays ==
    ASSUME Focus, F!keepFocus, UNCHANGED <<live, disabled>> PROVE Focus'
  BY DEF Focus, Keyboard, F!keepFocus

(* Exposing and grabbing live widgets.                                     *)
LEMMA ExposureSet ==
    ASSUME Exposure, NEW e, NEW g, NEW more, e \in live \cup {None}, g \in live \cup {None},
           more \subseteq live, F!setPointerWidgets(e, g, more), UNCHANGED live
    PROVE  Exposure'
<1>1. /\ exposedWidget' = e /\ grabbedWidget' = g
      /\ exposed' = (exposed \ {exposedWidget}) \cup ({e} \ {None})
      /\ grabs' = IF g = grabbedWidget THEN grabs
                  ELSE (grabs \ {grabbedWidget}) \cup ({g} \ {None})
  BY DEF F!setPointerWidgets
<1>2. pressed' \subseteq live
  BY DEF F!setPointerWidgets
<1>3. QED
  BY <1>1, <1>2 DEF Exposure

LEMMA ExposureStays ==
    ASSUME Exposure, F!keepPointer, UNCHANGED live PROVE Exposure'
  BY DEF Exposure, F!keepPointer

(* What does not touch them.                                               *)
LEMMA TreeStays == ASSUME Tree, UNCHANGED <<kids, live>> PROVE Tree'
  BY DEF Tree

LEMMA FlagsStay == ASSUME Flagged, UNCHANGED <<live, disabled, invisible, down>> PROVE Flagged'
  BY DEF Flagged

(* The tree that the searches are given.                                   *)
LEMMA TreeSearchable ==
    ASSUME Tree
    PROVE  Searchable(F!tree) /\ F!tree.accepts \subseteq live
<1>1. ASSUME NEW w \in Widgets
      PROVE  (IF \E v \in live : w \in F!ToSet(kids[v])
              THEN CHOOSE v \in live : w \in F!ToSet(kids[v]) ELSE None) \in Widgets \cup {None}
  BY DEF Tree
<1>2. QED
  BY <1>1 DEF Tree, Searchable, F!tree

-------------------------------------------------------------------------------
LEMMA WidgetsBegin == F!Init => WidgetsInv
<1> SUFFICES ASSUME F!Init PROVE WidgetsInv
  OBVIOUS
<1>1. Tree
  BY WidgetsGiven DEF F!Init, Tree
<1>2. Focus
  BY DEF F!Init, Focus, Keyboard
<1>3. Exposure /\ Flagged
  BY DEF F!Init, Exposure, Flagged
<1>4. QED
  BY <1>1, <1>2, <1>3 DEF WidgetsInv

(* What the application does to the widgets.                               *)
LEMMA CallsKeep ==
    ASSUME WidgetsInv, NEW w \in Widgets
    PROVE  /\ F!setDisabled(w) => WidgetsInv'
           /\ F!setEnabled(w) => WidgetsInv'
           /\ F!setFocus(w) => WidgetsInv'
           /\ F!clearFocus(w) => WidgetsInv'
           /\ F!restack(w) => WidgetsInv'
           /\ \A shown \in BOOLEAN : F!setVisible(w, shown) => WidgetsInv'
<1> USE DEF WidgetsInv
<1>1. ASSUME F!setDisabled(w) PROVE WidgetsInv'
  <2>1. Tree' /\ Exposure'
    BY <1>1, TreeStays, ExposureStays DEF F!setDisabled
  <2>2. Flagged'
    BY <1>1 DEF F!setDisabled, Flagged
  <2>3. disabled' = disabled \cup {w} /\ live' = live
    BY <1>1 DEF F!setDisabled
  <2>4. CASE w \in hasFocus
    <3>1. F!setFocusedWidget(None) /\ focusedWidget = w /\ w # None
      BY <1>1, <2>4 DEF F!setDisabled, Focus
    <3>2. F!takeFocus(None)
      BY <3>1 DEF F!setFocusedWidget
    <3>3. hasFocus' = {focusedWidget'} \ {None} /\ focusedWidget' = None /\ Keyboard'
      BY <3>1, <3>2, FocusTaken
    <3>4. QED
      BY <2>1, <2>2, <3>3 DEF Focus
  <2>5. CASE w \notin hasFocus
    <3>1. F!keepFocus /\ focusedWidget # w
      BY <1>1, <2>5, WidgetsGiven DEF F!setDisabled, Focus
    <3>2. Focus'
      BY <2>3, <3>1 DEF F!keepFocus, Focus, Keyboard
    <3>3. QED
      BY <2>1, <2>2, <3>2
  <2>6. QED
    BY <2>4, <2>5
<1>2. ASSUME F!setEnabled(w) PROVE WidgetsInv'
  <2>1. UNCHANGED <<kids, live, invisible, hasFocus, exposed, pressed, grabs, focusedWidget,
                    exposedWidget, grabbedWidget, oskWidget, osk, down>>
    BY <1>2 DEF F!setEnabled, F!bits, F!manager
  <2>2. Tree' /\ Exposure' /\ Keyboard'
    BY <2>1 DEF Tree, Exposure, Keyboard, Focus
  <2>3. disabled' \subseteq disabled
    BY <1>2 DEF F!setEnabled
  <2>4. Focus' /\ Flagged'
    BY <2>1, <2>2, <2>3 DEF Focus, Flagged
  <2>5. QED
    BY <2>2, <2>4
<1>3. ASSUME F!setFocus(w) PROVE WidgetsInv'
  <2>1. Tree' /\ Exposure' /\ Flagged'
    BY <1>3, TreeStays, ExposureStays, FlagsStay DEF F!setFocus, F!flags
  <2>2. Focus'
    BY <1>3, FocusMoves DEF F!setFocus, F!flags
  <2>3. QED
    BY <2>1, <2>2
<1>4. ASSUME F!clearFocus(w) PROVE WidgetsInv'
  <2>1. Tree' /\ Exposure' /\ Flagged'
    BY <1>4, TreeStays, ExposureStays, FlagsStay DEF F!clearFocus, F!flags
  <2>2. Focus'
    BY <1>4, FocusMoves DEF F!clearFocus, F!flags
  <2>3. QED
    BY <2>1, <2>2
<1>5. ASSUME F!restack(w) PROVE WidgetsInv'
  <2>1. UNCHANGED <<live, disabled, invisible, hasFocus, exposed, pressed, grabs,
                    focusedWidget, exposedWidget, grabbedWidget, oskWidget, osk, down>>
    BY <1>5 DEF F!restack, F!flags, F!bits, F!manager
  <2>2. Tree'
    BY <1>5, RestackingKeepsTree
  <2>3. Focus' /\ Exposure' /\ Flagged'
    BY <2>1 DEF Focus, Keyboard, Exposure, Flagged
  <2>4. QED
    BY <2>2, <2>3
<1>6. ASSUME NEW shown \in BOOLEAN, F!setVisible(w, shown) PROVE WidgetsInv'
  <2>1. UNCHANGED <<kids, live, disabled, hasFocus, exposed, pressed, grabs,
                    focusedWidget, exposedWidget, grabbedWidget, oskWidget, osk, down>>
    BY <1>6 DEF F!setVisible, F!bits, F!manager
  <2>2. Tree' /\ Focus' /\ Exposure'
    BY <2>1 DEF Tree, Focus, Keyboard, Exposure
  <2>3. Flagged'
    BY <1>6, <2>1 DEF F!setVisible, Flagged
  <2>4. QED
    BY <2>2, <2>3
<1>7. QED
  BY <1>1, <1>2, <1>3, <1>4, <1>5, <1>6

(* A removed widget is forgotten by the event manager.                     *)
LEMMA RemovingKeeps ==
    ASSUME WidgetsInv, NEW w \in Widgets, F!removeChild(w)
    PROVE  WidgetsInv'
<1> USE DEF WidgetsInv
<1> DEFINE gone == F!below[w]
<1>1. Tree'
  BY RemovingKeepsTree
<1>2. /\ live' = live \ gone /\ F!clear(gone)
      /\ hasFocus' = hasFocus \ gone /\ exposed' = exposed \ gone
      /\ pressed' = pressed \ gone /\ grabs' = grabs \ gone
      /\ disabled' = disabled \ gone /\ invisible' = invisible \ gone
      /\ UNCHANGED <<oskWidget, osk, down>>
  BY DEF F!removeChild
<1> HIDE DEF gone
<1>3. /\ focusedWidget' = IF focusedWidget \in gone THEN None ELSE focusedWidget
      /\ grabbedWidget' = IF grabbedWidget \in gone THEN None ELSE grabbedWidget
      /\ exposedWidget' = IF exposedWidget \in gone THEN None ELSE exposedWidget
  BY <1>2 DEF F!clear, F!Forget
<1>4. Keyboard'
  BY <1>2, <1>3 DEF Focus, Keyboard
<1>5. hasFocus' = {focusedWidget'} \ {None}
  BY <1>2, <1>3 DEF Focus
<1>6. focusedWidget' \in (live' \ disabled') \cup {None}
  BY <1>2, <1>3 DEF Focus
<1>7. Exposure'
  BY <1>2, <1>3 DEF Exposure
<1>8. Flagged'
  BY <1>2 DEF Flagged
<1>9. QED
  BY <1>1, <1>4, <1>5, <1>6, <1>7, <1>8 DEF Focus

-------------------------------------------------------------------------------
(* The widget an event starts from is live, and so is the one it reaches.  *)
LEMMA EventsReachLive ==
    ASSUME Tree, Exposure, NEW hit, NEW keeps, NEW greedy, NEW closed
    PROVE  F!consumer(F!target, hit, keeps, greedy, closed) \in live \cup {None}
<1>1. F!target \in live
  BY DEF F!target, Tree, Exposure
<1>2. QED
  BY <1>1, ConsumerIsLive

(* Pointer events move the focus, the exposure and the grab.               *)
LEMMA PointerKeeps ==
    ASSUME WidgetsInv, NEW hit
    PROVE  /\ F!ButtonDown(hit) => WidgetsInv'
           /\ F!ButtonUp(hit) => WidgetsInv'
           /\ F!Motion(hit) => WidgetsInv'
           /\ F!Wheel(hit) => WidgetsInv'
           /\ F!Leave => WidgetsInv'
<1> USE DEF WidgetsInv, F!flags
<1>1. /\ exposedWidget \in live \cup {None} /\ grabbedWidget \in live \cup {None}
      /\ pressed \subseteq live /\ None \in live \cup {None}
  BY DEF Exposure
<1>2. ASSUME F!ButtonDown(hit) PROVE WidgetsInv'
  <2> DEFINE w == F!consumer(F!target, hit, grabbedWidget, {}, F!shut)
  <2>1. w \in live \cup {None}
    BY EventsReachLive
  <2>2. /\ UNCHANGED <<kids, live, disabled, invisible>> /\ down' \in BOOLEAN
        /\ \/ /\ w # None
              /\ F!setFocusedWidget(w)
              /\ F!setPointerWidgets(exposedWidget, grabbedWidget, pressed \cup {w})
           \/ /\ w = None
              /\ F!setFocusedWidget(None)
              /\ F!setPointerWidgets(None, grabbedWidget, pressed)
           \/ F!keepFocus /\ F!keepPointer
    BY <1>2 DEF F!ButtonDown
  <2> HIDE DEF w
  <2>3. Tree' /\ Flagged'
    BY <2>2, TreeStays DEF Flagged
  <2>4. Focus'
    BY <2>1, <2>2, FocusMoves, FocusStays
  <2>5. w # None => pressed \cup {w} \subseteq live
    BY <1>1, <2>1
  <2>6. Exposure'
    BY <1>1, <2>2, <2>5, ExposureSet, ExposureStays
  <2>7. QED
    BY <2>3, <2>4, <2>6
<1>3. ASSUME F!ButtonUp(hit) PROVE WidgetsInv'
  <2> DEFINE w == F!consumer(F!target, hit, None, {}, F!shut)
             e == IF w = None /\ F!Missed(hit) THEN None ELSE exposedWidget
  <2>1. /\ UNCHANGED <<kids, live, disabled, invisible>> /\ down' \in BOOLEAN
        /\ F!setPointerWidgets(e, None, pressed \ {w}) /\ F!keepFocus
    BY <1>3 DEF F!ButtonUp
  <2>2. e \in live \cup {None} /\ pressed \ {w} \subseteq live
    BY <1>1
  <2> HIDE DEF w, e
  <2>3. Tree' /\ Flagged'
    BY <2>1, TreeStays DEF Flagged
  <2>4. Focus'
    BY <2>1, FocusStays
  <2>5. Exposure'
    BY <1>1, <2>1, <2>2, ExposureSet
  <2>6. QED
    BY <2>3, <2>4, <2>5
<1>4. ASSUME F!Motion(hit) PROVE WidgetsInv'
  <2> DEFINE drag == IF down THEN PointerGrabbing \ {grabbedWidget} ELSE {}
             w == F!consumer(F!target, hit, grabbedWidget, drag, F!shut)
             g == IF w \in drag THEN w ELSE grabbedWidget
  <2>1. w \in live \cup {None}
    BY EventsReachLive
  <2>2. /\ UNCHANGED <<kids, live, disabled, invisible, down>> /\ F!keepFocus
        /\ \/ F!setPointerWidgets(w, g, pressed)
           \/ F!setPointerWidgets(None, grabbedWidget, pressed)
           \/ F!keepPointer
    BY <1>4 DEF F!Motion
  <2>3. g \in live \cup {None}
    BY <1>1, <2>1
  <2> HIDE DEF w, g, drag
  <2>4. Tree' /\ Flagged' /\ Focus'
    BY <2>2, TreeStays, FlagsStay, FocusStays
  <2>5. Exposure'
    BY <1>1, <2>1, <2>2, <2>3, ExposureSet, ExposureStays
  <2>6. QED
    BY <2>4, <2>5
<1>5. ASSUME F!Wheel(hit) PROVE WidgetsInv'
  <2> DEFINE w == F!consumer(F!target, hit, grabbedWidget, PointerGrabbing, F!shut)
  <2>1. w \in live \cup {None}
    BY EventsReachLive
  <2>2. /\ UNCHANGED <<kids, live, disabled, invisible, down>>
        /\ \/ F!setFocusedWidget(w) /\ F!keepPointer
           \/ F!keepFocus /\ F!keepPointer
           \/ F!keepFocus /\ F!setPointerWidgets(None, grabbedWidget, pressed)
    BY <1>5 DEF F!Wheel
  <2> HIDE DEF w
  <2>3. Tree' /\ Flagged'
    BY <2>2, TreeStays, FlagsStay
  <2>4. Focus'
    BY <2>1, <2>2, FocusMoves, FocusStays
  <2>5. Exposure'
    BY <1>1, <2>2, ExposureSet, ExposureStays
  <2>6. QED
    BY <2>3, <2>4, <2>5
<1>6. ASSUME F!Leave PROVE WidgetsInv'
  <2>1. /\ UNCHANGED <<kids, live, disabled, invisible, down>> /\ F!keepFocus
        /\ F!setPointerWidgets(None, None, pressed)
    BY <1>6 DEF F!Leave
  <2>2. Tree' /\ Flagged' /\ Focus'
    BY <2>1, TreeStays, FlagsStay, FocusStays
  <2>3. Exposure'
    BY <1>1, <2>1, ExposureSet
  <2>4. QED
    BY <2>2, <2>3
<1>7. QED
  BY <1>2, <1>3, <1>4, <1>5, <1>6

(* Keys and the window move the focus.                                     *)
LEMMA KeysKeep ==
    ASSUME WidgetsInv
    PROVE  /\ F!Tab => WidgetsInv'
           /\ F!Return => WidgetsInv'
           /\ F!GotFocus => WidgetsInv'
           /\ F!LostFocus => WidgetsInv'
           /\ F!CloseWindow => WidgetsInv'
           /\ F!ShowWindow => WidgetsInv'
<1> USE DEF WidgetsInv, F!flags
<1>1. ASSUME NEW forward \in BOOLEAN, NEW focused \in {focusedWidget, None}
      PROVE  F!search(F!tree, forward, focused) \in live \cup {None, Diverges, focusedWidget}
  <2>1. focused \in Widgets \cup {None}
    BY DEF Focus, Tree
  <2>2. F!search(F!tree, forward, focused) \in F!tree.accepts \cup {focused, Diverges}
    BY <2>1, TreeSearchable, SearchResult
  <2>3. QED
    BY <2>2, TreeSearchable
<1>2. ASSUME F!Tab PROVE WidgetsInv'
  <2>1. UNCHANGED <<kids, live, disabled, invisible, down>> /\ F!keepPointer
    BY <1>2 DEF F!Tab
  <2>2. PICK to \in {F!selectNext(F!tree, focusedWidget),
                     F!selectPrevious(F!tree, focusedWidget)} : F!setFocusedWidget(to)
    BY <1>2 DEF F!Tab
  <2>3. to \in live \cup {None, Diverges, focusedWidget}
    BY <1>1, <2>2 DEF F!selectNext, F!selectPrevious
  <2>4. Tree' /\ Flagged' /\ Exposure'
    BY <2>1, TreeStays, FlagsStay, ExposureStays
  <2>5. Focus'
    BY <2>1, <2>2, <2>3, FocusMoves
  <2>6. QED
    BY <2>4, <2>5
<1>3. ASSUME F!Return PROVE WidgetsInv'
  <2> DEFINE g == IF grabbedWidget = focusedWidget THEN None ELSE focusedWidget
  <2>1. /\ UNCHANGED <<kids, live, disabled, invisible, down>> /\ F!keepFocus
        /\ F!keepPointer \/ F!setPointerWidgets(exposedWidget, g, pressed)
    BY <1>3 DEF F!Return
  <2>2. /\ g \in live \cup {None} /\ exposedWidget \in live \cup {None}
        /\ pressed \subseteq live
    BY DEF Focus, Exposure
  <2> HIDE DEF g
  <2>3. Tree' /\ Flagged' /\ Focus'
    BY <2>1, TreeStays, FlagsStay, FocusStays
  <2>4. Exposure'
    BY <2>1, <2>2, ExposureSet, ExposureStays
  <2>5. QED
    BY <2>3, <2>4
<1>4. ASSUME F!GotFocus PROVE WidgetsInv'
  <2> DEFINE to == F!selectNext(F!tree, None)
  <2>1. /\ UNCHANGED <<kids, live, disabled, invisible, down>> /\ F!keepPointer
        /\ F!setFocusedWidget(to)
    BY <1>4 DEF F!GotFocus
  <2>2. to \in live \cup {None, Diverges, focusedWidget}
    BY <1>1 DEF F!selectNext
  <2> HIDE DEF to
  <2>3. Tree' /\ Flagged' /\ Exposure'
    BY <2>1, TreeStays, FlagsStay, ExposureStays
  <2>4. Focus'
    BY <2>1, <2>2, FocusMoves
  <2>5. QED
    BY <2>3, <2>4
<1>5. ASSUME F!LostFocus PROVE WidgetsInv'
  <2>1. /\ UNCHANGED <<kids, live, disabled, invisible, down>> /\ F!keepPointer
        /\ F!setFocusedWidget(None)
    BY <1>5 DEF F!LostFocus
  <2>2. Tree' /\ Flagged' /\ Exposure'
    BY <2>1, TreeStays, FlagsStay, ExposureStays
  <2>3. Focus'
    BY <2>1, FocusMoves
  <2>4. QED
    BY <2>2, <2>3
<1>6. ASSUME F!CloseWindow PROVE WidgetsInv'
  <2>1. /\ UNCHANGED <<kids, live, disabled, grabs, oskWidget, osk, down>>
        /\ focusedWidget' = None /\ exposedWidget' = None /\ grabbedWidget' = None
        /\ hasFocus' = hasFocus \ {focusedWidget}
        /\ exposed' = exposed \ {exposedWidget} /\ pressed' = pressed \ {exposedWidget}
        /\ invisible' = invisible \cup {window}
    BY <1>6 DEF F!CloseWindow
  <2>2. Tree' /\ Flagged'
    BY <2>1, TreeStays DEF Flagged, Tree
  <2>3. hasFocus' = {} /\ Keyboard'
    BY <2>1 DEF Focus, Keyboard
  <2>4. Focus'
    BY <2>1, <2>3 DEF Focus
  <2>5. Exposure'
    BY <2>1 DEF Exposure
  <2>6. QED
    BY <2>2, <2>4, <2>5
<1>7. ASSUME F!ShowWindow PROVE WidgetsInv'
  <2> DEFINE takes == (live \cap KeyInput) \ UNION {F!below[w] : w \in disabled \cup invisible'}
             shown == [F!tree EXCEPT !.accepts = takes]
             w == F!selectNext(shown, focusedWidget)
  <2>1. /\ UNCHANGED <<kids, live, disabled, down>> /\ F!keepPointer
        /\ invisible' = invisible \ {window}
        /\ IF focusedWidget = None /\ w \in shown.accepts THEN F!takeFocus(w)
           ELSE F!keepFocus
    BY <1>7 DEF F!ShowWindow
  <2>2. Tree' /\ Exposure'
    BY <2>1, TreeStays, ExposureStays
  <2>3. Flagged'
    BY <2>1 DEF Flagged
  <2>4. shown.accepts = takes
    BY DEF F!tree
  <2> HIDE DEF w, shown
  <2>5. CASE focusedWidget = None /\ w \in takes
    <3>1. F!takeFocus(w) /\ w \in live /\ w \in Widgets /\ w # focusedWidget
      BY <2>1, <2>4, <2>5, WidgetsGiven DEF Tree
    <3>2. w \notin disabled
      <4>1. \A v \in disabled : v \in F!below[v]
        BY BelowFacts DEF Tree, Flagged
      <4>2. QED
        BY <2>5, <4>1
    <3>3. hasFocus' = {focusedWidget'} \ {None} /\ focusedWidget' = w /\ Keyboard'
      BY <3>1, FocusTaken
    <3>4. Focus'
      BY <2>1, <3>1, <3>2, <3>3 DEF Focus
    <3>5. QED
      BY <2>2, <2>3, <3>4
  <2>6. CASE ~ (focusedWidget = None /\ w \in takes)
    <3>1. F!keepFocus
      BY <2>1, <2>4, <2>6
    <3>2. Focus'
      BY <2>1, <3>1, FocusStays
    <3>3. QED
      BY <2>2, <2>3, <3>2
  <2>7. QED
    BY <2>5, <2>6
<1>8. QED
  BY <1>2, <1>3, <1>4, <1>5, <1>6, <1>7

LEMMA WidgetsStep == WidgetsInv /\ [F!Next]_widgetVars => WidgetsInv'
<1> SUFFICES ASSUME WidgetsInv, [F!Next]_widgetVars PROVE WidgetsInv'
  OBVIOUS
<1>1. CASE UNCHANGED widgetVars
  BY <1>1 DEF widgetVars, WidgetsInv, Tree, Focus, Keyboard, Exposure, Flagged
<1>2. CASE F!Next
  <2>1. ASSUME NEW w \in Widgets,
               \/ F!setDisabled(w) \/ F!setEnabled(w) \/ F!setFocus(w) \/ F!clearFocus(w)
               \/ F!removeChild(w) \/ F!restack(w)
               \/ \E shown \in BOOLEAN : F!setVisible(w, shown)
        PROVE  WidgetsInv'
    <3>1. CASE F!removeChild(w)
      BY <3>1, RemovingKeeps
    <3>2. CASE ~ F!removeChild(w)
      BY <2>1, <3>2, CallsKeep
    <3>3. QED
      BY <3>1, <3>2
  <2>2. ASSUME F!Input PROVE WidgetsInv'
    BY <2>2, PointerKeeps, KeysKeep DEF F!Input
  <2>3. QED
    BY <1>2, <2>1, <2>2, KeysKeep DEF F!Next
<1>3. QED
  BY <1>1, <1>2

(***************************************************************************)
(* For any tree of widgets and anything the application, the pointer and   *)
(* the keys do to it: the tree stays one, the bits agree with the event    *)
(* manager, no event goes to a deleted widget, a disabled one has no focus *)
(* and the on-screen keyboard goes where the focus goes.                   *)
(***************************************************************************)
THEOREM WidgetsAreConsistent == ScreensSpec => []WidgetsConsistent
<1> DEFINE Inv == part = "widgets" => WidgetsInv
<1>1. ScreensInit => Inv
  BY WidgetsBegin DEF ScreensInit
<1>2. Inv /\ [ScreensNext]_all => Inv'
  <2> SUFFICES ASSUME Inv, [ScreensNext]_all, part' = "widgets" PROVE WidgetsInv'
    OBVIOUS
  <2>1. part = "widgets" /\ [F!Next]_widgetVars
    BY DEF ScreensNext, Others, all
  <2>2. QED
    BY <2>1, WidgetsStep
<1>3. Inv => WidgetsConsistent
  <2> SUFFICES ASSUME WidgetsInv
               PROVE  /\ F!TypeOK /\ F!BitsAgree /\ F!ManagerHoldsLive
                      /\ F!DisabledHasNoFocus /\ F!KeyboardFollowsFocus
    BY DEF WidgetsConsistent, F!Consistent
  <2> USE DEF WidgetsInv
  <2>1. F!BitsAgree /\ F!ManagerHoldsLive
    BY DEF F!BitsAgree, F!ManagerHoldsLive, Focus, Exposure
  <2>2. F!DisabledHasNoFocus
    BY WidgetsGiven DEF F!DisabledHasNoFocus, Focus, Flagged, Tree
  <2>3. F!KeyboardFollowsFocus
    BY DEF F!KeyboardFollowsFocus, Focus, Keyboard
  <2>4. F!TypeOK
    <3>1. /\ kids \in [Widgets -> Seq(Widgets)] /\ live \subseteq Widgets
          /\ \A v \in Widgets : F!IsInjective(kids[v]) /\ F!ToSet(kids[v]) \subseteq live
      BY SameOps DEF Tree
    <3>2. hasFocus \subseteq live /\ exposed \subseteq live
      BY DEF Focus, Exposure
    <3>3. UNION {disabled, invisible, hasFocus, exposed, pressed, grabs} \subseteq live
      BY <3>2 DEF Exposure, Flagged
    <3>4. {focusedWidget, exposedWidget, grabbedWidget, oskWidget} \subseteq F!WidgetPointer
      BY DEF F!WidgetPointer, Focus, Exposure, Keyboard, Tree
    <3>5. down \in BOOLEAN /\ osk \in BOOLEAN
      BY DEF Flagged, Focus, Keyboard
    <3>6. QED
      BY <3>1, <3>3, <3>4, <3>5 DEF F!TypeOK
  <2>5. QED
    BY <2>1, <2>2, <2>3, <2>4
<1>4. QED
  BY <1>1, <1>2, <1>3, PTL DEF ScreensSpec

-------------------------------------------------------------------------------
(***************************************************************************)
(* The tab key.  A search goes through the widgets in the order of the     *)
(* tree; that it ends is shown by what it may still do: leave the widget it*)
(* is at and those that hold it, enter and leave those that come after.    *)
(* Every call leaves less of that to the one it makes, and the fuel of the *)
(* first call is enough for all of it.                                     *)
(***************************************************************************)

(* The way back up the tree: every live widget but the window is the child *)
(* of a live one.                                                          *)
Rooted == \A w \in live \ {window} : \E p \in live : w \in ToSet(kids[p])

(* A widget has one parent, which is live and knows it, and is not in what *)
(* the widget holds.                                                       *)
LEMMA ParentIs ==
    ASSUME Tree, Rooted, NEW p \in Widgets, NEW v \in ToSet(kids[p])
    PROVE  /\ v \in live /\ p \in live /\ v # window
           /\ \A q \in Widgets : v \in ToSet(kids[q]) => q = p
           /\ F!tree.parent[v] = p
<1>1. v \in live /\ live \subseteq Widgets /\ v \in ToSet(Kids[p]) /\ v # window
  BY WidgetsGiven DEF Tree
<1>2. ASSUME NEW q \in Widgets, v \in ToSet(kids[q]) PROVE q = p
  <2>1. v \in ToSet(Kids[q])
    BY <1>2 DEF Tree
  <2>2. QED
    BY <1>1, <2>1, WidgetsGiven
<1>3. p \in live
  BY <1>1, <1>2 DEF Rooted
<1>4. F!tree.parent[v] = IF \E q \in live : v \in F!ToSet(kids[q])
                         THEN CHOOSE q \in live : v \in F!ToSet(kids[q]) ELSE None
  BY <1>1 DEF F!tree
<1>5. F!tree.parent[v] = p
  <2>1. \A q \in live : v \in F!ToSet(kids[q]) <=> q = p
    BY <1>1, <1>2, SameOps
  <2>2. QED
    BY <1>3, <1>4, <2>1
<1>6. QED
  BY <1>1, <1>2, <1>3, <1>5

(* The window has no parent.                                               *)
LEMMA WindowIsTop ==
    ASSUME Tree
    PROVE  /\ F!tree.parent[window] = None /\ F!tree.kids = kids
           /\ \A p \in Widgets : window \notin ToSet(kids[p])
<1>1. \A p \in Widgets : window \notin ToSet(kids[p])
  BY WidgetsGiven DEF Tree
<1>2. ~ \E p \in live : window \in F!ToSet(kids[p])
  BY <1>1, SameOps DEF Tree
<1>3. F!tree.parent[window] = None
  BY <1>2, WidgetsGiven DEF F!tree
<1>4. QED
  BY <1>1, <1>3 DEF F!tree

(* A widget holds what its children hold, and the children of what it      *)
(* holds.                                                                  *)
LEMMA BelowCloses ==
    ASSUME Tree, NEW w \in Widgets
    PROVE  /\ \A v \in ToSet(kids[w]) : F!below[v] \subseteq F!below[w]
           /\ \A x \in F!below[w] : ToSet(kids[x]) \subseteq F!below[w]
<1>1. \A x \in Widgets : F!below[x] = {x} \cup UNION {F!below[v] : v \in ToSet(kids[x])}
  BY BelowIs
<1> DEFINE good == {y \in Widgets : \A x \in F!below[y] : ToSet(kids[x]) \subseteq F!below[y]}
<1>2. ASSUME NEW y \in Widgets, \A v \in ToSet(kids[y]) : v \in good PROVE y \in good
  <2> SUFFICES ASSUME NEW x \in F!below[y] PROVE ToSet(kids[x]) \subseteq F!below[y]
    OBVIOUS
  <2>1. CASE x = y
    <3>1. \A v \in ToSet(kids[y]) : v \in Widgets
      BY <1>2
    <3>2. \A v \in ToSet(kids[y]) : v \in F!below[v]
      BY <3>1, BelowFacts
    <3>3. QED
      BY <1>1, <2>1, <3>2
  <2>2. CASE x # y
    <3>1. PICK v \in ToSet(kids[y]) : x \in F!below[v]
      BY <1>1, <2>2
    <3>2. ToSet(kids[x]) \subseteq F!below[v] /\ F!below[v] \subseteq F!below[y]
      BY <1>1, <1>2, <3>1
    <3>3. QED
      BY <3>2
  <2>3. QED
    BY <2>1, <2>2
<1>3. Widgets \subseteq good
  <2> HIDE DEF good
  <2>1. QED
    BY <1>2, WidgetsInduct
<1>4. QED
  BY <1>1, <1>3

(* A parent is not in what its child holds.                                *)
LEMMA ParentNotBelow ==
    ASSUME Tree, NEW p \in Widgets, NEW v \in ToSet(kids[p])
    PROVE  p \notin F!below[v]
<1>1. PICK rank, n : Ranks(rank, n)
  BY RanksExist
<1>2. \A x \in Widgets : \A y \in ToSet(kids[x]) : y \in Widgets /\ rank[y] < rank[x]
  BY <1>1 DEF Tree, Ranks
<1>3. rank \in [Widgets -> Nat]
  BY <1>1 DEF Ranks
<1> DEFINE good == {x \in Widgets : \A y \in F!below[x] : rank[y] <= rank[x]}
<1>4. ASSUME NEW x \in Widgets, \A y \in ToSet(kids[x]) : y \in good PROVE x \in good
  <2> SUFFICES ASSUME NEW y \in F!below[x] PROVE rank[y] <= rank[x]
    OBVIOUS
  <2>1. y = x \/ \E z \in ToSet(kids[x]) : y \in F!below[z]
    BY BelowIs
  <2>2. y \in Widgets
    BY BelowFacts
  <2>3. CASE y = x
    BY <1>3, <2>3
  <2>4. ASSUME NEW z \in ToSet(kids[x]), y \in F!below[z] PROVE rank[y] <= rank[x]
    <3>1. rank[y] <= rank[z] /\ rank[z] < rank[x] /\ z \in Widgets
      BY <1>2, <1>4, <2>4
    <3>2. QED
      BY <1>3, <2>2, <3>1
  <2>5. QED
    BY <2>1, <2>3, <2>4
<1>5. Widgets \subseteq good
  <2> HIDE DEF good
  <2>1. QED
    BY <1>4, WidgetsInduct
<1>6. v \in Widgets /\ rank[v] < rank[p]
  BY <1>2
<1>7. QED
  <2> SUFFICES ASSUME p \in F!below[v] PROVE FALSE
    OBVIOUS
  <2>1. rank[p] <= rank[v]
    BY <1>5, <1>6
  <2>2. QED
    BY <1>3, <1>6, <2>1

(* Who holds a child, but for the child, holds its parent.                 *)
LEMMA ChildIsHeld ==
    ASSUME Tree, Rooted, NEW p \in Widgets, NEW v \in ToSet(kids[p]), NEW u \in Widgets
    PROVE  v \in F!below[u] <=> u = v \/ p \in F!below[u]
<1>1. v \in F!below[u] => u = v \/ p \in F!below[u]
  <2> SUFFICES ASSUME v \in F!below[u], u # v PROVE p \in F!below[u]
    OBVIOUS
  <2>1. F!below[u] \subseteq Widgets
    BY BelowFacts
  <2>2. PICK q \in F!below[u] : v \in ToSet(kids[q])
    BY BelowFacts
  <2>3. q = p
    BY <2>1, <2>2, ParentIs
  <2>4. QED
    BY <2>3
<1>2. p \in F!below[u] => v \in F!below[u]
  BY BelowCloses
<1>3. u = v => v \in F!below[u]
  BY BelowFacts
<1>4. QED
  BY <1>1, <1>2, <1>3

(* Two children of a widget hold nothing in common.                        *)
LEMMA SiblingsApart ==
    ASSUME Tree, Rooted, NEW p \in Widgets, NEW u \in ToSet(kids[p]), NEW x \in ToSet(kids[p]),
           u # x
    PROVE  F!below[u] \cap F!below[x] = {}
<1>1. u \in Widgets /\ x \in Widgets
  BY DEF Tree
<1>2. PICK rank, n : Ranks(rank, n)
  BY RanksExist
<1> DEFINE both == F!below[u] \cap F!below[x]
           I == {n - rank[w] : w \in both}
<1>3. both \subseteq Widgets
  BY <1>1, BelowFacts
<1>4. \A w \in Widgets : rank[w] \in Nat /\ rank[w] < n /\ n \in Nat
  BY <1>2 DEF Ranks
<1>5. I \subseteq Nat
  BY <1>3, <1>4
<1> SUFFICES ASSUME both # {} PROVE FALSE
  OBVIOUS
<1>6. PICK w \in both : \A k \in I : n - rank[w] <= k
  <2>1. I # {}
    OBVIOUS
  <2> HIDE DEF I, both
  <2>2. PICK m \in I : \A k \in I : m <= k
    BY <1>5, <2>1, LeastNat
  <2>3. PICK w \in both : m = n - rank[w]
    BY DEF I
  <2>4. QED
    BY <2>2, <2>3
<1>7. CASE w = u
  <2>1. p \in F!below[x]
    BY <1>1, <1>7, ChildIsHeld
  <2>2. QED
    BY <2>1, ParentNotBelow
<1>8. CASE w = x
  <2>1. p \in F!below[u]
    BY <1>1, <1>8, ChildIsHeld
  <2>2. QED
    BY <2>1, ParentNotBelow
<1>9. CASE w # u /\ w # x
  <2>1. PICK q \in F!below[u] : w \in ToSet(kids[q])
    BY <1>1, <1>9, BelowFacts
  <2>2. q \in Widgets
    BY <1>1, BelowFacts
  <2>3. q \in both
    BY <1>1, <1>9, <2>1, <2>2, ChildIsHeld
  <2>4. rank[w] < rank[q]
    BY <1>2, <2>1, <2>2 DEF Tree, Ranks
  <2>5. n - rank[w] <= n - rank[q]
    BY <1>6, <2>3
  <2>6. QED
    BY <1>3, <1>4, <2>2, <2>4, <2>5
<1>10. QED
  BY <1>7, <1>8, <1>9

(* The children of a widget in the order of a search, and what comes after *)
(* a widget in that order: the order of the tree when the search goes      *)
(* forward.                                                                *)
Line(forward, w) == IF forward THEN kids[w] ELSE F!Reverse(kids[w])

Before(forward, u, x) ==
    \E p \in Widgets : \E i, j \in DOMAIN Line(forward, p) :
        i < j /\ Line(forward, p)[i] = u /\ Line(forward, p)[j] = x

Behind(forward, w) == UNION {F!below[v] : v \in {x \in Widgets :
                          \E u \in Widgets : Before(forward, u, x) /\ w \in F!below[u]}}

(* What the children of a widget hold that come after the i-th.            *)
Rest(forward, p, i) == UNION {F!below[Line(forward, p)[j]] : j \in i + 1 .. Len(kids[p])}

LEMMA LineIs ==
    ASSUME Tree, NEW forward \in BOOLEAN, NEW p \in Widgets
    PROVE  /\ Line(forward, p) \in Seq(Widgets)
           /\ Len(Line(forward, p)) = Len(kids[p]) /\ Len(kids[p]) \in Nat
           /\ DOMAIN Line(forward, p) = 1 .. Len(kids[p])
           /\ \A i \in 1 .. Len(kids[p]) : Line(forward, p)[i] \in ToSet(kids[p])
           /\ \A i, j \in 1 .. Len(kids[p]) : Line(forward, p)[i] = Line(forward, p)[j] => i = j
           /\ \A v \in ToSet(kids[p]) : \E i \in 1 .. Len(kids[p]) : Line(forward, p)[i] = v
<1> DEFINE s == kids[p]
           n == Len(s)
<1>1. /\ s \in Seq(Widgets) /\ n \in Nat /\ DOMAIN s = 1 .. n
      /\ \A i, j \in 1 .. n : s[i] = s[j] => i = j
  BY DEF Tree, IsInjective
<1> HIDE DEF s
<1>2. ToSet(s) = {s[i] : i \in 1 .. n}
  BY <1>1 DEF ToSet
<1>3. CASE forward
  BY <1>1, <1>2, <1>3 DEF Line, s
<1>4. CASE ~ forward
  <2> DEFINE r == F!Reverse(s)
  <2>1. r = [i \in 1 .. n |-> s[(n - i) + 1]]
    BY DEF F!Reverse
  <2>2. r \in Seq(Widgets)
    BY <1>1, ReversedType
  <2>3. \A i \in 1 .. n : (n - i) + 1 \in 1 .. n /\ (n - ((n - i) + 1)) + 1 = i
    BY <1>1
  <2>4. \A i \in 1 .. n : r[i] = s[(n - i) + 1] /\ r[(n - i) + 1] = s[i]
    BY <2>1, <2>3
  <2>5. DOMAIN r = 1 .. n /\ Len(r) = n
    BY <1>1, <2>1, <2>2
  <2> HIDE DEF r
  <2>6. \A i, j \in 1 .. n : r[i] = r[j] => i = j
    <3> SUFFICES ASSUME NEW i \in 1 .. n, NEW j \in 1 .. n, r[i] = r[j] PROVE i = j
      OBVIOUS
    <3>1. (n - i) + 1 = (n - j) + 1
      BY <1>1, <2>3, <2>4
    <3>2. QED
      BY <1>1, <3>1
  <2>7. Line(forward, p) = r
    BY <1>4 DEF Line, r, s
  <2> HIDE DEF n
  <2>8. \A i \in 1 .. n : r[i] \in ToSet(s)
    BY <1>2, <2>3, <2>4
  <2>9. \A v \in ToSet(s) : \E i \in 1 .. n : r[i] = v
    BY <1>2, <2>3, <2>4
  <2>10. QED
    BY <1>1, <2>2, <2>5, <2>6, <2>7, <2>8, <2>9 DEF n, s
<1>5. QED
  BY <1>3, <1>4

LEMMA ForwardIsLater == \A w : Behind(TRUE, w) = F!Later(w)
  BY DEF Behind, Before, Line, F!Later, F!Precedes

(* A widget holds itself and all that its children hold.                   *)
LEMMA BelowIsRest ==
    ASSUME Tree, NEW forward \in BOOLEAN, NEW p \in Widgets
    PROVE  F!below[p] = {p} \cup Rest(forward, p, 0)
<1>1. F!below[p] = {p} \cup UNION {F!below[v] : v \in ToSet(kids[p])}
  BY BelowIs
<1>2. {F!below[v] : v \in ToSet(kids[p])}
         = {F!below[Line(forward, p)[j]] : j \in 0 + 1 .. Len(kids[p])}
  <2>1. \A v \in ToSet(kids[p]) : \E j \in 0 + 1 .. Len(kids[p]) : Line(forward, p)[j] = v
    BY LineIs
  <2>2. \A j \in 0 + 1 .. Len(kids[p]) : Line(forward, p)[j] \in ToSet(kids[p])
    BY LineIs
  <2>3. QED
    BY <2>1, <2>2
<1>3. QED
  BY <1>1, <1>2 DEF Rest

(* After a child come what the children after it hold, and what comes      *)
(* after its parent.                                                       *)
LEMMA BehindChild ==
    ASSUME Tree, Rooted, NEW forward \in BOOLEAN, NEW p \in Widgets,
           NEW i \in 1 .. Len(kids[p])
    PROVE  Behind(forward, Line(forward, p)[i]) = Rest(forward, p, i) \cup Behind(forward, p)
<1> DEFINE line0 == Line(forward, p)
           v == line0[i]
           n == Len(kids[p])
<1>1. /\ v \in ToSet(kids[p]) /\ v \in Widgets /\ n \in Nat
      /\ \A j \in 1 .. n : line0[j] \in Widgets
  BY LineIs DEF Tree
<1>2. \A u \in Widgets : v \in F!below[u] <=> u = v \/ p \in F!below[u]
  BY <1>1, ChildIsHeld
<1>3. \A x \in Widgets : Before(forward, v, x) <=> \E j \in i + 1 .. n : line0[j] = x
  <2> SUFFICES ASSUME NEW x \in Widgets
               PROVE  Before(forward, v, x) <=> \E j \in i + 1 .. n : line0[j] = x
    OBVIOUS
  <2>1. ASSUME Before(forward, v, x) PROVE \E j \in i + 1 .. n : line0[j] = x
    <3>8. PICK q \in Widgets : \E k, j \in DOMAIN Line(forward, q) :
             k < j /\ Line(forward, q)[k] = v /\ Line(forward, q)[j] = x
      BY <2>1 DEF Before
    <3>1. PICK k \in DOMAIN Line(forward, q), j \in DOMAIN Line(forward, q) :
             k < j /\ Line(forward, q)[k] = v /\ Line(forward, q)[j] = x
      BY <3>8
    <3>9. k \in 1 .. Len(kids[q])
      BY <3>1, LineIs
    <3>2. v \in ToSet(kids[q])
      BY <3>1, <3>9, LineIs
    <3>3. q = p
      BY <1>1, <3>2, ParentIs
    <3>4. k \in 1 .. n /\ j \in 1 .. n /\ line0[k] = line0[i]
      BY <3>1, <3>3, LineIs
    <3>5. k = i
      BY <3>4, LineIs
    <3>6. j \in i + 1 .. n
      BY <1>1, <3>1, <3>4, <3>5
    <3>7. QED
      BY <3>1, <3>3, <3>6
  <2>2. ASSUME NEW j \in i + 1 .. n, line0[j] = x PROVE Before(forward, v, x)
    <3>1. i \in DOMAIN line0 /\ j \in DOMAIN line0 /\ i < j
      <4>1. DOMAIN line0 = 1 .. n
        BY LineIs
      <4> HIDE DEF line0, n, v
      <4>2. QED
        BY <1>1, <4>1
    <3>2. QED
      BY <2>2, <3>1 DEF Before
  <2>3. QED
    BY <2>1, <2>2
<1>4. {x \in Widgets : \E u \in Widgets : Before(forward, u, x) /\ v \in F!below[u]}
      = {line0[j] : j \in i + 1 .. n}
        \cup {x \in Widgets : \E u \in Widgets : Before(forward, u, x) /\ p \in F!below[u]}
  <2>1. \A j \in i + 1 .. n : line0[j] \in Widgets
    <3> HIDE DEF line0, n
    <3>1. QED
      BY <1>1
  <2> HIDE DEF line0, v, n
  <2>2. QED
    BY <1>1, <1>2, <1>3, <2>1
<1>5. Rest(forward, p, i) = UNION {F!below[x] : x \in {line0[j] : j \in i + 1 .. n}}
  BY DEF Rest
<1> HIDE DEF line0, v, n
<1>6. Behind(forward, v) = Rest(forward, p, i) \cup Behind(forward, p)
  BY <1>4, <1>5 DEF Behind
<1>7. QED
  BY <1>6 DEF v, line0

(* Nothing comes after the window.                                         *)
LEMMA NothingBehindWindow ==
    ASSUME Tree, NEW forward \in BOOLEAN
    PROVE  Behind(forward, window) = {}
<1>1. \A u \in Widgets : window \in F!below[u] => u = window
  BY WindowNotBelow
<1>2. ASSUME NEW x \in Widgets PROVE ~ Before(forward, window, x)
  <2> SUFFICES ASSUME NEW p \in Widgets, NEW i \in DOMAIN Line(forward, p)
               PROVE  Line(forward, p)[i] # window
    BY DEF Before
  <2>1. i \in 1 .. Len(kids[p])
    BY LineIs
  <2>2. Line(forward, p)[i] \in ToSet(kids[p])
    BY <2>1, LineIs
  <2>3. QED
    BY <2>2, WindowIsTop
<1>3. QED
  BY <1>1, <1>2 DEF Behind

(* A widget does not come after itself.                                    *)
LEMMA NotBehindItself ==
    ASSUME Tree, Rooted, NEW forward \in BOOLEAN, NEW w \in Widgets
    PROVE  w \notin Behind(forward, w)
<1> SUFFICES ASSUME NEW u \in Widgets, NEW x \in Widgets, Before(forward, u, x),
                    w \in F!below[u], w \in F!below[x]
             PROVE  FALSE
  BY DEF Behind
<1>5. PICK p \in Widgets : \E i, j \in DOMAIN Line(forward, p) :
         i < j /\ Line(forward, p)[i] = u /\ Line(forward, p)[j] = x
  BY DEF Before
<1>1. PICK i \in DOMAIN Line(forward, p), j \in DOMAIN Line(forward, p) :
         i < j /\ Line(forward, p)[i] = u /\ Line(forward, p)[j] = x
  BY <1>5
<1>2. i \in 1 .. Len(kids[p]) /\ j \in 1 .. Len(kids[p]) /\ i # j
  BY <1>1, LineIs
<1>3. u \in ToSet(kids[p]) /\ x \in ToSet(kids[p]) /\ u # x
  BY <1>1, <1>2, LineIs
<1>4. QED
  BY <1>3, SiblingsApart

(* What a search may still do when the children of a widget after the i-th *)
(* are next: leave it and those that hold it, enter and leave the others.  *)
Ways(forward, p, i) ==
    ({u \in Widgets : p \in F!below[u]} \X {2})
    \cup ((Rest(forward, p, i) \cup Behind(forward, p)) \X {1, 2})

Room == 2 * F!Cardinality(Widgets)

LEMMA RestType ==
    ASSUME Tree, NEW forward \in BOOLEAN, NEW p \in Widgets, NEW i \in 0 .. Len(kids[p])
    PROVE  Rest(forward, p, i) \subseteq Widgets /\ Behind(forward, p) \subseteq Widgets
<1>1. \A j \in i + 1 .. Len(kids[p]) : j \in 1 .. Len(kids[p])
  BY LineIs
<1>2. \A j \in 1 .. Len(kids[p]) : Line(forward, p)[j] \in Widgets
  BY LineIs DEF Tree
<1>3. \A w \in Widgets : F!below[w] \subseteq Widgets
  BY BelowFacts
<1>4. QED
  BY <1>1, <1>2, <1>3 DEF Rest, Behind

(* A widget is entered before its children are searched.                   *)
LEMMA WaysEntered ==
    ASSUME Tree, Rooted, NEW forward \in BOOLEAN, NEW p \in Widgets, NEW i \in 0 .. Len(kids[p])
    PROVE  /\ Ways(forward, p, i) \subseteq (Widgets \X {1, 2}) \ {<<p, 1>>}
           /\ <<p, 2>> \in Ways(forward, p, i)
<1>1. p \notin Rest(forward, p, i)
  <2> SUFFICES ASSUME NEW j \in i + 1 .. Len(kids[p]) PROVE p \notin F!below[Line(forward, p)[j]]
    BY DEF Rest
  <2>1. j \in 1 .. Len(kids[p])
    BY LineIs
  <2>2. Line(forward, p)[j] \in ToSet(kids[p])
    BY <2>1, LineIs
  <2>3. QED
    BY <2>2, ParentNotBelow
<1>2. p \notin Behind(forward, p)
  BY NotBehindItself
<1>3. p \in F!below[p]
  BY BelowFacts
<1>4. QED
  BY <1>1, <1>2, <1>3, RestType DEF Ways

(* A child of the ones to come leaves less to do.                          *)
LEMMA WaysDown ==
    ASSUME Tree, Rooted, NEW forward \in BOOLEAN, NEW p \in Widgets, NEW i \in 0 .. Len(kids[p]),
           NEW j \in i + 1 .. Len(kids[p])
    PROVE  /\ Ways(forward, Line(forward, p)[j], 0) \subseteq Ways(forward, p, i)
           /\ Ways(forward, Line(forward, p)[j], 0) # Ways(forward, p, i)
<1> DEFINE v == Line(forward, p)[j]
<1>1. j \in 1 .. Len(kids[p]) /\ Len(kids[p]) \in Nat /\ i \in Nat
  BY LineIs
<1>2. v \in ToSet(kids[p]) /\ v \in Widgets
  BY <1>1, LineIs DEF Tree
<1>3. \A u \in Widgets : v \in F!below[u] <=> u = v \/ p \in F!below[u]
  BY <1>2, ChildIsHeld
<1>4. F!below[v] = {v} \cup Rest(forward, v, 0) /\ F!below[v] \subseteq Rest(forward, p, i)
  <2>1. F!below[v] = {v} \cup Rest(forward, v, 0)
    BY <1>2, BelowIsRest
  <2>2. F!below[v] \subseteq Rest(forward, p, i)
    BY DEF Rest
  <2>3. QED
    BY <2>1, <2>2
<1>5. Behind(forward, v) = Rest(forward, p, j) \cup Behind(forward, p)
  BY <1>1, BehindChild
<1>6. Rest(forward, p, j) \subseteq Rest(forward, p, i)
  <2>1. \A k \in j + 1 .. Len(kids[p]) : k \in i + 1 .. Len(kids[p])
    BY <1>1
  <2>2. QED
    BY <2>1 DEF Rest
<1> HIDE DEF v
<1>7. Ways(forward, v, 0) \subseteq Ways(forward, p, i)
  BY <1>3, <1>4, <1>5, <1>6 DEF Ways
<1>8. <<v, 1>> \in Ways(forward, p, i)
  BY <1>4 DEF Ways
<1>9. <<v, 1>> \notin Ways(forward, v, 0)
  <2>1. 0 \in 0 .. Len(kids[v])
    BY <1>2, LineIs
  <2>2. QED
    BY <1>2, <2>1, WaysEntered
<1>10. QED
  BY <1>7, <1>8, <1>9 DEF v

(* So does the way up to the parent.                                       *)
LEMMA WaysUp ==
    ASSUME Tree, Rooted, NEW forward \in BOOLEAN, NEW q \in Widgets, NEW k \in 1 .. Len(kids[q]),
           NEW p \in Widgets, p = Line(forward, q)[k], NEW i \in 0 .. Len(kids[p])
    PROVE  /\ Ways(forward, q, k) \subseteq Ways(forward, p, i)
           /\ Ways(forward, q, k) # Ways(forward, p, i)
<1>1. p \in ToSet(kids[q])
  BY LineIs
<1>2. \A u \in Widgets : p \in F!below[u] <=> u = p \/ q \in F!below[u]
  BY <1>1, ChildIsHeld
<1>3. Behind(forward, p) = Rest(forward, q, k) \cup Behind(forward, q)
  BY BehindChild
<1>4. Ways(forward, q, k) \subseteq Ways(forward, p, i)
  BY <1>2, <1>3 DEF Ways
<1>5. <<p, 2>> \in Ways(forward, p, i)
  BY WaysEntered
<1>6. <<p, 2>> \notin Ways(forward, q, k)
  <2>1. q \notin F!below[p]
    BY <1>1, ParentNotBelow
  <2>2. p \notin Behind(forward, p)
    BY NotBehindItself
  <2>3. QED
    BY <1>3, <2>1, <2>2 DEF Ways
<1>7. QED
  BY <1>4, <1>5, <1>6

(* The fuel of a search is enough for all of it.                           *)
LEMMA RoomIsEnough ==
    ASSUME Tree, Rooted, NEW forward \in BOOLEAN
    PROVE  /\ Room \in Nat /\ Room >= 2
           /\ \A p \in Widgets : \A i \in 0 .. Len(kids[p]) :
                 /\ IsFiniteSet(Ways(forward, p, i))
                 /\ Cardinality(Ways(forward, p, i)) \in 1 .. Room - 1
<1>1. IsFiniteSet(Widgets) /\ F!Cardinality(Widgets) = Cardinality(Widgets)
  <2>1. F!IsFiniteSet(Widgets)
    BY ScreenWidgetsAssumption DEF F!WidgetsAssumption
  <2>2. IsFiniteSet(Widgets)
    BY <2>1 DEF F!IsFiniteSet, IsFiniteSet
  <2>3. QED
    BY <2>2 DEF F!Cardinality, Cardinality
<1> DEFINE both == {1, 2}
           all2 == Widgets \X both
<1>2. IsFiniteSet(both) /\ Cardinality(both) = 2
  <2>1. both = 1 .. 2
    OBVIOUS
  <2>2. IsFiniteSet(1 .. 2) /\ Cardinality(1 .. 2) = IF 1 > 2 THEN 0 ELSE 2 - 1 + 1
    <3>1. 1 \in Int /\ 2 \in Int
      OBVIOUS
    <3>2. QED
      BY <3>1, FS_Interval, Zenon
  <2>3. Cardinality(1 .. 2) = 2
    BY <2>2
  <2> HIDE DEF both
  <2>4. QED
    BY <2>1, <2>2, <2>3, Zenon
<1>3. Cardinality(Widgets) \in Nat /\ Cardinality(Widgets) # 0
  BY <1>1, WidgetsGiven, FS_CardinalityType, FS_EmptySet
<1> HIDE DEF both
<1>4. IsFiniteSet(all2) /\ Cardinality(all2) = Cardinality(Widgets) * Cardinality(both)
  BY <1>1, <1>2, FS_Product
<1>5. Room \in Nat /\ Room >= 2 /\ Cardinality(all2) = Room
  BY <1>1, <1>2, <1>3, <1>4 DEF Room
<1>6. ASSUME NEW p \in Widgets, NEW i \in 0 .. Len(kids[p])
      PROVE  /\ IsFiniteSet(Ways(forward, p, i))
             /\ Cardinality(Ways(forward, p, i)) \in 1 .. Room - 1
  <2> DEFINE less == all2 \ {<<p, 1>>}
             ways == Ways(forward, p, i)
  <2>1. IsFiniteSet(less) /\ Cardinality(less) = Room - 1
    <3>1. <<p, 1>> \in all2
      BY DEF both
    <3> HIDE DEF all2
    <3>2. QED
      BY <1>4, <1>5, <3>1, FS_RemoveElement
  <2>2. ways \in SUBSET less /\ <<p, 2>> \in ways
    BY WaysEntered DEF both
  <2> HIDE DEF less, ways
  <2>3. IsFiniteSet(ways) /\ Cardinality(ways) <= Cardinality(less)
    BY <2>1, <2>2, FS_Subset
  <2>4. Cardinality(ways) \in Nat /\ Cardinality(ways) # 0
    <3>1. ways # {}
      BY <2>2
    <3>2. QED
      BY <2>3, <3>1, FS_CardinalityType, FS_EmptySet
  <2>5. QED
    BY <1>5, <2>1, <2>3, <2>4 DEF ways
<1>7. QED
  BY <1>5, <1>6

(* Less to do takes less fuel.                                             *)
LEMMA LessFuel ==
    ASSUME Tree, Rooted, NEW forward \in BOOLEAN, NEW fuel \in Nat,
           NEW p \in Widgets, NEW i \in 0 .. Len(kids[p]),
           NEW q \in Widgets, NEW k \in 0 .. Len(kids[q]),
           Ways(forward, q, k) \subseteq Ways(forward, p, i),
           Ways(forward, q, k) # Ways(forward, p, i),
           Cardinality(Ways(forward, p, i)) <= fuel + 1
    PROVE  Cardinality(Ways(forward, q, k)) <= fuel
<1> DEFINE a == Ways(forward, q, k)
           b == Ways(forward, p, i)
<1>1. IsFiniteSet(b) /\ Cardinality(a) \in Nat /\ Cardinality(b) \in Nat
  <2>1. Cardinality(a) \in 1 .. Room - 1 /\ Cardinality(b) \in 1 .. Room - 1
    BY RoomIsEnough
  <2> HIDE DEF a, b
  <2>2. Room \in Nat
    BY RoomIsEnough
  <2>3. QED
    BY <2>1, <2>2, RoomIsEnough DEF b
<1>2. Cardinality(a) <= Cardinality(b) /\ Cardinality(a) # Cardinality(b)
  <2>1. a \in SUBSET b /\ a # b
    OBVIOUS
  <2> HIDE DEF a, b
  <2>2. QED
    BY <1>1, <2>1, FS_Subset
<1> HIDE DEF a, b
<1>3. Cardinality(b) <= fuel + 1
  BY DEF b
<1>4. Cardinality(a) <= fuel
  BY <1>1, <1>2, <1>3
<1>5. QED
  BY <1>4 DEF a

(* What a call of the search does that has not come round: it takes the    *)
(* widget, or goes on with the first of the children ahead that is found,  *)
(* or with the parent if none is.                                          *)
Can(focused, w) == F!CanTake(F!tree, w, focused)

Again(select, target, startFrom, next, fuel) ==
    select[[target |-> target, startFrom |-> startFrom, iter |-> next, fuel |-> fuel]]

Found(focused, select, next, fuel, v) ==
    IF kids[v] # << >> THEN Again(select, v, None, next, fuel)
    ELSE [ok |-> Can(focused, v), focused |-> v]

Turns(focused, select, here, ahead, next, fuel, r) ==
    \/ Can(focused, here) /\ r = [ok |-> TRUE, focused |-> here]
    \/ /\ ~ Can(focused, here)
       /\ \E j \in DOMAIN ahead :
             /\ Found(focused, select, next, fuel, ahead[j]).ok
             /\ \A k \in DOMAIN ahead :
                   k < j => ~ Found(focused, select, next, fuel, ahead[k]).ok
             /\ r = Found(focused, select, next, fuel, ahead[j])
    \/ /\ ~ Can(focused, here)
       /\ \A k \in DOMAIN ahead : ~ Found(focused, select, next, fuel, ahead[k]).ok
       /\ r = IF Len(kids[here]) # 0 \/ here # window
              THEN Again(select, F!tree.parent[here], here, next, fuel)
              ELSE [ok |-> FALSE, focused |-> focused]

LEMMA SelectionTurns ==
    ASSUME Tree, NEW forward \in BOOLEAN, NEW focused, NEW select, NEW call,
           call.iter = 0, call.fuel # 0,
           NEW here \in Widgets,
           here = IF call.target # None THEN call.target
                  ELSE IF focused # None THEN focused ELSE window,
           NEW ahead \in Seq(Widgets),
           ahead = IF (call.startFrom # None /\ call.target = window) \/ call.startFrom = None
                   THEN Line(forward, here) ELSE F!After(Line(forward, here), call.startFrom),
           NEW next,
           next = IF \/ call.startFrom # None /\ call.target = window
                     \/ forward /\ call.target = None /\ call.startFrom = window
                  THEN 1 ELSE 0
    PROVE  Turns(focused, select, here, ahead, next, call.fuel - 1,
                 F!selection(F!tree, forward, focused, select, call))
<1> DEFINE t == F!tree
           fuel == call.fuel - 1
           found(v) == Found(focused, select, next, fuel, v)
           hits == {i \in DOMAIN ahead : found(ahead[i]).ok}
           r == F!selection(t, forward, focused, select, call)
           round == call.startFrom # None /\ call.target = window
           above == forward /\ call.target = None /\ call.startFrom = window
           here0 == IF call.target # None THEN call.target
                    ELSE IF focused # None THEN focused ELSE window
           line0 == IF forward THEN t.kids[here0] ELSE F!Reverse(t.kids[here0])
           ahead0 == IF round \/ call.startFrom = None
                     THEN line0 ELSE F!After(line0, call.startFrom)
           next0 == IF round \/ above THEN 1 ELSE call.iter
           again(a, b) == select[[target |-> a, startFrom |-> b, iter |-> next0, fuel |-> fuel]]
           found0(v) == IF t.kids[v] # << >> THEN again(v, None)
                        ELSE [ok |-> F!CanTake(t, v, focused), focused |-> v]
           hits0 == {i \in DOMAIN ahead0 : found0(ahead0[i]).ok}
           up == again(t.parent[here0], here0)
<1>1. t.kids = kids
  BY WindowIsTop
<1>11. r = IF call.iter > 0 THEN [ok |-> TRUE, focused |-> focused]
           ELSE IF call.fuel = 0 THEN [ok |-> TRUE, focused |-> Diverges]
           ELSE IF F!CanTake(t, here0, focused) THEN [ok |-> TRUE, focused |-> here0]
           ELSE IF hits0 # {} THEN found0(ahead0[F!Min(hits0)])
           ELSE IF line0 # << >> \/ here0 # window THEN up
           ELSE [ok |-> FALSE, focused |-> focused]
  BY DEF F!selection
<1>12. here0 = here /\ next0 = next
  OBVIOUS
<1> HIDE DEF here0, next0, hits0, found0, line0, ahead0, up
<1>2. r = IF F!CanTake(t, here, focused) THEN [ok |-> TRUE, focused |-> here]
          ELSE IF hits0 # {} THEN found0(ahead0[F!Min(hits0)])
          ELSE IF line0 # << >> \/ here # window THEN up
          ELSE [ok |-> FALSE, focused |-> focused]
  BY <1>11, <1>12
<1>3. line0 = Line(forward, here) /\ ahead0 = ahead
  <2>1. line0 = Line(forward, here)
    BY <1>1, <1>12 DEF Line, line0
  <2>2. QED
    BY <2>1 DEF ahead0
<1>4. \A v : found0(v) = found(v)
  BY <1>1, <1>12 DEF Found, Again, Can, found0
<1> HIDE DEF found, t
<1>5. hits0 = hits
  BY <1>3, <1>4 DEF hits0
<1>13. up = Again(select, t.parent[here], here, next, fuel)
  BY <1>12 DEF up, Again
<1>6. line0 # << >> <=> Len(kids[here]) # 0
  <2>1. Line(forward, here) \in Seq(Widgets) /\ Len(Line(forward, here)) = Len(kids[here])
    BY LineIs
  <2>2. QED
    BY <1>3, <2>1
<1>7. CASE Can(focused, here)
  BY <1>2, <1>7 DEF Turns, Can, t
<1>8. CASE ~ Can(focused, here) /\ hits # {}
  <2>1. hits \subseteq Nat
    OBVIOUS
  <2> HIDE DEF hits
  <2>2. PICK m \in hits : \A k \in hits : m <= k
    BY <1>8, <2>1, LeastNat
  <2>3. F!Min(hits) \in hits /\ \A k \in hits : F!Min(hits) <= k
    BY <2>2 DEF F!Min
  <2> DEFINE j == F!Min(hits)
  <2>4. r = found(ahead[j])
    BY <1>2, <1>3, <1>4, <1>5, <1>8 DEF Can, t
  <2>5. j \in DOMAIN ahead /\ found(ahead[j]).ok
    <3>1. j \in hits
      BY <2>3
    <3> HIDE DEF j
    <3>2. QED
      BY <3>1 DEF hits
  <2> HIDE DEF j
  <2>6. \A k \in DOMAIN ahead : k < j => ~ found(ahead[k]).ok
    <3> SUFFICES ASSUME NEW k \in DOMAIN ahead, k < j, found(ahead[k]).ok PROVE FALSE
      OBVIOUS
    <3>1. k \in hits
      BY DEF hits
    <3>2. j <= k /\ j \in Nat /\ k \in Nat
      BY <2>1, <2>3, <3>1 DEF j
    <3>3. QED
      BY <3>2
  <2>7. QED
    BY <1>8, <2>4, <2>5, <2>6 DEF Turns, found, t
<1>9. CASE ~ Can(focused, here) /\ hits = {}
  <2>1. r = IF Len(kids[here]) # 0 \/ here # window
            THEN Again(select, t.parent[here], here, next, fuel)
            ELSE [ok |-> FALSE, focused |-> focused]
    BY <1>2, <1>5, <1>6, <1>9, <1>13 DEF Can, t
  <2>2. \A k \in DOMAIN ahead : ~ found(ahead[k]).ok
    BY <1>9
  <2>3. QED
    BY <1>9, <2>1, <2>2 DEF Turns, found, t
<1>10. QED
  BY <1>7, <1>8, <1>9

(* The children after the i-th.                                            *)
LEMMA AfterAt ==
    ASSUME Tree, NEW forward \in BOOLEAN, NEW p \in Widgets, NEW i \in 1 .. Len(kids[p])
    PROVE  LET s == F!After(Line(forward, p), Line(forward, p)[i])
           IN  /\ s \in Seq(Widgets) /\ Len(s) = Len(kids[p]) - i
               /\ \A j \in 1 .. Len(kids[p]) - i : s[j] = Line(forward, p)[i + j]
<1> DEFINE l == Line(forward, p)
           n == Len(kids[p])
<1>1. /\ l \in Seq(Widgets) /\ Len(l) = n /\ n \in Nat /\ DOMAIN l = 1 .. n
      /\ \A j, k \in 1 .. n : l[j] = l[k] => j = k
  BY LineIs
<1> HIDE DEF l, n
<1>2. i \in 1 .. n
  BY DEF n
<1>3. (CHOOSE j \in DOMAIN l : l[j] = l[i]) = i
  BY <1>1, <1>2
<1>4. F!After(l, l[i]) = SubSeq(l, 1 + i, Len(l))
  BY <1>1, <1>2, <1>3 DEF F!After
<1>5. 1 + i = i + 1 /\ i \in 0 .. Len(l)
  BY <1>1, <1>2
<1>6. LET s == SubSeq(l, i + 1, Len(l))
      IN  /\ s \in Seq(Widgets) /\ Len(s) = Len(l) - i
          /\ \A j \in 1 .. Len(l) - i : s[j] = l[i + j]
  BY <1>1, <1>5, SplitAfter
<1>7. QED
  BY <1>1, <1>4, <1>5, <1>6 DEF l, n

(* A search that is to go on with the children of a widget after the i-th  *)
(* ends, and does so at the first widget to come that takes keys if no     *)
(* widget on the way back takes them and the window has but one child.     *)
Onward(forward, p, i) ==
    (IF i = 0 THEN {p} ELSE {}) \cup Rest(forward, p, i) \cup Behind(forward, p)

Clear(forward, focused, p, i) ==
    /\ \A u \in Widgets : p \in F!below[u] /\ u # p => ~ Can(focused, u)
    /\ i # 0 => ~ Can(focused, p) /\ ~ Can(focused, Line(forward, p)[i])

First(forward, focused, onward, w) ==
    IF \E u \in onward : Can(focused, u)
    THEN /\ w \in onward /\ Can(focused, w)
         /\ \A u \in onward : Can(focused, u) => u \in F!below[w] \cup Behind(forward, w)
    ELSE w = focused

Ends(forward, focused, p, i, r) ==
    /\ r.ok /\ r.focused # Diverges
    /\ Clear(forward, focused, p, i) /\ Len(kids[window]) <= 1
       => First(forward, focused, Onward(forward, p, i), r.focused)

(* What comes before a child that is found, after the i-th, takes no keys. *)
LEMMA OnlyFromFound ==
    ASSUME Tree, Rooted, NEW forward \in BOOLEAN, NEW focused, NEW p \in Widgets,
           ~ Can(focused, p), NEW i \in 0 .. Len(kids[p]), NEW j \in i + 1 .. Len(kids[p]),
           \A k \in i + 1 .. j - 1 : /\ kids[Line(forward, p)[k]] = << >>
                                     /\ ~ Can(focused, Line(forward, p)[k]),
           NEW v, v = Line(forward, p)[j]
    PROVE  /\ F!below[v] \cup Behind(forward, v) \subseteq Onward(forward, p, i)
           /\ \A u \in Onward(forward, p, i) :
                 Can(focused, u) => u \in F!below[v] \cup Behind(forward, v)
<1> DEFINE n == Len(kids[p])
           l == Line(forward, p)
<1>1. n \in Nat /\ i \in Nat /\ j \in Nat /\ i < j /\ j <= n /\ j \in 1 .. n
  BY LineIs
<1>2. \A k \in 1 .. n : l[k] \in Widgets
  BY LineIs DEF Tree
<1>3. Behind(forward, v) = Rest(forward, p, j) \cup Behind(forward, p)
  BY <1>1, BehindChild
<1>4. \A k \in i + 1 .. j - 1 : F!below[l[k]] = {l[k]}
  <2> SUFFICES ASSUME NEW k \in i + 1 .. j - 1 PROVE F!below[l[k]] = {l[k]}
    OBVIOUS
  <2>1. k \in 1 .. n /\ kids[l[k]] = << >>
    BY <1>1
  <2>2. l[k] \in Widgets
    BY <1>2, <2>1
  <2>3. ToSet(kids[l[k]]) = {}
    BY <2>1 DEF ToSet
  <2> HIDE DEF l
  <2>4. QED
    BY <2>2, <2>3, BelowIs
<1>5. F!below[v] \cup Rest(forward, p, j) \subseteq Rest(forward, p, i)
  <2>1. \A k \in j + 1 .. n : k \in i + 1 .. n
    BY <1>1
  <2>2. QED
    BY <2>1 DEF Rest
<1>6. ASSUME NEW u \in Rest(forward, p, i), Can(focused, u)
      PROVE  u \in F!below[v] \cup Rest(forward, p, j)
  <2>1. PICK k \in i + 1 .. n : u \in F!below[l[k]]
    BY DEF Rest
  <2>2. k \in i + 1 .. j - 1 \/ k = j \/ k \in j + 1 .. n
    BY <1>1
  <2>3. CASE k \in i + 1 .. j - 1
    <3>1. u = l[k] /\ ~ Can(focused, l[k])
      BY <1>4, <2>1, <2>3
    <3>2. QED
      BY <1>6, <3>1
  <2>4. CASE k = j
    BY <2>1, <2>4
  <2>5. CASE k \in j + 1 .. n
    BY <2>1, <2>5 DEF Rest
  <2>6. QED
    BY <2>2, <2>3, <2>4, <2>5
<1>7. QED
  BY <1>3, <1>5, <1>6 DEF Onward

(* A search that goes on with a child ends.                                *)
LEMMA EndsDown ==
    ASSUME Tree, Rooted, NEW forward \in BOOLEAN, NEW focused, NEW select, NEW fuel,
           NEW p \in Widgets, ~ Can(focused, p), NEW i \in 0 .. Len(kids[p]),
           \A k \in i + 1 .. Len(kids[p]) : kids[Line(forward, p)[k]] # << >> =>
              Ends(forward, focused, Line(forward, p)[k], 0,
                   Again(select, Line(forward, p)[k], None, 0, fuel)),
           NEW j \in i + 1 .. Len(kids[p]),
           Found(focused, select, 0, fuel, Line(forward, p)[j]).ok,
           \A k \in i + 1 .. j - 1 : ~ Found(focused, select, 0, fuel, Line(forward, p)[k]).ok
    PROVE  Ends(forward, focused, p, i, Found(focused, select, 0, fuel, Line(forward, p)[j]))
<1> DEFINE l == Line(forward, p)
           v == l[j]
           r == Found(focused, select, 0, fuel, v)
           onward == Onward(forward, p, i)
<1>1. Len(kids[p]) \in Nat /\ i \in Nat /\ j \in 1 .. Len(kids[p])
  BY LineIs
<1>2. v \in ToSet(kids[p]) /\ v \in Widgets /\ v # Diverges
  BY <1>1, LineIs, WidgetsGiven DEF Tree
<1>3. \A k \in i + 1 .. j - 1 : kids[l[k]] = << >> /\ ~ Can(focused, l[k])
  <2> SUFFICES ASSUME NEW k \in i + 1 .. j - 1 PROVE kids[l[k]] = << >> /\ ~ Can(focused, l[k])
    OBVIOUS
  <2>1. k \in i + 1 .. Len(kids[p])
    BY <1>1
  <2>2. ~ Found(focused, select, 0, fuel, l[k]).ok
    OBVIOUS
  <2>3. kids[l[k]] # << >> => Again(select, l[k], None, 0, fuel).ok
    BY <2>1 DEF Ends
  <2> HIDE DEF l
  <2>4. kids[l[k]] = << >>
    BY <2>2, <2>3 DEF Found
  <2>5. QED
    BY <2>2, <2>4 DEF Found
<1>4. /\ F!below[v] \cup Behind(forward, v) \subseteq onward
      /\ \A u \in onward : Can(focused, u) => u \in F!below[v] \cup Behind(forward, v)
  BY <1>3, OnlyFromFound
<1>5. r.ok
  OBVIOUS
<1>6. v \in F!below[v]
  BY <1>2, BelowFacts
<1>7. CASE kids[v] = << >>
  <2>1. r = [ok |-> Can(focused, v), focused |-> v]
    BY <1>7 DEF Found
  <2> HIDE DEF r, v, onward
  <2>2. Can(focused, v) /\ r.focused = v
    BY <1>5, <2>1
  <2>3. First(forward, focused, onward, v)
    BY <1>4, <1>6, <2>2 DEF First
  <2>4. QED
    BY <1>2, <1>5, <2>2, <2>3 DEF Ends, r, v, onward
<1>8. CASE kids[v] # << >>
  <2>1. r = Again(select, v, None, 0, fuel) /\ Ends(forward, focused, v, 0, r)
    BY <1>8 DEF Found
  <2>2. ASSUME Clear(forward, focused, p, i) PROVE Clear(forward, focused, v, 0)
    <3>1. \A u \in Widgets : v \in F!below[u] => u = v \/ p \in F!below[u]
      BY <1>2, ChildIsHeld
    <3> HIDE DEF v
    <3>2. QED
      BY <2>2, <3>1 DEF Clear
  <2>3. Onward(forward, v, 0) = F!below[v] \cup Behind(forward, v)
    <3>1. F!below[v] = {v} \cup Rest(forward, v, 0)
      BY <1>2, BelowIsRest
    <3> HIDE DEF v
    <3>2. QED
      BY <3>1 DEF Onward
  <2> HIDE DEF r, v, onward
  <2>4. ASSUME First(forward, focused, Onward(forward, v, 0), r.focused)
        PROVE  First(forward, focused, onward, r.focused)
    BY <1>4, <2>3, <2>4 DEF First
  <2>5. QED
    BY <2>1, <2>2, <2>4 DEF Ends, r, v, onward
<1>9. QED
  BY <1>7, <1>8

(* If no child to come holds a widget or takes keys, nothing ahead does.   *)
LEMMA NothingAhead ==
    ASSUME Tree, NEW forward \in BOOLEAN, NEW focused, NEW p \in Widgets,
           NEW i \in 0 .. Len(kids[p]),
           \A k \in i + 1 .. Len(kids[p]) : /\ kids[Line(forward, p)[k]] = << >>
                                            /\ ~ Can(focused, Line(forward, p)[k])
    PROVE  \A u \in Rest(forward, p, i) : ~ Can(focused, u)
<1> DEFINE l == Line(forward, p)
           n == Len(kids[p])
<1>1. \A k \in i + 1 .. n : F!below[l[k]] = {l[k]}
  <2> SUFFICES ASSUME NEW k \in i + 1 .. n PROVE F!below[l[k]] = {l[k]}
    OBVIOUS
  <2>1. k \in 1 .. n /\ kids[l[k]] = << >>
    BY LineIs
  <2>2. l[k] \in Widgets
    BY <2>1, LineIs DEF Tree
  <2>3. ToSet(kids[l[k]]) = {}
    BY <2>1 DEF ToSet
  <2> HIDE DEF l
  <2>4. QED
    BY <2>2, <2>3, BelowIs
<1>2. ASSUME NEW u \in Rest(forward, p, i) PROVE ~ Can(focused, u)
  <2>1. PICK k \in i + 1 .. n : u \in F!below[l[k]]
    BY DEF Rest
  <2>2. u = l[k] /\ ~ Can(focused, l[k])
    BY <1>1, <2>1
  <2>3. QED
    BY <2>2
<1>3. QED
  BY <1>2

(* One that goes on with the parent does, too.                             *)
LEMMA EndsUp ==
    ASSUME Tree, Rooted, NEW forward \in BOOLEAN, NEW focused, NEW r,
           NEW q \in Widgets, NEW m \in 1 .. Len(kids[q]),
           NEW p \in Widgets, p = Line(forward, q)[m], ~ Can(focused, p),
           NEW i \in 0 .. Len(kids[p]),
           \A k \in i + 1 .. Len(kids[p]) : /\ kids[Line(forward, p)[k]] = << >>
                                            /\ ~ Can(focused, Line(forward, p)[k]),
           Ends(forward, focused, q, m, r)
    PROVE  Ends(forward, focused, p, i, r)
<1> DEFINE l == Line(forward, p)
           n == Len(kids[p])
<1>1. p \in ToSet(kids[q])
  BY LineIs
<1>2. Onward(forward, q, m) = Behind(forward, p)
  <2>1. m # 0
    BY LineIs
  <2>2. QED
    BY <2>1, BehindChild DEF Onward
<1>4. \A u \in Rest(forward, p, i) : ~ Can(focused, u)
  BY NothingAhead
<1>6. \A u \in Onward(forward, p, i) : Can(focused, u) => u \in Behind(forward, p)
  BY <1>4 DEF Onward
<1>7. Behind(forward, p) \subseteq Onward(forward, p, i)
  BY DEF Onward
<1>8. First(forward, focused, Behind(forward, p), r.focused)
      => First(forward, focused, Onward(forward, p, i), r.focused)
  BY <1>6, <1>7 DEF First
<1>9. Clear(forward, focused, p, i) => Clear(forward, focused, q, m)
  <2> SUFFICES ASSUME Clear(forward, focused, p, i), NEW u \in Widgets, q \in F!below[u]
               PROVE  ~ Can(focused, u)
    <3>1. q \in F!below[q]
      BY BelowFacts
    <3>2. QED
      BY <3>1 DEF Clear
  <2>1. p \in F!below[u]
    BY <1>1, ChildIsHeld
  <2>2. u # p
    BY <1>1, ParentNotBelow
  <2>3. QED
    BY <2>1, <2>2 DEF Clear
<1>10. QED
  BY <1>2, <1>8, <1>9 DEF Ends

(* A search that takes the widget it is at ends.                           *)
LEMMA EndsTaken ==
    ASSUME Tree, NEW forward \in BOOLEAN, NEW focused, NEW p \in Widgets, Can(focused, p),
           NEW i \in 0 .. Len(kids[p])
    PROVE  Ends(forward, focused, p, i, [ok |-> TRUE, focused |-> p])
<1>1. p # Diverges
  BY WidgetsGiven
<1>2. CASE i = 0
  <2>1. F!below[p] = {p} \cup Rest(forward, p, 0)
    BY BelowIsRest
  <2>2. First(forward, focused, Onward(forward, p, 0), p)
    BY <2>1 DEF First, Onward
  <2>3. QED
    BY <1>1, <1>2, <2>2 DEF Ends
<1>3. CASE i # 0
  BY <1>1, <1>3 DEF Ends, Clear
<1>4. QED
  BY <1>2, <1>3

(* A call made after the search has come round reports success.            *)
LEMMA RoundEnds ==
    ASSUME NEW forward \in BOOLEAN, NEW focused, NEW select,
           Solves(F!tree, forward, focused, select), NEW less \in 0 .. Room,
           NEW a \in Widgets \cup {None}, NEW b \in Widgets \cup {None}
    PROVE  Again(select, a, b, 1, less) = [ok |-> TRUE, focused |-> focused]
<1> DEFINE c == [target |-> a, startFrom |-> b, iter |-> 1, fuel |-> less]
<1>1. c \in Calls
  <2>1. less \in 0 .. Room /\ 1 \in 0 .. 1
    OBVIOUS
  <2>2. QED
    BY <2>1 DEF Calls, Room
<1>2. select[c] = F!selection(F!tree, forward, focused, select, c)
  BY <1>1 DEF Solves
<1>3. c.iter > 0
  OBVIOUS
<1> HIDE DEF c
<1>4. F!selection(F!tree, forward, focused, select, c) = [ok |-> TRUE, focused |-> focused]
  BY <1>3 DEF F!selection
<1>5. QED
  BY <1>2, <1>4 DEF Again, c

(* One that has come back to the window from a child of it does, as the    *)
(* calls it makes report success.                                          *)
LEMMA EndsRound ==
    ASSUME Tree, Rooted, NEW forward \in BOOLEAN, NEW focused \in Widgets \cup {None},
           NEW select, Solves(F!tree, forward, focused, select),
           NEW k \in 1 .. Len(kids[window]), NEW fuel \in 1 .. Room
    PROVE  Ends(forward, focused, window, k,
                Again(select, window, Line(forward, window)[k], 0, fuel))
<1> DEFINE ahead == Line(forward, window)
           from == ahead[k]
           call == [target |-> window, startFrom |-> from, iter |-> 0, fuel |-> fuel]
           less == fuel - 1
           r == Again(select, window, from, 0, fuel)
<1>1. /\ window \in Widgets /\ None \notin Widgets /\ focused # Diverges
      /\ \A w \in Widgets : w # Diverges
  BY WidgetsGiven
<1>2. /\ ahead \in Seq(Widgets) /\ from \in Widgets /\ Len(kids[window]) \in Nat
      /\ DOMAIN ahead = 1 .. Len(kids[window])
  BY LineIs DEF Tree
<1>3. fuel \in Nat /\ fuel # 0 /\ less \in 0 .. Room
  BY RoomIsEnough
<1>4. call \in Calls
  <2> HIDE DEF from
  <2>1. fuel \in 0 .. Room
    BY <1>3
  <2>2. QED
    BY <1>1, <1>2, <2>1 DEF Calls, Room
<1>5. r = F!selection(F!tree, forward, focused, select, call)
  BY <1>4 DEF Solves, Again
<1>6. Turns(focused, select, window, ahead, 1, less,
            F!selection(F!tree, forward, focused, select, call))
  <2>1. call.iter = 0 /\ call.fuel # 0 /\ call.fuel - 1 = less
    BY <1>3
  <2>2. call.target = window /\ window # None /\ call.startFrom = from /\ from # None
    BY <1>1, <1>2
  <2> HIDE DEF ahead, call, less, from
  <2>3. ahead = Line(forward, window)
    BY DEF ahead
  <2>4. QED
    BY <1>1, <1>2, <2>1, <2>2, <2>3, SelectionTurns
<1>7. \A a, b \in Widgets \cup {None} : Again(select, a, b, 1, less) = [ok |-> TRUE, focused |-> focused]
  <2> HIDE DEF less
  <2>1. less \in 0 .. Room
    BY <1>3
  <2> SUFFICES ASSUME NEW a \in Widgets \cup {None}, NEW b \in Widgets \cup {None}
               PROVE  Again(select, a, b, 1, less) = [ok |-> TRUE, focused |-> focused]
    OBVIOUS
  <2>2. QED
    BY <2>1, RoundEnds
<1>8. \A v \in Widgets : Found(focused, select, 1, less, v)
                         = IF kids[v] # << >> THEN [ok |-> TRUE, focused |-> focused]
                           ELSE [ok |-> Can(focused, v), focused |-> v]
  BY <1>7 DEF Found
<1>9. F!tree.parent[window] = None
  BY WindowIsTop
<1>10. ASSUME Clear(forward, focused, window, k), Len(kids[window]) <= 1
       PROVE  /\ Onward(forward, window, k) = {}
              /\ \A j \in DOMAIN ahead : ~ Can(focused, ahead[j])
  <2>1. k = 1 /\ Len(kids[window]) = 1
    <3> DEFINE n == Len(kids[window])
    <3>1. k \in 1 .. n /\ n \in Nat /\ n <= 1
      BY <1>2, <1>10
    <3> HIDE DEF n
    <3>2. k = 1 /\ n = 1
      BY <3>1
    <3>3. QED
      BY <3>2 DEF n
  <2>2. Rest(forward, window, k) = {}
    BY <2>1 DEF Rest
  <2>3. Onward(forward, window, k) = {}
    BY <2>1, <2>2, NothingBehindWindow DEF Onward
  <2>4. ~ Can(focused, from)
    BY <1>10, <2>1 DEF Clear
  <2>5. \A j \in DOMAIN ahead : j = k
    BY <1>2, <2>1
  <2>6. QED
    BY <2>3, <2>4, <2>5
<1> HIDE DEF ahead, from, call, less, r
<1>11. ASSUME r.ok, r.focused # Diverges,
              \/ r.focused = focused
              \/ \E j \in DOMAIN ahead : Can(focused, ahead[j])
       PROVE  Ends(forward, focused, window, k, r)
  <2>1. r.focused = focused => First(forward, focused, {}, r.focused)
    BY DEF First
  <2>2. QED
    BY <1>10, <1>11, <2>1 DEF Ends
<1>12. CASE Can(focused, window)
  <2>1. r = [ok |-> TRUE, focused |-> window]
    BY <1>5, <1>6, <1>12 DEF Turns
  <2>2. k \in 0 .. Len(kids[window])
    BY <1>2
  <2>3. Ends(forward, focused, window, k, r)
    BY <1>1, <1>12, <2>1, <2>2, EndsTaken
  <2>4. QED
    BY <2>3 DEF r, from, ahead
<1>13. ASSUME ~ Can(focused, window), NEW j \in DOMAIN ahead,
              Found(focused, select, 1, less, ahead[j]).ok,
              r = Found(focused, select, 1, less, ahead[j])
       PROVE  Ends(forward, focused, window, k, r)
  <2>1. ahead[j] \in Widgets
    BY <1>2
  <2>2. CASE kids[ahead[j]] # << >>
    <3>1. r = [ok |-> TRUE, focused |-> focused]
      BY <1>8, <1>13, <2>1, <2>2
    <3>2. QED
      BY <1>1, <1>11, <3>1
  <2>3. CASE kids[ahead[j]] = << >>
    <3>1. r = [ok |-> Can(focused, ahead[j]), focused |-> ahead[j]]
      BY <1>8, <1>13, <2>1, <2>3
    <3>2. Can(focused, ahead[j]) /\ r.ok /\ r.focused = ahead[j]
      BY <1>13, <3>1
    <3>3. QED
      BY <1>1, <1>11, <2>1, <3>2
  <2>4. QED
    BY <2>2, <2>3
<1>14. ASSUME r = Again(select, F!tree.parent[window], window, 1, less)
       PROVE  Ends(forward, focused, window, k, r)
  <2>1. r = [ok |-> TRUE, focused |-> focused]
    BY <1>1, <1>7, <1>9, <1>14
  <2>2. QED
    BY <1>1, <1>11, <2>1
<1>15. Len(kids[window]) # 0
  BY <1>2
<1>16. CASE ~ Can(focused, window)
  <2>1. Turns(focused, select, window, ahead, 1, less, r)
    BY <1>5, <1>6
  <2>2. \/ \E j \in DOMAIN ahead : /\ Found(focused, select, 1, less, ahead[j]).ok
                                   /\ r = Found(focused, select, 1, less, ahead[j])
        \/ r = Again(select, F!tree.parent[window], window, 1, less)
    BY <1>15, <1>16, <2>1 DEF Turns
  <2>3. Ends(forward, focused, window, k, r)
    BY <1>13, <1>14, <1>16, <2>2
  <2>4. QED
    BY <2>3 DEF r, from, ahead
<1>17. QED
  BY <1>12, <1>16

(* A child has a place among the children.                                 *)
LEMMA HasPlace ==
    ASSUME Tree, NEW forward \in BOOLEAN, NEW q \in Widgets, NEW v \in ToSet(kids[q])
    PROVE  \E m \in 1 .. Len(kids[q]) : Line(forward, q)[m] = v
  BY LineIs

(* Every search that is to go on with the children of a widget ends: the   *)
(* calls it makes have less to do, and their fuel lasts.                   *)
Goes(forward, focused, select, n, p, i) ==
    Ends(forward, focused, p, i,
         Again(select, p, IF i = 0 THEN None ELSE Line(forward, p)[i], 0, n))

(* Fuel n is enough for all that is not a search of the window's children  *)
(* from the first one.                                                     *)
Lasts(forward, focused, select, n) ==
    \A p \in live : \A i \in 0 .. Len(kids[p]) :
        (p # window \/ i # 0) /\ Cardinality(Ways(forward, p, i)) <= n
        => Goes(forward, focused, select, n, p, i)

(* The children that are next after the i-th.                              *)
Nexts(forward, p, i, ahead) ==
    /\ ahead \in Seq(Widgets) /\ Len(ahead) = Len(kids[p]) - i
    /\ \A j \in 1 .. Len(kids[p]) - i : ahead[j] = Line(forward, p)[i + j]

LEMMA EndsOn ==
    ASSUME Tree, Rooted, NEW forward \in BOOLEAN, NEW focused \in Widgets \cup {None},
           NEW select, NEW less \in Nat, Lasts(forward, focused, select, less),
           NEW p \in live, NEW i \in 0 .. Len(kids[p]),
           Cardinality(Ways(forward, p, i)) <= less + 1,
           NEW ahead, Nexts(forward, p, i, ahead),
           NEW r, Turns(focused, select, p, ahead, 0, less, r)
    PROVE  \/ Ends(forward, focused, p, i, r)
           \/ /\ p = window /\ ~ Can(focused, p)
              /\ \A k \in i + 1 .. Len(kids[p]) : /\ kids[Line(forward, p)[k]] = << >>
                                                  /\ ~ Can(focused, Line(forward, p)[k])
              /\ r = IF Len(kids[p]) # 0 THEN Again(select, None, window, 0, less)
                     ELSE [ok |-> FALSE, focused |-> focused]
<1> DEFINE n == Len(kids[p])
           l == Line(forward, p)
           found(v) == Found(focused, select, 0, less, v)
<1> USE DEF Lasts, Nexts
<1>1. /\ n \in Nat /\ i \in Nat /\ p \in Widgets
      /\ \A k \in i + 1 .. n : l[k] \in ToSet(kids[p]) /\ l[k] \in live /\ l[k] \in Widgets
  <2>1. n \in Nat /\ i \in Nat /\ p \in Widgets
    BY LineIs DEF Tree
  <2>2. \A k \in i + 1 .. n : k \in 1 .. n
    BY <2>1
  <2>3. \A k \in 1 .. n : l[k] \in ToSet(kids[p])
    BY <2>1, LineIs
  <2>4. ToSet(kids[p]) \subseteq live /\ live \subseteq Widgets
    BY <2>1 DEF Tree
  <2>5. QED
    BY <2>1, <2>2, <2>3, <2>4
<1>2. ASSUME NEW k \in i + 1 .. n
      PROVE  Ends(forward, focused, l[k], 0, Again(select, l[k], None, 0, less))
  <2> DEFINE v == l[k]
  <2>1. v \in live /\ v \in Widgets /\ v # window
    <3>1. v \in ToSet(kids[p]) /\ v \in live /\ v \in Widgets
      BY <1>1, <1>2
    <3>2. QED
      BY <1>1, <3>1, ParentIs
  <2>2. Ways(forward, v, 0) \subseteq Ways(forward, p, i) /\ Ways(forward, v, 0) # Ways(forward, p, i)
    BY <1>1, <1>2, WaysDown
  <2>3. 0 \in 0 .. Len(kids[v])
    BY <2>1, LineIs
  <2> HIDE DEF v
  <2>4. Cardinality(Ways(forward, v, 0)) <= less
    BY <1>1, <2>1, <2>2, <2>3, LessFuel
  <2>5. Goes(forward, focused, select, less, v, 0)
    BY <2>1, <2>3, <2>4
  <2>6. QED
    BY <2>5 DEF Goes, v
<1>3. CASE Can(focused, p) /\ r = [ok |-> TRUE, focused |-> p]
  BY <1>1, <1>3, EndsTaken
<1>4. DOMAIN ahead = 1 .. n - i
  BY <1>1
<1>5. ASSUME ~ Can(focused, p), NEW j \in DOMAIN ahead, found(ahead[j]).ok,
             \A k \in DOMAIN ahead : k < j => ~ found(ahead[k]).ok, r = found(ahead[j])
      PROVE  Ends(forward, focused, p, i, r)
  <2>1. /\ i + j \in i + 1 .. n /\ ahead[j] = l[i + j]
        /\ \A k \in i + 1 .. i + j - 1 : k - i \in DOMAIN ahead /\ k - i < j /\ i + (k - i) = k
    <3> HIDE DEF l, n, found
    <3>1. j \in 1 .. n - i
      BY <1>4, <1>5
    <3>2. i + j \in i + 1 .. n
      BY <1>1, <3>1
    <3>3. \A k \in i + 1 .. i + j - 1 : k - i \in 1 .. n - i /\ k - i < j /\ i + (k - i) = k
      BY <1>1, <3>1
    <3>4. ahead[j] = l[i + j]
      BY <3>1 DEF l, n
    <3>5. QED
      BY <1>4, <3>2, <3>3, <3>4
  <2>2. ASSUME NEW k \in i + 1 .. i + j - 1 PROVE ~ found(l[k]).ok
    <3>1. k - i \in DOMAIN ahead /\ k - i < j /\ i + (k - i) = k
      BY <2>1
    <3>2. ~ found(ahead[k - i]).ok
      BY <1>5, <3>1
    <3>3. ahead[k - i] = l[k]
      BY <1>4, <3>1
    <3>4. QED
      BY <3>2, <3>3
  <2>3. PICK m \in i + 1 .. n : m = i + j
    BY <2>1
  <2>4. found(l[m]).ok /\ r = found(l[m])
    BY <1>5, <2>1, <2>3
  <2>5. \A k \in i + 1 .. m - 1 : ~ found(l[k]).ok
    BY <2>2, <2>3
  <2>6. Ends(forward, focused, p, i, found(l[m]))
    BY <1>1, <1>2, <1>5, <2>4, <2>5, EndsDown
  <2>7. QED
    BY <2>4, <2>6
<1>6. ASSUME ~ Can(focused, p), \A k \in DOMAIN ahead : ~ found(ahead[k]).ok,
             r = IF n # 0 \/ p # window
                 THEN Again(select, F!tree.parent[p], p, 0, less)
                 ELSE [ok |-> FALSE, focused |-> focused]
      PROVE  \/ Ends(forward, focused, p, i, r)
             \/ /\ p = window
                /\ \A k \in i + 1 .. n : kids[l[k]] = << >> /\ ~ Can(focused, l[k])
                /\ r = IF n # 0 THEN Again(select, None, window, 0, less)
                       ELSE [ok |-> FALSE, focused |-> focused]
  <2>1. ASSUME NEW k \in i + 1 .. n PROVE kids[l[k]] = << >> /\ ~ Can(focused, l[k])
    <3>1. k - i \in 1 .. n - i /\ i + (k - i) = k
      BY <1>1
    <3>2. ~ found(l[k]).ok
      BY <1>4, <1>6, <3>1
    <3>3. Again(select, l[k], None, 0, less).ok
      BY <1>2 DEF Ends
    <3> HIDE DEF l
    <3>4. kids[l[k]] = << >>
      BY <3>2, <3>3 DEF Found
    <3>5. QED
      BY <3>2, <3>4 DEF Found
  <2>2. CASE p = window
    BY <1>6, <2>1, <2>2, WindowIsTop
  <2>3. CASE p # window
    <3>1. PICK q \in live : p \in ToSet(kids[q])
      BY <2>3 DEF Rooted
    <3>2. q \in Widgets /\ F!tree.parent[p] = q
      BY <3>1, ParentIs DEF Tree
    <3> HIDE DEF n, l, found
    <3>3. PICK m \in 1 .. Len(kids[q]) : Line(forward, q)[m] = p
      BY <3>1, <3>2, HasPlace
    <3>4. m # 0 /\ m \in 0 .. Len(kids[q])
      BY <3>2, LineIs
    <3>5. Ways(forward, q, m) \subseteq Ways(forward, p, i) /\ Ways(forward, q, m) # Ways(forward, p, i)
      BY <1>1, <3>2, <3>3, WaysUp
    <3>6. Cardinality(Ways(forward, q, m)) <= less
      BY <1>1, <3>2, <3>4, <3>5, LessFuel
    <3>7. Goes(forward, focused, select, less, q, m)
      BY <3>4, <3>6
    <3>8. r = Again(select, q, p, 0, less)
      BY <1>6, <2>3, <3>2
    <3>9. Ends(forward, focused, q, m, r)
      BY <3>3, <3>4, <3>7, <3>8 DEF Goes
    <3>10. QED
      BY <1>1, <1>6, <2>1, <3>2, <3>3, <3>9, EndsUp DEF n, l
  <2>4. QED
    BY <2>2, <2>3
<1> HIDE DEF l, n, found
<1>7. \/ Can(focused, p) /\ r = [ok |-> TRUE, focused |-> p]
      \/ /\ ~ Can(focused, p)
         /\ \E j \in DOMAIN ahead : /\ found(ahead[j]).ok
                                    /\ \A k \in DOMAIN ahead : k < j => ~ found(ahead[k]).ok
                                    /\ r = found(ahead[j])
      \/ /\ ~ Can(focused, p) /\ \A k \in DOMAIN ahead : ~ found(ahead[k]).ok
         /\ r = IF n # 0 \/ p # window
                THEN Again(select, F!tree.parent[p], p, 0, less)
                ELSE [ok |-> FALSE, focused |-> focused]
  BY DEF Turns, found, n
<1>8. ASSUME ~ Can(focused, p),
             \E j \in DOMAIN ahead : /\ found(ahead[j]).ok
                                     /\ \A k \in DOMAIN ahead : k < j => ~ found(ahead[k]).ok
                                     /\ r = found(ahead[j])
      PROVE  Ends(forward, focused, p, i, r)
  BY <1>5, <1>8
<1>9. QED
  BY <1>3, <1>6, <1>7, <1>8 DEF l, n

LEMMA Ahead ==
    ASSUME Tree, NEW forward \in BOOLEAN, NEW p \in Widgets, NEW i \in 0 .. Len(kids[p])
    PROVE  Nexts(forward, p, i, IF i = 0 THEN Line(forward, p)
                                ELSE F!After(Line(forward, p), Line(forward, p)[i]))
<1> USE DEF Nexts
<1>1. CASE i = 0
  <2>1. /\ Line(forward, p) \in Seq(Widgets) /\ Len(Line(forward, p)) = Len(kids[p])
        /\ Len(kids[p]) \in Nat
    BY LineIs
  <2>2. Len(kids[p]) - 0 = Len(kids[p]) /\ \A j \in 1 .. Len(kids[p]) : 0 + j = j
    BY <2>1
  <2>3. QED
    BY <1>1, <2>1, <2>2
<1>2. CASE i # 0
  <2>1. i \in 1 .. Len(kids[p])
    BY <1>2, LineIs
  <2>2. QED
    BY <1>2, <2>1, AfterAt
<1>3. QED
  BY <1>1, <1>2

LEMMA CallTurns ==
    ASSUME Tree, NEW forward \in BOOLEAN, NEW focused \in Widgets \cup {None},
           NEW select, Solves(F!tree, forward, focused, select),
           NEW p \in Widgets \ {window}, NEW i \in 0 .. Len(kids[p]), NEW fuel \in 1 .. Room
    PROVE  \E ahead :
              /\ Nexts(forward, p, i, ahead)
              /\ Turns(focused, select, p, ahead, 0, fuel - 1,
                       Again(select, p, IF i = 0 THEN None ELSE Line(forward, p)[i], 0, fuel))
<1> DEFINE from == IF i = 0 THEN None ELSE Line(forward, p)[i]
           call == [target |-> p, startFrom |-> from, iter |-> 0, fuel |-> fuel]
           ahead == IF from = None THEN Line(forward, p) ELSE F!After(Line(forward, p), from)
<1>1. window \in Widgets /\ None \notin Widgets /\ p \in Widgets /\ p # window
  BY WidgetsGiven
<1>2. from \in Widgets \cup {None} /\ (from = None <=> i = 0)
  <2>1. CASE i = 0
    BY <2>1
  <2>2. CASE i # 0
    <3>1. i \in 1 .. Len(kids[p])
      BY <1>1, <2>2, LineIs
    <3>2. Line(forward, p)[i] \in ToSet(kids[p])
      BY <1>1, <3>1, LineIs
    <3>3. Line(forward, p)[i] \in Widgets
      BY <1>1, <3>2 DEF Tree
    <3>4. QED
      BY <1>1, <2>2, <3>3
  <2>3. QED
    BY <2>1, <2>2
<1>3. Nexts(forward, p, i, ahead)
  <2>1. ahead = IF i = 0 THEN Line(forward, p)
                ELSE F!After(Line(forward, p), Line(forward, p)[i])
    BY <1>2
  <2> HIDE DEF ahead
  <2>2. QED
    BY <1>1, <2>1, Ahead
<1>4. fuel \in Nat /\ fuel # 0 /\ fuel \in 0 .. Room
  BY RoomIsEnough
<1> HIDE DEF from
<1>5. call \in Calls
  BY <1>1, <1>2, <1>4 DEF Calls, Room
<1>6. Again(select, p, from, 0, fuel) = F!selection(F!tree, forward, focused, select, call)
  BY <1>5 DEF Solves, Again
<1>7. Turns(focused, select, p, ahead, 0, fuel - 1,
            F!selection(F!tree, forward, focused, select, call))
  <2>1. /\ call.iter = 0 /\ call.fuel = fuel /\ call.target = p /\ call.startFrom = from
        /\ p # None
    BY <1>1
  <2> HIDE DEF call
  <2>2. ahead = IF (call.startFrom # None /\ call.target = window) \/ call.startFrom = None
                THEN Line(forward, p) ELSE F!After(Line(forward, p), call.startFrom)
    BY <1>1, <2>1
  <2> HIDE DEF ahead
  <2>3. QED
    BY <1>1, <1>3, <1>4, <2>1, <2>2, SelectionTurns DEF Nexts
<1>8. QED
  BY <1>3, <1>6, <1>7 DEF from

LEMMA CallsEnd ==
    ASSUME Tree, Rooted, NEW forward \in BOOLEAN, NEW focused \in Widgets \cup {None},
           NEW select, Solves(F!tree, forward, focused, select)
    PROVE  \A n \in 0 .. Room : Lasts(forward, focused, select, n)
<1> DEFINE Good(n) == Lasts(forward, focused, select, n)
           bad == {n \in 0 .. Room : ~ Good(n)}
<1>1. Room \in Nat /\ live \subseteq Widgets
  BY RoomIsEnough DEF Tree
<1> SUFFICES ASSUME bad # {} PROVE FALSE
  OBVIOUS
<1>2. PICK n \in bad : \A k \in bad : n <= k
  <2>1. bad \subseteq Nat
    OBVIOUS
  <2> HIDE DEF bad
  <2>2. QED
    BY <2>1, LeastNat
<1> HIDE DEF Good
<1>3. n \in 0 .. Room /\ ~ Good(n) /\ \A k \in 0 .. Room : k < n => Good(k)
  BY <1>1, <1>2
<1> HIDE DEF bad
<1>0. PICK p \in live : \E i \in 0 .. Len(kids[p]) :
         /\ p # window \/ i # 0
         /\ Cardinality(Ways(forward, p, i)) <= n
         /\ ~ Goes(forward, focused, select, n, p, i)
  BY <1>3 DEF Good, Lasts
<1>4. PICK i \in 0 .. Len(kids[p]) :
         /\ p # window \/ i # 0
         /\ Cardinality(Ways(forward, p, i)) <= n
         /\ ~ Goes(forward, focused, select, n, p, i)
  BY <1>0
<1>5. p \in Widgets /\ n \in 1 .. Room
  <2>1. p \in Widgets
    BY <1>1
  <2>2. Cardinality(Ways(forward, p, i)) \in 1 .. Room - 1
    BY <2>1, RoomIsEnough
  <2>3. QED
    BY <1>1, <1>3, <1>4, <2>1, <2>2
<1> DEFINE less == n - 1
<1>6. less \in Nat /\ less + 1 = n /\ Good(less)
  BY <1>1, <1>3, <1>5
<1>7. CASE p = window
  <2>1. i \in 1 .. Len(kids[window])
    BY <1>4, <1>5, <1>7, LineIs
  <2>2. Ends(forward, focused, window, i, Again(select, window, Line(forward, window)[i], 0, n))
    BY <1>5, <2>1, EndsRound
  <2>3. QED
    BY <1>4, <1>7, <2>1, <2>2 DEF Goes
<1>8. CASE p # window
  <2> DEFINE r == Again(select, p, IF i = 0 THEN None ELSE Line(forward, p)[i], 0, n)
  <2>1. PICK ahead : /\ Nexts(forward, p, i, ahead)
                     /\ Turns(focused, select, p, ahead, 0, less, r)
    BY <1>5, <1>8, CallTurns
  <2> HIDE DEF r, less
  <2>2. Ends(forward, focused, p, i, r)
    BY <1>4, <1>6, <1>8, <2>1, EndsOn DEF Good
  <2>3. QED
    BY <1>4, <2>2 DEF Goes, r
<1>9. QED
  BY <1>7, <1>8

(* The search that the tab key starts.                                     *)
LEMMA SearchFinds ==
    ASSUME Tree, Rooted, NEW forward \in BOOLEAN, NEW focused \in live \cup {None},
           NEW here, here = IF focused # None THEN focused ELSE window,
           forward \/ here # window \/ \E v \in ToSet(kids[window]) : kids[v] # << >>,
           NEW to, to = F!search(F!tree, forward, focused)
    PROVE  /\ to # Diverges
           /\ Clear(forward, focused, here, 0) /\ Len(kids[window]) <= 1
              => First(forward, focused, Onward(forward, here, 0), to)
<1>1. /\ window \in Widgets /\ None \notin Widgets /\ focused \in Widgets \cup {None}
      /\ here \in live /\ here \in Widgets /\ focused # Diverges
  BY WidgetsGiven DEF Tree
<1>2. PICK select : Solves(F!tree, forward, focused, select) /\ to = select[Start].focused
  BY <1>1, SearchSolves, TreeSearchable
<1>3. Room \in Nat /\ Room >= 2 /\ Start \in Calls
  BY <1>1, RoomIsEnough, SearchSolves, TreeSearchable
<1> DEFINE less == Room - 1
           r == select[Start]
           ahead == Line(forward, here)
<1>4. less \in Nat /\ less \in 0 .. Room /\ less # 0 /\ less + 1 = Room
  BY <1>3
<1>5. Nexts(forward, here, 0, ahead) /\ ahead \in Seq(Widgets) /\ 0 \in 0 .. Len(kids[here])
  <2>1. 0 \in 0 .. Len(kids[here])
    BY <1>1, LineIs
  <2>2. Nexts(forward, here, 0, ahead)
    BY <1>1, <2>1, Ahead
  <2>3. QED
    BY <2>1, <2>2 DEF Nexts
<1>6. r = F!selection(F!tree, forward, focused, select, Start)
  BY <1>2, <1>3 DEF Solves
<1>7. Turns(focused, select, here, ahead, 0, less, r)
  <2>1. Start.iter = 0 /\ Start.fuel = Room /\ Start.target = None /\ Start.startFrom = None
    BY DEF Start, Room
  <2>2. Start.fuel # 0
    BY <1>3, <2>1
  <2> HIDE DEF ahead, less, r
  <2>3. ahead = Line(forward, here) /\ less = Start.fuel - 1
    BY <2>1 DEF ahead, less
  <2>4. Turns(focused, select, here, ahead, 0, Start.fuel - 1,
              F!selection(F!tree, forward, focused, select, Start))
    BY <1>1, <1>5, <2>1, <2>2, <2>3, SelectionTurns
  <2>5. QED
    BY <1>6, <2>3, <2>4
<1>8. Lasts(forward, focused, select, less)
  BY <1>1, <1>2, <1>4, CallsEnd
<1>9. Cardinality(Ways(forward, here, 0)) <= less + 1
  BY <1>1, <1>3, <1>4, <1>5, RoomIsEnough
<1> HIDE DEF less, r, ahead
<1>10. ASSUME NEW end, end.focused # Diverges,
              Clear(forward, focused, here, 0) /\ Len(kids[window]) <= 1
              => First(forward, focused, Onward(forward, here, 0), end.focused),
              end = r
       PROVE  /\ to # Diverges
              /\ Clear(forward, focused, here, 0) /\ Len(kids[window]) <= 1
                 => First(forward, focused, Onward(forward, here, 0), to)
  BY <1>2, <1>10 DEF r
<1>11. CASE Ends(forward, focused, here, 0, r)
  BY <1>10, <1>11 DEF Ends
<1>12. ASSUME here = window, ~ Can(focused, here),
              \A k \in 0 + 1 .. Len(kids[here]) : /\ kids[Line(forward, here)[k]] = << >>
                                                 /\ ~ Can(focused, Line(forward, here)[k]),
              r = IF Len(kids[here]) # 0 THEN Again(select, None, window, 0, less)
                  ELSE [ok |-> FALSE, focused |-> focused]
       PROVE  /\ to # Diverges
              /\ Clear(forward, focused, here, 0) /\ Len(kids[window]) <= 1
                 => First(forward, focused, Onward(forward, here, 0), to)
  <2>1. forward
    <3> SUFFICES ASSUME NEW v \in ToSet(kids[window]), kids[v] # << >> PROVE FALSE
      BY <1>12
    <3>1. PICK k \in 1 .. Len(kids[window]) : Line(forward, window)[k] = v
      BY <1>1, HasPlace
    <3>2. QED
      BY <1>12, <3>1
  <2>2. \A u \in Onward(forward, here, 0) : ~ Can(focused, u)
    <3>1. \A u \in Rest(forward, here, 0) : ~ Can(focused, u)
      BY <1>1, <1>5, <1>12, NothingAhead
    <3>2. QED
      BY <1>12, <3>1, NothingBehindWindow DEF Onward
  <2>3. First(forward, focused, Onward(forward, here, 0), focused)
    BY <2>2 DEF First
  <2>4. CASE Len(kids[here]) = 0
    <3>1. r.focused = focused
      BY <1>12, <2>4
    <3>2. QED
      BY <1>1, <1>10, <2>3, <3>1
  <2>5. CASE Len(kids[here]) # 0
    <3> DEFINE call == [target |-> None, startFrom |-> window, iter |-> 0, fuel |-> less]
               none == F!After(ahead, window)
               last == less - 1
    <3>1. call \in Calls
      BY <1>1, <1>4 DEF Calls, Room
    <3>2. r = F!selection(F!tree, forward, focused, select, call)
      BY <1>2, <1>12, <2>5, <3>1 DEF Solves, Again
    <3>3. none = << >>
      <4>1. \A p \in Widgets : window \notin ToSet(kids[p])
        BY WindowIsTop
      <4>2. \A i \in 1 .. Len(kids[window]) : ahead[i] # window
        BY <1>1, <1>12, <4>1, LineIs DEF ahead
      <4>3. DOMAIN ahead = 1 .. Len(kids[window])
        BY <1>1, <1>12, LineIs DEF ahead
      <4>4. QED
        BY <4>2, <4>3 DEF F!After
    <3>4. Turns(focused, select, window, << >>, 1, last,
                F!selection(F!tree, forward, focused, select, call))
      <4>1. /\ call.iter = 0 /\ call.fuel = less /\ call.target = None
            /\ call.startFrom = window /\ window # None
        BY <1>1
      <4> HIDE DEF call, none
      <4>2. << >> \in Seq(Widgets)
        OBVIOUS
      <4>3. << >> = IF (call.startFrom # None /\ call.target = window) \/ call.startFrom = None
                    THEN Line(forward, window)
                    ELSE F!After(Line(forward, window), call.startFrom)
        BY <1>1, <1>12, <3>3, <4>1 DEF none, ahead
      <4>4. window = IF call.target # None THEN call.target
                     ELSE IF focused # None THEN focused ELSE window
        BY <1>12, <4>1
      <4>5. QED
        BY <1>1, <1>4, <2>1, <4>1, <4>2, <4>3, <4>4, SelectionTurns
    <3>5. Again(select, None, window, 1, last) = [ok |-> TRUE, focused |-> focused]
      <4>1. last \in 0 .. Room
        BY <1>3, <1>4
      <4> HIDE DEF last
      <4>2. QED
        BY <1>1, <1>2, <4>1, RoundEnds
    <3> HIDE DEF call, last
    <3>6. r = [ok |-> TRUE, focused |-> focused]
      <4>1. Turns(focused, select, window, << >>, 1, last, r)
        BY <3>2, <3>4
      <4>2. r = Again(select, F!tree.parent[window], window, 1, last)
        <5>1. DOMAIN << >> = {} /\ ~ Can(focused, window) /\ Len(kids[window]) # 0
          BY <1>12, <2>5
        <5>2. QED
          BY <4>1, <5>1 DEF Turns
      <4>3. QED
        BY <3>5, <4>2, WindowIsTop
    <3>7. QED
      BY <1>1, <1>10, <2>3, <3>6
  <2>6. QED
    BY <2>4, <2>5
<1>13. \/ Ends(forward, focused, here, 0, r)
       \/ /\ here = window /\ ~ Can(focused, here)
          /\ \A k \in 0 + 1 .. Len(kids[here]) : /\ kids[Line(forward, here)[k]] = << >>
                                                 /\ ~ Can(focused, Line(forward, here)[k])
          /\ r = IF Len(kids[here]) # 0 THEN Again(select, None, window, 0, less)
                 ELSE [ok |-> FALSE, focused |-> focused]
  BY <1>1, <1>4, <1>5, <1>7, <1>8, <1>9, EndsOn
<1>14. QED
  BY <1>11, <1>12, <1>13

-------------------------------------------------------------------------------
(* Every widget keeps its parent for as long as it lives.                  *)
LEMMA RootedBegins == F!Init => Rooted
<1> SUFFICES ASSUME F!Init PROVE Rooted
  OBVIOUS
<1>1. kids = Kids /\ live = Widgets
  BY DEF F!Init
<1>2. QED
  BY <1>1, WidgetsGiven DEF Rooted

LEMMA RemovingKeepsRooted ==
    ASSUME Tree, Rooted, NEW w \in Widgets, F!removeChild(w)
    PROVE  Rooted'
<1> DEFINE gone == F!below[w]
<1>1. /\ live' = live \ gone
      /\ kids' = [v \in Widgets |->
                    IF v \in gone THEN << >>
                    ELSE IF w \in ToSet(kids[v])
                    THEN RemoveAt(kids[v], CHOOSE i \in DOMAIN kids[v] : kids[v][i] = w)
                    ELSE kids[v]]
  BY SameOps DEF F!removeChild
<1>2. w \in gone /\ gone \subseteq Widgets /\ \A x \in gone : ToSet(kids[x]) \subseteq gone
  BY BelowFacts, BelowCloses
<1> HIDE DEF gone
<1> SUFFICES ASSUME NEW u \in live \ gone, u # window
             PROVE  \E p \in live \ gone : u \in ToSet(kids'[p])
  BY <1>1 DEF Rooted
<1>3. PICK p \in live : u \in ToSet(kids[p])
  BY DEF Rooted
<1>4. p \in Widgets /\ p \notin gone /\ u # w
  BY <1>2, <1>3 DEF Tree
<1>5. CASE w \in ToSet(kids[p])
  <2> DEFINE s == kids[p]
             i == CHOOSE i \in DOMAIN s : s[i] = w
  <2>1. i \in DOMAIN s /\ s[i] = w
    BY <1>5 DEF ToSet
  <2>2. kids'[p] = RemoveAt(s, i)
    BY <1>1, <1>4, <1>5
  <2>3. s \in Seq(Widgets) /\ IsInjective(s)
    BY <1>4 DEF Tree
  <2> HIDE DEF i, s
  <2>4. ToSet(RemoveAt(s, i)) = ToSet(s) \ {w}
    BY <2>1, <2>3, RemovedOnce
  <2>5. u \in ToSet(kids'[p])
    BY <1>3, <1>4, <2>2, <2>4 DEF s
  <2>6. QED
    BY <1>4, <2>5
<1>6. CASE w \notin ToSet(kids[p])
  <2>1. kids'[p] = kids[p]
    BY <1>1, <1>4, <1>6
  <2>2. QED
    BY <1>3, <1>4, <2>1
<1>7. QED
  BY <1>5, <1>6

LEMMA RestackingKeepsRooted ==
    ASSUME Tree, Rooted, NEW v \in Widgets, F!restack(v)
    PROVE  Rooted'
<1>1. live' = live /\ \A w \in Widgets : ToSet(kids'[w]) = ToSet(kids[w])
  BY RestackingKeepsTree
<1>2. live \subseteq Widgets
  BY DEF Tree
<1>3. QED
  BY <1>1, <1>2 DEF Rooted

(* Nothing else changes the tree.                                          *)
LEMMA TreeChanges ==
    ASSUME [F!Next]_widgetVars, ~ UNCHANGED <<kids, live>>
    PROVE  \E w \in Widgets : F!removeChild(w) \/ F!restack(w)
<1> SUFFICES ASSUME F!Next PROVE \E w \in Widgets : F!removeChild(w) \/ F!restack(w)
  BY DEF widgetVars
<1>1. ASSUME NEW w \in Widgets,
             \/ F!setDisabled(w) \/ F!setEnabled(w) \/ F!setFocus(w) \/ F!clearFocus(w)
             \/ \E shown \in BOOLEAN : F!setVisible(w, shown)
      PROVE  UNCHANGED <<kids, live>>
  BY <1>1 DEF F!setDisabled, F!setEnabled, F!setFocus, F!clearFocus, F!setVisible
<1>2. ASSUME F!Input PROVE UNCHANGED <<kids, live>>
  <2>1. ASSUME NEW hit, F!ButtonDown(hit) \/ F!ButtonUp(hit) \/ F!Motion(hit) \/ F!Wheel(hit)
        PROVE  UNCHANGED <<kids, live>>
    BY <2>1 DEF F!ButtonDown, F!ButtonUp, F!Motion, F!Wheel
  <2>2. ASSUME F!Leave \/ F!Tab \/ F!Return \/ F!GotFocus \/ F!LostFocus
        PROVE  UNCHANGED <<kids, live>>
    BY <2>2 DEF F!Leave, F!Tab, F!Return, F!GotFocus, F!LostFocus
  <2>3. QED
    BY <1>2, <2>1, <2>2 DEF F!Input
<1>3. ASSUME F!CloseWindow \/ F!ShowWindow PROVE UNCHANGED <<kids, live>>
  BY <1>3 DEF F!CloseWindow, F!ShowWindow
<1>4. QED
  BY <1>1, <1>2, <1>3 DEF F!Next

LEMMA RootedStep == Tree /\ Rooted /\ [F!Next]_widgetVars => Rooted'
<1> SUFFICES ASSUME Tree, Rooted, [F!Next]_widgetVars PROVE Rooted'
  OBVIOUS
<1>1. CASE UNCHANGED <<kids, live>>
  BY <1>1 DEF Rooted
<1>2. CASE ~ UNCHANGED <<kids, live>>
  BY <1>2, TreeChanges, RemovingKeepsRooted, RestackingKeepsRooted
<1>3. QED
  BY <1>1, <1>2

(* What a widget that takes keys holds takes none.                         *)
HoldsNoKeys ==
    \A w \in KeyInput : \E inside \in SUBSET (Widgets \ KeyInput) :
        ToSet(Kids[w]) \subseteq inside /\ \A u \in inside : ToSet(Kids[u]) \subseteq inside

LEMMA KeysApart ==
    ASSUME Tree, HoldsNoKeys, NEW w \in KeyInput, NEW u \in F!below[w], u # w
    PROVE  u \notin KeyInput
<1>1. PICK inside \in SUBSET (Widgets \ KeyInput) :
         ToSet(Kids[w]) \subseteq inside /\ \A x \in inside : ToSet(Kids[x]) \subseteq inside
  BY DEF HoldsNoKeys
<1>2. w \in Widgets
  BY WidgetsGiven
<1>3. \A x \in Widgets : F!below[x] = {x} \cup UNION {F!below[v] : v \in ToSet(kids[x])}
  BY BelowIs
<1>4. \A x \in Widgets : ToSet(kids[x]) \subseteq ToSet(Kids[x])
  BY DEF Tree
<1> DEFINE good == {x \in Widgets : x \in inside => F!below[x] \subseteq inside}
<1>5. ASSUME NEW x \in Widgets, \A v \in ToSet(kids[x]) : v \in good PROVE x \in good
  BY <1>1, <1>3, <1>4, <1>5
<1>6. Widgets \subseteq good
  <2> HIDE DEF good
  <2>1. QED
    BY <1>5, WidgetsInduct
<1>7. PICK v \in ToSet(kids[w]) : u \in F!below[v]
  BY <1>2, <1>3
<1>8. v \in inside /\ v \in Widgets
  BY <1>1, <1>2, <1>4, <1>7
<1>9. QED
  BY <1>1, <1>6, <1>7, <1>8

(* The window does not get more children than it began with.               *)
LEMMA OneChild ==
    ASSUME Tree, Len(Kids[window]) <= 1
    PROVE  Len(kids[window]) <= 1
<1> DEFINE s == kids[window]
           t == Kids[window]
<1>1. /\ s \in Seq(Widgets) /\ t \in Seq(Widgets) /\ IsInjective(s)
      /\ ToSet(s) \subseteq ToSet(t) /\ Len(t) <= 1
  BY WidgetsGiven DEF Tree
<1> HIDE DEF s, t
<1>2. SUFFICES ASSUME ~ Len(s) <= 1 PROVE FALSE
  BY DEF s
<1>3. 1 \in DOMAIN s /\ 2 \in DOMAIN s
  BY <1>1, <1>2
<1>4. s[1] \in ToSet(t) /\ s[2] \in ToSet(t)
  BY <1>1, <1>3 DEF ToSet
<1>5. \A i \in DOMAIN t : i = 1
  BY <1>1
<1>6. s[1] = s[2]
  BY <1>4, <1>5 DEF ToSet
<1>7. QED
  BY <1>1, <1>3, <1>6 DEF IsInjective

(* The tab key goes on, in either direction.                               *)
LEMMA TabEnds == WidgetsInv /\ Rooted => F!TabReturns
<1> SUFFICES ASSUME WidgetsInv, Rooted PROVE F!TabReturns
  OBVIOUS
<1> DEFINE here == IF focusedWidget # None THEN focusedWidget ELSE window
<1>1. Tree /\ focusedWidget \in live \cup {None}
  BY DEF WidgetsInv, Focus
<1>2. \A v \in ToSet(kids[window]) : v \in F!ToSet(kids[window])
  BY SameOps
<1>3. F!search(F!tree, TRUE, focusedWidget) # Diverges
  <2>1. here = IF focusedWidget # None THEN focusedWidget ELSE window
    OBVIOUS
  <2> HIDE DEF here
  <2>2. QED
    BY <1>1, <2>1, SearchFinds
<1>4. ASSUME here # window \/ \E v \in ToSet(kids[window]) : kids[v] # << >>
      PROVE  F!search(F!tree, FALSE, focusedWidget) # Diverges
  <2>1. here = IF focusedWidget # None THEN focusedWidget ELSE window
    OBVIOUS
  <2> HIDE DEF here
  <2>2. QED
    BY <1>1, <1>4, <2>1, SearchFinds
<1>5. focusedWidget \notin {None, window} => here # window
  OBVIOUS
<1>6. (\E v \in F!ToSet(kids[window]) : kids[v] # << >>)
      => \E v \in ToSet(kids[window]) : kids[v] # << >>
  BY SameOps
<1>7. QED
  BY <1>3, <1>4, <1>5, <1>6 DEF F!TabReturns, F!selectNext, F!selectPrevious

LEMMA TabNext ==
    ASSUME WidgetsInv, Rooted, Len(Kids[window]) <= 1, HoldsNoKeys
    PROVE  F!TabInOrder
<1> DEFINE here == IF focusedWidget # None THEN focusedWidget ELSE window
           next == F!selectNext(F!tree, focusedWidget)
           accepts == F!tree.accepts
           stops == accepts \cap IF focusedWidget = None THEN F!below[window]
                                 ELSE F!From(focusedWidget) \ {focusedWidget}
<1> SUFFICES ASSUME focusedWidget \in accepts \cup {None}
             PROVE  IF stops = {} THEN next = focusedWidget
                    ELSE next \in stops /\ stops \subseteq F!From(next)
  BY DEF F!TabInOrder
<1>1. /\ Tree /\ focusedWidget \in live \cup {None} /\ Len(kids[window]) <= 1
      /\ here \in Widgets /\ window \in Widgets /\ None \notin Widgets
  BY OneChild, WidgetsGiven DEF WidgetsInv, Focus, Tree
<1>2. accepts \subseteq KeyInput /\ accepts \subseteq Widgets
  BY WidgetsGiven DEF F!tree
<1>3. \A w : Can(focusedWidget, w) <=> w \in accepts /\ w # focusedWidget
  BY DEF Can, F!CanTake
<1> HIDE DEF accepts
<1>4. Clear(TRUE, focusedWidget, here, 0)
  <2> SUFFICES ASSUME NEW u \in Widgets, here \in F!below[u], u # here, Can(focusedWidget, u)
               PROVE  FALSE
    BY DEF Clear
  <2>1. CASE focusedWidget = None
    BY <1>1, <2>1, WindowNotBelow
  <2>2. CASE focusedWidget # None
    <3>1. here \in KeyInput /\ u \in KeyInput
      BY <1>2, <1>3, <2>2
    <3> HIDE DEF here
    <3>2. QED
      BY <1>1, <3>1, KeysApart
  <2>3. QED
    BY <2>1, <2>2
<1>5. First(TRUE, focusedWidget, Onward(TRUE, here, 0), next)
  <2>1. here = IF focusedWidget # None THEN focusedWidget ELSE window
    OBVIOUS
  <2>2. next = F!search(F!tree, TRUE, focusedWidget)
    BY DEF F!selectNext
  <2> HIDE DEF here, next
  <2>3. QED
    BY <1>1, <1>4, <2>1, <2>2, SearchFinds
<1>6. Onward(TRUE, here, 0) = F!From(here)
  <2> HIDE DEF here
  <2>1. F!below[here] = {here} \cup Rest(TRUE, here, 0)
    BY <1>1, BelowIsRest
  <2>2. QED
    BY <2>1, ForwardIsLater DEF Onward, F!From
<1>7. \A u : u \in stops <=> u \in F!From(here) /\ Can(focusedWidget, u)
  <2>1. CASE focusedWidget = None
    <3>1. F!Later(window) = {}
      BY <1>1, ForwardIsLater, NothingBehindWindow
    <3>2. F!From(here) = F!below[window]
      BY <2>1, <3>1 DEF F!From
    <3>3. QED
      BY <1>1, <1>2, <1>3, <2>1, <3>2
  <2>2. CASE focusedWidget # None
    BY <1>3, <2>2
  <2>3. QED
    BY <2>1, <2>2
<1>8. \A w : F!below[w] \cup Behind(TRUE, w) = F!From(w)
  BY ForwardIsLater DEF F!From
<1> HIDE DEF here, next, stops
<1>9. QED
  BY <1>5, <1>6, <1>7, <1>8 DEF First

(* Both go together in every step.                                         *)
LEMMA RootedWidgetsStep ==
    (part = "widgets" => WidgetsInv /\ Rooted) /\ [ScreensNext]_all
    => (part = "widgets" => WidgetsInv /\ Rooted)'
<1> SUFFICES ASSUME part = "widgets" => WidgetsInv /\ Rooted, [ScreensNext]_all,
                    part' = "widgets"
             PROVE  WidgetsInv' /\ Rooted'
  OBVIOUS
<1>1. part = "widgets" /\ [F!Next]_widgetVars
  BY DEF ScreensNext, Others, all
<1>2. Tree
  BY <1>1 DEF WidgetsInv
<1>3. QED
  BY <1>1, <1>2, WidgetsStep, RootedStep

(***************************************************************************)
(* For any tree of widgets and anything that happens to it, the search     *)
(* that the tab key starts ends: forwards always, backwards too unless it  *)
(* starts at the window and no child of the window holds a widget.         *)
(***************************************************************************)
THEOREM TabKeyReturns == ScreensSpec => [](part = "widgets" => F!TabReturns)
<1> DEFINE Inv == part = "widgets" => WidgetsInv /\ Rooted
<1>1. ScreensInit => Inv
  BY WidgetsBegin, RootedBegins DEF ScreensInit
<1>2. Inv /\ [ScreensNext]_all => Inv'
  BY RootedWidgetsStep
<1>3. Inv => (part = "widgets" => F!TabReturns)
  BY TabEnds
<1>4. QED
  BY <1>1, <1>2, <1>3, PTL DEF ScreensSpec

(***************************************************************************)
(* If the window has one child and what a widget that takes keys holds     *)
(* takes none, the tab key moves the focus to the next widget in the order *)
(* of the tree that takes keys, and the last one keeps it.                 *)
(***************************************************************************)
THEOREM TabKeyGoesOn ==
    ASSUME Len(Kids[window]) <= 1, HoldsNoKeys
    PROVE  ScreensSpec => []TabGoesOn
<1> DEFINE Inv == part = "widgets" => WidgetsInv /\ Rooted
<1>1. ScreensInit => Inv
  BY WidgetsBegin, RootedBegins DEF ScreensInit
<1>2. Inv /\ [ScreensNext]_all => Inv'
  BY RootedWidgetsStep
<1>3. Inv => TabGoesOn
  BY TabEnds, TabNext DEF TabGoesOn, F!TabWalks
<1>4. QED
  BY <1>1, <1>2, <1>3, PTL DEF ScreensSpec


-------------------------------------------------------------------------------
(***************************************************************************)
(* The strokes of the pointer.                                             *)
(***************************************************************************)
Plane == Int \X Int

Far(p, q) == S!Square(p[1] - q[1]) + S!Square(p[2] - q[2]) > MinDistance

(* A stroke is as long as its moves, and each of its points is far from    *)
(* the one before, the last of which is where the next move starts.        *)
Stroke ==
    /\ path \in Seq(Plane) /\ moves \in Seq(Int) /\ pre \in Plane
    /\ Len(path) = Len(moves)
    /\ path # << >> => path[Len(path)] = pre
    /\ \A i \in 2 .. Len(path) : Far(path[i], path[i - 1])

LEMMA StrokeBegins == ASSUME S!Init PROVE Stroke
<1>1. path = << >> /\ moves = << >> /\ pre = <<-1, -1>>
  BY DEF S!Init
<1>2. path \in Seq(Plane) /\ moves \in Seq(Int) /\ Len(path) = 0 /\ Len(moves) = 0
  BY <1>1
<1>3. pre \in Plane
  BY <1>1 DEF Plane
<1>4. QED
  BY <1>1, <1>2, <1>3 DEF Stroke

(* The points of the pointer are pairs of numbers.                         *)
LEMMA SpotsArePoints == Spots \subseteq Plane
  BY ScreenStrokesAssumption DEF S!PlacesAssumption, Plane

(* A move that is far enough goes on both.                                 *)
LEMMA MoveDetected ==
    ASSUME Stroke, NEW p \in Plane, NEW d, S!detectMove(p, d)
    PROVE  Stroke'
<1> DEFINE dx == p[1] - pre[1]
           dy == p[2] - pre[2]
           far == dx * dx + dy * dy > MinDistance
<1>1. \/ UNCHANGED <<pre, moves, path>>
      \/ /\ far /\ pre' = p /\ path' = Append(path, p)
         /\ moves' = Append(moves, S!direction(dx, dy))
  <2> DEFINE elapsed == S!Min({since + d, 40})
  <2> HIDE DEF elapsed
  <2>1. CASE elapsed < 40
    BY <2>1 DEF S!detectMove, elapsed
  <2>2. CASE ~ (elapsed < 40) /\ far
    BY <2>2 DEF S!detectMove, elapsed
  <2>3. CASE ~ (elapsed < 40) /\ ~ far
    BY <2>3 DEF S!detectMove, elapsed
  <2>4. QED
    BY <2>1, <2>2, <2>3
<1>2. CASE UNCHANGED <<pre, moves, path>>
  BY <1>2 DEF Stroke
<1>3. CASE /\ far /\ pre' = p /\ path' = Append(path, p)
           /\ moves' = Append(moves, S!direction(dx, dy))
  <2>1. S!direction(dx, dy) \in Int
    BY DEF S!direction
  <2>2. Far(p, pre)
    BY <1>3 DEF Far, S!Square
  <2> DEFINE m == S!direction(dx, dy)
  <2> HIDE DEF m, far, dx, dy
  <2>3. /\ path \in Seq(Plane) /\ moves \in Seq(Int) /\ m \in Int /\ Len(path) = Len(moves)
        /\ path' = Append(path, p) /\ moves' = Append(moves, m)
    BY <1>3, <2>1 DEF Stroke, m
  <2>4. /\ path' \in Seq(Plane) /\ moves' \in Seq(Int) /\ Len(path') = Len(moves')
        /\ Len(path') = Len(path) + 1 /\ Len(path) \in Nat
    BY <2>3
  <2>5. path'[Len(path')] = p
    BY <2>3, <2>4
  <2>6. ASSUME NEW i \in 2 .. Len(path') PROVE Far(path'[i], path'[i - 1])
    <3>1. CASE i \in 2 .. Len(path)
      <4>1. path'[i] = path[i] /\ path'[i - 1] = path[i - 1]
        BY <2>3, <2>4, <3>1
      <4>2. Far(path[i], path[i - 1])
        BY <3>1 DEF Stroke
      <4>3. QED
        BY <4>1, <4>2
    <3>2. CASE i = Len(path) + 1
      <4>1. Len(path) >= 1 /\ i - 1 = Len(path)
        BY <2>4, <3>2
      <4>2. path # << >>
        BY <4>1
      <4>3. path[Len(path)] = pre
        BY <4>2 DEF Stroke
      <4>4. path'[i] = p /\ path'[i - 1] = path[Len(path)]
        BY <2>3, <2>4, <3>2, <4>1
      <4>5. QED
        BY <2>2, <4>3, <4>4
    <3>3. QED
      BY <2>4, <3>1, <3>2
  <2>7. QED
    BY <1>3, <2>4, <2>5, <2>6 DEF Stroke
<1>4. QED
  BY <1>1, <1>2, <1>3

LEMMA StrokeStep == ASSUME Stroke, S!Next PROVE Stroke'
<1>1. ASSUME NEW p \in Spots, S!start(p) PROVE Stroke'
  <2>1. path' = << >> /\ moves' = << >> /\ pre' = p
    BY <1>1 DEF S!start
  <2>2. path' \in Seq(Plane) /\ moves' \in Seq(Int) /\ Len(path') = 0 /\ Len(moves') = 0
    BY <2>1
  <2>3. pre' \in Plane
    BY <2>1, SpotsArePoints
  <2>4. QED
    BY <2>1, <2>2, <2>3 DEF Stroke
<1>2. ASSUME NEW p \in Spots, NEW d, S!pointerMotion(p, d) \/ S!pointerButtonUp(p, d) PROVE Stroke'
  <2>1. S!detectMove(p, d)
    BY <1>2 DEF S!pointerMotion, S!pointerButtonUp
  <2>2. p \in Plane
    BY SpotsArePoints
  <2>3. QED
    BY <2>1, <2>2, MoveDetected
<1>3. QED
  BY <1>1, <1>2 DEF S!Next

(***************************************************************************)
(* A stroke shows as many moves as points, each far from the one before:   *)
(* what is compared with the gestures is what is drawn.                    *)
(***************************************************************************)
THEOREM StrokesAreKept == ScreensSpec => [](part = "strokes" => S!PathKept)
<1> DEFINE Inv == part = "strokes" => Stroke
<1>1. ScreensInit => Inv
  BY StrokeBegins DEF ScreensInit
<1>2. Inv /\ [ScreensNext]_all => Inv'
  <2> SUFFICES ASSUME Inv, [ScreensNext]_all, part' = "strokes" PROVE Stroke'
    OBVIOUS
  <2>1. part = "strokes" /\ (S!Next \/ UNCHANGED strokeVars)
    BY DEF ScreensNext, Others, all
  <2>2. CASE S!Next
    BY <2>1, <2>2, StrokeStep
  <2>3. CASE UNCHANGED strokeVars
    BY <2>1, <2>3 DEF strokeVars, Stroke
  <2>4. QED
    BY <2>1, <2>2, <2>3
<1>3. Inv => (part = "strokes" => S!PathKept)
  BY DEF Stroke, Far, S!PathKept, S!Last
<1>4. QED
  BY <1>1, <1>2, <1>3, PTL DEF ScreensSpec

-------------------------------------------------------------------------------
(***************************************************************************)
(* The layout tree while it is painted.                                    *)
(***************************************************************************)
All == L!Inhabitants

(* A widget that a traversal from the window comes to.                     *)
Attached(w) == w = window \/ (w \in L!Inner /\ w \in ToSet(children[Above[w]]))

(* The children of a widget are ones that have it as their parent; a       *)
(* widget outside the tree is marked, and so is one that is not where its  *)
(* parent has it; what is left to paint is in the tree.                    *)
Kept ==
    /\ children \in [All -> Seq(L!Inner)]
    /\ \A w \in All : \A v \in ToSet(children[w]) : v \in L!Inner /\ Above[v] = w

Nested == Kept /\ pos = [w \in All |-> pos[w]] /\ abs = [w \in All |-> abs[w]]

Detached == \A w \in L!Inner : w \in ToSet(children[Above[w]]) \/ w \in modified

ToPaint ==
    \E X : todo \in Seq(X) /\ \A j \in X : Attached(j.widget)

Laid == Nested /\ Detached /\ L!InPlace /\ ToPaint

LEMMA SameLayoutOps ==
    /\ \A s : L!ToSet(s) = ToSet(s)
    /\ \A s, i : L!RemoveAt(s, i) = RemoveAt(s, i)
<1>1. \A s : L!ToSet(s) = ToSet(s)
  BY DEF L!ToSet, ToSet
<1>2. \A s, i : L!RemoveAt(s, i) = RemoveAt(s, i)
  BY DEF L!RemoveAt, RemoveAt
<1>3. QED
  BY <1>1, <1>2

(* What the tree of an instance is.                                        *)
LEMMA TreeShape ==
    /\ window \in All /\ window \notin L!Inner /\ L!Inner \subseteq All
    /\ All = {window} \cup L!Inner
    /\ \A w \in L!Inner : Above[w] \in All /\ Above[w] # w
    /\ Layouts \subseteq L!Inner
    /\ Initially \in [All -> Seq(L!Inner)]
    /\ \A w \in All : \A i \in DOMAIN Initially[w] : Above[Initially[w][i]] = w
  BY ScreenTreeAssumption DEF L!Tree, All, L!Inhabitants, L!Inner

LEMMA LayoutBegins == ASSUME L!Init PROVE Laid
<1>1. children = Initially /\ modified = All /\ todo = << >>
  BY DEF L!Init, All
<1>2. pos = [w \in All |-> pos[w]] /\ abs = [w \in All |-> abs[w]]
  BY DEF L!Init, All
<1>3. \A w \in All : \A v \in ToSet(Initially[w]) : v \in L!Inner /\ Above[v] = w
  BY TreeShape DEF ToSet
<1>4. Nested
  BY <1>1, <1>2, <1>3, TreeShape DEF Nested, Kept
<1>5. Detached /\ L!InPlace
  BY <1>1, TreeShape DEF Detached, L!InPlace
<1>6. ToPaint
  <2>1. todo \in Seq({})
    BY <1>1
  <2>2. QED
    BY <2>1 DEF ToPaint
<1>7. QED
  BY <1>4, <1>5, <1>6 DEF Laid

(* Nothing that places a widget changes.                                   *)
LEMMA PlacesStill ==
    ASSUME Nested, Detached, L!InPlace, UNCHANGED <<children, pos, abs, modified>>
    PROVE  Nested' /\ Detached' /\ L!InPlace'
  BY DEF Nested, Kept, Detached, L!InPlace

LEMMA LayoutStill ==
    ASSUME Laid, UNCHANGED <<children, pos, abs, modified, todo>> PROVE Laid'
  BY DEF Laid, Nested, Kept, Detached, L!InPlace, ToPaint, Attached

-----------------------------------------------------------------------------
(* The calls of the application, between two paintings.                    *)
LEMMA NothingToPaint == ASSUME todo' = << >> PROVE ToPaint'
<1>1. todo' \in Seq({})
  OBVIOUS
<1>2. QED
  BY <1>1 DEF ToPaint

LEMMA AddedIsMarked ==
    ASSUME Laid, todo = << >>, NEW w \in L!Inner, L!addWidget(w) PROVE Laid'
<1> DEFINE u == Above[w]
           s == children[u]
<1>1. /\ u \in All /\ s \in Seq(L!Inner) /\ DOMAIN children = All
      /\ children' = [children EXCEPT ![u] = Append(s, w)]
      /\ UNCHANGED <<pos, abs, modified, todo>>
  BY TreeShape DEF L!addWidget, L!doLayout, Laid, Nested, Kept
<1>2. Append(s, w) \in Seq(L!Inner) /\ ToSet(Append(s, w)) = ToSet(s) \cup {w}
  <2> HIDE DEF s
  <2>1. QED
    BY <1>1, AppendedTo
<1>3. /\ children' \in [All -> Seq(L!Inner)]
      /\ \A v \in All : ToSet(children'[v]) = ToSet(children[v]) \cup (IF v = u THEN {w} ELSE {})
  <2> DEFINE t == Append(s, w)
  <2>1. children' = [children EXCEPT ![u] = t] /\ t \in Seq(L!Inner) /\ ToSet(t) = ToSet(s) \cup {w}
    BY <1>1, <1>2
  <2>2. children \in [All -> Seq(L!Inner)]
    BY DEF Laid, Nested, Kept
  <2> HIDE DEF t, u
  <2>3. children' \in [All -> Seq(L!Inner)]
    BY <2>1, <2>2
  <2>4. \A v \in All : children'[v] = IF v = u THEN t ELSE children[v]
    BY <2>1, <2>2
  <2>5. QED
    BY <2>1, <2>3, <2>4
<1>4. Nested'
  <2>1. \A v \in All : \A x \in ToSet(children'[v]) : x \in L!Inner /\ Above[x] = v
    BY <1>3 DEF Laid, Nested, Kept
  <2>2. QED
    BY <1>1, <1>3, <2>1 DEF Laid, Nested, Kept
<1>5. Detached'
  BY <1>1, <1>3, TreeShape DEF Laid, Detached
<1>6. L!InPlace'
  BY <1>1 DEF Laid, L!InPlace
<1>7. ToPaint'
  BY <1>1, NothingToPaint
<1>8. QED
  BY <1>4, <1>5, <1>6, <1>7 DEF Laid

LEMMA RemovedIsMarked ==
    ASSUME Laid, todo = << >>, NEW w \in L!Inner, NEW i, L!removeWidget(w, i) PROVE Laid'
<1> DEFINE u == Above[w]
           s == children[u]
           t == RemoveAt(s, i)
<1>1. /\ u \in All /\ s \in Seq(L!Inner) /\ children \in [All -> Seq(L!Inner)]
      /\ i \in DOMAIN s /\ s[i] = w
      /\ children' = [children EXCEPT ![u] = t]
      /\ pos' = [pos EXCEPT ![w] = 0] /\ abs' = [abs EXCEPT ![w] = 0]
      /\ modified' = modified \cup {w} /\ todo' = todo
  BY TreeShape, SameLayoutOps DEF L!removeWidget, L!doLayout, Laid, Nested, Kept
<1>2. /\ t \in Seq(L!Inner) /\ ToSet(t) \subseteq ToSet(s)
      /\ \A v \in ToSet(s) : v # w => v \in ToSet(t)
  <2> HIDE DEF s
  <2>1. t \in Seq(L!Inner) /\ \A v \in ToSet(s) : v # w => v \in ToSet(t)
    BY <1>1, RemovedAt, RemovedKeeps
  <2>2. ToSet(t) \subseteq ToSet(s)
    <3>1. /\ Len(t) = Len(s) - 1
          /\ \A j \in 1 .. Len(s) - 1 : t[j] = IF j < i THEN s[j] ELSE s[j + 1]
      BY <1>1, RemovedAt
    <3> HIDE DEF t
    <3>2. Len(s) \in Nat \ {0} /\ DOMAIN s = 1 .. Len(s)
      BY <1>1
    <3>3. DOMAIN t = 1 .. Len(s) - 1
      BY <2>1, <3>1
    <3>4. QED
      BY <3>1, <3>2, <3>3 DEF ToSet
  <2>3. QED
    BY <2>1, <2>2
<1> HIDE DEF t
<1>3. /\ children' \in [All -> Seq(L!Inner)]
      /\ \A v \in All : ToSet(children'[v]) = IF v = u THEN ToSet(t) ELSE ToSet(children[v])
  <2> HIDE DEF u
  <2>1. children' \in [All -> Seq(L!Inner)]
    BY <1>1, <1>2
  <2>2. \A v \in All : children'[v] = IF v = u THEN t ELSE children[v]
    BY <1>1
  <2>3. QED
    BY <2>1, <2>2
<1>4. Nested'
  <2>1. \A v \in All : \A x \in ToSet(children'[v]) : x \in ToSet(children[v])
    BY <1>2, <1>3
  <2>2. \A v \in All : \A x \in ToSet(children'[v]) : x \in L!Inner /\ Above[x] = v
    BY <2>1 DEF Laid, Nested, Kept
  <2>3. pos' = [v \in All |-> pos'[v]] /\ abs' = [v \in All |-> abs'[v]]
    BY <1>1 DEF Laid, Nested
  <2>4. QED
    BY <1>3, <2>2, <2>3 DEF Nested, Kept
<1>5. Detached'
  <2> SUFFICES ASSUME NEW v \in L!Inner, v \notin modified'
               PROVE  v \in ToSet(children'[Above[v]])
    BY DEF Detached
  <2>1. v # w /\ v \in ToSet(children[Above[v]])
    BY <1>1 DEF Laid, Detached
  <2>2. QED
    BY <1>2, <1>3, <2>1, TreeShape
<1>6. L!InPlace'
  <2> SUFFICES ASSUME NEW v \in L!Inner, v \notin modified', Above[v] \notin modified'
               PROVE  abs'[v] = pos'[v] + abs'[Above[v]]
    BY DEF L!InPlace
  <2>1. v # w /\ Above[v] # w /\ abs[v] = pos[v] + abs[Above[v]]
    BY <1>1 DEF Laid, L!InPlace
  <2>2. abs'[v] = abs[v] /\ pos'[v] = pos[v] /\ abs'[Above[v]] = abs[Above[v]]
    BY <1>1, <2>1, TreeShape DEF Laid, Nested
  <2>3. QED
    BY <2>1, <2>2
<1>7. ToPaint'
  BY <1>1, NothingToPaint
<1>8. QED
  BY <1>4, <1>5, <1>6, <1>7 DEF Laid

LEMMA SlidIsMarked ==
    ASSUME Laid, todo = << >>, NEW w \in L!Inner, NEW x, L!slide(w, x) PROVE Laid'
<1> DEFINE a == IF x = pos[w] THEN abs[w] ELSE x + abs[Above[w]]
<1>1. /\ pos' = [pos EXCEPT ![w] = x] /\ abs' = [abs EXCEPT ![w] = a]
      /\ modified' = IF x = pos[w] THEN modified ELSE modified \cup {w}
      /\ UNCHANGED <<children, todo>>
  BY DEF L!slide, L!now, L!Span
<1>2. Nested'
  BY <1>1 DEF Laid, Nested, Kept
<1>3. CASE x = pos[w]
  <2>1. pos' = pos /\ abs' = abs /\ modified' = modified
    BY <1>1, <1>3, TreeShape DEF Laid, Nested
  <2>2. QED
    BY <1>1, <2>1, LayoutStill
<1>4. CASE x # pos[w]
  <2> HIDE DEF a
  <2>1. modified' = modified \cup {w}
    BY <1>1, <1>4
  <2>2. Detached'
    BY <1>1, <2>1 DEF Laid, Detached
  <2>3. L!InPlace'
    <3> SUFFICES ASSUME NEW v \in L!Inner, v \notin modified', Above[v] \notin modified'
                 PROVE  abs'[v] = pos'[v] + abs'[Above[v]]
      BY DEF L!InPlace
    <3>1. v # w /\ Above[v] # w /\ abs[v] = pos[v] + abs[Above[v]]
      BY <2>1 DEF Laid, L!InPlace
    <3>2. abs'[v] = abs[v] /\ pos'[v] = pos[v] /\ abs'[Above[v]] = abs[Above[v]]
      BY <1>1, <3>1, TreeShape DEF Laid, Nested
    <3>3. QED
      BY <3>1, <3>2
  <2>4. ToPaint'
    BY <1>1, NothingToPaint
  <2>5. QED
    BY <1>2, <2>2, <2>3, <2>4 DEF Laid
<1>5. QED
  BY <1>3, <1>4

LEMMA CallStep == ASSUME Laid, L!Call PROVE Laid'
<1>1. todo = << >>
  BY DEF L!Call
<1>2. ASSUME NEW w, L!setVisible(w) \/ L!setText(w) PROVE Laid'
  <2>1. UNCHANGED <<children, pos, abs, modified, todo>>
    BY <1>2 DEF L!setVisible, L!setText, L!doLayout
  <2>2. QED
    BY <2>1, LayoutStill
<1>3. /\ Detachable \subseteq L!Inner /\ Floating \subseteq L!Inner
  BY ScreenTreeAssumption DEF L!Tree, L!Inner
<1>4. ASSUME NEW w \in Detachable, NEW i, L!removeWidget(w, i) \/ L!addWidget(w) PROVE Laid'
  BY <1>1, <1>3, <1>4, RemovedIsMarked, AddedIsMarked
<1>5. ASSUME NEW w \in Floating, NEW x, L!slide(w, x) PROVE Laid'
  BY <1>1, <1>3, <1>5, SlidIsMarked
<1>6. QED
  BY <1>2, <1>4, <1>5 DEF L!Call

-----------------------------------------------------------------------------
(* The painting.                                                           *)
LEMMA TilesAreInner ==
    ASSUME Nested, NEW l \in All PROVE L!tiles(l) \in Seq(L!Inner)
<1> DEFINE s == children[l]
           I == L!Inner
           body(i, f) == IF i = 0 THEN << >>
                         ELSE IF L!IsTile(s[i]) THEN Append(f[i - 1], s[i]) ELSE f[i - 1]
           D == 0 .. Len(s)
           Solved(f) == f = [i \in D |-> body(i, f)]
<1>1. s \in Seq(I) /\ Len(s) \in Nat /\ \A i \in 1 .. Len(s) : s[i] \in I
  <2>1. s \in Seq(I)
    BY DEF Nested, Kept
  <2>2. QED
    BY <2>1
<1> HIDE DEF I, s
<1>2. ASSUME NEW f, NEW i \in D, i # 0 => f[i - 1] \in Seq(I) PROVE body(i, f) \in Seq(I)
  <2>1. CASE i = 0
    BY <2>1
  <2>2. CASE i # 0
    BY <1>1, <1>2, <2>2
  <2>3. QED
    BY <2>1, <2>2
<1>3. \E g : Solved(g)
  <2> DEFINE P == Seq(I)
             step == [g \in [D -> P] |-> [i \in D |-> body(i, g)]]
             rank == [i \in D |-> i]
             n == Len(s) + 1
  <2>1. step \in [[D -> P] -> [D -> P]]
    <3>1. ASSUME NEW g \in [D -> P], NEW i \in D PROVE body(i, g) \in P
      <4>1. i # 0 => i - 1 \in D
        BY <1>1
      <4>2. i # 0 => g[i - 1] \in Seq(I)
        BY <4>1
      <4> HIDE DEF body
      <4>3. QED
        BY <1>2, <4>2
    <3> HIDE DEF body, P
    <3>2. QED
      BY <3>1
  <2>2. ASSUME NEW g \in [D -> P], NEW h \in [D -> P], NEW x \in D,
               \A y \in D : rank[y] < rank[x] => g[y] = h[y]
        PROVE  step[g][x] = step[h][x]
    <3>1. x # 0 => x - 1 \in D /\ x - 1 < x
      BY <1>1
    <3>2. x # 0 => g[x - 1] = h[x - 1]
      BY <2>2, <3>1
    <3>3. body(x, g) = body(x, h)
      BY <3>2
    <3> HIDE DEF body, P
    <3>4. QED
      BY <3>3
  <2>3. /\ rank \in [D -> Nat] /\ n \in Nat /\ \A x \in D : rank[x] < n
    BY <1>1
  <2>4. [D -> P] # {}
    <3>1. << >> \in P
      OBVIOUS
    <3> HIDE DEF P
    <3>2. [i \in D |-> << >>] \in [D -> P]
      BY <3>1
    <3>3. QED
      BY <3>2
  <2>5. \E g \in [D -> P] : step[g] = g
    <3> HIDE DEF step, D, P, rank, n
    <3>1. Recursion(D, P, step, rank, n)
      BY <2>1, <2>2, <2>3, <2>4 DEF Recursion
    <3>2. QED
      BY <3>1, FixedPoint
  <2> HIDE DEF body, D, P
  <2>6. QED
    BY <2>5
<1> DEFINE upTo == CHOOSE f : Solved(f)
<1>4. Solved(upTo)
  <2> HIDE DEF Solved
  <2>1. QED
    BY <1>3, Zenon
<1>5. L!tiles(l) = upTo[Len(s)]
  BY DEF L!tiles, s
<1>6. \A i \in D : upTo[i] = body(i, upTo)
  <2> HIDE DEF upTo, body, D
  <2>1. QED
    BY <1>4
<1> HIDE DEF upTo
<1>7. \A i \in D : upTo[i] \in Seq(I)
  <2> DEFINE bad == {i \in D : upTo[i] \notin Seq(I)}
  <2>1. bad \subseteq Nat
    BY <1>1
  <2> SUFFICES ASSUME bad # {} PROVE FALSE
    OBVIOUS
  <2>2. PICK m \in bad : \A k \in bad : m <= k
    <3> HIDE DEF bad
    <3>1. QED
      BY <2>1, LeastNat
  <2>3. m \in D /\ upTo[m] \notin Seq(I)
    BY <2>2
  <2>4. m # 0 => m - 1 \in D /\ ~ (m <= m - 1)
    BY <1>1, <2>3
  <2>5. m # 0 => upTo[m - 1] \in Seq(I)
    BY <2>2, <2>4
  <2>6. body(m, upTo) \in Seq(I)
    <3> HIDE DEF body, D
    <3>1. QED
      BY <1>2, <2>3, <2>5
  <2>7. QED
    BY <1>6, <2>3, <2>6
<1>8. Len(s) \in D
  BY <1>1
<1>9. QED
  BY <1>5, <1>7, <1>8 DEF I

(* Tiling a layout moves widgets other than the window only.               *)
LEMMA WindowStays ==
    ASSUME Nested, NEW l \in All PROVE L!Tiled(l).pos[window] = pos[window]
<1> DEFINE t == L!tiles(l)
           e == L!extents(t, l)
<1>1. t \in Seq(L!Inner)
  BY TilesAreInner
<1> HIDE DEF t, e
<1>2. CASE t = << >>
  <2>1. L!Tiled(l) = [size |-> size, pos |-> pos]
    BY <1>2 DEF L!Tiled, t
  <2>2. QED
    BY <2>1
<1>3. CASE t # << >>
  <2> DEFINE at(c) == L!SelectInSeq(t, LAMBDA d : d = c)
  <2>1. L!Tiled(l) = L!PlacedBy(t, e)
    BY <1>3 DEF L!Tiled, t, e
  <2>2. at(window) = 0
    <3>1. {i \in 1 .. Len(t) : t[i] = window} = {}
      BY <1>1, TreeShape
    <3>2. QED
      BY <3>1 DEF L!SelectInSeq
  <2>3. L!PlacedBy(t, e).pos[window] = IF at(window) = 0 THEN pos[window] ELSE L!start(e, at(window))
    BY TreeShape DEF L!PlacedBy, All
  <2>4. QED
    BY <2>1, <2>2, <2>3
<1>4. QED
  BY <1>2, <1>3

(* What is left to paint is in the tree when the widget that is painted    *)
(* gives way to its children, or to nothing.                               *)
LEMMA StillToPaint ==
    ASSUME Laid, todo # << >>, children' = children,
           \/ todo' = Tail(todo)
           \/ \E w \in All : todo' = L!childrenOf(w) \o Tail(todo)
    PROVE  ToPaint' /\ Attached(L!Painted)
<1>1. PICK X : todo \in Seq(X) /\ \A j \in X : Attached(j.widget)
  BY DEF Laid, ToPaint
<1>2. Tail(todo) \in Seq(X) /\ Head(todo) \in X
  BY <1>1
<1>3. Attached(L!Painted)
  BY <1>1, <1>2 DEF L!Painted
<1>4. \A w : Attached(w) => Attached(w)'
  BY DEF Attached
<1>5. CASE todo' = Tail(todo)
  BY <1>1, <1>2, <1>3, <1>4, <1>5 DEF ToPaint
<1>6. ASSUME NEW w \in All, todo' = L!childrenOf(w) \o Tail(todo) PROVE ToPaint'
  <2> DEFINE job(i) == [widget |-> children[w][i], clip |-> L!drawn(w)]
             J == {job(i) : i \in DOMAIN children[w]}
             Z == X \cup J
  <2>1. children[w] \in Seq(L!Inner)
    BY DEF Laid, Nested, Kept
  <2>2. L!childrenOf(w) \in Seq(Z)
    <3>1. \A i \in DOMAIN children[w] : job(i) \in Z
      OBVIOUS
    <3>2. L!childrenOf(w) = [i \in 1 .. Len(children[w]) |-> job(i)]
      BY <2>1 DEF L!childrenOf
    <3>3. Len(children[w]) \in Nat /\ DOMAIN children[w] = 1 .. Len(children[w])
      BY <2>1
    <3> HIDE DEF Z, job
    <3>4. QED
      BY <3>1, <3>2, <3>3
  <2>3. Tail(todo) \in Seq(Z)
    <3> HIDE DEF J
    <3>1. X \subseteq Z
      OBVIOUS
    <3> HIDE DEF Z
    <3>2. QED
      BY <1>2, <3>1
  <2>4. \A j \in J : Attached(j.widget)
    <3> SUFFICES ASSUME NEW i \in DOMAIN children[w] PROVE Attached(children[w][i])
      OBVIOUS
    <3>1. children[w][i] \in ToSet(children[w])
      BY DEF ToSet
    <3>2. QED
      BY <3>1 DEF Attached, Laid, Nested, Kept
  <2>5. \A j \in Z : Attached(j.widget)'
    <3> HIDE DEF J
    <3>1. QED
      BY <1>1, <1>4, <2>4
  <2>6. todo' \in Seq(Z)
    <3> HIDE DEF Z
    <3>1. QED
      BY <1>6, <2>2, <2>3
  <2>7. QED
    BY <2>5, <2>6 DEF ToPaint
<1>7. QED
  BY <1>3, <1>5, <1>6

(* A widget that is marked is brought up to date and its children are      *)
(* marked; t are the places that the tiling gives.                         *)
LEMMA UpToDate ==
    ASSUME Laid, NEW w \in All, Attached(w), NEW t,
           t[window] = pos[window], pos' = t, t = [c \in All |-> t[c]],
           abs' = [c \in All |-> IF t[c] # pos[c] THEN t[c] + L!absNow(w)[w]
                                 ELSE L!absNow(w)[c]],
           NEW M, modified' = L!modifiedNow(w) \cup M,
           \A c \in L!Inner : t[c] # pos[c] => c \in M,
           children' = children
    PROVE  Nested' /\ Detached' /\ L!InPlace'
<1>1. Nested'
  BY DEF Laid, Nested, Kept
<1> DEFINE A == L!absNow(w)
<1>2. /\ \A c \in All : c # w => A[c] = abs[c]
      /\ w \notin modified \/ w = window => A = abs
      /\ w \in modified /\ w # window => A[w] = pos[w] + abs[Above[w]]
  BY DEF L!absNow, Laid, Nested
<1>3. /\ \A c \in modified : c # w => c \in modified'
      /\ w \in modified => \A c \in ToSet(children[w]) : c \in modified'
      /\ M \subseteq modified'
  BY SameLayoutOps DEF L!modifiedNow, L!KidsOf
<1>4. \A c \in L!Inner : c \notin modified' => t[c] = pos[c]
  BY <1>3
<1>5. abs' = [c \in All |-> IF t[c] # pos[c] THEN t[c] + A[w] ELSE A[c]]
  OBVIOUS
<1> HIDE DEF A
<1>6. Detached'
  <2> SUFFICES ASSUME NEW v \in L!Inner, v \notin modified' PROVE v \in ToSet(children[Above[v]])
    BY DEF Detached
  <2>1. CASE v \in modified
    <3>1. v = w
      BY <1>3, <2>1
    <3>2. QED
      BY <3>1, TreeShape DEF Attached
  <2>2. CASE v \notin modified
    BY <2>2 DEF Laid, Detached
  <2>3. QED
    BY <2>1, <2>2
<1>7. L!InPlace'
  <2> SUFFICES ASSUME NEW v \in L!Inner, v \notin modified', Above[v] \notin modified'
               PROVE  abs'[v] = pos'[v] + abs'[Above[v]]
    BY DEF L!InPlace
  <2> DEFINE u == Above[v]
  <2>1. u \in All /\ v \in All /\ u # v
    BY TreeShape
  <2>2. t[v] = pos[v] /\ t[u] = pos[u]
    BY <1>4, TreeShape
  <2>3. abs'[v] = A[v] /\ abs'[u] = A[u] /\ pos'[v] = pos[v]
    BY <1>5, <2>1, <2>2
  <2>4. CASE v = w
    <3>1. w # window /\ A[u] = abs[u]
      BY <1>2, <2>1, <2>4, TreeShape
    <3>2. CASE w \in modified
      BY <1>2, <2>3, <2>4, <3>1, <3>2
    <3>3. CASE w \notin modified
      <4>1. u \notin modified
        BY <1>3, <2>1, <2>4
      <4>2. abs[v] = pos[v] + abs[u]
        BY <2>4, <3>3, <4>1 DEF Laid, L!InPlace
      <4>3. QED
        BY <1>2, <2>3, <3>3, <4>2
    <3>4. QED
      BY <3>2, <3>3
  <2>5. CASE v # w
    <3>1. v \notin modified /\ A[v] = abs[v]
      BY <1>2, <1>3, <2>1, <2>5
    <3>2. v \in ToSet(children[u])
      BY <3>1 DEF Laid, Detached
    <3>3. u = w => w \notin modified
      BY <1>3, <3>2
    <3>4. u \notin modified /\ A[u] = abs[u]
      BY <1>2, <1>3, <2>1, <3>3
    <3>5. abs[v] = pos[v] + abs[u]
      BY <3>1, <3>4 DEF Laid, L!InPlace
    <3>6. QED
      BY <2>3, <3>1, <3>4, <3>5
  <2>6. QED
    BY <2>4, <2>5
<1>8. QED
  BY <1>1, <1>6, <1>7

(* A widget that is not tiled keeps the places of its children.            *)
LEMMA UntiledPaint ==
    ASSUME Laid, NEW w \in All, L!PaintOutside(w) \/ L!PaintInside(w) PROVE Laid'
<1>1. /\ todo # << >> /\ w = L!Painted
      /\ UNCHANGED <<children, pos>>
      /\ abs' = L!absNow(w) /\ modified' = L!modifiedNow(w)
      /\ \/ todo' = Tail(todo)
         \/ todo' = L!childrenOf(w) \o Tail(todo)
  BY DEF L!PaintOutside, L!PaintInside, L!Updated
<1>2. ToPaint' /\ Attached(w)
  BY <1>1, StillToPaint
<1>3. L!absNow(w) = [c \in All |-> L!absNow(w)[c]]
  <2>1. CASE w \in modified /\ w # window
    <3> DEFINE a == pos[w] + abs[Above[w]]
    <3>1. L!absNow(w) = [abs EXCEPT ![w] = a]
      BY <2>1 DEF L!absNow
    <3> HIDE DEF a
    <3>2. abs = [c \in All |-> abs[c]]
      BY DEF Laid, Nested
    <3>3. QED
      BY <3>1, <3>2
  <2>2. CASE ~ (w \in modified /\ w # window)
    <3>1. L!absNow(w) = abs
      BY <2>2 DEF L!absNow
    <3>2. QED
      BY <3>1 DEF Laid, Nested
  <2>3. QED
    BY <2>1, <2>2
<1>4. QED
  BY <1>1, <1>2, <1>3, UpToDate DEF Laid, Nested

(* A layout that is tiled marks every child that it moves.                 *)
LEMMA TiledPaint == ASSUME Laid, NEW l \in Layouts, L!PaintTiled(l) PROVE Laid'
<1> DEFINE t == L!Tiled(l)
           M == {c \in L!Inner : t.pos[c] # pos[c] \/ t.size[c] # size[c]}
<1>1. /\ todo # << >> /\ l = L!Painted /\ children' = children
      /\ todo' = L!childrenOf(l) \o Tail(todo) /\ l \in All
  BY TreeShape DEF L!PaintTiled, L!Updated
<1>2. /\ pos' = t.pos /\ modified' = L!modifiedNow(l) \cup M
      /\ abs' = [c \in All |-> IF t.pos[c] # pos[c] THEN t.pos[c] + L!absNow(l)[l]
                               ELSE L!absNow(l)[c]]
  BY DEF L!PaintTiled, L!Placed, All
<1>3. ToPaint' /\ Attached(l)
  BY <1>1, StillToPaint
<1>4. t.pos[window] = pos[window]
  BY <1>1, WindowStays DEF Laid
<1>5. t.pos = [c \in All |-> t.pos[c]]
  <2>1. CASE L!tiles(l) = << >>
    <3>1. t.pos = pos
      BY <2>1 DEF L!Tiled
    <3>2. pos = [c \in All |-> pos[c]]
      BY DEF Laid, Nested
    <3> HIDE DEF t
    <3>3. QED
      BY <3>1, <3>2
  <2>2. CASE L!tiles(l) # << >>
    <3>1. t = L!PlacedBy(L!tiles(l), L!extents(L!tiles(l), l))
      BY <2>2 DEF L!Tiled
    <3> HIDE DEF t
    <3>2. QED
      BY <3>1 DEF L!PlacedBy, All
  <2>3. QED
    BY <2>1, <2>2
<1>6. \A c \in L!Inner : t.pos[c] # pos[c] => c \in M
  OBVIOUS
<1> DEFINE p == t.pos
<1> HIDE DEF t, M
<1>7. p[window] = pos[window] /\ pos' = p /\ p = [c \in All |-> p[c]]
  BY <1>2, <1>4, <1>5
<1>8. abs' = [c \in All |-> IF p[c] # pos[c] THEN p[c] + L!absNow(l)[l] ELSE L!absNow(l)[c]]
  BY <1>2
<1>9. \A c \in L!Inner : p[c] # pos[c] => c \in M
  BY <1>6
<1> HIDE DEF p
<1>10. Nested' /\ Detached' /\ L!InPlace'
  BY <1>1, <1>2, <1>3, <1>7, <1>8, <1>9, UpToDate
<1>11. QED
  BY <1>3, <1>10 DEF Laid

LEMMA LayoutStep == ASSUME Laid, L!Next PROVE Laid'
<1>1. CASE L!Call
  BY <1>1, CallStep
<1>2. CASE L!BeginPaint
  <2>1. UNCHANGED <<children, pos, abs, modified>>
    BY <1>2 DEF L!BeginPaint
  <2>2. ToPaint'
    <3> DEFINE job == [widget |-> window, clip |-> pending]
    <3>1. todo' = <<job>> /\ job.widget = window
      BY <1>2 DEF L!BeginPaint
    <3> HIDE DEF job
    <3>2. todo' \in Seq({job})
      BY <3>1
    <3>3. \A j \in {job} : Attached(j.widget)'
      BY <3>1 DEF Attached
    <3>4. QED
      BY <3>2, <3>3 DEF ToPaint
  <2>3. QED
    BY <2>1, <2>2, PlacesStill DEF Laid
<1>3. CASE L!PaintStep
  <2>1. CASE L!PaintNothing
    <3>1. /\ todo # << >> /\ todo' = Tail(todo)
          /\ UNCHANGED <<children, pos, abs, modified>>
      BY <2>1 DEF L!PaintNothing
    <3>2. ToPaint'
      BY <3>1, StillToPaint
    <3>3. QED
      BY <3>1, <3>2, PlacesStill DEF Laid
  <2>2. ASSUME NEW w \in All, L!PaintOutside(w) \/ L!PaintInside(w) PROVE Laid'
    BY <2>2, UntiledPaint
  <2>3. ASSUME NEW l \in Layouts, L!PaintTiled(l) PROVE Laid'
    BY <2>3, TiledPaint
  <2>4. QED
    BY <1>3, <2>1, <2>2, <2>3 DEF L!PaintStep, All
<1>4. QED
  BY <1>1, <1>2, <1>3 DEF L!Next

(***************************************************************************)
(* A widget is where its parent has it, or one of the two is marked: no    *)
(* move, relayout, addition or removal leaves a widget behind unmarked     *)
(* while the marks are passed down the tree.                               *)
(***************************************************************************)
THEOREM WidgetsAreInPlace == ScreensSpec => [](part = "layouts" => L!InPlace)
<1> DEFINE Inv == part = "layouts" => Laid
<1>1. ScreensInit => Inv
  BY LayoutBegins DEF ScreensInit
<1>2. Inv /\ [ScreensNext]_all => Inv'
  <2> SUFFICES ASSUME Inv, [ScreensNext]_all, part' = "layouts" PROVE Laid'
    OBVIOUS
  <2>1. part = "layouts" /\ (L!Next \/ UNCHANGED layoutVars)
    BY DEF ScreensNext, Others, all
  <2>2. CASE L!Next
    BY <2>1, <2>2, LayoutStep
  <2>3. CASE UNCHANGED layoutVars
    BY <2>1, <2>3, LayoutStill DEF layoutVars
  <2>4. QED
    BY <2>1, <2>2, <2>3
<1>3. Inv => (part = "layouts" => L!InPlace)
  BY DEF Laid
<1>4. QED
  BY <1>1, <1>2, <1>3, PTL DEF ScreensSpec

-------------------------------------------------------------------------------
(***************************************************************************)
(* The cells of a grid.                                                    *)
(***************************************************************************)
LEMMA TimesMonotone ==
    ASSUME NEW a \in Int, NEW b \in Int, NEW n \in Nat, a <= b PROVE a * n <= b * n
<1>1. PICK d \in Nat : b = a + d
  <2>1. b - a \in Nat /\ b = a + (b - a)
    OBVIOUS
  <2>2. QED
    BY <2>1
<1>2. b * n = a * n + d * n /\ d * n \in Nat /\ a * n \in Int
  BY <1>1
<1>3. QED
  BY <1>2

LEMMA DividedBy ==
    ASSUME NEW i \in Nat, NEW n \in Nat \ {0}
    PROVE  /\ i \div n \in Nat /\ i % n \in 0 .. n - 1
           /\ (i \div n) * n + (i % n) = i
  OBVIOUS

LEMMA TimesNext == ASSUME NEW r \in Int, NEW n \in Nat PROVE (r + 1) * n = r * n + n /\ r * n \in Int
  OBVIOUS

(* What the application of a grid has to respect.                          *)
W == DOMAIN MCWish

LEMMA GridShape ==
    /\ None \notin W /\ window \notin W
    /\ Rows \in Nat \ {0} /\ Cols \in Nat \ {0}
    /\ CellSpans \subseteq Int \X Int
  BY ScreenGridAssumption DEF G!GridAssumption, W

LEMMA AtMonotone ==
    ASSUME NEW r \in Int, NEW q \in Int, NEW c \in Int, NEW d \in Int, r <= q, c <= d
    PROVE  /\ G!At(r, c) \in Int /\ G!At(r, c) <= G!At(q, d)
           /\ r < q /\ c < d + Cols => G!At(r, c) < G!At(q, d)
<1>1. Cols \in Nat /\ r * Cols <= q * Cols /\ r * Cols \in Int /\ q * Cols \in Int
  BY GridShape, TimesMonotone
<1>2. G!At(r, c) \in Int /\ G!At(r, c) <= G!At(q, d)
  BY <1>1 DEF G!At
<1>3. ASSUME r < q, c < d + Cols PROVE G!At(r, c) < G!At(q, d)
  <2>1. r + 1 <= q /\ r + 1 \in Int
    BY <1>3
  <2>2. (r + 1) * Cols <= q * Cols
    BY <1>1, <2>1, TimesMonotone
  <2>3. (r + 1) * Cols = r * Cols + Cols
    BY <1>1
  <2>4. QED
    BY <1>1, <1>3, <2>2, <2>3 DEF G!At
<1>4. QED
  BY <1>2, <1>3

(* Each cell has one row and one column.                                   *)
LEMMA AtInjective ==
    ASSUME NEW r \in Int, NEW q \in Int, NEW c \in 0 .. Cols - 1, NEW d \in 0 .. Cols - 1,
           G!At(r, c) = G!At(q, d)
    PROVE  r = q /\ c = d
<1>0. Cols \in Nat /\ c \in Int /\ d \in Int /\ c < 0 + Cols /\ d < 0 + Cols /\ 0 <= c /\ 0 <= d
  BY GridShape
<1>1. ASSUME NEW a \in Int, NEW b \in Int, NEW x \in 0 .. Cols - 1, NEW y \in 0 .. Cols - 1, a < b
      PROVE  G!At(a, x) < G!At(b, y)
  <2>1. Cols \in Nat /\ a * Cols \in Int /\ b * Cols \in Int /\ (a + 1) * Cols <= b * Cols
    <3>1. a + 1 <= b /\ a + 1 \in Int /\ Cols \in Nat
      BY <1>0, <1>1
    <3>2. QED
      BY <1>1, <3>1, TimesMonotone
  <2>2. (a + 1) * Cols = a * Cols + Cols
    BY <1>0
  <2>3. QED
    BY <2>1, <2>2 DEF G!At
<1>2. ~ (r < q)
  <2>1. r < q => G!At(r, c) < G!At(q, d)
    BY <1>1
  <2>2. G!At(q, d) \in Int
    BY <1>0 DEF G!At
  <2>3. QED
    BY <2>1, <2>2
<1>3. ~ (q < r)
  <2>1. q < r => G!At(q, d) < G!At(r, c)
    BY <1>1
  <2>2. G!At(q, d) \in Int
    BY <1>0 DEF G!At
  <2>3. QED
    BY <2>1, <2>2
<1>4. r = q
  BY <1>2, <1>3
<1>5. QED
  BY <1>0, <1>4 DEF G!At

LEMMA AtIsCell ==
    ASSUME NEW r \in 0 .. Rows - 1, NEW c \in 0 .. Cols - 1 PROVE G!At(r, c) \in G!Cells
<1>1. Cols \in Nat \ {0} /\ Rows \in Nat \ {0} /\ r \in Nat /\ c \in Nat
  BY GridShape
<1>2. /\ (Rows - 1) * Cols = Rows * Cols - Cols /\ Rows * Cols \in Int
  BY <1>1
<1>3. r * Cols <= (Rows - 1) * Cols /\ 0 * Cols <= r * Cols /\ r * Cols \in Int
  BY <1>1, TimesMonotone
<1>4. QED
  BY <1>1, <1>2, <1>3 DEF G!At, G!Cells

(* The cell with the number i.                                             *)
LEMMA CellHasPlace ==
    ASSUME NEW i \in G!Cells
    PROVE  /\ i \div Cols \in 0 .. Rows - 1 /\ i % Cols \in 0 .. Cols - 1
           /\ G!At(i \div Cols, i % Cols) = i
<1>1. Cols \in Nat \ {0} /\ Rows \in Nat \ {0} /\ Rows * Cols \in Int /\ i \in Nat
      /\ i < Rows * Cols
  BY GridShape DEF G!Cells
<1>2. /\ i \div Cols \in Nat /\ i % Cols \in 0 .. Cols - 1
      /\ (i \div Cols) * Cols + (i % Cols) = i
  BY <1>1, DividedBy
<1> DEFINE r == i \div Cols
           c == i % Cols
<1> HIDE DEF r, c
<1>3. ~ (Rows <= r)
  <2> SUFFICES ASSUME Rows <= r PROVE FALSE
    OBVIOUS
  <2>1. Rows * Cols <= r * Cols /\ r * Cols \in Int
    BY <1>1, <1>2, TimesMonotone DEF r
  <2>2. r * Cols + c = i /\ c \in Nat
    BY <1>1, <1>2 DEF r, c
  <2>3. QED
    BY <1>1, <2>1, <2>2
<1>4. r \in 0 .. Rows - 1
  BY <1>1, <1>2, <1>3 DEF r
<1>5. QED
  BY <1>2, <1>4 DEF r, G!At

(* A widget covers a rectangle of cells.                                   *)
Rectangle(a) ==
    /\ a.row \in 0 .. a.lastRow /\ a.lastRow \in 0 .. Rows - 1
    /\ a.col \in 0 .. a.lastCol /\ a.lastCol \in 0 .. Cols - 1

LEMMA CoveredInGrid ==
    ASSUME NEW a, Rectangle(a)
    PROVE  /\ G!Covered(a) \subseteq G!Cells
           /\ G!At(a.row, a.col) \in G!Covered(a)
           /\ G!At(a.lastRow, a.lastCol) \in G!Covered(a)
           /\ \A i \in G!Covered(a) :
                 /\ G!At(a.row, a.col) <= i /\ i <= G!At(a.lastRow, a.lastCol)
                 /\ i \in Int
<1>1. /\ Rows \in Nat \ {0} /\ Cols \in Nat \ {0}
      /\ a.row \in Nat /\ a.lastRow \in Nat /\ a.col \in Nat /\ a.lastCol \in Nat
      /\ a.row <= a.lastRow /\ a.col <= a.lastCol
      /\ a.lastRow <= Rows - 1 /\ a.lastCol <= Cols - 1
  BY GridShape DEF Rectangle
<1>2. \A r \in a.row .. a.lastRow, c \in a.col .. a.lastCol :
         r \in 0 .. Rows - 1 /\ c \in 0 .. Cols - 1
  BY <1>1
<1>3. \A r \in a.row .. a.lastRow, c \in a.col .. a.lastCol :
         /\ G!At(a.row, a.col) <= G!At(r, c) /\ G!At(r, c) <= G!At(a.lastRow, a.lastCol)
         /\ G!At(r, c) \in Int
  <2> SUFFICES ASSUME NEW r \in a.row .. a.lastRow, NEW c \in a.col .. a.lastCol
               PROVE  /\ G!At(a.row, a.col) <= G!At(r, c)
                      /\ G!At(r, c) <= G!At(a.lastRow, a.lastCol)
                      /\ G!At(r, c) \in Int
    OBVIOUS
  <2>1. /\ r \in Int /\ c \in Int /\ a.row <= r /\ a.col <= c /\ r <= a.lastRow /\ c <= a.lastCol
        /\ a.row \in Int /\ a.col \in Int /\ a.lastRow \in Int /\ a.lastCol \in Int
    BY <1>1
  <2>2. G!At(a.row, a.col) <= G!At(r, c)
    BY <2>1, AtMonotone
  <2>3. G!At(r, c) <= G!At(a.lastRow, a.lastCol) /\ G!At(r, c) \in Int
    BY <2>1, AtMonotone
  <2>4. QED
    BY <2>2, <2>3
<1>4. a.row \in a.row .. a.lastRow /\ a.lastRow \in a.row .. a.lastRow
      /\ a.col \in a.col .. a.lastCol /\ a.lastCol \in a.col .. a.lastCol
  BY <1>1
<1>5. QED
  BY <1>2, <1>3, <1>4, AtIsCell DEF G!Covered

-----------------------------------------------------------------------------
(* What widgets there are in the cells, and where the arrow keys go after  *)
(* a tiling.                                                               *)
Gridded ==
    /\ cells \in [G!Cells -> W \cup {None}] /\ inGrid \subseteq W /\ ownWidth \in {0, 4}
    /\ area = [w \in W |-> area[w]] /\ \A w \in inGrid : Rectangle(area[w])
    /\ G!CellsKept

Arrowed == dirty \/ inGrid = {} \/ neighbour = [w \in G!Placed |-> G!neighbours(w)]

LEMMA GridBegins == ASSUME G!Init PROVE Gridded /\ Arrowed
<1>1. /\ cells \in [G!Cells -> W \cup {None}] /\ inGrid = {} /\ ownWidth \in {0, 4}
      /\ area = [w \in W |-> area[w]]
  BY DEF G!Init, W
<1>2. G!CellsKept
  <2>1. \A i \in G!Cells : cells[i] = None
    BY DEF G!Init
  <2>2. QED
    BY <1>1, <2>1 DEF G!CellsKept
<1>3. QED
  BY <1>1, <1>2 DEF Gridded, Arrowed

(* A widget that comes to the cells of a.                                  *)
LEMMA CameToCells ==
    ASSUME Gridded, NEW w \in W, w \notin inGrid, NEW a, Rectangle(a),
           \A i \in G!Covered(a) : cells[i] = None,
           cells' = [i \in G!Cells |-> IF i \in G!Covered(a) THEN w ELSE cells[i]],
           area' = [area EXCEPT ![w] = a], inGrid' = inGrid \cup {w}, ownWidth' = ownWidth
    PROVE  Gridded'
<1>1. cells' \in [G!Cells -> W \cup {None}]
  BY DEF Gridded
<1>2. /\ area' = [v \in W |-> area'[v]] /\ area'[w] = a
      /\ \A v \in inGrid : area'[v] = area[v]
  BY DEF Gridded
<1>3. \A v \in inGrid' : Rectangle(area'[v])
  BY <1>2 DEF Gridded
<1>4. w # None /\ None \notin inGrid
  BY GridShape DEF Gridded
<1>5. ASSUME NEW v \in inGrid' PROVE {i \in G!Cells : cells'[i] = v} = G!Covered(area'[v])
  <2>1. CASE v = w
    <3>1. \A i \in G!Cells : cells[i] # w
      BY <1>4 DEF Gridded, G!CellsKept
    <3>2. G!Covered(a) \subseteq G!Cells
      BY CoveredInGrid
    <3>3. {i \in G!Cells : cells'[i] = w} = G!Covered(a)
      BY <3>1, <3>2
    <3>4. QED
      BY <1>2, <2>1, <3>3
  <2>2. CASE v # w
    <3>1. v \in inGrid
      BY <2>2
    <3>2. {i \in G!Cells : cells'[i] = v} = {i \in G!Cells : cells[i] = v}
      BY <1>4, <2>2, <3>1
    <3>3. {i \in G!Cells : cells[i] = v} = G!Covered(area[v])
      BY <3>1 DEF Gridded, G!CellsKept
    <3>4. QED
      BY <1>2, <3>1, <3>2, <3>3
  <2>3. QED
    BY <2>1, <2>2
<1>6. \A i \in G!Cells : cells'[i] \in inGrid' \cup {None}
  BY DEF Gridded, G!CellsKept
<1>7. G!CellsKept'
  <2>1. \A v \in inGrid' : {i \in G!Cells : cells'[i] = v} = G!Covered(area[v])'
    BY <1>5 DEF G!Covered
  <2>2. QED
    BY <1>5, <1>6 DEF G!CellsKept, G!Covered
<1>8. QED
  BY <1>1, <1>2, <1>3, <1>7 DEF Gridded

LEMMA LastLine ==
    ASSUME NEW n \in Nat \ {0}, NEW k \in 0 .. n - 1, NEW s \in Int
    PROVE  G!lastOf(k, s, n) \in 0 .. n - 1 /\ k \in 0 .. G!lastOf(k, s, n)
  BY DEF G!lastOf

LEMMA AddedInGrid == ASSUME Gridded, NEW w \in W, G!addWidget(w) PROVE Gridded'
<1>1. PICK i \in G!Cells :
         /\ cells[i] = None
         /\ cells' = [cells EXCEPT ![i] = w]
         /\ area' = [area EXCEPT ![w] = [row |-> i \div Cols, col |-> i % Cols,
                                         lastRow |-> i \div Cols, lastCol |-> i % Cols]]
  BY DEF G!addWidget
<1> DEFINE r == i \div Cols
           c == i % Cols
           a == [row |-> r, col |-> c, lastRow |-> r, lastCol |-> c]
<1>2. r \in 0 .. Rows - 1 /\ c \in 0 .. Cols - 1 /\ G!At(r, c) = i
  BY CellHasPlace
<1>3. area' = [area EXCEPT ![w] = a]
  BY <1>1
<1>4. w \notin inGrid /\ inGrid' = inGrid \cup {w} /\ ownWidth' = ownWidth
  BY DEF G!addWidget, G!settings
<1> HIDE DEF r, c
<1>5. Rectangle(a)
  BY <1>2 DEF Rectangle
<1>6. G!Covered(a) = {i}
  <2>1. \A q \in r .. r, d \in c .. c : G!At(q, d) = i
    BY <1>2
  <2>2. r \in r .. r /\ c \in c .. c
    BY <1>2
  <2>3. QED
    BY <2>1, <2>2 DEF G!Covered
<1> HIDE DEF a
<1>7. cells' = [j \in G!Cells |-> IF j \in G!Covered(a) THEN w ELSE cells[j]]
  BY <1>1, <1>6 DEF Gridded
<1>8. QED
  BY <1>1, <1>3, <1>4, <1>5, <1>6, <1>7, CameToCells

LEMMA AddedAt ==
    ASSUME Gridded, NEW w \in W, NEW r \in 0 .. Rows - 1, NEW c \in 0 .. Cols - 1,
           NEW s \in CellSpans, G!addWidgetAt(w, r, c, s[1], s[2])
    PROVE  Gridded'
<1> DEFINE a == [row |-> r, col |-> c, lastRow |-> G!lastOf(r, s[1], Rows),
                 lastCol |-> G!lastOf(c, s[2], Cols)]
<1>1. /\ w \notin inGrid /\ \A i \in G!Covered(a) : cells[i] = None
      /\ cells' = [i \in G!Cells |-> IF i \in G!Covered(a) THEN w ELSE cells[i]]
      /\ area' = [area EXCEPT ![w] = a]
      /\ inGrid' = inGrid \cup {w} /\ ownWidth' = ownWidth
  BY DEF G!addWidgetAt, G!settings
<1>2. Rectangle(a)
  <2>1. s[1] \in Int /\ s[2] \in Int /\ Rows \in Nat \ {0} /\ Cols \in Nat \ {0}
    BY GridShape
  <2>2. G!lastOf(r, s[1], Rows) \in 0 .. Rows - 1 /\ r \in 0 .. G!lastOf(r, s[1], Rows)
    BY <2>1, LastLine
  <2>3. G!lastOf(c, s[2], Cols) \in 0 .. Cols - 1 /\ c \in 0 .. G!lastOf(c, s[2], Cols)
    BY <2>1, LastLine
  <2>4. QED
    BY <2>2, <2>3 DEF Rectangle
<1> HIDE DEF a
<1>3. QED
  BY <1>1, <1>2, CameToCells

LEMMA RemovedFromGrid == ASSUME Gridded, NEW w \in W, G!removeWidget(w) PROVE Gridded'
<1>1. /\ cells' = [i \in G!Cells |-> IF cells[i] = w THEN None ELSE cells[i]]
      /\ area' = [area EXCEPT ![w] = G!NoArea]
      /\ inGrid' = inGrid \ {w} /\ ownWidth' = ownWidth
  BY DEF G!removeWidget, G!settings
<1>2. cells' \in [G!Cells -> W \cup {None}] /\ area' = [v \in W |-> area'[v]]
  BY <1>1 DEF Gridded
<1>3. \A v \in inGrid' : v # w /\ v # None /\ v \in inGrid /\ area'[v] = area[v]
  BY <1>1, GridShape DEF Gridded
<1>4. \A v \in inGrid' : Rectangle(area'[v])
  BY <1>3 DEF Gridded
<1>5. \A v \in inGrid' : {i \in G!Cells : cells'[i] = v} = G!Covered(area'[v])
  <2> SUFFICES ASSUME NEW v \in inGrid'
               PROVE  {i \in G!Cells : cells'[i] = v} = G!Covered(area'[v])
    OBVIOUS
  <2>1. {i \in G!Cells : cells'[i] = v} = {i \in G!Cells : cells[i] = v}
    BY <1>1, <1>3
  <2>2. {i \in G!Cells : cells[i] = v} = G!Covered(area[v])
    BY <1>3 DEF Gridded, G!CellsKept
  <2>3. QED
    BY <1>3, <2>1, <2>2
<1>6. \A i \in G!Cells : cells'[i] \in inGrid' \cup {None}
  BY <1>1 DEF Gridded, G!CellsKept
<1>7. G!CellsKept'
  <2>1. \A v \in inGrid' : {i \in G!Cells : cells'[i] = v} = G!Covered(area[v])'
    BY <1>5 DEF G!Covered
  <2>2. QED
    BY <1>5, <1>6 DEF G!CellsKept, G!Covered
<1>8. QED
  BY <1>1, <1>2, <1>4, <1>7 DEF Gridded

LEMMA CellsStill ==
    ASSUME Gridded, UNCHANGED <<cells, area, inGrid>>, ownWidth' \in {0, 4} PROVE Gridded'
<1>1. G!CellsKept'
  BY DEF Gridded, G!CellsKept, G!Covered
<1>2. \A w \in inGrid' : Rectangle(area'[w])
  BY DEF Gridded
<1>3. QED
  BY <1>1, <1>2 DEF Gridded

LEMMA ArrowsStill ==
    ASSUME Arrowed, UNCHANGED <<cells, area, inGrid, keyNav, neighbour, dirty>> PROVE Arrowed'
  BY DEF Arrowed, G!Placed, G!neighbours, G!InCell, G!LeftOf, G!AboveOf

LEMMA GridStep == ASSUME Gridded, Arrowed, G!Next PROVE Gridded' /\ Arrowed'
<1>1. ASSUME G!doLayout PROVE Arrowed'
  BY <1>1 DEF G!doLayout, Arrowed
<1>2. ASSUME NEW w \in W, G!addWidget(w) \/ G!removeWidget(w) PROVE Gridded' /\ Arrowed'
  <2>1. Gridded'
    BY <1>2, AddedInGrid, RemovedFromGrid
  <2>2. G!doLayout
    BY <1>2 DEF G!addWidget, G!removeWidget
  <2>3. QED
    BY <1>1, <2>1, <2>2
<1>3. ASSUME NEW w \in W, NEW r \in 0 .. Rows - 1, NEW c \in 0 .. Cols - 1,
             NEW s \in CellSpans, G!addWidgetAt(w, r, c, s[1], s[2])
      PROVE  Gridded' /\ Arrowed'
  <2>1. Gridded'
    BY <1>3, AddedAt
  <2>2. G!doLayout
    BY <1>3 DEF G!addWidgetAt
  <2>3. QED
    BY <1>1, <2>1, <2>2
<1>4. ASSUME NEW e \in {0, 4}, G!setColumnWidth(e) PROVE Gridded' /\ Arrowed'
  <2>1. UNCHANGED <<cells, area, inGrid, keyNav, neighbour, dirty>> /\ ownWidth' = e
    BY <1>4 DEF G!setColumnWidth
  <2>2. QED
    BY <2>1, CellsStill, ArrowsStill
<1>5. CASE G!tile
  <2>1. /\ UNCHANGED <<cells, area, inGrid, keyNav, ownWidth>>
        /\ neighbour' = [w \in G!Placed |-> G!neighbours(w)]
    BY <1>5 DEF G!tile, G!settings
  <2>2. Gridded'
    BY <2>1, CellsStill DEF Gridded
  <2>3. Arrowed'
    <3>1. G!Placed' = G!Placed
      BY <2>1 DEF G!Placed
    <3>2. neighbour' = [w \in G!Placed |-> G!neighbours(w)]'
      BY <2>1 DEF G!Placed, G!neighbours, G!InCell, G!LeftOf, G!AboveOf
    <3>3. QED
      BY <3>2 DEF Arrowed
  <2>4. QED
    BY <2>2, <2>3
<1>6. CASE G!tileOutside
  <2>1. /\ UNCHANGED <<cells, area, inGrid, keyNav, neighbour, dirty>>
        /\ ownWidth' = ownWidth
    BY <1>6 DEF G!tileOutside, G!settings
  <2>2. QED
    BY <2>1, CellsStill, ArrowsStill DEF Gridded
<1>7. QED
  BY <1>2, <1>3, <1>4, <1>5, <1>6 DEF G!Next, W

-----------------------------------------------------------------------------
(* Where the arrow keys go.                                                *)
LEMMA CellOf ==
    ASSUME Gridded, NEW w \in inGrid
    PROVE  /\ Rectangle(area[w]) /\ w # None /\ w # window
           /\ \A i \in G!Cells : cells[i] = w <=> i \in G!Covered(area[w])
<1>1. {i \in G!Cells : cells[i] = w} = G!Covered(area[w])
  BY DEF Gridded, G!CellsKept
<1>2. QED
  BY <1>1, GridShape DEF Gridded

LEMMA AllPlaced == ASSUME Gridded PROVE G!Placed = inGrid
<1> SUFFICES ASSUME NEW w \in inGrid
             PROVE  cells[G!At(area[w].lastRow, area[w].lastCol)] = w
  BY DEF G!Placed
<1>1. Rectangle(area[w])
  BY CellOf
<1>2. G!At(area[w].lastRow, area[w].lastCol) \in G!Cells
      /\ G!At(area[w].lastRow, area[w].lastCol) \in G!Covered(area[w])
  BY <1>1, CoveredInGrid
<1>3. QED
  BY <1>2, CellOf

(* No key stays at the widget: the cells that it looks at are before the   *)
(* first one of the widget or after the last one, or in another column.    *)
LEMMA KeysLeave ==
    ASSUME Gridded, Cols > 1, NEW w \in inGrid
    PROVE  LET n == G!neighbours(w) IN w \notin {n.left, n.right, n.up, n.down}
<1> DEFINE a == area[w]
           n == G!neighbours(w)
           r == a.lastRow
           c == a.lastCol
           low == G!At(a.row, a.col)
           high == G!At(r, c)
<1>1. /\ Rectangle(a) /\ w # window
      /\ \A i \in G!Cells : cells[i] = w => i \in G!Covered(a)
  BY CellOf
<1>2. /\ Rows \in Nat \ {0} /\ Cols \in Nat \ {0}
      /\ a.row \in Nat /\ a.row \in Int /\ r \in Nat /\ r \in Int /\ a.col \in Nat
      /\ a.col \in Int /\ c \in Nat /\ c \in Int
      /\ a.row <= r /\ r <= Rows - 1 /\ a.col <= c /\ c <= Cols - 1
  BY <1>1, GridShape DEF Rectangle
<1>3. /\ low \in Int /\ high \in Int
      /\ \A i \in G!Cells : cells[i] = w => low <= i /\ i <= high
  <2>1. \A i \in G!Covered(a) : low <= i /\ i <= high
    BY <1>1, CoveredInGrid
  <2>2. low \in Int /\ high \in Int
    BY <1>1, CoveredInGrid
  <2>3. QED
    BY <1>1, <2>1, <2>2
<1>4. \A i \in Int : i < low \/ high < i => G!InCell(i) # w
  <2> HIDE DEF low, high
  <2>1. QED
    BY <1>1, <1>3 DEF G!InCell
<1>5. \A i \in G!Cells : i > high => cells[i] # w
  <2> HIDE DEF low, high
  <2>1. \A i \in G!Cells : i \in Int
    BY <1>2 DEF G!Cells
  <2>2. QED
    BY <1>3, <2>1
<1>6. n.left # w
  <2>1. CASE c # 0
    <3>1. n.left = G!InCell(low - 1)
      BY <2>1 DEF G!neighbours, G!LeftOf
    <3> HIDE DEF low, high, n
    <3>2. low - 1 \in Int /\ low - 1 < low
      BY <1>3
    <3>3. QED
      BY <1>4, <3>1, <3>2
  <2>2. CASE c = 0 /\ keyNav /\ r * Cols > 1
    <3>1. n.left = cells[r * Cols - 1]
      BY <2>2 DEF G!neighbours
    <3>2. r # 0
      BY <2>2, <1>2
    <3>3. r - 1 \in 0 .. Rows - 1 /\ Cols - 1 \in 0 .. Cols - 1
      BY <1>2, <3>2
    <3>4. r * Cols - 1 = G!At(r - 1, Cols - 1)
      <4>1. r - 1 \in Int /\ r = (r - 1) + 1
        BY <1>2
      <4>2. r * Cols = (r - 1) * Cols + Cols /\ (r - 1) * Cols \in Int
        BY <1>2, <4>1, TimesNext
      <4>3. QED
        BY <1>2, <4>2 DEF G!At
    <3>5. G!At(r - 1, Cols - 1) \notin G!Covered(a)
      <4> SUFFICES ASSUME NEW q \in a.row .. a.lastRow, NEW d \in a.col .. a.lastCol,
                          G!At(r - 1, Cols - 1) = G!At(q, d)
                   PROVE  FALSE
        BY DEF G!Covered
      <4>1. q \in Int /\ d = 0 /\ d \in 0 .. Cols - 1 /\ r - 1 \in Int
        BY <1>2, <2>2
      <4> DEFINE x == r - 1
                 y == Cols - 1
      <4>2. x \in Int /\ y \in 0 .. Cols - 1 /\ G!At(x, y) = G!At(q, d)
        BY <3>3, <4>1
      <4> HIDE DEF x, y
      <4>3. y = d
        BY <4>1, <4>2, AtInjective
      <4>4. QED
        BY <1>2, <4>1, <4>3 DEF y
    <3>6. G!At(r - 1, Cols - 1) \in G!Cells
      BY <3>3, AtIsCell
    <3>7. QED
      BY <1>1, <3>1, <3>4, <3>5, <3>6
  <2>3. CASE c = 0 /\ ~ (keyNav /\ r * Cols > 1)
    BY <1>1, <2>3 DEF G!neighbours
  <2>4. QED
    BY <2>1, <2>2, <2>3
<1>7. ASSUME NEW q \in Int, NEW d \in Int, q \in 0 .. Rows - 1, d \in 0 .. Cols - 1,
             \/ q = r /\ d = c + 1
             \/ q = r + 1 /\ (d = c \/ d = 0)
      PROVE  cells[G!At(q, d)] # w
  <2>1. G!At(q, d) \in G!Cells /\ high < G!At(q, d)
    <3>1. CASE q = r /\ d = c + 1
      <4>1. G!At(q, d) \in G!Cells
        BY <1>7, AtIsCell
      <4>2. r * Cols \in Int
        BY <1>2
      <4>3. G!At(r, c + 1) = G!At(r, c) + 1
        BY <1>2, <4>2 DEF G!At
      <4> HIDE DEF high
      <4>4. QED
        BY <1>3, <3>1, <4>1, <4>3 DEF high
    <3>2. CASE q = r + 1
      <4>1. r <= q /\ r < q /\ c < d + Cols
        BY <1>2, <1>7, <3>2
      <4>2. G!At(r, c) < G!At(q, d)
        <5>1. (r + 1) * Cols = r * Cols + Cols /\ r * Cols \in Int
          BY <1>2, TimesNext
        <5>2. QED
          BY <1>2, <1>7, <3>2, <4>1, <5>1 DEF G!At
      <4>3. QED
        BY <1>7, <4>2, AtIsCell
    <3>3. QED
      BY <1>7, <3>1, <3>2
  <2> HIDE DEF high
  <2>2. QED
    BY <1>5, <2>1
<1>8. n.right # w
  <2>1. CASE c < Cols - 1
    <3>1. n.right = cells[G!At(r, c) + 1]
      BY <2>1 DEF G!neighbours
    <3>2. G!At(r, c) + 1 = G!At(r, c + 1)
      BY <1>2 DEF G!At
    <3>3. cells[G!At(r, c + 1)] # w
      BY <1>2, <1>7, <2>1
    <3>4. QED
      BY <3>1, <3>2, <3>3
  <2>2. CASE ~ (c < Cols - 1)
    <3>1. \/ n.right = window
          \/ r < Rows - 1 /\ n.right = cells[G!At(r + 1, 0)]
      BY <2>2 DEF G!neighbours
    <3>2. r < Rows - 1 => cells[G!At(r + 1, 0)] # w
      BY <1>2, <1>7
    <3>3. QED
      BY <1>1, <3>1, <3>2
  <2>3. QED
    BY <2>1, <2>2
<1>9. n.up # w
  <2>1. CASE r = 0
    BY <1>1, <2>1 DEF G!neighbours
  <2>2. CASE r # 0
    <3>1. n.up = G!InCell(G!At(a.row - 1, a.col))
      BY <2>2 DEF G!neighbours, G!AboveOf
    <3>2. G!At(a.row - 1, a.col) \in Int /\ G!At(a.row - 1, a.col) < low
      <4>1. a.row - 1 \in Int /\ a.row = (a.row - 1) + 1
        BY <1>2
      <4>2. a.row * Cols = (a.row - 1) * Cols + Cols /\ (a.row - 1) * Cols \in Int
        BY <1>2, <4>1, TimesNext
      <4>3. QED
        BY <1>2, <4>2 DEF G!At
    <3> HIDE DEF low
    <3>3. QED
      BY <1>4, <3>1, <3>2
  <2>3. QED
    BY <2>1, <2>2
<1>10. n.down # w
  <2>1. CASE r = Rows - 1
    BY <1>1, <2>1 DEF G!neighbours
  <2>2. CASE r # Rows - 1
    <3>1. n.down = cells[G!At(r + 1, c)]
      BY <2>2 DEF G!neighbours
    <3>2. cells[G!At(r + 1, c)] # w
      BY <1>2, <1>7, <2>2
    <3>3. QED
      BY <3>1, <3>2
  <2>3. QED
    BY <2>1, <2>2
<1>11. QED
  BY <1>6, <1>8, <1>9, <1>10

(* Each widget has one cell.                                               *)
Single(w) ==
    /\ area[w].row = area[w].lastRow /\ area[w].col = area[w].lastCol
    /\ area[w].row \in 0 .. Rows - 1 /\ area[w].col \in 0 .. Cols - 1

LEMMA UnspannedSingle ==
    ASSUME Gridded, G!Spanned = {}, NEW w \in inGrid PROVE Single(w)
<1> DEFINE a == area[w]
           p == G!At(a.row, a.col)
           q == G!At(a.lastRow, a.lastCol)
           C == G!Covered(a)
<1>1. Rectangle(a)
  BY CellOf
<1>2. C \subseteq G!Cells /\ p \in C /\ q \in C
  BY <1>1, CoveredInGrid
<1>3. ~ (G!Cardinality(C) > 1)
  BY DEF G!Spanned
<1>4. IsFiniteSet(C) /\ Cardinality(C) = G!Cardinality(C)
  <2>1. Rows * Cols - 1 \in Int
    BY GridShape
  <2>2. IsFiniteSet(G!Cells)
    BY <2>1, FS_Interval DEF G!Cells
  <2>3. IsFiniteSet(C)
    BY <1>2, <2>2, FS_Subset
  <2>4. Cardinality(C) = G!Cardinality(C)
    BY DEF G!Cardinality, Cardinality
  <2>5. QED
    BY <2>3, <2>4
<1>5. p = q
  <2> HIDE DEF p, q, C
  <2> SUFFICES ASSUME p # q PROVE FALSE
    OBVIOUS
  <2>1. IsFiniteSet({p}) /\ Cardinality({p}) = 1
    BY FS_Singleton
  <2>2. Cardinality({p} \cup {q}) = 2
    <3>1. q \notin {p}
      OBVIOUS
    <3>2. Cardinality({p} \cup {q}) = Cardinality({p}) + 1
      BY <2>1, <3>1, FS_AddElement
    <3>3. QED
      BY <2>1, <3>2
  <2>3. {p} \cup {q} \subseteq C
    BY <1>2
  <2>4. Cardinality({p} \cup {q}) <= Cardinality(C) /\ Cardinality(C) \in Nat
    BY <1>4, <2>3, FS_Subset, FS_CardinalityType
  <2>5. QED
    BY <1>3, <1>4, <2>2, <2>4
<1>6. /\ a.row \in Int /\ a.lastRow \in Int
      /\ a.col \in 0 .. Cols - 1 /\ a.lastCol \in 0 .. Cols - 1
  BY <1>1, GridShape DEF Rectangle
<1>7. a.row = a.lastRow /\ a.col = a.lastCol
  BY <1>5, <1>6, AtInjective
<1>8. QED
  BY <1>1, <1>6, <1>7 DEF Single, Rectangle

(* Where the keys go from a widget with one cell.                          *)
LEMMA CellOfSingle ==
    ASSUME Gridded, NEW w \in inGrid, Single(w), NEW i \in G!Cells
    PROVE  cells[i] = w <=> i = G!At(area[w].row, area[w].col)
<1> DEFINE r == area[w].row
           c == area[w].col
<1>1. /\ r \in r .. r /\ c \in c .. c /\ (\A k \in r .. r : k = r) /\ (\A k \in c .. c : k = c)
      /\ area[w].lastRow = r /\ area[w].lastCol = c
  BY GridShape DEF Single
<1> HIDE DEF r, c
<1>2. G!Covered(area[w]) = {G!At(r, c)}
  BY <1>1 DEF G!Covered, r, c
<1>3. QED
  BY <1>2, CellOf DEF r, c

(* The numbers of a single cell.                                           *)
LEMMA SingleAt ==
    ASSUME Gridded, NEW w \in inGrid, Single(w)
    PROVE  /\ Rows \in Nat \ {0} /\ Cols \in Nat \ {0} /\ w # window
           /\ area[w].row \in Nat /\ area[w].row <= Rows - 1
           /\ area[w].col \in Nat /\ area[w].col <= Cols - 1
           /\ area[w].lastRow = area[w].row /\ area[w].lastCol = area[w].col
  BY GridShape, CellOf DEF Single

LEMMA SingleHolds ==
    ASSUME Gridded, NEW w \in inGrid, Single(w),
           NEW x \in 0 .. Rows - 1, NEW y \in 0 .. Cols - 1
    PROVE  cells[G!At(x, y)] = w <=> x = area[w].row /\ y = area[w].col
<1> DEFINE q == area[w].row
           d == area[w].col
<1>1. G!At(x, y) \in G!Cells
  BY AtIsCell
<1>2. cells[G!At(x, y)] = w <=> G!At(x, y) = G!At(q, d)
  BY <1>1, CellOfSingle
<1>3. x \in Int /\ q \in Int /\ d \in 0 .. Cols - 1
  BY SingleAt
<1> HIDE DEF q, d
<1>4. G!At(x, y) = G!At(q, d) => x = q /\ y = d
  BY <1>3, AtInjective
<1>5. QED
  BY <1>2, <1>4 DEF q, d

LEMMA RightIs ==
    ASSUME Gridded, Cols > 1, NEW u \in inGrid, Single(u), NEW v \in inGrid, Single(v)
    PROVE  G!neighbours(u).right = v <=>
               \/ area[u].col < Cols - 1 /\ area[v].row = area[u].row
                  /\ area[v].col = area[u].col + 1
               \/ area[u].col = Cols - 1 /\ keyNav /\ area[v].row = area[u].row + 1
                  /\ area[v].col = 0
<1> DEFINE r == area[u].row
           c == area[u].col
           q == area[v].row
           d == area[v].col
           n == G!neighbours(u)
<1>1. /\ Rows \in Nat \ {0} /\ Cols \in Nat \ {0} /\ r \in Nat /\ c \in Nat /\ q \in Nat /\ d \in Nat
      /\ r <= Rows - 1 /\ q <= Rows - 1 /\ c <= Cols - 1 /\ d <= Cols - 1
  BY SingleAt
<1>2. area[u].lastRow = r /\ area[u].lastCol = c /\ v # window /\ v # None
  BY SingleAt, CellOf
<1>3. \A x \in 0 .. Rows - 1, y \in 0 .. Cols - 1 :
         cells[G!At(x, y)] = v <=> x = q /\ y = d
  BY SingleHolds
<1>4. CASE c < Cols - 1
  <2>1. n.right = cells[G!At(r, c) + 1]
    BY <1>2, <1>4 DEF G!neighbours
  <2>2. G!At(r, c) + 1 = G!At(r, c + 1)
    BY <1>1 DEF G!At
  <2>3. r \in 0 .. Rows - 1 /\ c + 1 \in 0 .. Cols - 1
    BY <1>1, <1>4
  <2>4. n.right = v <=> q = r /\ d = c + 1
    <3> HIDE DEF n, q, d, r, c
    <3>1. QED
      BY <1>3, <2>1, <2>2, <2>3
  <2> HIDE DEF n
  <2>5. QED
    BY <1>1, <1>4, <2>4 DEF n
<1>5. CASE ~ (c < Cols - 1)
  <2>1. n.right = IF keyNav /\ r < Rows - 1 /\ cells[G!At(r + 1, 0)] # None
                  THEN cells[G!At(r + 1, 0)] ELSE window
    <3>1. c # 0
      BY <1>1, <1>5
    <3>2. QED
      BY <1>2, <1>5, <3>1 DEF G!neighbours
  <2>2. n.right = v <=> keyNav /\ r < Rows - 1 /\ cells[G!At(r + 1, 0)] = v
    <3> HIDE DEF n
    <3>1. QED
      BY <1>2, <2>1
  <2>3. r < Rows - 1 => (cells[G!At(r + 1, 0)] = v <=> q = r + 1 /\ d = 0)
    <3>1. r < Rows - 1 => r + 1 \in 0 .. Rows - 1
      BY <1>1
    <3>2. 0 \in 0 .. Cols - 1
      BY <1>1
    <3> HIDE DEF q, d, r
    <3>3. QED
      BY <1>3, <3>1, <3>2
  <2>4. q = r + 1 => r < Rows - 1
    BY <1>1
  <2>5. c = Cols - 1
    BY <1>1, <1>5
  <2> HIDE DEF n, q, d, r, c
  <2>6. n.right = v <=> keyNav /\ q = r + 1 /\ d = 0
    BY <2>2, <2>3, <2>4
  <2>7. ~ (c < Cols - 1)
    BY <1>5
  <2>8. QED
    BY <2>5, <2>6, <2>7 DEF n, q, d, r, c
<1>6. QED
  BY <1>4, <1>5

(* The cell before the first of a row is the last of the row before.       *)
LEMMA BeforeRow ==
    ASSUME NEW q \in 1 .. Rows - 1
    PROVE  /\ q - 1 \in 0 .. Rows - 1 /\ Cols - 1 \in 0 .. Cols - 1
           /\ q * Cols - 1 = G!At(q - 1, Cols - 1)
<1>1. Rows \in Nat \ {0} /\ Cols \in Nat \ {0} /\ q - 1 \in Int /\ q = (q - 1) + 1
  BY GridShape
<1>2. q * Cols = (q - 1) * Cols + Cols /\ (q - 1) * Cols \in Int
  BY <1>1, TimesNext
<1>3. QED
  BY <1>1, <1>2 DEF G!At

LEMMA LeftIs ==
    ASSUME Gridded, Cols > 1, NEW u \in inGrid, Single(u), NEW v \in inGrid, Single(v)
    PROVE  G!neighbours(v).left = u <=>
               \/ area[v].col # 0 /\ area[u].row = area[v].row
                  /\ area[u].col = area[v].col - 1
               \/ area[v].col = 0 /\ keyNav /\ area[u].row = area[v].row - 1
                  /\ area[u].col = Cols - 1
<1> DEFINE r == area[u].row
           c == area[u].col
           q == area[v].row
           d == area[v].col
           n == G!neighbours(v)
<1>1. /\ Rows \in Nat \ {0} /\ Cols \in Nat \ {0} /\ r \in Nat /\ c \in Nat /\ q \in Nat /\ d \in Nat
      /\ r <= Rows - 1 /\ q <= Rows - 1 /\ c <= Cols - 1 /\ d <= Cols - 1
  BY SingleAt
<1>2. area[v].lastRow = q /\ area[v].lastCol = d /\ u # window
  BY SingleAt
<1>3. \A x \in 0 .. Rows - 1, y \in 0 .. Cols - 1 :
         cells[G!At(x, y)] = u <=> x = r /\ y = c
  BY SingleHolds
<1>4. CASE d # 0
  <2>1. n.left = G!InCell(G!At(q, d) - 1)
    BY <1>2, <1>4 DEF G!neighbours, G!LeftOf
  <2>2. G!At(q, d) - 1 = G!At(q, d - 1)
    <3>1. q * Cols \in Int
      BY <1>1
    <3>2. QED
      BY <1>1, <3>1 DEF G!At
  <2>3. q \in 0 .. Rows - 1 /\ d - 1 \in 0 .. Cols - 1
    BY <1>1, <1>4
  <2>4. n.left = cells[G!At(q, d - 1)]
    <3>1. G!At(q, d - 1) \in G!Cells
      BY <2>3, AtIsCell
    <3>2. QED
      BY <2>1, <2>2, <3>1 DEF G!InCell
  <2>5. n.left = u <=> q = r /\ d - 1 = c
    <3> HIDE DEF n, q, d, r, c
    <3>1. QED
      BY <1>3, <2>3, <2>4
  <2> HIDE DEF n
  <2>6. QED
    BY <1>1, <1>4, <2>5 DEF n
<1>5. CASE d = 0
  <2>1. n.left = IF keyNav /\ q * Cols > 1 THEN cells[q * Cols - 1] ELSE window
    BY <1>2, <1>5 DEF G!neighbours
  <2>2. n.left = u <=> keyNav /\ q * Cols > 1 /\ cells[q * Cols - 1] = u
    <3> HIDE DEF n
    <3>1. QED
      BY <1>2, <2>1
  <2>3. CASE q = 0
    <3>1. ~ (q * Cols > 1)
      BY <1>1, <2>3
    <3>2. r # q - 1
      BY <1>1, <2>3
    <3> HIDE DEF n
    <3>3. QED
      BY <1>5, <2>2, <3>1, <3>2 DEF n
  <2>4. CASE q # 0
    <3>1. q \in 1 .. Rows - 1
      BY <1>1, <2>4
    <3> HIDE DEF n, q, d, r, c
    <3>2. q * Cols > 1
      <4>1. 1 * Cols <= q * Cols /\ 1 <= q
        BY <1>1, <3>1, TimesMonotone
      <4>2. QED
        BY <1>1, <4>1
    <3>3. cells[q * Cols - 1] = u <=> q - 1 = r /\ Cols - 1 = c
      BY <1>3, <3>1, BeforeRow
    <3>4. n.left = u <=> keyNav /\ q - 1 = r /\ Cols - 1 = c
      BY <2>2, <3>2, <3>3
    <3>5. QED
      BY <1>5, <3>4 DEF n, q, d, r, c
  <2>5. QED
    BY <2>3, <2>4
<1>6. QED
  BY <1>4, <1>5

LEMMA DownIs ==
    ASSUME Gridded, NEW u \in inGrid, Single(u), NEW v \in inGrid, Single(v)
    PROVE  G!neighbours(u).down = v <=> area[v].row = area[u].row + 1 /\ area[v].col = area[u].col
<1> DEFINE r == area[u].row
           c == area[u].col
           q == area[v].row
           d == area[v].col
           n == G!neighbours(u)
<1>1. /\ Rows \in Nat \ {0} /\ Cols \in Nat \ {0} /\ r \in Nat /\ c \in Nat /\ q \in Nat /\ d \in Nat
      /\ r <= Rows - 1 /\ q <= Rows - 1 /\ c <= Cols - 1 /\ d <= Cols - 1
  BY SingleAt
<1>2. area[u].lastRow = r /\ area[u].lastCol = c /\ v # window
  BY SingleAt
<1>3. \A x \in 0 .. Rows - 1, y \in 0 .. Cols - 1 :
         cells[G!At(x, y)] = v <=> x = q /\ y = d
  BY SingleHolds
<1>4. CASE r = Rows - 1
  <2>1. n.down = window
    BY <1>2, <1>4 DEF G!neighbours
  <2> HIDE DEF n
  <2>2. QED
    BY <1>1, <1>2, <1>4, <2>1 DEF n
<1>5. CASE r # Rows - 1
  <2>1. n.down = cells[G!At(r + 1, c)]
    BY <1>2, <1>5 DEF G!neighbours
  <2>2. r + 1 \in 0 .. Rows - 1 /\ c \in 0 .. Cols - 1
    BY <1>1, <1>5
  <2> HIDE DEF n, q, d, r, c
  <2>3. n.down = v <=> r + 1 = q /\ c = d
    BY <1>3, <2>1, <2>2
  <2>4. QED
    BY <2>3 DEF n, q, d, r, c
<1>6. QED
  BY <1>4, <1>5

LEMMA UpIs ==
    ASSUME Gridded, NEW u \in inGrid, Single(u), NEW v \in inGrid, Single(v)
    PROVE  G!neighbours(v).up = u <=> area[u].row = area[v].row - 1 /\ area[u].col = area[v].col
<1> DEFINE r == area[u].row
           c == area[u].col
           q == area[v].row
           d == area[v].col
           n == G!neighbours(v)
<1>1. /\ Rows \in Nat \ {0} /\ Cols \in Nat \ {0} /\ r \in Nat /\ c \in Nat /\ q \in Nat /\ d \in Nat
      /\ r <= Rows - 1 /\ q <= Rows - 1 /\ c <= Cols - 1 /\ d <= Cols - 1
  BY SingleAt
<1>2. area[v].lastRow = q /\ area[v].lastCol = d /\ u # window
  BY SingleAt
<1>3. \A x \in 0 .. Rows - 1, y \in 0 .. Cols - 1 :
         cells[G!At(x, y)] = u <=> x = r /\ y = c
  BY SingleHolds
<1>4. CASE q = 0
  <2>1. n.up = window
    BY <1>2, <1>4 DEF G!neighbours
  <2> HIDE DEF n
  <2>2. QED
    BY <1>1, <1>2, <1>4, <2>1 DEF n
<1>5. CASE q # 0
  <2>1. n.up = G!InCell(G!At(q - 1, d))
    BY <1>2, <1>5 DEF G!neighbours, G!AboveOf
  <2>2. q - 1 \in 0 .. Rows - 1 /\ d \in 0 .. Cols - 1
    BY <1>1, <1>5
  <2> HIDE DEF n, q, d, r, c
  <2>3. n.up = cells[G!At(q - 1, d)]
    BY <2>1, <2>2, AtIsCell DEF G!InCell
  <2>4. n.up = u <=> q - 1 = r /\ d = c
    BY <1>3, <2>2, <2>3
  <2>5. QED
    BY <2>4 DEF n, q, d, r, c
<1>6. QED
  BY <1>4, <1>5

(* From a single cell tile() looks for neighbours in cells of the grid.    *)
LEMMA SinglesLookInside ==
    ASSUME Gridded, NEW w \in inGrid, Single(w) PROVE ~ G!ReadsOutside(w)
<1> DEFINE r == area[w].row
           c == area[w].col
<1>1. /\ Cols \in Nat /\ r \in Nat /\ c \in Nat
      /\ area[w].lastRow = r /\ area[w].lastCol = c
  BY SingleAt
<1>2. c > 0 => G!LeftOf(area[w]) >= 0
  <2>1. 0 * Cols <= r * Cols /\ r * Cols \in Int
    BY <1>1, TimesMonotone
  <2>2. QED
    BY <1>1, <2>1 DEF G!LeftOf, G!At
<1>3. r > 0 => G!AboveOf(area[w]) >= 0
  <2> SUFFICES ASSUME r > 0 PROVE G!AboveOf(area[w]) >= 0
    OBVIOUS
  <2>1. 0 * Cols <= (r - 1) * Cols /\ (r - 1) * Cols \in Int
    BY <1>1, TimesMonotone
  <2>2. QED
    BY <1>1, <2>1 DEF G!AboveOf, G!At
<1>4. G!LeftOf(area[w]) \in Int /\ G!AboveOf(area[w]) \in Int
  BY <1>1 DEF G!LeftOf, G!AboveOf, G!At
<1> HIDE DEF r, c
<1>5. QED
  BY <1>1, <1>2, <1>3, <1>4 DEF G!ReadsOutside, G!Between

(* It has looked outside for a widget over several cells only.             *)
LooksInside == broken => G!Spanned # {}

LEMMA LooksInsideStep == ASSUME Gridded, LooksInside, G!Next PROVE LooksInside'
<1>1. CASE G!tileOutside
  <2>1. PICK w \in inGrid : G!ReadsOutside(w)
    BY <1>1 DEF G!tileOutside, G!Placed
  <2>2. G!Spanned # {}
    BY <2>1, UnspannedSingle, SinglesLookInside
  <2>3. UNCHANGED <<area, inGrid>>
    BY <1>1 DEF G!tileOutside
  <2>4. G!Spanned' = G!Spanned
    BY <2>3 DEF G!Spanned, G!Covered
  <2>5. QED
    BY <2>2, <2>4 DEF LooksInside
<1>2. CASE ~ G!tileOutside
  <2>1. ~ broken /\ broken' = broken
    BY <1>2 DEF G!Next, G!addWidget, G!removeWidget, G!addWidgetAt, G!setColumnWidth, G!tile
  <2>2. QED
    BY <2>1 DEF LooksInside
<1>3. QED
  BY <1>1, <1>2

LEMMA GridArrows == ASSUME Gridded, Arrowed, LooksInside, Cols > 1 PROVE G!ArrowsReturn
<1> SUFFICES ASSUME G!Tiled
             PROVE  /\ \A w \in inGrid : LET n == neighbour[w]
                                         IN  w \notin {n.left, n.right, n.up, n.down}
                    /\ G!Spanned = {} =>
                         \A u, v \in inGrid :
                            /\ (neighbour[u].right = v) <=> (neighbour[v].left = u)
                            /\ (neighbour[u].down = v) <=> (neighbour[v].up = u)
  BY DEF G!ArrowsReturn, LooksInside
<1>1. \A w \in inGrid : neighbour[w] = G!neighbours(w)
  BY AllPlaced DEF Arrowed, G!Tiled
<1>2. \A w \in inGrid : LET n == neighbour[w] IN w \notin {n.left, n.right, n.up, n.down}
  BY <1>1, KeysLeave
<1>3. ASSUME G!Spanned = {}, NEW u \in inGrid, NEW v \in inGrid
      PROVE  /\ (neighbour[u].right = v) <=> (neighbour[v].left = u)
             /\ (neighbour[u].down = v) <=> (neighbour[v].up = u)
  <2>1. Single(u) /\ Single(v)
    BY <1>3, UnspannedSingle
  <2> DEFINE r == area[u].row
             c == area[u].col
             q == area[v].row
             d == area[v].col
  <2>2. /\ r \in Int /\ c \in Int /\ q \in Int /\ d \in Int /\ Cols \in Int
        /\ 0 <= c /\ c <= Cols - 1 /\ 0 <= d /\ d <= Cols - 1
    BY <2>1, SingleAt
  <2>3. /\ G!neighbours(u).right = v <=>
              \/ c < Cols - 1 /\ q = r /\ d = c + 1
              \/ c = Cols - 1 /\ keyNav /\ q = r + 1 /\ d = 0
        /\ G!neighbours(v).left = u <=>
              \/ d # 0 /\ r = q /\ c = d - 1
              \/ d = 0 /\ keyNav /\ r = q - 1 /\ c = Cols - 1
    BY <2>1, RightIs, LeftIs
  <2>4. /\ G!neighbours(u).down = v <=> q = r + 1 /\ d = c
        /\ G!neighbours(v).up = u <=> r = q - 1 /\ c = d
    BY <2>1, DownIs, UpIs
  <2>5. neighbour[u] = G!neighbours(u) /\ neighbour[v] = G!neighbours(v)
    BY <1>1
  <2> HIDE DEF r, c, q, d
  <2>6. /\ c < Cols - 1 /\ q = r /\ d = c + 1 <=> d # 0 /\ r = q /\ c = d - 1
        /\ q = r + 1 <=> r = q - 1
    BY <2>2
  <2>7. QED
    BY <2>3, <2>4, <2>5, <2>6
<1>4. QED
  BY <1>2, <1>3

(***************************************************************************)
(* The cells of a grid hold its widgets, each in the rectangle of cells it *)
(* was given; and with two columns at least, arrow keys of opposite        *)
(* directions undo one another, none stays where it is, and the layout has *)
(* looked outside of its cells only if a widget is over several of them.   *)
(***************************************************************************)
THEOREM GridKeepsItsCells ==
    ASSUME Cols > 1
    PROVE  ScreensSpec => [](part = "grid" => G!TypeOK /\ G!CellsKept /\ G!ArrowsReturn)
<1> DEFINE Inv == part = "grid" => Gridded /\ Arrowed /\ LooksInside
<1>1. ScreensInit => Inv
  BY GridBegins DEF ScreensInit, LooksInside, G!Init
<1>2. Inv /\ [ScreensNext]_all => Inv'
  <2> SUFFICES ASSUME Inv, [ScreensNext]_all, part' = "grid"
               PROVE  Gridded' /\ Arrowed' /\ LooksInside'
    OBVIOUS
  <2>1. part = "grid" /\ (G!Next \/ UNCHANGED gridVars)
    BY DEF ScreensNext, Others, all
  <2>2. CASE G!Next
    BY <2>1, <2>2, GridStep, LooksInsideStep
  <2>3. CASE UNCHANGED gridVars
    <3>1. /\ UNCHANGED <<cells, area, inGrid, keyNav, neighbour, dirty, broken>>
          /\ ownWidth' = ownWidth
      BY <2>3 DEF gridVars
    <3>2. LooksInside'
      <4>1. G!Spanned' = G!Spanned
        BY <3>1 DEF G!Spanned, G!Covered
      <4>2. QED
        BY <2>1, <3>1, <4>1 DEF LooksInside
    <3>3. QED
      BY <2>1, <3>1, <3>2, CellsStill, ArrowsStill DEF Gridded
  <2>4. QED
    BY <2>1, <2>2, <2>3
<1>3. Inv => (part = "grid" => G!TypeOK /\ G!CellsKept /\ G!ArrowsReturn)
  <2> SUFFICES ASSUME Gridded, Arrowed, LooksInside
               PROVE  G!TypeOK /\ G!CellsKept /\ G!ArrowsReturn
    OBVIOUS
  <2>1. G!TypeOK /\ G!CellsKept
    BY DEF Gridded, G!TypeOK, W
  <2>2. QED
    BY <2>1, GridArrows
<1>4. QED
  BY <1>1, <1>2, <1>3, PTL DEF ScreensSpec

(***************************************************************************)
(* What is remembered of places stays right, in layouts, grids and strokes.*)
(***************************************************************************)
THEOREM PlacesAreKept == ASSUME Cols > 1 PROVE ScreensSpec => []PlacesKept
<1>1. ScreensSpec => [](part = "layouts" => L!InPlace)
  BY WidgetsAreInPlace
<1>2. ScreensSpec => [](part = "grid" => G!TypeOK /\ G!CellsKept /\ G!ArrowsReturn)
  BY GridKeepsItsCells
<1>3. ScreensSpec => [](part = "strokes" => S!PathKept)
  BY StrokesAreKept
<1>4. QED
  BY <1>1, <1>2, <1>3, PTL DEF PlacesKept
===============================================================================
