-------------------------- MODULE SurfaceEvents_proofs -------------------------
(***************************************************************************)
(* Views of surfaces, for any views, surfaces, regions and numbers of      *)
(* frames: the event buffer is attached once, the frame a view             *)
(* acknowledges is the one it takes or the one before, and a view with an  *)
(* update waiting is called.  None of these needs the others; each has an  *)
(* inductive invariant of its own, and all of them need the types.         *)
(***************************************************************************)
EXTENDS SurfaceEvents, SequenceLemmas, TLAPS

(* What the constants are: the views a surface can be given, and something *)
(* to draw.                                                                *)
SurfaceConstants ==
    /\ NoSurface \notin Surfaces /\ Regions # {} /\ MaxFlips \in Nat
    /\ Opened \subseteq Views /\ Blocking \subseteq Views /\ Hideable \subseteq Views

-------------------------------------------------------------------------------
(* The buffer is attached to a surface exactly while a view watches it, or *)
(* when it has lost its views by being destroyed.                          *)
AttachedToWatched ==
    /\ \A v \in Views : source[v] # NoSurface => v \in selList
    /\ \A s \in Surfaces :
          /\ attached[s] <= 1
          /\ Watching(s) # {} => attached[s] = 1
          /\ s \notin destroyed /\ Watching(s) = {} => attached[s] = 0
    /\ \A i \in DOMAIN buffer :
          buffer[i].type = "destroyed" => buffer[i].surface \in destroyed

(* A view with an update waiting is called, or blocks its client and is    *)
(* hidden or about to be painted.                                          *)
WaitsForCall ==
    \A v \in Views :
        queue[v] # << >> /\ source[v] # NoSurface =>
            v \in started \/ (v \in blocking /\ (v \in hidden \/ dirty[v] # {}))

(* A view that is ready and will not take over the next count is hidden or *)
(* about to be painted; unless it blocks, it has acknowledged the last     *)
(* frame that it took.                                                     *)
CountIsKnown ==
    /\ phase = "callbacks" => \A v \in Views : dirty[v] = {}
    /\ \A v \in Views :
          /\ v \in ready /\ ~ broken => source[v] # NoSurface
          /\ v \in ready \ updateFlip /\ v \notin hidden => dirty[v] # {}
          /\ v \in ready \ updateFlip /\ v \notin blocking => flipCount[v] = handled[v][2]
          /\ handled[v][3] \in {handled[v][1], handled[v][2]}

(* Frames are in the buffer, and in the queues of the views, in the order  *)
(* they were drawn.                                                        *)
Update(i) == buffer[i].type = "update"

(* A frame of the view's surface that came before all in the buffer.       *)
Came(v, n) ==
    source[v] # NoSurface =>
        /\ n <= flips[source[v]]
        /\ \A i \in DOMAIN buffer :
              Update(i) /\ buffer[i].surface = source[v] => n < buffer[i].flip

BufferInOrder ==
    \A i \in DOMAIN buffer :
        Update(i) =>
            /\ buffer[i].flip \in 1 .. flips[buffer[i].surface]
            /\ \A j \in DOMAIN buffer :
                  i < j /\ Update(j) /\ buffer[j].surface = buffer[i].surface =>
                      buffer[i].flip < buffer[j].flip

QueuesInOrder ==
    \A v \in Views :
        /\ v \notin selList => queue[v] = << >> /\ handled[v] = <<0, 0, 0>>
        /\ Came(v, handled[v][2])
        /\ handled[v][1] < handled[v][2] \/ handled[v] = <<0, 0, 0>>
        /\ \A i \in DOMAIN queue[v] :
              /\ handled[v][2] < queue[v][i].flip
              /\ Came(v, queue[v][i].flip)
              /\ \A j \in DOMAIN queue[v] :
                    i < j => queue[v][i].flip < queue[v][j].flip

SurfaceInv ==
    /\ TypeOK /\ AttachedToWatched /\ WaitsForCall /\ CountIsKnown
    /\ BufferInOrder /\ QueuesInOrder

-------------------------------------------------------------------------------
(* What a client does reaches the buffer once or not at all.               *)
LEMMA Emitted ==
    ASSUME SurfaceInv, NEW e \in Event, Emit(e)
    PROVE  /\ buffer' \in Seq(Event)
           /\ \A i \in DOMAIN buffer' :
                 \/ i \in DOMAIN buffer /\ buffer'[i] = buffer[i]
                 \/ i = Len(buffer) + 1 /\ buffer'[i] = e
<1> DEFINE news == [i \in 1 .. attached[e.surface] |-> e]
<1>1. buffer \in Seq(Event) /\ e.surface \in Surfaces /\ attached[e.surface] \in {0, 1}
  BY DEF SurfaceInv, TypeOK, AttachedToWatched, Event
<1>2. news \in Seq(Event) /\ Len(news) = attached[e.surface]
  BY <1>1
<1>3. \A i \in 1 .. Len(news) : news[i] = e
  BY <1>1
<1>4. buffer' = buffer \o news
  BY DEF Emit
<1> HIDE DEF news
<1>5. /\ buffer' \in Seq(Event) /\ Len(buffer') = Len(buffer) + Len(news)
      /\ \A i \in 1 .. Len(buffer) + Len(news) :
            buffer'[i] = IF i <= Len(buffer) THEN buffer[i] ELSE news[i - Len(buffer)]
  BY <1>1, <1>2, <1>4, ConcatProperties
<1>6. Len(buffer) \in Nat
  BY <1>1
<1>7. CASE attached[e.surface] = 0
  <2>1. news = << >>
    BY <1>2, <1>7
  <2>2. QED
    BY <1>1, <1>4, <1>5, <2>1, ConcatEmptySeq
<1>8. CASE attached[e.surface] = 1
  <2>1. Len(news) = 1 /\ news[1] = e
    BY <1>2, <1>3, <1>8
  <2>2. /\ Len(buffer) + 1 \in 1 .. Len(buffer) + Len(news) /\ ~ (Len(buffer) + 1 <= Len(buffer))
        /\ (Len(buffer) + 1) - Len(buffer) = 1
    BY <1>6, <2>1
  <2>3. buffer'[Len(buffer) + 1] = e
    BY <1>5, <2>1, <2>2
  <2>4. \A i \in 1 .. Len(buffer) : buffer'[i] = buffer[i]
    BY <1>5, <1>6, <2>1
  <2>5. DOMAIN buffer = 1 .. Len(buffer) /\ DOMAIN buffer' = 1 .. Len(buffer) + 1
    BY <1>1, <1>5, <2>1
  <2>6. QED
    BY <1>5, <1>6, <2>3, <2>4, <2>5
<1>9. QED
  BY <1>1, <1>7, <1>8

(* A view that takes an update takes the first of those it keeps, and      *)
(* keeps the others, which are the end of its queue.                       *)
LEMMA QueueTaken ==
    ASSUME NEW q \in Seq(Event), q # << >>
    PROVE  /\ Trimmed(q) \in Seq(Event) /\ Tail(Trimmed(q)) \in Seq(Event)
           /\ Head(Trimmed(q)) \in Event /\ Trimmed(q) # << >>
           /\ \E d \in 0 .. Len(q) - 1 :
                 /\ Len(Trimmed(q)) = Len(q) - d
                 /\ \A i \in 1 .. Len(q) - d : Trimmed(q)[i] = q[d + i]
                 /\ Head(Trimmed(q)) = q[d + 1]
                 /\ Len(Tail(Trimmed(q))) = Len(q) - d - 1
                 /\ \A i \in 1 .. Len(q) - d - 1 : Tail(Trimmed(q))[i] = q[d + 1 + i]
<1> DEFINE p == Trimmed(q)
<1>1. Len(q) \in Nat \ {0} /\ \A i \in 1 .. Len(q) : q[i] \in Event
  OBVIOUS
<1>2. PICK d \in 0 .. Len(q) - 1 :
        /\ p \in Seq(Event) /\ Len(p) = Len(q) - d
        /\ \A i \in 1 .. Len(q) - d : p[i] = q[d + i]
  <2>1. CASE Len(q) > 2
    <3>1. p = SubSeq(q, Len(q) - 1, Len(q))
      BY <2>1 DEF Trimmed
    <3>2. \A i \in Len(q) - 1 .. Len(q) : q[i] \in Event
      BY <1>1, <2>1
    <3>3. /\ p \in Seq(Event)
          /\ Len(p) = IF Len(q) - 1 <= Len(q) THEN Len(q) - (Len(q) - 1) + 1 ELSE 0
          /\ \A i \in 1 .. Len(q) - (Len(q) - 1) + 1 : p[i] = q[(Len(q) - 1) + i - 1]
      <4>1. Len(q) - 1 \in Int /\ Len(q) \in Int
        BY <1>1
      <4>2. QED
        BY <3>1, <3>2, <4>1, SubSeqProperties
    <3> HIDE DEF p
    <3>4. /\ Len(q) - 2 \in 0 .. Len(q) - 1 /\ Len(q) - (Len(q) - 2) = 2
          /\ Len(p) = 2 /\ Len(q) - (Len(q) - 1) + 1 = 2
      BY <1>1, <2>1, <3>3
    <3>5. ASSUME NEW i \in 1 .. 2
          PROVE  p[i] = q[(Len(q) - 2) + i]
      <4>1. (Len(q) - 1) + i - 1 = (Len(q) - 2) + i
        BY <1>1
      <4>2. QED
        BY <3>3, <3>4, <4>1
    <3>6. QED
      BY <3>3, <3>4, <3>5
  <2>2. CASE ~ (Len(q) > 2)
    <3>1. p = q
      BY <2>2 DEF Trimmed
    <3>2. 0 \in 0 .. Len(q) - 1
      BY <1>1
    <3>3. QED
      BY <1>1, <3>1, <3>2
  <2>3. QED
    BY <2>1, <2>2
<1> HIDE DEF p
<1>3. p # << >> /\ Len(p) \in Nat /\ Len(p) > 0
  BY <1>1, <1>2
<1>4. /\ Head(p) \in Event /\ Tail(p) \in Seq(Event) /\ Len(Tail(p)) = Len(p) - 1
      /\ \A i \in 1 .. Len(Tail(p)) : Tail(p)[i] = p[i + 1]
  BY <1>2, <1>3, HeadTailProperties
<1>5. Head(p) = p[1]
  BY <1>2, <1>3
<1>6. Head(p) = q[d + 1]
  BY <1>1, <1>2, <1>3, <1>5
<1>7. Len(Tail(p)) = Len(q) - d - 1
  BY <1>1, <1>2, <1>4
<1>8. ASSUME NEW i \in 1 .. Len(q) - d - 1
      PROVE  Tail(p)[i] = q[d + 1 + i]
  <2>1. i + 1 \in 1 .. Len(q) - d /\ d + (i + 1) = d + 1 + i
    BY <1>1
  <2>2. QED
    BY <1>2, <1>4, <1>7, <2>1
<1>9. QED
  BY <1>2, <1>3, <1>4, <1>6, <1>7, <1>8 DEF p

(* What the types say of the events and of the frames.                     *)
LEMMA SurfaceTypes ==
    ASSUME SurfaceConstants, TypeOK
    PROVE  /\ Len(buffer) \in Nat /\ DOMAIN buffer = 1 .. Len(buffer)
           /\ \A i \in DOMAIN buffer :
                 buffer[i] \in Event /\ buffer[i].surface \in Surfaces /\ buffer[i].flip \in Nat
           /\ \A v \in Views :
                 /\ Len(queue[v]) \in Nat /\ DOMAIN queue[v] = 1 .. Len(queue[v])
                 /\ \A i \in DOMAIN queue[v] : queue[v][i] \in Event /\ queue[v][i].flip \in Nat
                 /\ handled[v][1] \in Nat /\ handled[v][2] \in Nat /\ handled[v][3] \in Nat
           /\ \A s \in Surfaces : flips[s] \in Nat
<1>1. \A e \in Event : e.surface \in Surfaces /\ e.flip \in Nat
  BY DEF SurfaceConstants, Event
<1>2. /\ Len(buffer) \in Nat /\ DOMAIN buffer = 1 .. Len(buffer)
      /\ \A i \in DOMAIN buffer : buffer[i] \in Event
  <2>1. buffer \in Seq(Event)
    BY DEF TypeOK
  <2>2. QED
    BY <2>1
<1>3. ASSUME NEW v \in Views
      PROVE  /\ Len(queue[v]) \in Nat /\ DOMAIN queue[v] = 1 .. Len(queue[v])
             /\ \A i \in DOMAIN queue[v] : queue[v][i] \in Event
  <2>1. queue[v] \in Seq(Event)
    BY DEF TypeOK
  <2>2. QED
    BY <2>1
<1>4. \A v \in Views : handled[v][1] \in Nat /\ handled[v][2] \in Nat /\ handled[v][3] \in Nat
  BY DEF SurfaceConstants, TypeOK
<1>5. \A s \in Surfaces : flips[s] \in Nat
  BY DEF SurfaceConstants, TypeOK
<1>6. QED
  BY <1>1, <1>2, <1>3, <1>4, <1>5

(* What is left of the buffer when its first event is consumed.            *)
LEMMA TailOfBuffer ==
    ASSUME SurfaceConstants, SurfaceInv, buffer # << >>, buffer' = Tail(buffer)
    PROVE  /\ Head(buffer) \in Event /\ Head(buffer).flip \in Nat
           /\ Head(buffer) = buffer[1] /\ 1 \in DOMAIN buffer
           /\ buffer' \in Seq(Event) /\ DOMAIN buffer' \subseteq Nat \ {0}
           /\ \A i \in DOMAIN buffer' : i + 1 \in DOMAIN buffer /\ buffer'[i] = buffer[i + 1]
<1>1. buffer \in Seq(Event) /\ Len(buffer) \in Nat /\ DOMAIN buffer = 1 .. Len(buffer)
  BY SurfaceTypes DEF SurfaceInv, TypeOK
<1>2. /\ Head(buffer) \in Event /\ buffer' \in Seq(Event) /\ Len(buffer') = Len(buffer) - 1
      /\ \A i \in 1 .. Len(buffer') : buffer'[i] = buffer[i + 1]
  BY <1>1, HeadTailProperties
<1>3. Len(buffer) # 0 /\ Head(buffer) = buffer[1] /\ 1 \in DOMAIN buffer
  BY <1>1
<1>4. DOMAIN buffer' = 1 .. Len(buffer) - 1
  BY <1>2
<1>5. \A i \in DOMAIN buffer' : i + 1 \in DOMAIN buffer /\ buffer'[i] = buffer[i + 1]
  BY <1>1, <1>2, <1>4
<1>6. Head(buffer).flip \in Nat
  BY <1>3, SurfaceTypes DEF SurfaceInv
<1>7. QED
  BY <1>1, <1>2, <1>3, <1>4, <1>5, <1>6

(* Which leaves what is left in order, and after every frame that came.    *)
LEMMA TailInOrder ==
    ASSUME SurfaceConstants, SurfaceInv, buffer # << >>, buffer' = Tail(buffer), UNCHANGED flips
    PROVE  /\ BufferInOrder'
           /\ \A v \in Views, n \in Nat :
                 Came(v, n) /\ (source'[v] \in {source[v], NoSurface}) => Came(v, n)'
<1>1. /\ DOMAIN buffer' \subseteq Nat \ {0}
      /\ \A i \in DOMAIN buffer' : i + 1 \in DOMAIN buffer /\ buffer'[i] = buffer[i + 1]
  BY TailOfBuffer
<1>2. \A i, j \in DOMAIN buffer' : i < j => i + 1 < j + 1
  BY <1>1
<1>3. BufferInOrder
  BY DEF SurfaceInv
<1>4. ASSUME NEW i \in DOMAIN buffer', buffer'[i].type = "update"
      PROVE  buffer'[i].flip \in 1 .. flips'[buffer'[i].surface]
  BY <1>1, <1>3, <1>4 DEF BufferInOrder, Update
<1>5. ASSUME NEW i \in DOMAIN buffer', buffer'[i].type = "update", NEW j \in DOMAIN buffer',
             i < j, buffer'[j].type = "update", buffer'[j].surface = buffer'[i].surface
      PROVE  buffer'[i].flip < buffer'[j].flip
  BY <1>1, <1>2, <1>3, <1>5 DEF BufferInOrder, Update
<1>6. BufferInOrder'
  BY <1>4, <1>5 DEF BufferInOrder, Update
<1>7. ASSUME NEW v \in Views, NEW n \in Nat, Came(v, n), source'[v] \in {source[v], NoSurface}
      PROVE  Came(v, n)'
  BY <1>1, <1>7 DEF Came, Update
<1>8. QED
  BY <1>6, <1>7

LEMMA SurfaceInit == SurfaceConstants /\ Init => SurfaceInv
<1> SUFFICES ASSUME SurfaceConstants, Init PROVE SurfaceInv
  OBVIOUS
<1>1. TypeOK
  <2>1. << >> \in Seq(Event) /\ 0 \in 0 .. MaxFlips /\ 0 \in Nat
    BY DEF SurfaceConstants
  <2>2. UNION {started, ready, updateFlip, blocking, hidden} \subseteq Views
    BY DEF SurfaceConstants, Init
  <2>3. queue \in [Views -> Seq(Event)] /\ buffer \in Seq(Event)
    BY <2>1 DEF Init
  <2>4. /\ handled \in [Views -> (0 .. MaxFlips) \X (0 .. MaxFlips) \X (0 .. MaxFlips)]
        /\ flipCount \in [Views -> 0 .. MaxFlips] /\ flips \in [Surfaces -> 0 .. MaxFlips]
    BY <2>1 DEF Init
  <2>5. QED
    BY <2>1, <2>2, <2>3, <2>4 DEF Init, TypeOK
<1>2. AttachedToWatched /\ WaitsForCall /\ CountIsKnown
  BY DEF SurfaceConstants, Init, AttachedToWatched, WaitsForCall, CountIsKnown, Watching
<1>3. BufferInOrder /\ QueuesInOrder
  BY DEF Init, BufferInOrder, QueuesInOrder, Came
<1>4. QED
  BY <1>1, <1>2, <1>3 DEF SurfaceInv

(* The clients.                                                            *)
LEMMA FlipKeeps ==
    ASSUME SurfaceConstants, SurfaceInv, NEW s \in Surfaces, NEW r \in Regions, Flip(s, r)
    PROVE  SurfaceInv'
<1> DEFINE e == [type |-> "update", surface |-> s, region |-> r, flip |-> flips[s] + 1]
<1> USE DEF SurfaceInv
<1>1. /\ flips[s] \in Nat /\ flips[s] + 1 \in 1 .. MaxFlips /\ e \in Event
      /\ flips' = [flips EXCEPT ![s] = @ + 1] /\ Emit(e)
      /\ UNCHANGED <<engineVars, viewVars, hidden, dirty, started, phase, broken>>
  BY DEF SurfaceConstants, TypeOK, Flip, Event
<1>2. e.type = "update" /\ e.surface = s /\ e.flip = flips[s] + 1
  OBVIOUS
<1> HIDE DEF e
<1>3. /\ buffer' \in Seq(Event)
      /\ \A i \in DOMAIN buffer' :
            \/ i \in DOMAIN buffer /\ buffer'[i] = buffer[i]
            \/ i = Len(buffer) + 1 /\ buffer'[i] = e
  BY <1>1, Emitted
<1>4. /\ buffer \in Seq(Event) /\ Len(buffer) \in Nat /\ DOMAIN buffer = 1 .. Len(buffer)
      /\ Len(buffer') \in Nat /\ DOMAIN buffer' = 1 .. Len(buffer')
  BY <1>3 DEF TypeOK
<1>5. TypeOK'
  BY <1>1, <1>3 DEF TypeOK, Flip, engineVars, viewVars
<1>7. AttachedToWatched'
  BY <1>1, <1>2, <1>3 DEF AttachedToWatched, Watching, engineVars, viewVars
<1>8. WaitsForCall' /\ CountIsKnown'
  BY <1>1 DEF WaitsForCall, CountIsKnown, engineVars, viewVars
<1>9. /\ flips'[s] = flips[s] + 1
      /\ \A t \in Surfaces : flips[t] \in Nat /\ flips'[t] \in Nat /\ flips[t] <= flips'[t]
  BY <1>1 DEF TypeOK
<1>10. \A i \in DOMAIN buffer : buffer[i].surface \in Surfaces /\ buffer[i].flip \in Nat
  BY SurfaceTypes
<1>11. BufferInOrder'
  <2>1. ASSUME NEW i \in DOMAIN buffer', buffer'[i].type = "update"
        PROVE  buffer'[i].flip \in 1 .. flips'[buffer'[i].surface]
    BY <1>1, <1>2, <1>3, <1>9, <1>10, <2>1 DEF BufferInOrder, Update
  <2>2. ASSUME NEW i \in DOMAIN buffer', buffer'[i].type = "update", NEW j \in DOMAIN buffer',
               i < j, buffer'[j].type = "update", buffer'[j].surface = buffer'[i].surface
        PROVE  buffer'[i].flip < buffer'[j].flip
    <3>1. i \in DOMAIN buffer /\ buffer'[i] = buffer[i]
      BY <1>4, <1>3, <2>2
    <3>2. CASE j \in DOMAIN buffer /\ buffer'[j] = buffer[j]
      BY <2>2, <3>1, <3>2 DEF BufferInOrder, Update
    <3>3. CASE buffer'[j] = e
      <4>1. buffer[i].surface = s /\ buffer[i].flip \in 1 .. flips[s]
        BY <1>2, <2>2, <3>1, <3>3 DEF BufferInOrder, Update
      <4>2. QED
        BY <1>1, <1>2, <3>1, <3>3, <4>1
    <3>4. QED
      BY <1>3, <3>2, <3>3
  <2>3. QED
    BY <2>1, <2>2 DEF BufferInOrder, Update
<1>12. ASSUME NEW v \in Views, NEW n \in Nat, Came(v, n)
       PROVE  Came(v, n)'
  <2>1. source' = source /\ source[v] \in Surfaces \cup {NoSurface}
    BY <1>1 DEF TypeOK, viewVars
  <2>2. SUFFICES ASSUME source[v] # NoSurface PROVE Came(v, n)'
    BY <2>1 DEF Came
  <2>3. n <= flips[source[v]] /\ n <= flips'[source[v]]
    <3>1. source[v] \in Surfaces /\ n <= flips[source[v]]
      BY <1>12, <2>1, <2>2 DEF Came
    <3>2. /\ flips[source[v]] \in Nat /\ flips'[source[v]] \in Nat
          /\ flips[source[v]] <= flips'[source[v]]
      BY <1>9, <3>1, SurfaceTypes
    <3>3. QED
      BY <3>1, <3>2
  <2>4. ASSUME NEW i \in DOMAIN buffer', buffer'[i].type = "update",
               buffer'[i].surface = source[v]
        PROVE  n < buffer'[i].flip
    <3>1. CASE i \in DOMAIN buffer /\ buffer'[i] = buffer[i]
      BY <1>12, <2>2, <2>4, <3>1 DEF Came, Update
    <3>2. CASE buffer'[i] = e
      BY <1>1, <1>2, <2>3, <2>4, <3>2
    <3>3. QED
      BY <1>3, <3>1, <3>2
  <2>5. QED
    BY <2>1, <2>3, <2>4 DEF Came, Update
<1>13. QueuesInOrder'
  <2>1. UNCHANGED <<queue, handled, selList, source>>
    BY <1>1 DEF viewVars, engineVars
  <2>2. \A v \in Views : handled[v][2] \in Nat /\ \A i \in DOMAIN queue[v] : queue[v][i].flip \in Nat
    BY SurfaceTypes
  <2>3. QED
    BY <1>12, <2>1, <2>2 DEF QueuesInOrder
<1>14. QED
  BY <1>5, <1>7, <1>8, <1>11, <1>13

LEMMA DestroyKeeps ==
    ASSUME SurfaceConstants, SurfaceInv, NEW s \in Surfaces, Destroy(s)
    PROVE  SurfaceInv'
<1> DEFINE e == [type |-> "destroyed", surface |-> s, flip |-> 0,
                 region |-> CHOOSE r \in Regions : TRUE]
<1> USE DEF SurfaceInv
<1>1. /\ e \in Event /\ Emit(e) /\ destroyed' = destroyed \cup {s}
      /\ UNCHANGED <<selList, attached, viewVars, paintVars, started, flips, phase, broken>>
  BY DEF SurfaceConstants, Destroy, Event
<1>2. e.type = "destroyed" /\ e.surface = s
  OBVIOUS
<1> HIDE DEF e
<1>3. /\ buffer' \in Seq(Event)
      /\ \A i \in DOMAIN buffer' :
            \/ i \in DOMAIN buffer /\ buffer'[i] = buffer[i]
            \/ i = Len(buffer) + 1 /\ buffer'[i] = e
  BY <1>1, Emitted
<1>5. TypeOK'
  BY <1>1, <1>3 DEF TypeOK, paintVars, viewVars
<1>6. AttachedToWatched'
  BY <1>1, <1>2, <1>3 DEF AttachedToWatched, Watching, viewVars
<1>7. WaitsForCall' /\ CountIsKnown'
  BY <1>1 DEF WaitsForCall, CountIsKnown, viewVars, paintVars
<1>8. \A i \in DOMAIN buffer' :
        buffer'[i].type = "update" => i \in DOMAIN buffer /\ buffer'[i] = buffer[i]
  BY <1>2, <1>3
<1>9. BufferInOrder'
  BY <1>1, <1>8 DEF BufferInOrder, Update
<1>10. QueuesInOrder'
  <2>1. \A v \in Views, n \in Nat : Came(v, n) => Came(v, n)'
    BY <1>1, <1>8 DEF Came, Update, viewVars
  <2>2. UNCHANGED <<queue, handled, selList, source>>
    BY <1>1 DEF viewVars
  <2>3. \A v \in Views : handled[v][2] \in Nat /\ \A i \in DOMAIN queue[v] : queue[v][i].flip \in Nat
    BY SurfaceTypes
  <2>4. QED
    BY <2>1, <2>2, <2>3 DEF QueuesInOrder
<1>11. QED
  BY <1>5, <1>6, <1>7, <1>9, <1>10

(* The application's calls.                                                *)
LEMMA setSourceKeeps ==
    ASSUME SurfaceConstants, SurfaceInv, ~ broken, phase = "events", UNCHANGED phase,
           NEW v \in Views, NEW s \in Surfaces, setSourceFromSurface(v, s)
    PROVE  SurfaceInv'
<1> USE DEF SurfaceInv
<1>1. /\ source[v] = NoSurface /\ v \notin selList /\ s \notin destroyed
      /\ source' = [source EXCEPT ![v] = s] /\ selList' = selList \cup {v}
      /\ attached' = [attached EXCEPT ![s] = IF Watching(s) = {} THEN @ + 1 ELSE @]
      /\ started' = started \cup {v}
      /\ UNCHANGED <<destroyed, queue, ready, updateFlip, flipCount, blocking,
                     handled, paintVars, buffer, flips, broken>>
  BY DEF setSourceFromSurface, addSurfaceEventListener
<1>2. queue[v] = << >> /\ handled[v] = <<0, 0, 0>>
  BY <1>1 DEF QueuesInOrder
<1>3. /\ source'[v] = s /\ NoSurface # s
      /\ \A u \in Views \ {v} : source'[u] = source[u]
  BY <1>1 DEF TypeOK, SurfaceConstants
<1>4. TypeOK'
  <2>1. source' \in [Views -> Surfaces \cup {NoSurface}] /\ selList' \subseteq Views
    BY <1>1 DEF TypeOK
  <2>2. attached' \in [Surfaces -> Nat]
    BY <1>1 DEF TypeOK
  <2>3. UNION {started, ready, updateFlip, blocking, hidden}' \subseteq Views
    BY <1>1 DEF TypeOK, paintVars
  <2>4. QED
    BY <1>1, <2>1, <2>2, <2>3 DEF TypeOK, paintVars
<1>5. AttachedToWatched'
  <2>1. /\ Watching(s)' = Watching(s) \cup {v}
        /\ \A t \in Surfaces \ {s} : Watching(t)' = Watching(t)
    BY <1>1, <1>3 DEF Watching, SurfaceConstants, TypeOK
  <2>2. /\ attached'[s] = 1 /\ \A t \in Surfaces \ {s} : attached'[t] = attached[t]
    <3>1. attached[s] = IF Watching(s) = {} THEN 0 ELSE 1
      BY <1>1 DEF AttachedToWatched
    <3>2. attached \in [Surfaces -> Nat]
      BY DEF TypeOK
    <3>3. QED
      BY <1>1, <3>1, <3>2
  <2>3. \A u \in Views : source'[u] # NoSurface => u \in selList'
    BY <1>1, <1>3 DEF AttachedToWatched
  <2>4. ASSUME NEW t \in Surfaces
        PROVE  /\ attached'[t] <= 1
               /\ Watching(t)' # {} => attached'[t] = 1
               /\ t \notin destroyed' /\ Watching(t)' = {} => attached'[t] = 0
    BY <1>1, <2>1, <2>2 DEF AttachedToWatched
  <2>5. QED
    BY <1>1, <2>3, <2>4 DEF AttachedToWatched
<1>6. WaitsForCall' /\ CountIsKnown'
  BY <1>1, <1>2, <1>3 DEF WaitsForCall, CountIsKnown, paintVars, TypeOK
<1>7. BufferInOrder'
  BY <1>1 DEF BufferInOrder, Update
<1>8. \A u \in Views \ {v}, n \in Nat : Came(u, n) => Came(u, n)'
  BY <1>1, <1>3 DEF Came, Update
<1>9. Came(v, 0)'
  BY <1>1, <1>3, SurfaceTypes DEF Came, Update, BufferInOrder
<1>10. QueuesInOrder'
  <2>1. ASSUME NEW u \in Views \ {v}, NEW n \in Nat, Came(u, n) PROVE Came(u, n)'
    BY <1>8, <2>1
  <2>2. UNCHANGED <<queue, handled>>
    BY <1>1
  <2>3. \A u \in Views : (u \notin selList)' => u \notin selList
    BY <1>1
  <2>4. Came(v, handled[v][2])'
    BY <1>2, <1>9, <2>2
  <2>5. \A u \in Views : Came(u, handled[u][2])'
    BY <2>1, <2>2, <2>4, SurfaceTypes DEF QueuesInOrder
  <2>6. \A u \in Views : \A i \in DOMAIN queue[u] : Came(u, queue[u][i].flip)'
    BY <1>2, <2>1, <2>2, SurfaceTypes DEF QueuesInOrder
  <2>7. QED
    BY <2>2, <2>3, <2>5, <2>6 DEF QueuesInOrder
<1>11. QED
  BY <1>4, <1>5, <1>6, <1>7, <1>10

LEMMA DeleteKeeps ==
    ASSUME SurfaceConstants, SurfaceInv, ~ broken, phase = "events", UNCHANGED phase,
           NEW v \in Views, Delete(v)
    PROVE  SurfaceInv'
<1> USE DEF SurfaceInv
<1> DEFINE last == Watching(source[v]) = {v}
<1>1. /\ v \in selList /\ selList' = selList \ {v} /\ started' = started \ {v}
      /\ attached' = IF last /\ source[v] # NoSurface
                     THEN [attached EXCEPT ![source[v]] = @ - 1] ELSE attached
      /\ source' = [source EXCEPT ![v] = NoSurface]
      /\ queue' = [queue EXCEPT ![v] = << >>]
      /\ ready' = ready \ {v} /\ updateFlip' = updateFlip \ {v}
      /\ flipCount' = [flipCount EXCEPT ![v] = 0]
      /\ handled' = [handled EXCEPT ![v] = <<0, 0, 0>>]
      /\ dirty' = [dirty EXCEPT ![v] = {}] /\ owed' = [owed EXCEPT ![v] = {}]
      /\ broken' \in BOOLEAN
      /\ UNCHANGED <<destroyed, blocking, hidden, buffer, flips>>
  BY DEF Delete, removeSurfaceEventListener
<1>2. /\ source'[v] = NoSurface /\ queue'[v] = << >> /\ handled'[v] = <<0, 0, 0>>
      /\ \A u \in Views \ {v} : /\ source'[u] = source[u] /\ queue'[u] = queue[u]
                                /\ handled'[u] = handled[u] /\ dirty'[u] = dirty[u]
                                /\ flipCount'[u] = flipCount[u]
  BY <1>1 DEF TypeOK
<1>3. attached' \in [Surfaces -> Nat]
  <2>1. CASE last /\ source[v] # NoSurface
    <3>1. source[v] \in Surfaces /\ Watching(source[v]) # {}
      BY <2>1 DEF TypeOK
    <3>2. attached[source[v]] = 1
      BY <3>1 DEF AttachedToWatched
    <3>3. QED
      BY <1>1, <2>1, <3>1, <3>2 DEF TypeOK
  <2>2. QED
    BY <1>1, <2>1 DEF TypeOK
<1>4. TypeOK'
  <2>1. << >> \in Seq(Event) /\ 0 \in 0 .. MaxFlips
    BY DEF SurfaceConstants
  <2>2. queue' \in [Views -> Seq(Event)]
    BY <1>1, <2>1 DEF TypeOK
  <2>3. /\ handled' \in [Views -> (0 .. MaxFlips) \X (0 .. MaxFlips) \X (0 .. MaxFlips)]
        /\ flipCount' \in [Views -> 0 .. MaxFlips]
    BY <1>1, <2>1 DEF TypeOK
  <2>4. dirty' \in [Views -> SUBSET Regions] /\ owed' \in [Views -> SUBSET Regions]
    BY <1>1 DEF TypeOK
  <2>5. UNION {started, ready, updateFlip, blocking, hidden}' \subseteq Views
    BY <1>1 DEF TypeOK
  <2>6. source' \in [Views -> Surfaces \cup {NoSurface}]
    BY <1>1 DEF TypeOK
  <2>7. QED
    BY <1>1, <1>3, <2>2, <2>3, <2>4, <2>5, <2>6 DEF TypeOK
<1>5. AttachedToWatched'
  <2>1. \A t \in Surfaces : Watching(t)' = Watching(t) \ {v}
    BY <1>1, <1>2 DEF Watching, SurfaceConstants, TypeOK
  <2>2. source[v] \in Surfaces => v \in Watching(source[v])
    BY <1>1 DEF Watching
  <2>3. ASSUME NEW t \in Surfaces
        PROVE  /\ attached'[t] <= 1
               /\ Watching(t)' # {} => attached'[t] = 1
               /\ t \notin destroyed' /\ Watching(t)' = {} => attached'[t] = 0
    <3>1. attached[t] \in {0, 1}
      BY DEF AttachedToWatched, TypeOK
    <3>2. CASE last /\ source[v] = t
      <4>1. t # NoSurface
        BY DEF SurfaceConstants
      <4>2. attached[t] = 1
        BY <2>2, <3>2 DEF AttachedToWatched
      <4>3. attached'[t] = 0
        BY <1>1, <3>2, <4>1, <4>2 DEF TypeOK
      <4>4. Watching(t)' = {}
        BY <2>1, <3>2
      <4>5. QED
        BY <4>3, <4>4
    <3>3. CASE ~ (last /\ source[v] = t)
      <4>1. attached'[t] = attached[t]
        BY <1>1, <3>3 DEF TypeOK
      <4>2. Watching(t)' = {} => Watching(t) = {}
        BY <2>1, <3>3 DEF Watching
      <4>3. Watching(t)' # {} => Watching(t) # {}
        BY <2>1
      <4>4. QED
        BY <1>1, <3>1, <4>1, <4>2, <4>3 DEF AttachedToWatched
    <3>4. QED
      BY <3>2, <3>3
  <2>4. \A u \in Views : source'[u] # NoSurface => u \in selList'
    BY <1>1, <1>2 DEF AttachedToWatched
  <2>5. QED
    BY <1>1, <2>3, <2>4 DEF AttachedToWatched
<1>6. WaitsForCall'
  BY <1>1, <1>2 DEF WaitsForCall
<1>7. CountIsKnown'
  BY <1>1, <1>2 DEF CountIsKnown
<1>8. BufferInOrder'
  BY <1>1 DEF BufferInOrder, Update
<1>9. QueuesInOrder'
  <2>1. Came(v, 0)'
    BY <1>2 DEF Came
  <2>2. \A u \in Views \ {v}, n \in Nat : Came(u, n) => Came(u, n)'
    BY <1>1, <1>2 DEF Came, Update
  <2>3. QED
    BY <1>1, <1>2, <2>1, <2>2, SurfaceTypes DEF QueuesInOrder
<1>10. QED
  BY <1>4, <1>5, <1>6, <1>7, <1>8, <1>9

LEMMA setVisibleKeeps ==
    ASSUME SurfaceConstants, SurfaceInv, ~ broken, phase = "events", UNCHANGED phase,
           NEW v \in Views, setVisible(v)
    PROVE  SurfaceInv'
<1> USE DEF SurfaceInv
<1>1. /\ hidden' = IF v \in hidden THEN hidden \ {v} ELSE hidden \cup {v}
      /\ dirty' = [dirty EXCEPT ![v] = IF v \in hidden THEN Regions ELSE @]
      /\ UNCHANGED <<engineVars, viewVars, owed, started, buffer, flips, broken>>
  BY DEF setVisible
<1>2. \A u \in Views \ {v} : dirty'[u] = dirty[u] /\ (u \in hidden' <=> u \in hidden)
  BY <1>1 DEF TypeOK
<1>3. \/ v \in hidden /\ v \notin hidden' /\ dirty'[v] # {}
      \/ v \notin hidden /\ v \in hidden' /\ dirty'[v] = dirty[v]
  BY <1>1 DEF TypeOK, SurfaceConstants
<1>4. TypeOK'
  <2>1. dirty' \in [Views -> SUBSET Regions]
    BY <1>1 DEF TypeOK
  <2>2. hidden' \subseteq Views
    BY <1>1 DEF TypeOK
  <2>3. UNION {started, ready, updateFlip, blocking, hidden}' \subseteq Views
    BY <1>1, <2>2 DEF TypeOK, viewVars
  <2>4. QED
    BY <1>1, <2>1, <2>3 DEF TypeOK, viewVars, engineVars
<1>5. AttachedToWatched' /\ BufferInOrder' /\ QueuesInOrder'
  BY <1>1 DEF AttachedToWatched, BufferInOrder, QueuesInOrder, Update, Came, Watching,
              viewVars, engineVars
<1>6. WaitsForCall'
  BY <1>1, <1>2, <1>3 DEF WaitsForCall, viewVars
<1>7. CountIsKnown'
  BY <1>1, <1>2, <1>3 DEF CountIsKnown, viewVars
<1>8. QED
  BY <1>4, <1>5, <1>6, <1>7

-------------------------------------------------------------------------------
(* A turn of the loop.                                                     *)
LEMMA consumeUpdateKeeps ==
    ASSUME SurfaceConstants, SurfaceInv, ~ broken, phase = "events", buffer # << >>,
           buffer' = Tail(buffer), Head(buffer).type = "update", consumeUpdate(Head(buffer)),
           UNCHANGED <<engineVars, paintVars, flips, phase, broken>>
    PROVE  SurfaceInv'
<1> USE DEF SurfaceInv
<1> DEFINE e == Head(buffer)
           these == Watching(e.surface)
<1>1. /\ queue' = [v \in Views |-> IF v \in these THEN Append(queue[v], e) ELSE queue[v]]
      /\ started' = started \cup these
      /\ UNCHANGED <<source, ready, updateFlip, flipCount, blocking, handled>>
  BY DEF consumeUpdate
<1>2. /\ e \in Event /\ buffer' \in Seq(Event) /\ e = buffer[1] /\ 1 \in DOMAIN buffer
      /\ \A i \in DOMAIN buffer' : i + 1 \in DOMAIN buffer /\ buffer'[i] = buffer[i + 1]
      /\ e.flip \in Nat
  BY TailOfBuffer
<1>3. these \subseteq Views
  BY DEF Watching, TypeOK
<1> HIDE DEF e, these
<1>4. ASSUME NEW v \in Views
      PROVE  /\ queue'[v] \in Seq(Event) /\ Len(queue'[v]) \in Nat
             /\ DOMAIN queue'[v] = 1 .. Len(queue'[v])
             /\ v \notin these => queue'[v] = queue[v]
             /\ v \in these => /\ Len(queue'[v]) = Len(queue[v]) + 1
                               /\ queue'[v][Len(queue[v]) + 1] = e
                               /\ \A i \in 1 .. Len(queue[v]) : queue'[v][i] = queue[v][i]
  <2>1. queue[v] \in Seq(Event)
    BY DEF TypeOK
  <2>2. CASE v \in these
    BY <1>1, <1>2, <2>1, <2>2, AppendProperties
  <2>3. CASE v \notin these
    BY <1>1, <2>1, <2>3
  <2>4. QED
    BY <2>2, <2>3
<1>5. TypeOK'
  <2>1. queue' \in [Views -> Seq(Event)]
    BY <1>1, <1>4
  <2>2. UNION {started, ready, updateFlip, blocking, hidden}' \subseteq Views
    BY <1>1, <1>3 DEF TypeOK, paintVars
  <2>3. QED
    BY <1>1, <1>2, <2>1, <2>2 DEF TypeOK, paintVars, engineVars
<1>6. AttachedToWatched'
  BY <1>1, <1>2 DEF AttachedToWatched, Watching, engineVars
<1>7. WaitsForCall' /\ CountIsKnown'
  BY <1>1, <1>4 DEF WaitsForCall, CountIsKnown, paintVars
<1>8. BufferInOrder'
  BY TailInOrder
<1>9. QueuesInOrder'
  <2>1. ASSUME NEW v \in Views, NEW n \in Nat, Came(v, n)
        PROVE  Came(v, n)'
    BY <1>1, <2>1, TailInOrder
  <2>2. ASSUME NEW v \in these, NEW n \in Nat, n = e.flip
        PROVE  /\ Came(v, n)' /\ handled[v][2] < n
               /\ \A i \in DOMAIN queue[v] : queue[v][i].flip < n
    <3>1. v \in Views /\ v \in selList /\ source[v] = e.surface /\ source[v] # NoSurface
      BY <1>2, <1>3, <2>2 DEF these, Watching, SurfaceConstants, Event
    <3>2. Update(1) /\ buffer[1] = e
      BY <1>2 DEF e, Update
    <3>3. \A m \in Nat : Came(v, m) => m < n
      BY <1>2, <2>2, <3>1, <3>2 DEF Came
    <3>4. Came(v, n)'
      <4>1. n <= flips[source[v]]
        BY <1>2, <2>2, <3>1, <3>2 DEF BufferInOrder
      <4>2. ASSUME NEW i \in DOMAIN buffer', buffer'[i].type = "update",
                   buffer'[i].surface = source[v]
            PROVE  n < buffer'[i].flip
        <5>1. i + 1 \in DOMAIN buffer /\ buffer'[i] = buffer[i + 1] /\ 1 < i + 1
          BY <1>2, TailOfBuffer
        <5>2. Update(i + 1) /\ buffer[i + 1].surface = buffer[1].surface
          BY <3>1, <3>2, <4>2, <5>1 DEF Update
        <5>3. buffer[1].flip < buffer[i + 1].flip
          BY <1>2, <3>2, <5>1, <5>2 DEF BufferInOrder
        <5>4. QED
          BY <2>2, <3>2, <5>1, <5>3
      <4>3. QED
        BY <1>1, <4>1, <4>2 DEF Came, Update
    <3>5. QED
      BY <3>1, <3>3, <3>4, SurfaceTypes DEF QueuesInOrder
  <2>3. UNCHANGED <<handled, selList>> /\ these \subseteq selList
    BY <1>1 DEF engineVars, these, Watching
  <2>4. ASSUME NEW v \in Views
        PROVE  /\ v \notin selList' => queue'[v] = << >> /\ handled'[v] = <<0, 0, 0>>
               /\ Came(v, handled[v][2])'
               /\ handled'[v][1] < handled'[v][2] \/ handled'[v] = <<0, 0, 0>>
    BY <1>4, <2>1, <2>3, SurfaceTypes DEF QueuesInOrder
  <2>5. ASSUME NEW v \in Views, NEW i \in DOMAIN queue'[v]
        PROVE  \/ i \in DOMAIN queue[v] /\ queue'[v][i] = queue[v][i]
               \/ v \in these /\ i = Len(queue[v]) + 1 /\ queue'[v][i] = e
    <3>1. Len(queue[v]) \in Nat /\ DOMAIN queue[v] = 1 .. Len(queue[v])
      BY SurfaceTypes
    <3>2. CASE v \in these
      <4>1. i \in 1 .. Len(queue[v]) \/ i = Len(queue[v]) + 1
        BY <1>4, <2>5, <3>1, <3>2
      <4>2. QED
        BY <1>4, <3>1, <3>2, <4>1
    <3>3. CASE v \notin these
      BY <1>4, <2>5, <3>3
    <3>4. QED
      BY <3>2, <3>3
  <2>6. ASSUME NEW v \in Views, NEW i \in DOMAIN queue'[v], NEW n \in Nat, n = queue'[v][i].flip
        PROVE  handled'[v][2] < n /\ Came(v, n)'
    <3>1. CASE i \in DOMAIN queue[v] /\ queue'[v][i] = queue[v][i]
      <4>1. Came(v, n) /\ handled[v][2] < n
        BY <2>6, <3>1 DEF QueuesInOrder
      <4>2. QED
        BY <2>1, <2>3, <4>1
    <3>2. CASE v \in these /\ queue'[v][i] = e
      BY <2>2, <2>3, <2>6, <3>2
    <3>3. QED
      BY <2>5, <3>1, <3>2
  <2>7. ASSUME NEW v \in Views, NEW i \in DOMAIN queue'[v], NEW j \in DOMAIN queue'[v], i < j
        PROVE  queue'[v][i].flip < queue'[v][j].flip
    <3>1. i \in DOMAIN queue[v] /\ queue'[v][i] = queue[v][i]
      <4>1. Len(queue[v]) \in Nat /\ DOMAIN queue[v] = 1 .. Len(queue[v]) /\ DOMAIN queue'[v] = 1 .. Len(queue'[v])
        BY <1>4, SurfaceTypes
      <4>2. j <= Len(queue[v]) + 1 /\ i \in Nat /\ j \in Nat
        <5>1. i \in Nat /\ j \in Nat
          BY <1>4, <4>1
        <5>2. j \in DOMAIN queue[v] \/ j = Len(queue[v]) + 1
          BY <2>5
        <5>3. QED
          BY <4>1, <5>1, <5>2
      <4>3. i # Len(queue[v]) + 1
        BY <2>7, <4>1, <4>2
      <4>4. QED
        BY <2>5, <4>3, SurfaceTypes
    <3>2. CASE j \in DOMAIN queue[v] /\ queue'[v][j] = queue[v][j]
      BY <2>7, <3>1, <3>2 DEF QueuesInOrder
    <3>3. CASE v \in these /\ queue'[v][j] = e
      <4>1. queue[v][i].flip < e.flip
        BY <1>2, <2>2, <3>1, <3>3
      <4>2. QED
        BY <3>1, <3>3, <4>1
    <3>4. QED
      BY <2>5, <3>2, <3>3
  <2>8. \A v \in Views : \A i \in DOMAIN queue'[v] : queue'[v][i].flip \in Nat
    BY <1>2, <2>5, SurfaceTypes
  <2>9. \A v \in Views : \A i \in DOMAIN queue'[v] :
            handled'[v][2] < queue'[v][i].flip /\ Came(v, queue[v][i].flip)'
    BY <2>6, <2>8
  <2>10. QED
    BY <2>4, <2>7, <2>9 DEF QueuesInOrder
<1>10. QED
  BY <1>5, <1>6, <1>7, <1>8, <1>9

LEMMA onSourceDestroyedKeeps ==
    ASSUME SurfaceConstants, SurfaceInv, ~ broken, phase = "events", buffer # << >>,
           buffer' = Tail(buffer), Head(buffer).type = "destroyed",
           onSourceDestroyed(Head(buffer)),
           UNCHANGED <<engineVars, paintVars, flips, phase, broken>>
    PROVE  SurfaceInv'
<1> USE DEF SurfaceInv
<1> DEFINE e == Head(buffer)
           these == Watching(e.surface)
<1>1. /\ source' = [v \in Views |-> IF v \in these THEN NoSurface ELSE source[v]]
      /\ ready' = ready \ these /\ blocking' = blocking \ these
      /\ UNCHANGED <<queue, started, updateFlip, flipCount, handled>>
  BY DEF onSourceDestroyed
<1>2. /\ e \in Event /\ buffer' \in Seq(Event) /\ e = buffer[1] /\ 1 \in DOMAIN buffer
      /\ \A i \in DOMAIN buffer' : i + 1 \in DOMAIN buffer /\ buffer'[i] = buffer[i + 1]
  BY TailOfBuffer
<1>3. /\ e.surface \in destroyed
      /\ \A v \in these : v \in selList /\ source[v] = e.surface
      /\ \A v \in Views \ these : source[v] # e.surface
  BY <1>2 DEF AttachedToWatched, Watching, SurfaceConstants, Event
<1> HIDE DEF e, these
<1>4. TypeOK'
  <2>1. source' \in [Views -> Surfaces \cup {NoSurface}]
    BY <1>1 DEF TypeOK
  <2>2. UNION {started, ready, updateFlip, blocking, hidden}' \subseteq Views
    BY <1>1 DEF TypeOK, paintVars
  <2>3. QED
    BY <1>1, <1>2, <2>1, <2>2 DEF TypeOK, paintVars, engineVars
<1>5. AttachedToWatched'
  <2>1. \A u \in Views : source'[u] # NoSurface => u \in selList'
    BY <1>1 DEF AttachedToWatched, engineVars
  <2>2. /\ \A v \in Views : source'[v] = IF v \in these THEN NoSurface ELSE source[v]
        /\ selList \subseteq Views /\ NoSurface \notin Surfaces
    BY <1>1 DEF TypeOK, SurfaceConstants
  <2>3. \A t \in Surfaces : Watching(t)' = IF t = e.surface THEN {} ELSE Watching(t)
    BY <1>3, <2>2 DEF Watching, engineVars
  <2>4. UNCHANGED <<attached, destroyed>>
    BY DEF engineVars
  <2>5. ASSUME NEW t \in Surfaces
        PROVE  /\ attached'[t] <= 1
               /\ Watching(t)' # {} => attached'[t] = 1
               /\ t \notin destroyed' /\ Watching(t)' = {} => attached'[t] = 0
    BY <1>3, <2>3, <2>4 DEF AttachedToWatched
  <2>6. \A i \in DOMAIN buffer' :
            buffer'[i].type = "destroyed" => buffer'[i].surface \in destroyed'
    BY <1>2, <2>4 DEF AttachedToWatched
  <2>7. QED
    BY <2>1, <2>5, <2>6 DEF AttachedToWatched
<1>6. /\ \A v \in Views : source'[v] = IF v \in these THEN NoSurface ELSE source[v]
      /\ UNCHANGED <<hidden, dirty>>
  BY <1>1 DEF paintVars
<1>7. WaitsForCall'
  BY <1>1, <1>6 DEF WaitsForCall
<1>8. CountIsKnown'
  BY <1>1, <1>6 DEF CountIsKnown
<1>9. BufferInOrder'
  BY TailInOrder
<1>10. QueuesInOrder'
  <2>1. ASSUME NEW v \in Views, NEW n \in Nat, Came(v, n)
        PROVE  Came(v, n)'
    BY <1>6, <2>1, TailInOrder
  <2>2. UNCHANGED <<queue, handled, selList>>
    BY <1>1 DEF engineVars
  <2>3. \A v \in Views : Came(v, handled[v][2])'
    BY <2>1, <2>2, SurfaceTypes DEF QueuesInOrder
  <2>4. \A v \in Views : \A i \in DOMAIN queue[v] : Came(v, queue[v][i].flip)'
    BY <2>1, <2>2, SurfaceTypes DEF QueuesInOrder
  <2>5. QED
    BY <2>2, <2>3, <2>4 DEF QueuesInOrder
<1>11. QED
  BY <1>4, <1>5, <1>7, <1>8, <1>9, <1>10

LEMMA EndEventsKeeps == SurfaceInv /\ EndEvents => SurfaceInv'
<1> SUFFICES ASSUME SurfaceInv, EndEvents PROVE SurfaceInv'
  OBVIOUS
<1>1. /\ phase' = "paint"
      /\ UNCHANGED <<engineVars, viewVars, paintVars, started, buffer, flips, broken>>
  BY DEF EndEvents
<1>2. TypeOK' /\ AttachedToWatched' /\ WaitsForCall' /\ CountIsKnown'
  BY <1>1 DEF SurfaceInv, TypeOK, AttachedToWatched, WaitsForCall, CountIsKnown, Watching,
              engineVars, viewVars, paintVars
<1>3. BufferInOrder' /\ QueuesInOrder'
  BY <1>1 DEF SurfaceInv, BufferInOrder, QueuesInOrder, Update, Came, engineVars, viewVars
<1>4. QED
  BY <1>2, <1>3 DEF SurfaceInv

LEMMA PaintKeeps ==
    ASSUME SurfaceInv, ~ broken, Paint
    PROVE  SurfaceInv'
<1> USE DEF SurfaceInv
<1> DEFINE these == {v \in Views \ hidden : dirty[v] # {}}
           drawn == {v \in these \cap ready : source[v] # NoSurface}
<1>1. /\ phase' = "callbacks" /\ started' = started \cup these
      /\ updateFlip' = updateFlip \cup drawn
      /\ owed' = [v \in Views |-> IF v \in drawn THEN owed[v] \ dirty[v] ELSE owed[v]]
      /\ dirty' = [v \in Views |-> {}]
      /\ UNCHANGED <<engineVars, source, queue, ready, flipCount, blocking, handled,
                     hidden, buffer, flips, broken>>
  BY DEF Paint
<1>2. TypeOK'
  <2>1. owed' \in [Views -> SUBSET Regions] /\ dirty' \in [Views -> SUBSET Regions]
    BY <1>1 DEF TypeOK
  <2>2. UNION {started, ready, updateFlip, blocking, hidden}' \subseteq Views
    BY <1>1 DEF TypeOK
  <2>3. QED
    BY <1>1, <2>1, <2>2 DEF TypeOK, engineVars
<1>3. AttachedToWatched' /\ BufferInOrder' /\ QueuesInOrder'
  BY <1>1 DEF AttachedToWatched, BufferInOrder, QueuesInOrder, Update, Came, Watching, engineVars
<1>4. WaitsForCall'
  BY <1>1 DEF WaitsForCall
<1>5. CountIsKnown'
  BY <1>1 DEF CountIsKnown
<1>6. QED
  BY <1>2, <1>3, <1>4, <1>5

LEMMA runCallbacksKeeps ==
    ASSUME SurfaceConstants, SurfaceInv, ~ broken, runCallbacks
    PROVE  SurfaceInv'
<1> USE DEF SurfaceInv
<1> DEFINE taking == {v \in called : Accepts(v)}
           front(v) == Head(Trimmed(queue[v]))
           rest(v) == Tail(Trimmed(queue[v]))
<1>1. /\ phase = "callbacks" /\ phase' = "events"
      /\ broken' = \E v \in called : source[v] = NoSurface
      /\ queue' = [v \in Views |-> IF v \in taking THEN rest(v)
                                   ELSE IF v \in called THEN Trimmed(queue[v]) ELSE queue[v]]
      /\ started' = taking /\ ready' = ready \cup called
      /\ flipCount' = [v \in Views |->
             IF v \in called /\ (v \in updateFlip \/ v \notin ready)
             THEN front(v).flip ELSE flipCount[v]]
      /\ updateFlip' = (updateFlip \ called) \cup (taking \cap hidden)
      /\ dirty' = [v \in Views |-> IF v \in taking \ hidden THEN dirty[v] \cup {front(v).region}
                                   ELSE dirty[v]]
      /\ handled' = [v \in Views |-> IF v \in taking
                                     THEN <<handled[v][2], front(v).flip, flipCount'[v]>>
                                     ELSE handled[v]]
      /\ UNCHANGED <<engineVars, source, blocking, hidden, owed, buffer, flips>>
  BY DEF runCallbacks
<1>2. /\ called \subseteq Views /\ taking \subseteq called
      /\ \A v \in called : queue[v] # << >> /\ queue[v] \in Seq(Event)
      /\ \A v \in called : v \in taking <=> v \notin hidden \/ v \notin blocking
  BY DEF called, Accepts, TypeOK
<1>3. ASSUME NEW v \in called
      PROVE  /\ Trimmed(queue[v]) \in Seq(Event) /\ rest(v) \in Seq(Event)
             /\ front(v) \in Event /\ Trimmed(queue[v]) # << >>
             /\ \E d \in 0 .. Len(queue[v]) - 1 :
                   /\ Len(Trimmed(queue[v])) = Len(queue[v]) - d
                   /\ \A i \in 1 .. Len(queue[v]) - d : Trimmed(queue[v])[i] = queue[v][d + i]
                   /\ front(v) = queue[v][d + 1]
                   /\ Len(rest(v)) = Len(queue[v]) - d - 1
                   /\ \A i \in 1 .. Len(queue[v]) - d - 1 : rest(v)[i] = queue[v][d + 1 + i]
  BY <1>2, QueueTaken
<1> HIDE DEF taking, front, rest
<1>4. \A v \in called : front(v).flip \in 0 .. MaxFlips /\ front(v).region \in Regions
  BY <1>3 DEF Event
<1>5. TypeOK'
  <2>1. queue' \in [Views -> Seq(Event)]
    <3>1. \A v \in Views : queue[v] \in Seq(Event)
      BY DEF TypeOK
    <3>2. QED
      BY <1>1, <1>2, <1>3, <3>1
  <2>2. flipCount' \in [Views -> 0 .. MaxFlips]
    BY <1>1, <1>4 DEF TypeOK
  <2>3. handled' \in [Views -> (0 .. MaxFlips) \X (0 .. MaxFlips) \X (0 .. MaxFlips)]
    <3>1. \A v \in Views : flipCount'[v] \in 0 .. MaxFlips /\ handled[v][2] \in 0 .. MaxFlips
      BY <2>2 DEF TypeOK
    <3>2. QED
      BY <1>1, <1>2, <1>4, <3>1 DEF TypeOK
  <2>4. dirty' \in [Views -> SUBSET Regions]
    BY <1>1, <1>2, <1>4 DEF TypeOK
  <2>5. UNION {started, ready, updateFlip, blocking, hidden}' \subseteq Views
    BY <1>1, <1>2 DEF TypeOK
  <2>6. broken' \in BOOLEAN
    BY <1>1
  <2>7. QED
    BY <1>1, <2>1, <2>2, <2>3, <2>4, <2>5, <2>6 DEF TypeOK, engineVars
<1>6. AttachedToWatched' /\ BufferInOrder'
  BY <1>1 DEF AttachedToWatched, BufferInOrder, Update, Watching, engineVars
<1>7. ASSUME NEW v \in Views, queue'[v] # << >>, source'[v] # NoSurface
      PROVE  v \in started' \/ (v \in blocking' /\ (v \in hidden' \/ dirty'[v] # {}))
  <2>1. CASE v \in taking
    BY <1>1, <2>1
  <2>2. CASE v \in called \ taking
    BY <1>1, <1>2, <2>2
  <2>3. CASE v \notin called
    <3>1. v \notin started /\ queue[v] # << >> /\ source[v] # NoSurface /\ dirty'[v] = dirty[v]
      BY <1>1, <1>2, <1>7, <2>3 DEF called
    <3>2. QED
      BY <1>1, <3>1 DEF WaitsForCall
  <2>4. QED
    BY <2>1, <2>2, <2>3
<1>8. WaitsForCall'
  BY <1>7 DEF WaitsForCall
<1>9. ASSUME NEW v \in Views
      PROVE  /\ v \in ready' /\ ~ broken' => source'[v] # NoSurface
             /\ v \in ready' \ updateFlip' /\ v \notin hidden' => dirty'[v] # {}
             /\ v \in ready' \ updateFlip' /\ v \notin blocking' => flipCount'[v] = handled'[v][2]
             /\ handled'[v][3] \in {handled'[v][1], handled'[v][2]}
  <2>1. dirty[v] = {} /\ (v \in ready \ updateFlip => v \in hidden)
    BY <1>1 DEF CountIsKnown
  <2>2. CASE v \in taking
    <3>1. /\ v \in called /\ handled'[v] = <<handled[v][2], front(v).flip, flipCount'[v]>>
          /\ flipCount'[v] = IF v \in updateFlip \/ v \notin ready
                             THEN front(v).flip ELSE flipCount[v]
          /\ v \notin hidden => dirty'[v] # {}
          /\ v \in updateFlip' <=> v \in hidden
      BY <1>1, <1>2, <2>2
    <3>2. /\ handled'[v][1] = handled[v][2] /\ handled'[v][2] = front(v).flip
          /\ handled'[v][3] = flipCount'[v]
      BY <3>1
    <3>3. v \notin hidden => flipCount'[v] = front(v).flip
      BY <2>1, <3>1
    <3>4. flipCount'[v] \in {handled[v][2], front(v).flip}
      BY <1>2, <2>2, <3>1, <3>3 DEF CountIsKnown
    <3>5. QED
      BY <1>1, <2>2, <3>1, <3>2, <3>3, <3>4 DEF CountIsKnown
  <2>3. CASE v \in called \ taking
    <3>1. v \in hidden /\ v \in blocking /\ handled'[v] = handled[v]
      BY <1>1, <1>2, <2>3
    <3>2. QED
      BY <1>1, <2>3, <3>1 DEF CountIsKnown
  <2>4. CASE v \notin called
    <3>1. /\ v \notin taking /\ handled'[v] = handled[v] /\ flipCount'[v] = flipCount[v]
          /\ dirty'[v] = dirty[v] /\ (v \in ready' <=> v \in ready)
          /\ (v \in updateFlip' <=> v \in updateFlip)
      BY <1>1, <1>2, <2>4
    <3>2. QED
      BY <1>1, <3>1 DEF CountIsKnown
  <2>5. QED
    BY <1>2, <2>2, <2>3, <2>4
<1>10. CountIsKnown'
  <2>1. phase' # "callbacks"
    BY <1>1
  <2>2. QED
    BY <1>9, <2>1 DEF CountIsKnown
<1>11. ASSUME NEW v \in Views, NEW n \in Nat, Came(v, n)
       PROVE  Came(v, n)'
  BY <1>1, <1>11 DEF Came, Update
<1>12. ASSUME NEW v \in Views, NEW last \in Nat, last = handled'[v][2]
       PROVE  /\ v \notin selList' => queue'[v] = << >> /\ handled'[v] = <<0, 0, 0>>
              /\ Came(v, last)
              /\ handled'[v][1] < last \/ handled'[v] = <<0, 0, 0>>
              /\ \A i \in DOMAIN queue'[v] :
                    /\ queue'[v][i].flip \in Nat
                    /\ last < queue'[v][i].flip
                    /\ Came(v, queue'[v][i].flip)
                    /\ \A j \in DOMAIN queue'[v] :
                          i < j => queue'[v][i].flip < queue'[v][j].flip
  <2>1. selList' = selList /\ (v \in called => v \in selList)
    BY <1>1, <1>2 DEF QueuesInOrder, engineVars
  <2>2. /\ Len(queue[v]) \in Nat /\ DOMAIN queue[v] = 1 .. Len(queue[v])
        /\ handled[v][2] \in Nat /\ \A i \in DOMAIN queue[v] : queue[v][i].flip \in Nat
    BY SurfaceTypes
  <2>3. CASE v \in called
    <3>1. PICK d \in 0 .. Len(queue[v]) - 1 :
              /\ Len(Trimmed(queue[v])) = Len(queue[v]) - d
              /\ \A i \in 1 .. Len(queue[v]) - d : Trimmed(queue[v])[i] = queue[v][d + i]
              /\ front(v) = queue[v][d + 1]
              /\ Len(rest(v)) = Len(queue[v]) - d - 1
              /\ \A i \in 1 .. Len(queue[v]) - d - 1 : rest(v)[i] = queue[v][d + 1 + i]
      BY <1>3, <2>3
    <3>2. CASE v \in taking
      <4>1. /\ handled'[v] = <<handled[v][2], front(v).flip, flipCount'[v]>>
            /\ queue'[v] = rest(v) /\ last = front(v).flip
        BY <1>1, <1>12, <3>2
      <4>2. /\ DOMAIN queue'[v] = 1 .. Len(queue[v]) - d - 1
            /\ \A i \in DOMAIN queue'[v] :
                  /\ queue'[v][i] = queue[v][d + 1 + i] /\ d + 1 + i \in DOMAIN queue[v]
                  /\ d + 1 < d + 1 + i
        <5>1. DOMAIN queue'[v] = 1 .. Len(queue'[v])
          BY <1>3, <2>3, <4>1
        <5>2. DOMAIN queue'[v] = 1 .. Len(queue[v]) - d - 1
          BY <3>1, <4>1, <5>1
        <5>3. \A i \in 1 .. Len(queue[v]) - d - 1 :
                  d + 1 + i \in 1 .. Len(queue[v]) /\ d + 1 < d + 1 + i
          BY <2>2
        <5>4. QED
          BY <2>2, <3>1, <4>1, <5>2, <5>3
      <4>3. d + 1 \in DOMAIN queue[v] /\ last = queue[v][d + 1].flip
        BY <2>2, <3>1, <4>1
      <4>4. Came(v, last) /\ handled[v][2] < last
        BY <4>3 DEF QueuesInOrder
      <4>5. \A i, j \in DOMAIN queue'[v] : i < j => d + 1 + i < d + 1 + j
        BY <2>2, <4>2
      <4>6. \A i \in DOMAIN queue'[v] :
                /\ queue'[v][i].flip \in Nat /\ last < queue'[v][i].flip
                /\ Came(v, queue'[v][i].flip)
        BY <2>2, <4>2, <4>3 DEF QueuesInOrder
      <4>7. \A i \in DOMAIN queue'[v] : \A j \in DOMAIN queue'[v] :
                i < j => queue'[v][i].flip < queue'[v][j].flip
        BY <4>2, <4>5 DEF QueuesInOrder
      <4>8. handled'[v][1] < last
        BY <4>1, <4>4
      <4>9. QED
        BY <2>1, <2>3, <4>4, <4>6, <4>7, <4>8
    <3>3. CASE v \notin taking
      <4>1. queue'[v] = Trimmed(queue[v]) /\ handled'[v] = handled[v] /\ last = handled[v][2]
        BY <1>1, <1>12, <2>3, <3>3
      <4>2. /\ DOMAIN queue'[v] = 1 .. Len(queue[v]) - d
            /\ \A i \in DOMAIN queue'[v] :
                  queue'[v][i] = queue[v][d + i] /\ d + i \in DOMAIN queue[v]
        <5>1. DOMAIN queue'[v] = 1 .. Len(queue'[v])
          BY <1>3, <2>3, <4>1
        <5>2. DOMAIN queue'[v] = 1 .. Len(queue[v]) - d
          BY <3>1, <4>1, <5>1
        <5>3. \A i \in 1 .. Len(queue[v]) - d : d + i \in 1 .. Len(queue[v])
          BY <2>2
        <5>4. QED
          BY <2>2, <3>1, <4>1, <5>2, <5>3
      <4>3. \A i, j \in DOMAIN queue'[v] : i < j => d + i < d + j
        BY <2>2, <4>2
      <4>4. \A i \in DOMAIN queue'[v] :
                /\ queue'[v][i].flip \in Nat /\ last < queue'[v][i].flip
                /\ Came(v, queue'[v][i].flip)
        BY <2>2, <4>1, <4>2 DEF QueuesInOrder
      <4>5. \A i \in DOMAIN queue'[v] : \A j \in DOMAIN queue'[v] :
                i < j => queue'[v][i].flip < queue'[v][j].flip
        BY <4>2, <4>3 DEF QueuesInOrder
      <4>6. QED
        BY <2>1, <2>3, <4>1, <4>4, <4>5 DEF QueuesInOrder
    <3>4. QED
      BY <3>2, <3>3
  <2>4. CASE v \notin called
    <3>1. queue'[v] = queue[v] /\ handled'[v] = handled[v] /\ last = handled[v][2]
      BY <1>1, <1>2, <1>12, <2>4
    <3>2. QED
      BY <2>1, <2>2, <3>1 DEF QueuesInOrder
  <2>5. QED
    BY <2>3, <2>4
<1>13. QueuesInOrder'
  <2>1. \A v \in Views : handled'[v][2] \in Nat
    <3>1. \A v \in Views : handled'[v][2] \in 0 .. MaxFlips
      BY <1>5 DEF TypeOK
    <3>2. QED
      BY <3>1 DEF SurfaceConstants
  <2>2. \A v \in Views : Came(v, handled[v][2])'
    BY <1>11, <1>12, <2>1
  <2>3. \A v \in Views : \A i \in DOMAIN queue'[v] : Came(v, queue[v][i].flip)'
    BY <1>11, <1>12, <2>1
  <2>4. QED
    BY <1>12, <2>1, <2>2, <2>3 DEF QueuesInOrder
<1>14. QED
  BY <1>5, <1>6, <1>8, <1>10, <1>13

LEMMA SurfaceStep == SurfaceConstants /\ SurfaceInv /\ [Next]_vars => SurfaceInv'
<1> SUFFICES ASSUME SurfaceConstants, SurfaceInv, [Next]_vars PROVE SurfaceInv'
  OBVIOUS
<1>1. CASE UNCHANGED vars
  BY <1>1 DEF vars, engineVars, viewVars, paintVars, SurfaceInv, TypeOK, AttachedToWatched,
              WaitsForCall, CountIsKnown, BufferInOrder, QueuesInOrder, Update, Came, Watching
<1>2. CASE Next
  <2>1. ASSUME NEW s \in Surfaces, Destroy(s) \/ \E r \in Regions : Flip(s, r)
        PROVE  SurfaceInv'
    BY <2>1, DestroyKeeps, FlipKeeps
  <2>2. CASE ~ broken /\ Call
    <3>1. PICK v \in Views : \/ \E s \in Surfaces : setSourceFromSurface(v, s)
                             \/ Delete(v) \/ setVisible(v)
      BY <2>2 DEF Call, SurfaceConstants
    <3>2. ~ broken /\ phase = "events" /\ UNCHANGED phase
      BY <2>2 DEF Call
    <3>3. QED
      BY <3>1, <3>2, setSourceKeeps, DeleteKeeps, setVisibleKeeps
  <2>3. CASE ~ broken /\ consumeSurfaceEvent
    BY <2>3, consumeUpdateKeeps, onSourceDestroyedKeeps DEF consumeSurfaceEvent
  <2>4. CASE ~ broken /\ (runCallbacks \/ EndEvents \/ Paint)
    BY <2>4, runCallbacksKeeps, EndEventsKeeps, PaintKeeps
  <2>5. QED
    BY <1>2, <2>1, <2>2, <2>3, <2>4 DEF Next, Turn
<1>3. QED
  BY <1>1, <1>2

LEMMA SurfacesAreKept ==
    SurfaceConstants /\ SurfaceInv => TypeOK /\ AttachedOnce /\ AckIsRecent /\ WaitingIsCalled
<1> SUFFICES ASSUME SurfaceConstants, SurfaceInv
             PROVE  TypeOK /\ AttachedOnce /\ AckIsRecent /\ WaitingIsCalled
  OBVIOUS
<1>1. AttachedOnce
  BY DEF SurfaceInv, AttachedToWatched, AttachedOnce
<1>2. AckIsRecent
  BY DEF SurfaceInv, CountIsKnown, QueuesInOrder, AckIsRecent
<1>3. WaitingIsCalled
  BY DEF SurfaceInv, WaitsForCall, WaitingIsCalled
<1>4. QED
  BY <1>1, <1>2, <1>3 DEF SurfaceInv

(* However clients draw and end, views are made, hidden and deleted, and   *)
(* the loop turns: the buffer is attached once to every surface that is    *)
(* watched and to no other, a view takes frames in their order and         *)
(* acknowledges the one it takes or the one before, and a view with an     *)
(* update waiting is called.                                               *)
THEOREM SurfacesAreListenedTo ==
    SurfaceConstants => (Spec => [](TypeOK /\ AttachedOnce /\ AckIsRecent /\ WaitingIsCalled))
<1> DEFINE Kept == TypeOK /\ AttachedOnce /\ AckIsRecent /\ WaitingIsCalled
<1> SUFFICES ASSUME SurfaceConstants PROVE Spec => []Kept
  OBVIOUS
<1>1. Init => SurfaceInv
  BY SurfaceInit
<1>2. SurfaceInv /\ [Next]_vars => SurfaceInv'
  BY SurfaceStep
<1>3. SurfaceInv => Kept
  BY SurfacesAreKept
<1> HIDE DEF Kept
<1>4. QED
  BY <1>1, <1>2, <1>3, PTL DEF Spec
===============================================================================
