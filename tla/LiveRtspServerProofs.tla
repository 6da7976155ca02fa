------------------------ MODULE LiveRtspServerProofs ------------------------
(* Proofs about LiveRtspServer: its type invariant, the integrity of the   *)
(* byte stream and the refinement of the lossy channel, for every value of *)
(* the constants.                                                          *)
EXTENDS LiveRtspServer, TLAPS, SequenceTheorems, FiniteSetTheorems

(* The initial values have their types.                                   *)
LEMMA TypeInit == Init => TypeOK
<1> SUFFICES ASSUME Init PROVE TypeOK
  OBVIOUS
<1>1. next \in 1..(MaxFrames + 1) /\ off \in Nat /\ rd \in Nat
  BY LiveAssumption DEF Init
<1>2. list \in Seq(Frame) /\ wire \in Seq(Chunk) /\ sent \in Seq(Nat)
  BY EmptySeq DEF Init
<1>3. held \in Frame \cup {NoFrame} /\ isConnected \in BOOLEAN
  BY DEF Init
<1>4. QED BY <1>1, <1>2, <1>3 DEF Init, TypeOK, ServerStates

(* Every handler leaves every variable in its type.                       *)
LEMMA TypeStep == TypeOK /\ [Next]_vars => TypeOK'
<1> SUFFICES ASSUME TypeOK, [Next]_vars PROVE TypeOK'
  OBVIOUS
<1> USE LiveAssumption DEF TypeOK
<1>1. ASSUME NEW len \in FrameLens, pushDataAccept(len) PROVE TypeOK'
  <2>1. [id |-> next, len |-> len] \in Frame
    BY DEF Frame
  <2>2. list' \in Seq(Frame)
    BY <1>1, <2>1, AppendProperties DEF pushDataAccept
  <2>3. QED BY <1>1, <2>2 DEF pushDataAccept, pushVars, pipeVars
<1>2. CASE pushDataDrop
  <2>1. next' \in 1..(MaxFrames + 1) /\ dropped' \subseteq Nat
    BY <1>2 DEF pushDataDrop
  <2>2. isConnected' \in BOOLEAN
    BY <1>2 DEF pushDataDrop
  <2>3. QED BY <1>2, <2>1, <2>2 DEF pushDataDrop, pushVars, pipeVars
<1>3. CASE PopFront
  <2>1. held' \in Frame /\ list' \in Seq(Frame)
    BY <1>3, HeadTailProperties DEF PopFront
  <2>2. QED BY <1>3, <2>1 DEF PopFront, pipeVars
<1>4. CASE DiscardFrame
  <2>1. held.id \in Nat
    BY DEF Frame, NoFrame
  <2>2. QED BY <1>4, <2>1 DEF DiscardFrame, pipeVars
<1>5. CASE EnterPushPkg
  BY <1>5 DEF EnterPushPkg, pipeVars
<1>6. CASE WriteChunk
  <2>1. held \in Frame
    BY <1>6 DEF WriteChunk, NoFrame
  <2>2. [id |-> held.id, pos |-> off + 1, len |-> held.len] \in Chunk
    BY <2>1 DEF Frame, Chunk
  <2>3. wire' \in Seq(Chunk)
    BY <1>6, <2>2, AppendProperties DEF WriteChunk
  <2>4. QED BY <1>6, <2>3 DEF WriteChunk
<1>7. CASE PushDone
  <2>1. held.id \in Nat
    BY DEF Frame, NoFrame
  <2>2. sent' \in Seq(Nat)
    BY <1>7, <2>1, AppendProperties DEF PushDone
  <2>3. QED BY <1>7, <2>1, <2>2 DEF PushDone, pipeVars
<1>8. CASE startSelf \/ establishAndRunServer
  BY <1>8 DEF startSelf, establishAndRunServer, ServerFails,
     PublishSubsession, EnterEventLoop, ServerStates, pushVars, pipeVars
<1>9. ASSUME NEW v \in Viewers, createNewStreamSource(v) \/ closeStreamSource(v)
      PROVE  TypeOK'
  BY <1>9 DEF createNewStreamSource, closeStreamSource, pushVars, pipeVars
<1>10. CASE ReadChunk
  BY <1>10 DEF ReadChunk, pushVars
<1>11. CASE UNCHANGED vars
  BY <1>11 DEF vars
<1>12. QED
  BY <1>1, <1>2, <1>3, <1>4, <1>5, <1>6, <1>7, <1>8, <1>9, <1>10, <1>11
     DEF Next, pushData, PushThread

(* Every variable keeps its type through every handler. *)
THEOREM TypeCorrect == Spec => []TypeOK
<1>1. Init => TypeOK
  BY TypeInit
<1>2. TypeOK /\ [Next]_vars => TypeOK'
  BY TypeStep
<1>3. QED BY <1>1, <1>2, PTL DEF Spec

-----------------------------------------------------------------------------
(* What the types say of the numbers the ordering invariants compare. *)
LEMMA Numbers ==
  ASSUME TypeOK
  PROVE  /\ next \in Nat /\ off \in Nat /\ held.id \in Nat
         /\ Len(list) \in Nat /\ Len(wire) \in Nat
         /\ \A i \in 1..Len(list) : list[i] \in Frame /\ list[i].id \in Nat
         /\ \A i \in 1..Len(wire) : wire[i] \in Chunk /\ wire[i].id \in Nat
         /\ wire # <<>> => Len(wire) > 0
<1>1. /\ next \in Nat /\ off \in Nat /\ held.id \in Nat
  BY LiveAssumption DEF TypeOK, Frame, NoFrame
<1>2. Len(list) \in Nat /\ Len(wire) \in Nat /\ (wire # <<>> => Len(wire) > 0)
  BY EmptySeq DEF TypeOK
<1>3. ASSUME NEW i \in 1..Len(list)
      PROVE  list[i] \in Frame /\ list[i].id \in Nat
  <2>1. list[i] \in Frame
    BY ElementOfSeq DEF TypeOK
  <2>2. QED BY <2>1 DEF Frame
<1>4. ASSUME NEW i \in 1..Len(wire)
      PROVE  wire[i] \in Chunk /\ wire[i].id \in Nat
  <2>1. wire[i] \in Chunk
    BY ElementOfSeq DEF TypeOK
  <2>2. QED BY <2>1 DEF Chunk
<1>5. QED BY <1>1, <1>2, <1>3, <1>4

(* The inductive invariant holds when the element is created.             *)
LEMMA InitIInv == Init => IInv
<1> SUFFICES ASSUME Init PROVE IInv
  OBVIOUS
<1>1. TypeOK
  BY TypeInit
<1>2. QED
  BY <1>1, LiveAssumption, EmptySeq DEF Init, IInv, ListOrdered, HandOrdered,
     WireOrdered, StreamIntact

(* A new frame: the list grows at its end, with a number above all others. *)
LEMMA AcceptIInv ==
  ASSUME IInv, NEW len \in FrameLens, pushDataAccept(len)
  PROVE  IInv'
<1> USE LiveAssumption
<1> DEFINE f == [id |-> next, len |-> len]
<1>1. TypeOK /\ TypeOK'
  BY TypeStep DEF IInv, Next, pushData
<1>2. f \in Frame /\ f.id = next /\ list' = Append(list, f) /\ next' = next + 1
  BY <1>1 DEF pushDataAccept, Frame, TypeOK
<1> HIDE DEF f
<1>3. /\ Len(list') = Len(list) + 1
      /\ \A i \in 1..Len(list) : list'[i] = list[i]
      /\ list'[Len(list) + 1] = f
  BY <1>1, <1>2, AppendProperties DEF TypeOK
<1>4. /\ next \in Nat /\ Len(list) \in Nat
      /\ \A i \in 1..Len(list) : list[i].id \in Nat
      /\ held.id \in Nat /\ \A i \in 1..Len(wire) : wire[i].id \in Nat
      /\ Len(wire) \in Nat
  BY <1>1, Numbers
<1>5. UNCHANGED <<pc, held, off, wire>>
  BY DEF pushDataAccept, pushVars, pipeVars
<1>6. ListOrdered'
  BY <1>2, <1>3, <1>4 DEF IInv, ListOrdered, pushDataAccept
<1>7. HandOrdered'
  BY <1>2, <1>3, <1>4, <1>5 DEF IInv, HandOrdered
<1>8. WireOrdered'
  <2>1. CASE wire = <<>>
    BY <2>1, <1>5 DEF IInv, WireOrdered
  <2>2. CASE wire # <<>>
    <3>1. wire[Len(wire)].id \in Nat
      BY <2>2, <1>1, <1>4, EmptySeq DEF TypeOK
    <3>2. wire[Len(wire)].id < next'
      BY <2>2, <3>1, <1>2, <1>4 DEF IInv, WireOrdered
    <3>3. \A i \in 1..Len(list') : wire[Len(wire)].id < list'[i].id
      BY <2>2, <3>1, <1>2, <1>3, <1>4 DEF IInv, WireOrdered
    <3>4. QED BY <2>2, <3>2, <3>3, <1>5 DEF IInv, WireOrdered
  <2>3. QED BY <2>1, <2>2
<1>9. StreamIntact'
  BY <1>5 DEF IInv, StreamIntact
<1>10. QED BY <1>1, <1>6, <1>7, <1>8, <1>9 DEF IInv
(* The front of the list moves into the push thread's hand. *)
LEMMA PopIInv ==
  ASSUME IInv, PopFront
  PROVE  IInv'
<1> USE LiveAssumption
<1>1. TypeOK /\ TypeOK'
  BY TypeStep DEF IInv, Next, PushThread
<1>2. /\ held' = list[1] /\ held' \in Frame
      /\ Len(list') = Len(list) - 1 /\ Len(list) \in Nat \ {0}
      /\ \A i \in 1..Len(list') : list'[i] = list[i + 1]
  BY <1>1, HeadTailProperties, LenProperties, EmptySeq DEF PopFront, TypeOK
<1>3. /\ next \in Nat
      /\ \A i \in 1..Len(list) : list[i].id \in Nat
  BY <1>1, Numbers
<1>4. /\ UNCHANGED <<off, wire, next>>
      /\ pc = "poll" /\ pc' = "test" /\ off = 0
  BY DEF PopFront, pipeVars, IInv, HandOrdered
<1>5. ListOrdered'
  <2>1. Len(list') <= Cap
    BY <1>2 DEF IInv, ListOrdered
  <2>2. \A i \in 1..Len(list') : i + 1 \in 1..Len(list)
    BY <1>2
  <2>3. \A i \in 1..Len(list') : list'[i].id < next'
    BY <1>2, <1>4, <2>2 DEF IInv, ListOrdered
  <2>4. ASSUME NEW i \in 1..Len(list'), NEW j \in 1..Len(list'), i < j
        PROVE  list'[i].id < list'[j].id
    BY <1>2, <2>2, <2>4 DEF IInv, ListOrdered
  <2>5. QED BY <2>1, <2>3, <2>4 DEF ListOrdered
<1>6. HandOrdered'
  BY <1>2, <1>3, <1>4 DEF IInv, ListOrdered, HandOrdered
<1>7. WireOrdered'
  <2>1. CASE wire = <<>>
    BY <2>1, <1>4 DEF WireOrdered
  <2>2. CASE wire # <<>>
    BY <2>2, <1>2, <1>4 DEF IInv, WireOrdered
  <2>3. QED BY <2>1, <2>2
<1>8. StreamIntact'
  <2>1. wire # <<>> => wire[Len(wire)].pos = wire[Len(wire)].len
    BY <1>4 DEF IInv, WireOrdered
  <2>2. wire # <<>> => wire[Len(wire)] \in Chunk
    BY <1>1, ElementOfSeq, LenProperties, EmptySeq DEF TypeOK
  <2>3. wire # <<>> => ~(wire[Len(wire)].pos < wire[Len(wire)].len)
    BY <2>1, <2>2, LiveAssumption DEF Chunk
  <2>4. QED BY <2>3, <1>4 DEF IInv, StreamIntact
<1>9. QED BY <1>1, <1>5, <1>6, <1>7, <1>8 DEF IInv

(* The push thread writes one more chunk of the frame in its hand. *)
LEMMA WriteIInv ==
  ASSUME IInv, WriteChunk
  PROVE  IInv'
<1> USE LiveAssumption
<1> DEFINE c == [id |-> held.id, pos |-> off + 1, len |-> held.len]
           n == Len(wire)
<1>1. TypeOK /\ TypeOK'
  BY TypeStep DEF IInv, Next, PushThread
<1>2. /\ pc = "write" /\ UNCHANGED <<pc, held, list, next>>
      /\ off < held.len /\ off' = off + 1 /\ wire' = Append(wire, c)
  BY DEF WriteChunk
<1>3. /\ held \in Frame /\ held.id < next
      /\ \A i \in 1..Len(list) : held.id < list[i].id
  BY <1>2 DEF IInv, HandOrdered
<1>4. /\ c \in Chunk /\ off \in Nat
  BY <1>1, <1>3 DEF Frame, Chunk, TypeOK
<1>5. /\ c.id = held.id /\ c.pos = off + 1 /\ c.len = held.len
  OBVIOUS
<1>6. /\ wire' # <<>> /\ n \in Nat /\ Len(wire') = n + 1
      /\ \A i \in 1..n : wire'[i] = wire[i]
      /\ wire'[n + 1] = c
  <2>1. wire \in Seq(Chunk) /\ n \in Nat
    BY <1>1, Numbers DEF TypeOK
  <2>2. QED BY <1>2, <1>4, <2>1, AppendProperties
<1>7. wire # <<>> => n > 0 /\ wire[n] \in Chunk
  BY <1>1, Numbers
<1> HIDE DEF c
<1>8. ListOrdered' /\ HandOrdered'
  <2>1. held.len \in Nat
    BY <1>3, LiveAssumption DEF Frame
  <2>2. off' <= held'.len
    BY <1>2, <1>4, <2>1
  <2>3. QED BY <1>2, <1>3, <2>2 DEF IInv, ListOrdered, HandOrdered
<1>9. WireOrdered'
  BY <1>2, <1>3, <1>4, <1>5, <1>6 DEF WireOrdered, c
<1>10. wire # <<>> => Follows(wire[n], c)
  <2> SUFFICES ASSUME wire # <<>> PROVE Follows(wire[n], c)
    OBVIOUS
  <2>1. CASE off = 0
    <3>1. wire[n].pos = wire[n].len /\ wire[n].id < held.id
      BY <2>1, <1>2 DEF IInv, WireOrdered
    <3>2. ~(wire[n].pos < wire[n].len)
      BY <3>1, <1>7 DEF Chunk
    <3>3. c.pos = 1 /\ c.id > wire[n].id
      BY <2>1, <3>1, <1>3, <1>5, <1>7 DEF Chunk, Frame
    <3>4. QED BY <3>2, <3>3 DEF Follows
  <2>2. CASE off # 0
    <3>1. wire[n] = [id |-> held.id, pos |-> off, len |-> held.len]
      BY <2>2 DEF IInv, WireOrdered
    <3>2. wire[n].pos < wire[n].len /\ c = [wire[n] EXCEPT !.pos = wire[n].pos + 1]
      BY <3>1, <1>2 DEF c
    <3>3. QED BY <3>2 DEF Follows
  <2>3. QED BY <2>1, <2>2
<1>11. StreamIntact'
  <2>1. wire'[1].pos = 1
    <3>1. CASE wire = <<>>
      BY <3>1, <1>2, <1>4, <1>5, <1>6 DEF IInv, WireOrdered
    <3>2. CASE wire # <<>>
      BY <3>2, <1>6, <1>7 DEF IInv, StreamIntact
    <3>3. QED BY <3>1, <3>2
  <2>2. ASSUME NEW i \in 1..(Len(wire') - 1) PROVE Follows(wire'[i], wire'[i + 1])
    <3>1. CASE i < n
      BY <3>1, <1>6 DEF IInv, StreamIntact
    <3>2. CASE i = n
      BY <3>2, <1>6, <1>10, EmptySeq
    <3>3. QED BY <3>1, <3>2, <1>6
  <2>3. pc' = "write" /\ held'.id = wire'[n + 1].id /\ off' = wire'[n + 1].pos
    BY <1>2, <1>5, <1>6
  <2>4. QED BY <2>1, <2>2, <2>3, <1>6 DEF StreamIntact
<1>12. QED BY <1>1, <1>8, <1>9, <1>11 DEF IInv
(* The steps of the push thread that touch neither the list nor the pipe. *)
LEMMA HandIInv ==
  ASSUME IInv, DiscardFrame \/ EnterPushPkg \/ PushDone
  PROVE  IInv'
<1> USE LiveAssumption
<1>1. TypeOK /\ TypeOK'
  BY TypeStep DEF IInv, Next, PushThread
<1>2. UNCHANGED <<list, wire, next>>
  BY DEF DiscardFrame, EnterPushPkg, PushDone, pipeVars
<1>3. ListOrdered'
  BY <1>2 DEF IInv, ListOrdered
<1>4. CASE DiscardFrame
  <2>1. pc = "test" /\ pc' = "poll" /\ off = 0 /\ off' = 0 /\ held' = NoFrame
    BY <1>4 DEF DiscardFrame, IInv, HandOrdered
  <2>2. HandOrdered' /\ WireOrdered' /\ StreamIntact'
    BY <1>2, <2>1 DEF IInv, HandOrdered, WireOrdered, StreamIntact
  <2>3. QED BY <1>1, <1>3, <2>2 DEF IInv
<1>5. CASE EnterPushPkg
  <2>1. /\ pc = "test" /\ pc' = "write" /\ off = 0 /\ off' = 0
        /\ held' = held /\ held \in Frame
    BY <1>5 DEF EnterPushPkg, IInv, HandOrdered
  <2>2. held.len \in Nat /\ off' <= held'.len
    <3>1. held.len \in Nat
      BY <2>1 DEF Frame
    <3>2. QED BY <2>1, <3>1
  <2>3. HandOrdered' /\ WireOrdered' /\ StreamIntact'
    BY <1>2, <2>1, <2>2 DEF IInv, HandOrdered, WireOrdered, StreamIntact
  <2>4. QED BY <1>1, <1>3, <2>3 DEF IInv
<1>6. CASE PushDone
  <2>1. /\ pc = "write" /\ pc' = "poll" /\ off = held.len /\ off' = 0
        /\ held' = NoFrame /\ held \in Frame
    BY <1>6 DEF PushDone, IInv, HandOrdered
  <2>2. HandOrdered'
    BY <2>1 DEF HandOrdered
  <2>3. wire # <<>> => wire[Len(wire)].pos = wire[Len(wire)].len
    BY <2>1 DEF IInv, WireOrdered
  <2>4. wire = <<>> \/ (wire # <<>> /\ off # 0)
    BY <2>1 DEF Frame
  <2>5. WireOrdered'
    BY <1>2, <2>1, <2>3, <2>4 DEF IInv, WireOrdered
  <2>6. wire # <<>> => ~(wire[Len(wire)].pos < wire[Len(wire)].len)
    BY <1>1, <2>3, Numbers DEF Chunk
  <2>7. StreamIntact'
    BY <1>2, <2>6 DEF IInv, StreamIntact
  <2>8. QED BY <1>1, <1>3, <2>2, <2>5, <2>7 DEF IInv
<1>7. QED BY <1>4, <1>5, <1>6

(* Every step of every thread preserves the inductive invariant.          *)
LEMMA StepIInv == IInv /\ [Next]_vars => IInv'
<1> SUFFICES ASSUME IInv, [Next]_vars PROVE IInv'
  OBVIOUS
<1>1. TypeOK' /\ next \in Nat
  BY TypeStep, Numbers DEF IInv
<1>2. ASSUME UNCHANGED <<list, pushVars, wire>>, next' = next \/ next' = next + 1
      PROVE  IInv'
  <2>1. TypeOK /\ held.id \in Nat
        /\ (\A i \in 1..Len(list) : list[i].id \in Nat)
        /\ (wire # <<>> => wire[Len(wire)].id \in Nat)
    BY Numbers DEF IInv
  <2>2. ListOrdered' /\ HandOrdered'
    BY <1>1, <1>2, <2>1 DEF IInv, ListOrdered, HandOrdered, pushVars
  <2>3. wire # <<>> => wire[Len(wire)].id < next'
    BY <1>1, <1>2, <2>1 DEF IInv, WireOrdered
  <2>4. WireOrdered' /\ StreamIntact'
    BY <1>2, <2>3 DEF IInv, WireOrdered, StreamIntact, pushVars
  <2>5. QED BY <1>1, <2>2, <2>4 DEF IInv
<1>3. ASSUME NEW len \in FrameLens, pushDataAccept(len) PROVE IInv'
  BY <1>3, AcceptIInv
<1>4. CASE pushDataDrop
  BY <1>2, <1>4 DEF pushDataDrop, pipeVars
<1>5. CASE PushThread
  BY <1>5, PopIInv, WriteIInv, HandIInv DEF PushThread
<1>6. CASE startSelf \/ establishAndRunServer
  BY <1>2, <1>6 DEF startSelf, establishAndRunServer, ServerFails,
     PublishSubsession, EnterEventLoop, pipeVars
<1>7. ASSUME NEW v \in Viewers, createNewStreamSource(v) \/ closeStreamSource(v)
      PROVE  IInv'
  BY <1>2, <1>7 DEF createNewStreamSource, closeStreamSource, pipeVars
<1>8. CASE ReadChunk
  BY <1>2, <1>8 DEF ReadChunk
<1>9. CASE UNCHANGED vars
  BY <1>2, <1>9 DEF vars, pushVars
<1>10. QED
  BY <1>3, <1>4, <1>5, <1>6, <1>7, <1>8, <1>9 DEF Next, pushData

(* The inductive invariant holds in every reachable state.                *)
LEMMA InvariantIInv == Spec => []IInv
  BY InitIInv, StepIInv, PTL DEF Spec

(* The bytes a viewer parses are whole frames in order, however the pushes *)
(* of the encoder, the writes, the reads and the sessions interleave.      *)
THEOREM StreamAlwaysIntact == Spec => []StreamIntact
<1>1. IInv => StreamIntact
  BY DEF IInv
<1>2. QED BY <1>1, InvariantIInv, PTL
-----------------------------------------------------------------------------
(* The queue of the lossy channel, computed from the list and the hand.    *)
LEMMA InFlightType ==
  ASSUME NEW l \in Seq(Frame), NEW h \in Nat, NEW n \in {0, 1}
  PROVE  /\ InFlight(l, h, n) \in Seq(Nat)
         /\ Len(InFlight(l, h, n)) = Len(l) + n
         /\ \A i \in 1..(Len(l) + n) :
              InFlight(l, h, n)[i] = IF i <= n THEN h ELSE l[i - n].id
<1> DEFINE m == Len(l) + n
           q == InFlight(l, h, n)
<1>1. m \in Nat /\ Len(l) \in Nat
  BY LenProperties
<1>2. \A i \in 1..Len(l) : l[i].id \in Nat
  <2> TAKE i \in 1..Len(l)
  <2>1. l[i] \in Frame
    BY ElementOfSeq
  <2>2. QED BY <2>1 DEF Frame
<1>3. \A i \in 1..m : (IF i <= n THEN h ELSE l[i - n].id) \in Nat
  <2> TAKE i \in 1..m
  <2>1. ~(i <= n) => i - n \in 1..Len(l)
    BY <1>1
  <2>2. QED BY <1>2, <2>1
<1>4. q \in [1..m -> Nat]
  BY <1>3 DEF InFlight
<1>5. q \in Seq(Nat)
  BY <1>1, <1>4, SeqDef
<1>6. Len(q) = m
  BY <1>1, <1>4, <1>5, LenProperties
<1>7. QED BY <1>5, <1>6 DEF InFlight

(* Popping the list into the empty hand leaves the frames in flight alone. *)
LEMMA InFlightPop ==
  ASSUME NEW l \in Seq(Frame), NEW h \in Nat, l # <<>>
  PROVE  InFlight(Tail(l), Head(l).id, 1) = InFlight(l, h, 0)
<1>1. /\ Tail(l) \in Seq(Frame) /\ Len(Tail(l)) = Len(l) - 1
      /\ \A i \in 1..Len(Tail(l)) : Tail(l)[i] = l[i + 1]
      /\ Head(l) = l[1] /\ Head(l).id \in Nat /\ Len(l) \in Nat \ {0}
  <2>1. Head(l) \in Frame
    BY HeadTailProperties
  <2>2. QED BY <2>1, HeadTailProperties, EmptySeq DEF Frame
<1> DEFINE a == InFlight(Tail(l), Head(l).id, 1)
           b == InFlight(l, h, 0)
<1>2. /\ a \in Seq(Nat) /\ Len(a) = Len(l)
      /\ \A i \in 1..Len(l) :
           a[i] = IF i <= 1 THEN Head(l).id ELSE Tail(l)[i - 1].id
  <2>1. Len(Tail(l)) + 1 = Len(l)
    BY <1>1
  <2>2. /\ a \in Seq(Nat) /\ Len(a) = Len(Tail(l)) + 1
        /\ \A i \in 1..(Len(Tail(l)) + 1) :
             a[i] = IF i <= 1 THEN Head(l).id ELSE Tail(l)[i - 1].id
    BY <1>1, InFlightType
  <2>3. QED BY <2>1, <2>2
<1>3. /\ b \in Seq(Nat) /\ Len(b) = Len(l)
      /\ \A i \in 1..Len(l) : b[i] = l[i].id
  <2>1. Len(l) + 0 = Len(l) /\ \A i \in 1..Len(l) : ~(i <= 0) /\ i - 0 = i
    BY <1>1
  <2>2. QED BY <2>1, InFlightType
<1>4. \A i \in 1..Len(l) : a[i] = b[i]
  <2> TAKE i \in 1..Len(l)
  <2>1. CASE i = 1
    BY <2>1, <1>1, <1>2, <1>3
  <2>2. CASE i # 1
    <3>1. i - 1 \in 1..Len(Tail(l)) /\ ~(i <= 1) /\ (i - 1) + 1 = i
      BY <2>2, <1>1
    <3>2. Tail(l)[i - 1] = l[i]
      BY <3>1, <1>1
    <3>3. QED BY <3>1, <3>2, <1>2, <1>3
  <2>3. QED BY <2>1, <2>2
<1> HIDE DEF a, b
<1>5. a = b
  BY <1>2, <1>3, <1>4, SeqEqual
<1>6. QED BY <1>5 DEF a, b

(* A frame appended to the list is the last in flight.                    *)
LEMMA InFlightAppend ==
  ASSUME NEW l \in Seq(Frame), NEW h \in Nat, NEW n \in {0, 1}, NEW f \in Frame
  PROVE  InFlight(Append(l, f), h, n) = Append(InFlight(l, h, n), f.id)
<1> DEFINE q == InFlight(l, h, n)
           a == InFlight(Append(l, f), h, n)
           b == Append(q, f.id)
           m == Len(l)
<1>1. f.id \in Nat /\ m \in Nat
  BY LenProperties DEF Frame
<1>2. /\ Append(l, f) \in Seq(Frame) /\ Len(Append(l, f)) = m + 1
      /\ \A i \in 1..m : Append(l, f)[i] = l[i]
      /\ Append(l, f)[m + 1] = f
  BY AppendProperties
<1>3. /\ q \in Seq(Nat) /\ Len(q) = m + n
      /\ \A i \in 1..(m + n) : q[i] = IF i <= n THEN h ELSE l[i - n].id
  BY InFlightType
<1>4. /\ a \in Seq(Nat) /\ Len(a) = m + 1 + n
      /\ \A i \in 1..(m + 1 + n) :
           a[i] = IF i <= n THEN h ELSE Append(l, f)[i - n].id
  BY <1>2, InFlightType
<1> HIDE DEF q, a
<1>5. /\ b \in Seq(Nat) /\ Len(b) = m + n + 1
      /\ \A i \in 1..(m + n) : b[i] = q[i]
      /\ b[m + n + 1] = f.id
  <2>1. m + n \in Nat
    BY <1>1
  <2>2. QED BY <1>1, <1>3, <2>1, AppendProperties
<1> HIDE DEF b
<1>6. \A i \in 1..(m + n + 1) : a[i] = b[i]
  <2> TAKE i \in 1..(m + n + 1)
  <2>1. CASE i = m + n + 1
    BY <2>1, <1>1, <1>2, <1>4, <1>5
  <2>2. CASE i # m + n + 1 /\ i <= n
    <3>1. i \in 1..(m + n) /\ i \in 1..(m + 1 + n)
      BY <2>2, <1>1
    <3>2. QED BY <2>2, <3>1, <1>3, <1>4, <1>5
  <2>3. CASE i # m + n + 1 /\ ~(i <= n)
    <3>1. i - n \in 1..m /\ i \in 1..(m + n) /\ i \in 1..(m + 1 + n)
      BY <2>3, <1>1
    <3>2. QED BY <2>3, <3>1, <1>2, <1>3, <1>4, <1>5
  <2>4. QED BY <2>1, <2>2, <2>3
<1>7. a = b
  <2>1. m + 1 + n = m + n + 1
    BY <1>1
  <2>2. QED BY <2>1, <1>4, <1>5, <1>6, SeqEqual
<1>8. QED BY <1>7 DEF a, b, q

(* The frame in hand is the first in flight; without it the list is left. *)
LEMMA InFlightDone ==
  ASSUME NEW l \in Seq(Frame), NEW h \in Nat, NEW g \in Nat
  PROVE  /\ InFlight(l, h, 1) # <<>>
         /\ Head(InFlight(l, h, 1)) = h
         /\ Tail(InFlight(l, h, 1)) = InFlight(l, g, 0)
<1> DEFINE q == InFlight(l, h, 1)
           a == Tail(q)
           b == InFlight(l, g, 0)
           m == Len(l)
<1>1. m \in Nat
  BY LenProperties
<1>2. /\ q \in Seq(Nat) /\ Len(q) = m + 1
      /\ \A i \in 1..(m + 1) : q[i] = IF i <= 1 THEN h ELSE l[i - 1].id
  BY InFlightType
<1>3. /\ b \in Seq(Nat) /\ Len(b) = m
      /\ \A i \in 1..m : b[i] = l[i].id
  BY <1>1, InFlightType
<1> HIDE DEF q, b
<1>4. q # <<>>
  BY <1>1, <1>2, EmptySeq
<1>5. /\ a \in Seq(Nat) /\ Len(a) = m
      /\ \A i \in 1..m : a[i] = q[i + 1]
      /\ Head(q) = q[1]
  BY <1>1, <1>2, <1>4, HeadTailProperties
<1>6. \A i \in 1..m : a[i] = b[i]
  <2> TAKE i \in 1..m
  <2>1. i + 1 \in 1..(m + 1) /\ ~(i + 1 <= 1) /\ (i + 1) - 1 = i
    BY <1>1
  <2>2. QED BY <2>1, <1>2, <1>3, <1>5
<1> HIDE DEF a
<1>7. a = b
  BY <1>3, <1>5, <1>6, SeqEqual
<1>8. q[1] = h
  BY <1>1, <1>2
<1>9. QED BY <1>4, <1>5, <1>7, <1>8 DEF a, b, q
-----------------------------------------------------------------------------
(* The initial state maps to the empty, closed channel. *)
LEMMA ChanInit == Init => Chan!Init
<1> SUFFICES ASSUME Init PROVE Chan!Init
  OBVIOUS
<1>1. list \in Seq(Frame) /\ Len(list) + 0 = 0
  BY EmptySeq DEF Init
<1>2. ChanQueue \in Seq(Nat) /\ Len(ChanQueue) = 0
  <2>1. ChanQueue = InFlight(list, 0, 0)
    BY DEF Init, ChanQueue, NoFrame
  <2>2. QED BY <1>1, <2>1, InFlightType
<1>3. ChanQueue = <<>>
  BY <1>2, EmptySeq
<1>4. next - 1 = 0 /\ sent = <<>> /\ (srv = "serving") = FALSE
  BY DEF Init
<1>5. QED BY <1>3, <1>4 DEF Chan!Init

(* pushData accepts: the channel had room. *)
LEMMA ChanAccept ==
  ASSUME IInv, NEW len \in FrameLens, pushDataAccept(len)
  PROVE  Chan!Accept
<1> DEFINE f == [id |-> next, len |-> len]
           n == IF pc = "poll" THEN 0 ELSE 1
<1>1. TypeOK /\ next \in Nat /\ held.id \in Nat /\ list \in Seq(Frame)
      /\ Len(list) \in Nat /\ Cap \in Nat
  BY Numbers, LiveAssumption DEF IInv, TypeOK
<1>2. f \in Frame /\ f.id = next /\ list' = Append(list, f) /\ next' = next + 1
  BY <1>1, LiveAssumption DEF pushDataAccept, Frame, TypeOK
<1>3. ChanQueue' = Append(ChanQueue, next)
  <2>1. n \in {0, 1} /\ held' = held /\ pc' = pc
    BY DEF pushDataAccept, pushVars
  <2> HIDE DEF f
  <2>2. QED BY <1>1, <1>2, <2>1, InFlightAppend DEF ChanQueue
<1>4. Len(ChanQueue) <= Cap
  <2>1. n \in {0, 1} /\ Len(ChanQueue) = Len(list) + n
    BY <1>1, InFlightType DEF ChanQueue
  <2>2. Len(list) < Cap
    BY DEF pushDataAccept
  <2>3. QED BY <1>1, <2>1, <2>2
<1>5. next' - 1 = (next - 1) + 1 /\ next' - 1 = next
  BY <1>1, <1>2
<1>6. sent' = sent /\ (srv = "serving")' = (srv = "serving")
  BY DEF pushDataAccept
<1>7. QED BY <1>3, <1>4, <1>5, <1>6 DEF Chan!Accept

(* pushData turns a frame away: the channel was full. *)
LEMMA ChanDrop ==
  ASSUME IInv, pushDataDrop
  PROVE  Chan!Drop
<1>1. TypeOK /\ next \in Nat /\ held.id \in Nat /\ list \in Seq(Frame)
      /\ Len(list) \in Nat /\ Cap \in Nat
  BY Numbers, LiveAssumption DEF IInv, TypeOK
<1> DEFINE n == IF pc = "poll" THEN 0 ELSE 1
<1>2. Len(ChanQueue) >= Cap
  <2>1. n \in {0, 1} /\ Len(ChanQueue) = Len(list) + n
    BY <1>1, InFlightType DEF ChanQueue
  <2>2. QED BY <1>1, <2>1 DEF pushDataDrop
<1>3. next' - 1 = (next - 1) + 1
  BY <1>1 DEF pushDataDrop
<1>4. UNCHANGED <<list, held, pc, sent, srv>>
  BY DEF pushDataDrop, pushVars
<1>5. ChanQueue' = ChanQueue
  BY <1>4 DEF ChanQueue
<1>6. QED BY <1>2, <1>3, <1>4, <1>5 DEF Chan!Drop

(* Popping the list only moves the channel's front frame into the hand. *)
LEMMA ChanPop ==
  ASSUME IInv, PopFront
  PROVE  UNCHANGED Chan!chanVars
<1>1. /\ list \in Seq(Frame) /\ list # <<>> /\ held.id \in Nat
      /\ list' = Tail(list) /\ held' = Head(list)
      /\ pc = "poll" /\ pc' = "test"
  BY Numbers DEF IInv, TypeOK, PopFront
<1>2. ChanQueue' = ChanQueue
  BY <1>1, InFlightPop DEF ChanQueue
<1>3. UNCHANGED <<next, sent, srv>>
  BY DEF PopFront
<1>4. QED BY <1>2, <1>3 DEF Chan!chanVars

(* The frame in hand leaves the channel: discarded before the event loop   *)
(* runs, delivered when it has been written.                               *)
LEMMA ChanLeave ==
  ASSUME IInv, DiscardFrame \/ PushDone
  PROVE  Chan!Discard \/ Chan!Deliver
<1>1. /\ list \in Seq(Frame) /\ held.id \in Nat /\ held'.id = 0
      /\ pc # "poll" /\ pc' = "poll" /\ list' = list
  BY Numbers DEF IInv, TypeOK, DiscardFrame, PushDone, NoFrame
<1>2. /\ ChanQueue # <<>> /\ Head(ChanQueue) = held.id
      /\ ChanQueue' = Tail(ChanQueue)
  BY <1>1, InFlightDone DEF ChanQueue
<1>3. UNCHANGED <<next, srv>>
  BY DEF DiscardFrame, PushDone
<1>4. CASE DiscardFrame
  <2>1. srv # "serving" /\ sent' = sent
    BY <1>4 DEF DiscardFrame
  <2>2. QED BY <1>2, <1>3, <2>1 DEF Chan!Discard
<1>5. CASE PushDone
  <2>1. sent' = Append(sent, held.id)
    BY <1>5 DEF PushDone
  <2>2. QED BY <1>2, <1>3, <2>1 DEF Chan!Deliver
<1>6. QED BY <1>4, <1>5

(* Every step of the element is a step of the channel or a stutter.       *)
LEMMA ChanStep == IInv /\ [Next]_vars => [Chan!Next]_(Chan!chanVars)
<1> SUFFICES ASSUME IInv, [Next]_vars PROVE [Chan!Next]_(Chan!chanVars)
  OBVIOUS
<1>1. ASSUME UNCHANGED <<next, list, held, sent, srv>>, pc' = pc \/ (pc = "test" /\ pc' = "write")
      PROVE  UNCHANGED Chan!chanVars
  BY <1>1 DEF Chan!chanVars, ChanQueue
<1>2. ASSUME UNCHANGED <<next, list, held, pc, sent>>, srv # "serving"
      PROVE  Chan!Open \/ UNCHANGED Chan!chanVars
  <2>1. ChanQueue' = ChanQueue
    BY <1>2 DEF ChanQueue
  <2>2. CASE srv' = "serving"
    BY <1>2, <2>1, <2>2 DEF Chan!Open
  <2>3. CASE srv' # "serving"
    BY <1>2, <2>1, <2>3 DEF Chan!chanVars
  <2>4. QED BY <2>2, <2>3
<1>3. CASE pushData
  BY <1>3, ChanAccept, ChanDrop DEF pushData, Chan!Next
<1>4. CASE PushThread
  <2>1. CASE EnterPushPkg \/ WriteChunk
    BY <1>1, <2>1 DEF EnterPushPkg, WriteChunk
  <2>2. CASE PopFront \/ DiscardFrame \/ PushDone
    BY <2>2, ChanPop, ChanLeave DEF Chan!Next
  <2>3. QED BY <1>4, <2>1, <2>2 DEF PushThread
<1>5. CASE startSelf \/ establishAndRunServer
  BY <1>2, <1>5 DEF startSelf, establishAndRunServer, ServerFails,
     PublishSubsession, EnterEventLoop, pushVars, Chan!Next
<1>6. CASE \E v \in Viewers : createNewStreamSource(v) \/ closeStreamSource(v)
  <2>1. UNCHANGED <<next, list, held, sent, srv>> /\ pc' = pc
    BY <1>6 DEF createNewStreamSource, closeStreamSource, pushVars
  <2>2. QED BY <2>1 DEF Chan!chanVars, ChanQueue
<1>7. CASE ReadChunk \/ UNCHANGED vars
  <2>1. UNCHANGED <<next, list, held, sent, srv>> /\ pc' = pc
    BY <1>7 DEF ReadChunk, pushVars, vars
  <2>2. QED BY <2>1 DEF Chan!chanVars, ChanQueue
<1>8. QED BY <1>3, <1>4, <1>5, <1>6, <1>7 DEF Next

(* The element is a lossy first-in first-out channel for its encoder.      *)
THEOREM Refinement == Spec => ImplementsChannel
  BY ChanInit, ChanStep, InvariantIInv, PTL DEF Spec, ImplementsChannel, Chan!Spec
-----------------------------------------------------------------------------
(* The numbers in a list after push_back.                                 *)
LEMMA IdsAppend ==
  ASSUME NEW l \in Seq(Frame), NEW f \in Frame
  PROVE  Ids(Append(l, f)) = Ids(l) \cup {f.id}
<1>1. /\ Len(l) \in Nat /\ DOMAIN l = 1..Len(l)
      /\ DOMAIN Append(l, f) = 1..(Len(l) + 1)
      /\ \A i \in 1..Len(l) : Append(l, f)[i] = l[i]
      /\ Append(l, f)[Len(l) + 1] = f
  BY AppendProperties, LenProperties
<1>2. QED BY <1>1 DEF Ids

(* The numbers in a list are its front and those of its tail.             *)
LEMMA IdsTail ==
  ASSUME NEW l \in Seq(Frame), l # <<>>
  PROVE  Ids(l) = Ids(Tail(l)) \cup {Head(l).id}
<1>1. /\ Len(l) \in Nat \ {0} /\ DOMAIN l = 1..Len(l)
      /\ Tail(l) \in Seq(Frame) /\ DOMAIN Tail(l) = 1..(Len(l) - 1)
      /\ \A i \in 1..(Len(l) - 1) : Tail(l)[i] = l[i + 1]
      /\ Head(l) = l[1]
  BY HeadTailProperties, LenProperties, EmptySeq
<1>2. ASSUME NEW x \in Ids(l) PROVE x \in Ids(Tail(l)) \cup {Head(l).id}
  <2>1. PICK i \in 1..Len(l) : x = l[i].id
    BY <1>1 DEF Ids
  <2>2. CASE i = 1
    BY <1>1, <2>1, <2>2
  <2>3. CASE i # 1
    <3>1. i - 1 \in 1..(Len(l) - 1) /\ Tail(l)[i - 1] = l[i]
      BY <1>1, <2>3
    <3>2. QED BY <1>1, <2>1, <3>1 DEF Ids
  <2>4. QED BY <2>2, <2>3
<1>3. ASSUME NEW x \in Ids(Tail(l)) PROVE x \in Ids(l)
  <2>1. PICK i \in 1..(Len(l) - 1) : x = Tail(l)[i].id
    BY <1>1 DEF Ids
  <2>2. i + 1 \in 1..Len(l) /\ x = l[i + 1].id
    BY <1>1, <2>1
  <2>3. QED BY <1>1, <2>2 DEF Ids
<1>4. Head(l).id \in Ids(l)
  <2>1. 1 \in 1..Len(l)
    BY <1>1
  <2>2. QED BY <1>1, <2>1 DEF Ids
<1>5. QED BY <1>2, <1>3, <1>4

(* Before the first frame there is nothing to account for.                *)
LEMMA OneFateInit == Init => OneFate
<1> SUFFICES ASSUME Init PROVE OneFate
  OBVIOUS
<1>1. Ids(<<>>) = {} /\ {(<<>>)[i] : i \in DOMAIN <<>>} = {}
  BY DEF Ids
<1>2. 1..(1 - 1) = {}
  OBVIOUS
<1>3. QED BY <1>1, <1>2 DEF Init, OneFate, InHand

(* Every handler keeps the account of the frames.                         *)
LEMMA OneFateStep ==
  ASSUME IInv, OneFate, [Next]_vars
  PROVE  OneFate'
<1> USE LiveAssumption
<1> DEFINE done == {sent[i] : i \in DOMAIN sent}
<1>1. /\ TypeOK /\ next \in Nat /\ held.id \in Nat /\ Len(list) \in Nat
      /\ DOMAIN list = 1..Len(list) /\ list \in Seq(Frame)
  BY Numbers, LenProperties DEF IInv, TypeOK
<1>2. /\ heap = Ids(list) \cup InHand
      /\ 1..(next - 1) = heap \cup dropped \cup discarded \cup done
      /\ heap \cap (dropped \cup discarded \cup done) = {}
      /\ dropped \cap (discarded \cup done) = {}
      /\ discarded \cap done = {}
  BY DEF OneFate
<1>3. ASSUME UNCHANGED <<next, heap, dropped, discarded, sent>>,
             Ids(list)' \cup InHand' = Ids(list) \cup InHand
      PROVE  OneFate'
  BY <1>2, <1>3 DEF OneFate
<1>4. next \notin 1..(next - 1) /\ 1..((next + 1) - 1) = (1..(next - 1)) \cup {next}
  BY <1>1 DEF TypeOK
<1>5. ASSUME NEW len \in FrameLens, pushDataAccept(len) PROVE OneFate'
  <2> DEFINE f == [id |-> next, len |-> len]
  <2>1. f \in Frame /\ f.id = next
    BY <1>1 DEF Frame, TypeOK
  <2>2. Ids(list)' = Ids(list) \cup {next}
    BY <1>1, <1>5, <2>1, IdsAppend DEF pushDataAccept
  <2>3. /\ heap' = heap \cup {next} /\ next' = next + 1 /\ InHand' = InHand
        /\ UNCHANGED <<dropped, discarded, sent>>
    BY <1>5 DEF pushDataAccept, InHand, pushVars
  <2>4. QED BY <1>2, <1>4, <2>2, <2>3 DEF OneFate
<1>6. CASE pushDataDrop
  <2>1. /\ dropped' = dropped \cup {next} /\ next' = next + 1 /\ InHand' = InHand
        /\ UNCHANGED <<list, heap, discarded, sent>>
    BY <1>6 DEF pushDataDrop, InHand, pushVars
  <2>2. Ids(list)' = Ids(list)
    BY <2>1
  <2>3. QED BY <1>2, <1>4, <2>1, <2>2 DEF OneFate
<1>7. CASE PopFront
  <2>1. Ids(list) = Ids(list') \cup {held'.id}
    BY <1>1, <1>7, IdsTail DEF PopFront
  <2>2. InHand = {} /\ InHand' = {held'.id}
    BY <1>7 DEF PopFront, InHand
  <2>3. UNCHANGED <<next, heap, dropped, discarded, sent>>
    BY <1>7 DEF PopFront
  <2>4. QED BY <1>3, <2>1, <2>2, <2>3
<1>8. ASSUME DiscardFrame \/ PushDone
      PROVE  /\ Ids(list)' = Ids(list) /\ InHand = {held.id} /\ InHand' = {}
             /\ heap' = heap \ {held.id} /\ held.id \notin Ids(list)
  <2>1. pc # "poll" /\ pc' = "poll" /\ list' = list /\ heap' = heap \ {held.id}
    BY <1>8 DEF DiscardFrame, PushDone
  <2>2. \A i \in 1..Len(list) : held.id < list[i].id /\ list[i].id \in Nat
    BY <1>1, <2>1, Numbers DEF IInv, HandOrdered
  <2>3. held.id \notin Ids(list)
    BY <1>1, <2>2 DEF Ids
  <2>4. QED BY <2>1, <2>3 DEF InHand
<1>9. CASE DiscardFrame
  <2>1. discarded' = discarded \cup {held.id} /\ UNCHANGED <<next, dropped, sent>>
    BY <1>9 DEF DiscardFrame
  <2>2. QED BY <1>2, <1>8, <1>9, <2>1 DEF OneFate
<1>10. CASE PushDone
  <2>1. sent' = Append(sent, held.id) /\ UNCHANGED <<next, dropped, discarded>>
    BY <1>10 DEF PushDone
  <2>2. /\ Len(sent) \in Nat /\ DOMAIN sent = 1..Len(sent)
        /\ DOMAIN sent' = 1..(Len(sent) + 1)
        /\ \A i \in 1..Len(sent) : sent'[i] = sent[i]
        /\ sent'[Len(sent) + 1] = held.id
    BY <1>1, <2>1, AppendProperties, LenProperties DEF TypeOK
  <2>3. {sent'[i] : i \in DOMAIN sent'} = done \cup {held.id}
    BY <2>2
  <2>4. QED BY <1>2, <1>8, <1>10, <2>1, <2>3 DEF OneFate
<1>11. CASE EnterPushPkg \/ WriteChunk
  <2>1. UNCHANGED <<next, heap, dropped, discarded, sent, list, held>>
    BY <1>11 DEF EnterPushPkg, WriteChunk
  <2>2. InHand' = InHand
    BY <1>11, <2>1 DEF EnterPushPkg, WriteChunk, InHand
  <2>3. QED BY <1>3, <2>1, <2>2
<1>12. ASSUME UNCHANGED <<next, heap, dropped, discarded, sent, list, pushVars>>
       PROVE  OneFate'
  BY <1>3, <1>12 DEF InHand, pushVars
<1>13. CASE startSelf \/ establishAndRunServer
  BY <1>12, <1>13 DEF startSelf, establishAndRunServer, ServerFails,
     PublishSubsession, EnterEventLoop
<1>14. ASSUME NEW v \in Viewers, createNewStreamSource(v) \/ closeStreamSource(v)
       PROVE  OneFate'
  BY <1>12, <1>14 DEF createNewStreamSource, closeStreamSource
<1>15. CASE ReadChunk
  BY <1>12, <1>15 DEF ReadChunk
<1>16. CASE UNCHANGED vars
  BY <1>12, <1>16 DEF vars, pushVars
<1>17. QED
  BY <1>5, <1>6, <1>7, <1>9, <1>10, <1>11, <1>13, <1>14, <1>15, <1>16
     DEF Next, pushData, PushThread

(* No buffer is leaked or freed twice, and no frame vanishes unaccounted.  *)
THEOREM FramesAccounted == Spec => []OneFate
<1>1. IInv /\ OneFate /\ [Next]_vars => OneFate'
  BY OneFateStep
<1>2. QED BY <1>1, OneFateInit, InvariantIInv, PTL DEF Spec
-----------------------------------------------------------------------------
(* The pipe never holds more chunks than it has room for.                 *)
PipeBounded == rd <= Len(wire) /\ Len(wire) - rd <= PipeCap

LEMMA PipeInit == Init => PipeBounded
  BY LiveAssumption, EmptySeq DEF Init, PipeBounded

LEMMA PipeStep == TypeOK /\ PipeBounded /\ [Next]_vars => PipeBounded'
<1> SUFFICES ASSUME TypeOK, PipeBounded, [Next]_vars PROVE PipeBounded'
  OBVIOUS
<1>1. rd \in Nat /\ Len(wire) \in Nat /\ PipeCap \in Nat
  BY LiveAssumption, Numbers DEF TypeOK
<1>2. CASE WriteChunk
  <2>1. /\ rd' = rd /\ Len(wire) - rd < PipeCap /\ off < held.len
        /\ wire' = Append(wire, [id |-> held.id, pos |-> off + 1, len |-> held.len])
    BY <1>2 DEF WriteChunk
  <2>2. held \in Frame
    BY <1>2 DEF TypeOK, WriteChunk, NoFrame
  <2>3. [id |-> held.id, pos |-> off + 1, len |-> held.len] \in Chunk
    BY <2>2 DEF Frame, Chunk, TypeOK
  <2>4. Len(wire') = Len(wire) + 1
    BY <2>1, <2>3, AppendProperties DEF TypeOK
  <2>5. QED BY <1>1, <2>1, <2>4 DEF PipeBounded
<1>3. CASE ReadChunk
  BY <1>1, <1>3 DEF ReadChunk, PipeBounded
<1>4. CASE ~WriteChunk /\ ~ReadChunk
  <2>1. wire' = wire /\ rd' = rd
    BY <1>4 DEF Next, pushData, pushDataAccept, pushDataDrop, PushThread, PopFront,
       DiscardFrame, EnterPushPkg, PushDone, startSelf, establishAndRunServer,
       ServerFails, PublishSubsession, EnterEventLoop, createNewStreamSource,
       closeStreamSource, pipeVars, vars
  <2>2. QED BY <2>1 DEF PipeBounded
<1>5. QED BY <1>2, <1>3, <1>4

(* Places a + 1 to b of a sequence hold no more than b - a numbers.       *)
LEMMA FewNumbers ==
  ASSUME NEW s, NEW a \in Nat, NEW b \in Nat, a <= b
  PROVE  /\ IsFiniteSet({s[i].id : i \in (a + 1)..b})
         /\ Cardinality({s[i].id : i \in (a + 1)..b}) \in Nat
         /\ Cardinality({s[i].id : i \in (a + 1)..b}) <= b - a
<1> DEFINE I == (a + 1)..b
           T == {s[i].id : i \in I}
           f == [i \in I |-> s[i].id]
<1>1. IsFiniteSet(I) /\ Cardinality(I) = b - a
  <2>1. a + 1 \in Int /\ b \in Int
    OBVIOUS
  <2>2. /\ IsFiniteSet(I)
        /\ Cardinality(I) = IF a + 1 > b THEN 0 ELSE b - (a + 1) + 1
    BY <2>1, FS_Interval
  <2> HIDE DEF I
  <2>3. QED BY <2>2
<1>2. f \in Surjection(I, T)
  BY DEF Surjection
<1> HIDE DEF I, T, f
<1>3. IsFiniteSet(T) /\ Cardinality(T) <= Cardinality(I)
  BY <1>1, <1>2, FS_Surjection
<1>4. Cardinality(T) \in Nat
  BY <1>3, FS_CardinalityType
<1>5. IsFiniteSet(T) /\ Cardinality(T) \in Nat /\ Cardinality(T) <= b - a
  BY <1>1, <1>3, <1>4
<1>6. QED BY <1>5 DEF I, T

(* The list, the hand and the pipe hold so many at most.                  *)
LEMMA BacklogSmall == IInv /\ OneFate /\ PipeBounded => BacklogBounded
<1> SUFFICES ASSUME IInv, OneFate, PipeBounded PROVE BacklogBounded
  OBVIOUS
<1> DEFINE L == {list[i].id : i \in (0 + 1)..Len(list)}
           W == {wire[i].id : i \in (rd + 1)..Len(wire)}
<1>1. /\ Len(list) \in Nat /\ Len(list) <= Cap /\ Cap \in Nat /\ PipeCap \in Nat
      /\ rd \in Nat /\ Len(wire) \in Nat /\ rd <= Len(wire)
  BY LiveAssumption, Numbers DEF IInv, TypeOK, ListOrdered, PipeBounded
<1>2. IsFiniteSet(L) /\ Cardinality(L) \in Nat /\ Cardinality(L) <= Len(list)
  <2>0. 0 \in Nat /\ 0 <= Len(list)
    BY <1>1
  <2>1. /\ IsFiniteSet(L) /\ Cardinality(L) \in Nat
        /\ Cardinality(L) <= Len(list) - 0
    BY ONLY <1>1, <2>0, FewNumbers, Zenon
  <2>2. QED BY <1>1, <2>1
<1>3. IsFiniteSet(W) /\ Cardinality(W) \in Nat /\ Cardinality(W) <= PipeCap
  <2>1. /\ IsFiniteSet(W) /\ Cardinality(W) \in Nat
        /\ Cardinality(W) <= Len(wire) - rd
    BY <1>1, FewNumbers
  <2> HIDE DEF W
  <2>2. QED BY <1>1, <2>1 DEF PipeBounded
<1>4. IsFiniteSet(InHand) /\ Cardinality(InHand) \in {0, 1}
  BY FS_EmptySet, FS_Singleton DEF InHand
<1>5. heap = L \cup InHand
  <2>1. DOMAIN list = 1..Len(list)
    BY LenProperties DEF IInv, TypeOK
  <2>2. Ids(list) = L
    BY <2>1 DEF Ids
  <2>3. QED BY <2>2 DEF OneFate
<1> HIDE DEF L, W
<1>6. /\ IsFiniteSet(heap) /\ Cardinality(heap) \in Nat
      /\ Cardinality(heap) <= Cardinality(L) + Cardinality(InHand)
  <2>1. IsFiniteSet(L \cap InHand)
    BY <1>4, FS_Subset
  <2>2. Cardinality(L \cap InHand) \in Nat
    BY <2>1, FS_CardinalityType
  <2>3. QED BY <1>2, <1>4, <1>5, <2>2, FS_Union, FS_CardinalityType
<1>7. Cardinality(heap \cup W) <= Cardinality(heap) + Cardinality(W)
  <2>1. IsFiniteSet(heap \cap W)
    BY <1>6, FS_Subset
  <2>2. Cardinality(heap \cap W) \in Nat
    BY <2>1, FS_CardinalityType
  <2>3. QED BY <1>3, <1>6, <2>2, FS_Union
<1>8. Cardinality(heap \cup W) \in Nat
  BY <1>3, <1>6, FS_Union, FS_CardinalityType
<1>9. Cardinality(heap \cup W) <= Cap + 1 + PipeCap
  BY <1>1, <1>2, <1>3, <1>4, <1>6, <1>7, <1>8
<1>10. QED BY <1>9 DEF BacklogBounded, W

(* However long nobody was watching, a viewer who connects is behind the  *)
(* encoder by no more frames than the list, the hand and the pipe hold    *)
(* (mPushBuffList.size()<10 and the blocking write of pushPkg).           *)
THEOREM BoundedBacklog == Spec => []BacklogBounded
<1>1. IInv => TypeOK
  BY DEF IInv
<1>2. Spec => []PipeBounded
  BY <1>1, PipeInit, PipeStep, InvariantIInv, PTL DEF Spec
<1>3. QED BY <1>2, BacklogSmall, FramesAccounted, InvariantIInv, PTL
-----------------------------------------------------------------------------
(* The lossy channel keeps its promise of order, whatever it loses.       *)

(* The empty channel is in order.                                         *)
LEMMA ChannelInit == Chan!Init => Chan!TypeOK /\ Chan!InOrder
<1> SUFFICES ASSUME Chan!Init PROVE Chan!TypeOK /\ Chan!InOrder
  OBVIOUS
<1>1. Len(<<>>) = 0 /\ <<>> \in Seq(Nat)
  BY EmptySeq
<1>2. Chan!TypeOK
  <2>1. (srv = "serving") \in BOOLEAN
    BY DEF Chan!Init
  <2>2. QED BY <1>1, <2>1 DEF Chan!Init, Chan!TypeOK
<1>3. Chan!InOrder
  BY <1>1 DEF Chan!Init, Chan!InOrder, Chan!Ordered
<1>4. QED BY <1>2, <1>3

(* A new frame is numbered above all that were offered before.            *)
LEMMA AcceptStep ==
  ASSUME Chan!TypeOK, Chan!InOrder, Chan!Accept
  PROVE  Chan!TypeOK' /\ Chan!InOrder'
<1>1. /\ (next - 1)' = (next - 1) + 1 /\ (next - 1)' \in Nat /\ (next - 1) \in Nat
      /\ sent' = sent /\ (srv = "serving")' = (srv = "serving") /\ ChanQueue' = Append(ChanQueue, (next - 1) + 1)
  BY DEF Chan!Accept, Chan!TypeOK
<1>2. /\ ChanQueue' \in Seq(Nat) /\ Len(ChanQueue') = Len(ChanQueue) + 1 /\ Len(ChanQueue) \in Nat
      /\ \A i \in 1..Len(ChanQueue) : ChanQueue'[i] = ChanQueue[i] /\ ChanQueue[i] \in Nat
      /\ ChanQueue'[Len(ChanQueue) + 1] = (next - 1) + 1
  BY <1>1, AppendProperties, LenProperties, ElementOfSeq DEF Chan!TypeOK
<1>3. \A i \in 1..Len(sent) : sent[i] \in Nat /\ sent[i] <= (next - 1)
  BY ElementOfSeq DEF Chan!TypeOK, Chan!InOrder
<1>4. Chan!TypeOK'
  BY <1>1, <1>2 DEF Chan!TypeOK
<1>5. Chan!Ordered(ChanQueue)' /\ \A j \in 1..Len(ChanQueue') : ChanQueue'[j] <= (next - 1)'
  BY <1>1, <1>2 DEF Chan!InOrder, Chan!Ordered
<1>6. \A i \in 1..Len(sent'), j \in 1..Len(ChanQueue') : sent'[i] < ChanQueue'[j]
  BY <1>1, <1>2, <1>3 DEF Chan!InOrder
<1>7. Chan!Ordered(sent)' /\ \A i \in 1..Len(sent') : sent'[i] <= (next - 1)'
  BY <1>1, <1>3 DEF Chan!InOrder, Chan!Ordered
<1>8. QED BY <1>4, <1>5, <1>6, <1>7 DEF Chan!InOrder

(* The oldest frame in the channel is above all that were delivered.      *)
LEMMA LeaveStep ==
  ASSUME Chan!TypeOK, Chan!InOrder, Chan!Deliver \/ Chan!Discard
  PROVE  Chan!TypeOK' /\ Chan!InOrder'
<1>1. /\ (next - 1)' = (next - 1) /\ (next - 1) \in Nat /\ (srv = "serving")' = (srv = "serving")
      /\ ChanQueue # <<>> /\ ChanQueue' = Tail(ChanQueue)
      /\ sent' = sent \/ sent' = Append(sent, ChanQueue[1])
  BY DEF Chan!Deliver, Chan!Discard, Chan!TypeOK
<1>2. /\ ChanQueue' \in Seq(Nat) /\ Len(ChanQueue') = Len(ChanQueue) - 1
      /\ Len(ChanQueue) \in Nat \ {0}
      /\ \A i \in 1..Len(ChanQueue') : ChanQueue'[i] = ChanQueue[i + 1] /\ i + 1 \in 1..Len(ChanQueue)
  BY <1>1, HeadTailProperties, EmptySeq DEF Chan!TypeOK
<1>3. \A i \in 1..Len(ChanQueue) : ChanQueue[i] \in Nat
  BY ElementOfSeq DEF Chan!TypeOK
<1>4. \A i \in 1..Len(sent) : sent[i] \in Nat
  BY ElementOfSeq DEF Chan!TypeOK
<1>5. Chan!Ordered(ChanQueue)' /\ \A j \in 1..Len(ChanQueue') : ChanQueue'[j] <= (next - 1)'
  BY <1>1, <1>2, <1>3 DEF Chan!InOrder, Chan!Ordered
<1>6. \A j \in 1..Len(ChanQueue') : ChanQueue[1] < ChanQueue'[j]
  BY <1>2, <1>3 DEF Chan!InOrder, Chan!Ordered
<1>7. CASE sent' = sent
  <2>1. Chan!TypeOK'
    BY <1>1, <1>2, <1>7 DEF Chan!TypeOK
  <2>2. QED BY <2>1, <1>1, <1>2, <1>5, <1>7 DEF Chan!InOrder, Chan!Ordered
<1>8. CASE sent' = Append(sent, ChanQueue[1])
  <2>1. ChanQueue[1] \in Nat
    BY <1>2, <1>3
  <2>2. /\ sent' \in Seq(Nat) /\ Len(sent') = Len(sent) + 1 /\ Len(sent) \in Nat
        /\ \A i \in 1..Len(sent) : sent'[i] = sent[i]
        /\ sent'[Len(sent) + 1] = ChanQueue[1]
    BY <1>8, <2>1, AppendProperties, LenProperties DEF Chan!TypeOK
  <2>3. Chan!TypeOK'
    BY <1>1, <1>2, <2>2 DEF Chan!TypeOK
  <2>4. \A i \in 1..Len(sent) : sent[i] < ChanQueue[1]
    BY <1>2 DEF Chan!InOrder
  <2>5. Chan!Ordered(sent)'
    <3> SUFFICES ASSUME NEW i \in 1..Len(sent'), NEW j \in 1..Len(sent'), i < j
                 PROVE  sent'[i] < sent'[j]
      BY DEF Chan!Ordered
    <3>1. CASE j = Len(sent) + 1
      <4>1. i \in 1..Len(sent)
        BY <2>2, <3>1
      <4>2. QED BY <2>2, <2>4, <3>1, <4>1
    <3>2. CASE j # Len(sent) + 1
      <4>1. i \in 1..Len(sent) /\ j \in 1..Len(sent)
        BY <2>2, <3>2
      <4>2. QED BY <2>2, <4>1 DEF Chan!InOrder, Chan!Ordered
    <3>3. QED BY <3>1, <3>2
  <2>6. \A i \in 1..Len(sent') : sent'[i] <= (next - 1)'
    <3> TAKE i \in 1..Len(sent')
    <3>1. CASE i = Len(sent) + 1
      <4>1. 1 \in 1..Len(ChanQueue)
        BY <1>2
      <4>2. QED BY <1>1, <2>2, <3>1, <4>1 DEF Chan!InOrder
    <3>2. CASE i # Len(sent) + 1
      <4>1. i \in 1..Len(sent)
        BY <2>2, <3>2
      <4>2. QED BY <1>1, <2>2, <4>1 DEF Chan!InOrder
    <3>3. QED BY <3>1, <3>2
  <2>7. \A i \in 1..Len(sent'), j \in 1..Len(ChanQueue') : sent'[i] < ChanQueue'[j]
    <3> TAKE i \in 1..Len(sent'), j \in 1..Len(ChanQueue')
    <3>1. CASE i = Len(sent) + 1
      BY <1>6, <2>2, <3>1
    <3>2. CASE i # Len(sent) + 1
      <4>1. i \in 1..Len(sent) /\ j + 1 \in 1..Len(ChanQueue)
        BY <1>2, <2>2, <3>2
      <4>2. QED BY <1>2, <2>2, <4>1 DEF Chan!InOrder
    <3>3. QED BY <3>1, <3>2
  <2>8. QED BY <1>5, <2>3, <2>5, <2>6, <2>7 DEF Chan!InOrder
<1>9. QED BY <1>1, <1>7, <1>8

(* Every step of the channel keeps it in order.                           *)
LEMMA ChannelStep ==
  Chan!TypeOK /\ Chan!InOrder /\ [Chan!Next]_(Chan!chanVars)
    => Chan!TypeOK' /\ Chan!InOrder'
<1> SUFFICES ASSUME Chan!TypeOK, Chan!InOrder, [Chan!Next]_(Chan!chanVars)
             PROVE  Chan!TypeOK' /\ Chan!InOrder'
  OBVIOUS
<1>1. CASE Chan!Accept
  BY <1>1, AcceptStep
<1>2. CASE Chan!Deliver \/ Chan!Discard
  BY <1>2, LeaveStep
<1>3. CASE Chan!Drop
  <2>1. /\ (next - 1)' = (next - 1) + 1 /\ (next - 1) \in Nat /\ UNCHANGED <<ChanQueue, sent, (srv = "serving")>>
    BY <1>3 DEF Chan!Drop, Chan!TypeOK
  <2>2. /\ \A i \in 1..Len(sent) : sent[i] \in Nat
        /\ \A j \in 1..Len(ChanQueue) : ChanQueue[j] \in Nat
    BY ElementOfSeq DEF Chan!TypeOK
  <2>3. QED BY <2>1, <2>2 DEF Chan!TypeOK, Chan!InOrder, Chan!Ordered
<1>4. CASE Chan!Open
  <2>1. (next - 1)' = (next - 1) /\ ChanQueue' = ChanQueue /\ sent' = sent /\ (srv = "serving")' = TRUE
    BY <1>4 DEF Chan!Open
  <2>2. QED BY <2>1 DEF Chan!TypeOK, Chan!InOrder, Chan!Ordered
<1>5. CASE UNCHANGED Chan!chanVars
  BY <1>5 DEF Chan!chanVars, Chan!TypeOK, Chan!InOrder, Chan!Ordered
<1>6. QED BY <1>1, <1>2, <1>3, <1>4, <1>5 DEF Chan!Next

(* Frames leave the channel in the order they were offered, none twice. *)
THEOREM ChannelInOrder == Chan!Spec => []Chan!InOrder
  BY ChannelInit, ChannelStep, PTL DEF Chan!Spec

(* Frames are written to the pipe in the order in which the encoder made   *)
(* them, none twice: what the channel promises, through the refinement.    *)
THEOREM OrderOfDelivery == Spec => []DeliveredInOrder
  BY Refinement, ChannelInOrder, PTL DEF ImplementsChannel, DeliveredInOrder
=============================================================================
