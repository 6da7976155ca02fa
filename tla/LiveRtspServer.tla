--------------------------- MODULE LiveRtspServer ---------------------------
(***************************************************************************)
(* The "rtsp-server" element (CXStreamer/common/livertspserver.cpp) with   *)
(* the objects it drives: RTSPServer, RTSPOnDemandServer, the pipe of      *)
(* VideoPipeServerMediaSubsession and the FramedPipeSource at its end.     *)
(*                                                                         *)
(* Four threads meet here.                                                 *)
(*   - the encoder's thread calls LiveRTSPServer::pushData with each frame;*)
(*   - the push thread moves frames from mPushBuffList into the pipe;      *)
(*   - the player's thread calls startSelf once;                           *)
(*   - the server thread, created by startSelf, builds the media           *)
(*     subsession and then runs the live555 event loop, which accepts      *)
(*     viewers and reads the pipe for them.                                *)
(*                                                                         *)
(* A frame is a record of its number and its length in chunks.  A chunk is *)
(* the amount the kernel moves into the pipe at once: the write end is     *)
(* blocking, so a frame enters the pipe chunk by chunk as the viewer makes *)
(* room, and a frame may be longer than the pipe.                          *)
(*                                                                         *)
(* mPushThreadIsRun is TRUE throughout: it is cleared only by the          *)
(* destructor, and nothing in the program deletes an element.              *)
(***************************************************************************)
EXTENDS Naturals, Sequences, FiniteSets

CONSTANTS
  Cap,         (* the 10 of mPushBuffList.size()<10                        *)
  PipeCap,     (* capacity of the pipe, in chunks                          *)
  FrameLens,   (* the lengths, in chunks, a frame may have                 *)
  MaxFrames,   (* BOUND: the encoder stops after so many frames            *)
  Viewers      (* RTSP client sessions                                     *)

ASSUME LiveAssumption ==
  /\ Cap \in Nat \ {0}
  /\ PipeCap \in Nat \ {0}
  /\ FrameLens \subseteq Nat \ {0}
  /\ MaxFrames \in Nat

VARIABLES
  next,         (* number of the next frame of the encoder                 *)
  list,         (* mPushBuffList                                           *)
  isConnected,  (* the attribute "isConnected"                             *)
  pc,           (* what the push thread does: "poll", "test" or "write"    *)
  held,         (* h264_buff, the frame the push thread has popped         *)
  off,          (* chunks of it already written (off in pushPkg)           *)
  srv,          (* how far startSelf and the server thread have come       *)
  wire,         (* every chunk ever written to the pipe                    *)
  rd,           (* how many of them have been read: the rest is the pipe   *)
  viewers,      (* connected sessions; they share one FramedPipeSource     *)
  heap,         (* numbers of the h264_buff_t objects allocated            *)
  dropped,      (* history: frames pushData turned away                    *)
  discarded,    (* history: frames thrown away for want of a subsession    *)
  sent          (* history: frames written to the pipe, in order           *)

pushVars == <<pc, held, off>>
pipeVars == <<wire, rd>>
vars == <<next, list, isConnected, pc, held, off, srv, wire, rd, viewers,
          heap, dropped, discarded, sent>>

Frame == [id : Nat \ {0}, len : FrameLens]
Chunk == [id : Nat \ {0}, pos : Nat \ {0}, len : FrameLens]
NoFrame == [id |-> 0, len |-> 0]

(* mRtspServer is NULL; it is set and the server thread may run; the RTSP  *)
(* port could not be opened; mSubSersion has been assigned but the object  *)
(* behind it need not be visible to the push thread; the event loop runs.  *)
ServerStates == {"null", "created", "failed", "published", "serving"}

Ids(s) == {s[i].id : i \in DOMAIN s}

Init ==
  /\ next = 1
  /\ list = <<>>
  /\ isConnected = FALSE
  /\ pc = "poll"
  /\ held = NoFrame
  /\ off = 0
  /\ srv = "null"
  /\ wire = <<>>
  /\ rd = 0
  /\ viewers = {}
  /\ heap = {}
  /\ dropped = {}
  /\ discarded = {}
  /\ sent = <<>>

-----------------------------------------------------------------------------
(* The encoder's thread: pushData, one critical section of                 *)
(* mPushBuffListMutex.                                                     *)

(* A bug for the mutant runs: the limit is tested with <= instead of <.    *)
AcceptOneMore(len) ==
  /\ next <= MaxFrames
  /\ Len(list) <= Cap
  /\ list' = Append(list, [id |-> next, len |-> len])
  /\ heap' = heap \cup {next}
  /\ isConnected' = TRUE
  /\ next' = next + 1
  /\ UNCHANGED <<pushVars, srv, pipeVars, viewers, dropped, discarded, sent>>

pushDataAccept(len) ==
  /\ next <= MaxFrames
  /\ Len(list) < Cap
  /\ list' = Append(list, [id |-> next, len |-> len])
  /\ heap' = heap \cup {next}
  /\ isConnected' = TRUE
  /\ next' = next + 1
  /\ UNCHANGED <<pushVars, srv, pipeVars, viewers, dropped, discarded, sent>>

(* A bug for the mutant runs: isConnected is not cleared.                  *)
DropSilently ==
  /\ next <= MaxFrames
  /\ Len(list) >= Cap
  /\ dropped' = dropped \cup {next}
  /\ next' = next + 1
  /\ UNCHANGED <<isConnected, list, pushVars, srv, pipeVars, viewers, heap,
                 discarded, sent>>

pushDataDrop ==
  /\ next <= MaxFrames
  /\ Len(list) >= Cap
  /\ isConnected' = FALSE
  /\ dropped' = dropped \cup {next}
  /\ next' = next + 1
  /\ UNCHANGED <<list, pushVars, srv, pipeVars, viewers, heap, discarded, sent>>

pushData == pushDataDrop \/ \E len \in FrameLens : pushDataAccept(len)

-----------------------------------------------------------------------------
(* The push thread.                                                        *)

(* One critical section: take the front of the list if there is one; when  *)
(* there is none the thread sleeps 5 ms and looks again.                   *)
PopFront ==
  /\ pc = "poll"
  /\ list # <<>>
  /\ held' = Head(list)
  /\ list' = Tail(list)
  /\ pc' = "test"
  /\ UNCHANGED <<next, isConnected, off, srv, pipeVars, viewers, heap,
                 dropped, discarded, sent>>

(* Two bugs for the mutant runs: the frame is discarded but not deleted,   *)
(* and a frame is discarded although the event loop runs.                  *)
DiscardAndLeak ==
  /\ pc = "test"
  /\ srv # "serving"
  /\ discarded' = discarded \cup {held.id}
  /\ held' = NoFrame
  /\ pc' = "poll"
  /\ UNCHANGED <<next, list, isConnected, off, srv, pipeVars, viewers, heap,
                 dropped, sent>>

DiscardAnyTime ==
  /\ pc = "test"
  /\ discarded' = discarded \cup {held.id}
  /\ heap' = heap \ {held.id}
  /\ held' = NoFrame
  /\ pc' = "poll"
  /\ UNCHANGED <<next, list, isConnected, off, srv, pipeVars, viewers, dropped,
                 sent>>

(* if(mRtspServer) and if(mSubSersion) find nowhere to write, or write()   *)
(* fails at once because mPipeId is not yet visible to this thread (the    *)
(* assignment of mSubSersion is not synchronised): the frame is deleted.   *)
DiscardFrame ==
  /\ pc = "test"
  /\ srv # "serving"
  /\ discarded' = discarded \cup {held.id}
  /\ heap' = heap \ {held.id}
  /\ held' = NoFrame
  /\ pc' = "poll"
  /\ UNCHANGED <<next, list, isConnected, off, srv, pipeVars, viewers, dropped,
                 sent>>

EnterPushPkg ==
  /\ pc = "test"
  /\ srv \in {"published", "serving"}
  /\ off' = 0
  /\ pc' = "write"
  /\ UNCHANGED <<next, list, isConnected, held, srv, pipeVars, viewers, heap,
                 dropped, discarded, sent>>

(* Two bugs for the mutant runs: positions counted from 0, and a write     *)
(* that waits until the rest of the frame fits into the pipe at once.      *)
WriteFromZero ==
  /\ pc = "write"
  /\ off < held.len
  /\ Len(wire) - rd < PipeCap
  /\ wire' = Append(wire, [id |-> held.id, pos |-> off, len |-> held.len])
  /\ off' = off + 1
  /\ UNCHANGED <<next, list, isConnected, pc, held, srv, rd, viewers, heap,
                 dropped, discarded, sent>>

WriteWholeFrame ==
  /\ pc = "write"
  /\ off < held.len
  /\ Len(wire) - rd + held.len - off <= PipeCap
  /\ wire' = Append(wire, [id |-> held.id, pos |-> off + 1, len |-> held.len])
  /\ off' = off + 1
  /\ UNCHANGED <<next, list, isConnected, pc, held, srv, rd, viewers, heap,
                 dropped, discarded, sent>>

(* write() on the blocking end moves one more chunk as soon as it fits. *)
WriteChunk ==
  /\ pc = "write"
  /\ off < held.len
  /\ Len(wire) - rd < PipeCap
  /\ wire' = Append(wire, [id |-> held.id, pos |-> off + 1, len |-> held.len])
  /\ off' = off + 1
  /\ UNCHANGED <<next, list, isConnected, pc, held, srv, rd, viewers, heap,
                 dropped, discarded, sent>>

(* A bug for the mutant runs: one write() and no loop over what is left.   *)
PushOnce ==
  /\ pc = "write"
  /\ off > 0
  /\ sent' = Append(sent, held.id)
  /\ heap' = heap \ {held.id}
  /\ held' = NoFrame
  /\ off' = 0
  /\ pc' = "poll"
  /\ UNCHANGED <<next, list, isConnected, srv, pipeVars, viewers, dropped,
                 discarded>>

(* len has reached 0: pushPkg returns and the buffer is deleted. *)
PushDone ==
  /\ pc = "write"
  /\ off = held.len
  /\ sent' = Append(sent, held.id)
  /\ heap' = heap \ {held.id}
  /\ held' = NoFrame
  /\ off' = 0
  /\ pc' = "poll"
  /\ UNCHANGED <<next, list, isConnected, srv, pipeVars, viewers, dropped,
                 discarded>>

PushThread == PopFront \/ DiscardFrame \/ EnterPushPkg \/ WriteChunk \/ PushDone

-----------------------------------------------------------------------------
(* The player's thread and the server thread.                              *)

startSelf ==
  /\ srv = "null"
  /\ srv' = "created"
  /\ UNCHANGED <<next, list, isConnected, pushVars, pipeVars, viewers, heap,
                 dropped, discarded, sent>>

(* RTSPServer::createNew returns NULL: the thread ends, mSubSersion stays  *)
(* null and nobody is told.                                                *)
ServerFails ==
  /\ srv = "created"
  /\ srv' = "failed"
  /\ UNCHANGED <<next, list, isConnected, pushVars, pipeVars, viewers, heap,
                 dropped, discarded, sent>>

PublishSubsession ==
  /\ srv = "created"
  /\ srv' = "published"
  /\ UNCHANGED <<next, list, isConnected, pushVars, pipeVars, viewers, heap,
                 dropped, discarded, sent>>

EnterEventLoop ==
  /\ srv = "published"
  /\ srv' = "serving"
  /\ UNCHANGED <<next, list, isConnected, pushVars, pipeVars, viewers, heap,
                 dropped, discarded, sent>>

establishAndRunServer == ServerFails \/ PublishSubsession \/ EnterEventLoop

(* A session is set up.  The first one creates the FramedPipeSource on the *)
(* read end of the pipe, the others share it (reuseFirstSource).           *)
createNewStreamSource(v) ==
  /\ srv = "serving"
  /\ v \notin viewers
  /\ viewers' = viewers \cup {v}
  /\ UNCHANGED <<next, list, isConnected, pushVars, srv, pipeVars, heap,
                 dropped, discarded, sent>>

(* A session ends.  With the last one the FramedPipeSource goes, which     *)
(* clears fFid so that the pipe and what is in it survive.                 *)
closeStreamSource(v) ==
  /\ v \in viewers
  /\ viewers' = viewers \ {v}
  /\ UNCHANGED <<next, list, isConnected, pushVars, srv, pipeVars, heap,
                 dropped, discarded, sent>>

(* The event loop reads a chunk for the shared source. *)
ReadChunk ==
  /\ viewers # {}
  /\ rd < Len(wire)
  /\ rd' = rd + 1
  /\ UNCHANGED <<next, list, isConnected, pushVars, srv, wire, viewers, heap,
                 dropped, discarded, sent>>

-----------------------------------------------------------------------------
Next ==
  \/ pushData
  \/ PushThread
  \/ startSelf
  \/ establishAndRunServer
  \/ \E v \in Viewers : createNewStreamSource(v) \/ closeStreamSource(v)
  \/ ReadChunk

Spec == Init /\ [][Next]_vars

(* Every thread is scheduled; the encoder never stops producing.  Viewers  *)
(* come and go as they like.                                               *)
Fairness ==
  /\ WF_vars(pushData)
  /\ WF_vars(PushThread)
  /\ WF_vars(startSelf)
  /\ WF_vars(establishAndRunServer)
  /\ WF_vars(ReadChunk)

FairSpec == Spec /\ Fairness
-----------------------------------------------------------------------------
(* Types of all the variables. *)
TypeOK ==
  /\ next \in 1..(MaxFrames + 1)
  /\ list \in Seq(Frame)
  /\ isConnected \in BOOLEAN
  /\ pc \in {"poll", "test", "write"}
  /\ held \in Frame \cup {NoFrame}
  /\ off \in Nat
  /\ srv \in ServerStates
  /\ wire \in Seq(Chunk)
  /\ rd \in Nat
  /\ viewers \subseteq Viewers
  /\ heap \subseteq Nat
  /\ dropped \subseteq Nat
  /\ discarded \subseteq Nat
  /\ sent \in Seq(Nat)

(* d may come right after c in the byte stream: the next chunk of the same *)
(* frame, or the first chunk of a later one when c was its frame's last.   *)
Follows(c, d) ==
  IF c.pos < c.len THEN d = [c EXCEPT !.pos = @ + 1]
                   ELSE d.pos = 1 /\ d.id > c.id

(* The stream that live555 parses is a concatenation of whole frames, in   *)
(* the order the encoder produced them, whatever was lost in between; only *)
(* the last may be incomplete, and then the push thread is still writing   *)
(* it (the off/len loop of pushPkg against a reader that comes and goes).  *)
StreamIntact ==
  /\ wire # <<>> => wire[1].pos = 1
  /\ \A i \in 1..(Len(wire) - 1) : Follows(wire[i], wire[i + 1])
  /\ LET c == wire[Len(wire)]
     IN wire # <<>> /\ c.pos < c.len =>
          pc = "write" /\ held.id = c.id /\ off = c.pos

InHand == IF pc = "poll" THEN {} ELSE {held.id}

(* Every buffer allocated by pushData is in the list or in the push        *)
(* thread's hand, and every frame offered has met exactly one fate: still  *)
(* allocated, dropped, discarded or sent.  No path of the push thread      *)
(* leaks a buffer or frees one twice.                                      *)
OneFate ==
  LET done == {sent[i] : i \in DOMAIN sent}
  IN /\ heap = Ids(list) \cup InHand
     /\ 1..(next - 1) = heap \cup dropped \cup discarded \cup done
     /\ heap \cap (dropped \cup discarded \cup done) = {}
     /\ dropped \cap (discarded \cup done) = {}
     /\ discarded \cap done = {}

(* The inductive strengthening of StreamIntact and of the refinement:      *)
(* where the numbers in the list, in the push thread's hand and at the end *)
(* of the stream stand to one another.                                     *)
ListOrdered ==
  /\ Len(list) <= Cap
  /\ \A i \in 1..Len(list) : list[i].id < next
  /\ \A i, j \in 1..Len(list) : i < j => list[i].id < list[j].id

HandOrdered ==
  /\ pc = "poll" => held = NoFrame
  /\ pc # "poll" =>
       /\ held \in Frame
       /\ held.id < next
       /\ \A i \in 1..Len(list) : held.id < list[i].id
  /\ IF pc = "write" THEN off <= held.len ELSE off = 0

WireOrdered ==
  LET c == wire[Len(wire)]
  IN IF wire = <<>> THEN off = 0
     ELSE /\ c.id < next
          /\ \A i \in 1..Len(list) : c.id < list[i].id
          /\ IF off = 0 THEN /\ c.pos = c.len
                             /\ pc # "poll" => c.id < held.id
                        ELSE c = [id |-> held.id, pos |-> off, len |-> held.len]

IInv ==
  TypeOK /\ ListOrdered /\ HandOrdered /\ WireOrdered /\ StreamIntact

(* A viewer that connects is behind the encoder by a bounded number of     *)
(* frames however long nobody was watching: the list, the frame in hand    *)
(* and the unread pipe hold no more than this.                             *)
BacklogBounded ==
  Cardinality(heap \cup {wire[i].id : i \in (rd + 1)..Len(wire)})
    <= Cap + 1 + PipeCap

(* The queue of the lossy channel: the frame in hand (n is 1 when there is *)
(* one), then the list.                                                    *)
InFlight(l, h, n) ==
  [i \in 1..(Len(l) + n) |-> IF i <= n THEN h ELSE l[i - n].id]

ChanQueue == InFlight(list, held.id, IF pc = "poll" THEN 0 ELSE 1)

Chan == INSTANCE FrameChannel
  WITH offered <- next - 1, queue <- ChanQueue, out <- sent,
       open <- srv = "serving"

(* The element implements the lossy channel, which opens when the event    *)
(* loop runs: frames leave it in order, one is turned away only when the   *)
(* list is full, and none is lost inside it once viewers can be served.    *)
ImplementsChannel == Chan!Spec

(* Frames reach the pipe in the order the encoder offered them, none of    *)
(* them twice, and so do those still waiting.                              *)
DeliveredInOrder == Chan!InOrder

(* With a viewer who stays, every buffer taken in is eventually written    *)
(* and freed, though frames may be longer than the pipe.                   *)
ViewerDrains ==
  (<>[](viewers # {})) =>
    \A f \in 1..MaxFrames : f \in heap ~> f \notin heap

(* When the last viewer has left for good the encoder is told: as long as  *)
(* it offers enough frames, isConnected does not stay TRUE.                *)
AbsenceNoticed ==
  ( /\ srv = "serving"
    /\ isConnected
    /\ next + Cap + 1 + PipeCap <= MaxFrames
    /\ [](viewers = {}) ) ~> ~isConnected

(* The comment in pushData's else branch (livertspserver.cpp:89) says that *)
(* a frame is turned away because no client is connected.                  *)
DropMeansNoClient == [][dropped' # dropped => viewers = {}]_vars
=============================================================================
