---------------------------- MODULE BrowserPlayer ----------------------------
(***************************************************************************)
(* The page that shows the mosaic: VideoModule of ffmpeg.js and its worker *)
(* decode_worker.js.  A packet of the websocket goes through a FileReader  *)
(* to the worker, is decoded to pictures, and each picture goes through    *)
(* another FileReader into an <img>, from which the blocks of the mosaic   *)
(* are drawn on the registered canvases.                                   *)
(*                                                                         *)
(* A JavaScript task is one step.  Messages between page and worker keep   *)
(* their order; FileReaders end in any order.  A picture is named by the   *)
(* number of the packet it was decoded from.                               *)
(***************************************************************************)
EXTENDS Integers, Sequences, FiniteSets, FiniteSetsExt,
        SequencesExt

CONSTANTS
  MaxPackets,      (* bound on the packets of the stream                   *)
  MaxCalls,        (* bound on the calls of the page's script              *)
  MaxFailures,     (* bound on pictures that fail to load or to be drawn   *)
  NumRow, NumCol,  (* the grid the page asks for                           *)
  Canvases,
  Indexes,         (* video indexes the page registers                     *)
  Widths           (* of the pictures a stream may have                    *)

_frame_w == 1920
None == 0
Packets == 1..MaxPackets

(* registerCanvasSimple divides by the number of rows where the number of  *)
(* columns is meant: the pages ask for square grids (8 x 8 and 1 x 1).     *)
ASSUME BrowserAssumption ==
  /\ MaxPackets \in Nat /\ MaxCalls \in Nat /\ MaxFailures \in Nat
  /\ NumRow \in Nat \ {0} /\ NumCol = NumRow
  /\ Indexes \subseteq 0..(NumRow * NumCol - 1)
  /\ Widths \subseteq Nat

VARIABLES
  width,         (* of the stream's pictures                               *)
  sent,          (* packets the websocket has delivered                    *)
  packetReaders, (* those being read                                       *)
  toWorker,      (* messages to the worker                                 *)
  cxt, start,    (* the worker's decoder exists; it decodes                *)
  delayed,       (* packets whose pictures the decoder still holds         *)
  toPage,        (* messages to the page                                   *)
  pictureReaders,(* pictures being read                                    *)
  src, load,     (* the <img>: its picture, and how far its loading is     *)
  Idle, Valid,   (* what the page remembers of it                          *)
  canvasList,
  view,          (* what each canvas shows                                 *)
  calls, failures,
  shown,         (* history: the picture drawn last                        *)
  stale,         (* history: canvases that have missed it                  *)
  late,          (* history: pictures a FileReader of a newer one overtook *)
  owed           (* history: a picture that counts has come since the last *)
                 (* drawing                                                *)

workerVars == <<cxt, start, delayed>>
imgVars == <<src, load, Idle, Valid>>
canvasVars == <<canvasList, view, calls, shown, stale>>
vars == <<width, sent, packetReaders, toWorker, workerVars, toPage,
          pictureReaders, imgVars, canvasVars, failures, late, owed>>

Init ==
  /\ width \in Widths
  /\ sent = 0
  /\ packetReaders = {}
  /\ toWorker = <<>>
  /\ cxt = FALSE
  /\ start = FALSE
  /\ delayed = <<>>
  /\ toPage = <<>>
  /\ pictureReaders = {}
  /\ src = None
  /\ load = "none"
  /\ Idle = TRUE
  /\ Valid = FALSE
  /\ canvasList = <<>>
  /\ view = [c \in Canvases |-> <<None, 0, 0>>]
  /\ calls = 0
  /\ failures = 0
  /\ shown = None
  /\ stale = {}
  /\ late = {}
  /\ owed = FALSE
-----------------------------------------------------------------------------
(* The websocket's onmessage: a reader for each packet.                    *)
on_packet ==
  /\ sent < MaxPackets
  /\ sent' = sent + 1
  /\ packetReaders' = packetReaders \cup {sent + 1}
  /\ UNCHANGED <<width, toWorker, workerVars, toPage, pictureReaders,
                 imgVars, canvasVars, failures, late, owed>>

(* The onload of such a reader: the packet goes to the worker.             *)
PacketRead(p) ==
  /\ p \in packetReaders
  /\ packetReaders' = packetReaders \ {p}
  /\ toWorker' = Append(toWorker, p)
  /\ late' = late \cup {q \in packetReaders : q < p}
  /\ UNCHANGED <<width, sent, workerVars, toPage, pictureReaders, imgVars,
                 canvasVars, failures, owed>>

-----------------------------------------------------------------------------
(* The worker's interval timer, once the decoder's code is loaded.         *)
waitWasmLoading ==
  /\ ~cxt
  /\ cxt' = TRUE
  /\ UNCHANGED <<width, sent, packetReaders, toWorker, start, delayed, toPage,
                 pictureReaders, imgVars, canvasVars, failures, late, owed>>

(* The timeout it sets, a second later.                                    *)
StartDecoding ==
  /\ cxt /\ ~start
  /\ start' = TRUE
  /\ UNCHANGED <<width, sent, packetReaders, toWorker, cxt, delayed, toPage,
                 pictureReaders, imgVars, canvasVars, failures, late, owed>>

(* The decoder holds pictures back, gives them out in order, and has none  *)
(* for a packet that refers to one it never saw.  The first definition is  *)
(* a bug for the mutant runs: it gives out what it goes on holding.        *)
DecodingsKept(p) == {<<ps, ps>> : ps \in {Append(delayed, p), delayed}}

Decodings(p) ==
  UNION { { <<SubSeq(ps, 1, n), SubSeq(ps, n + 1, Len(ps))>> :
              n \in 0..Len(ps) } :
            ps \in {Append(delayed, p), delayed} }

(* The pictures of zx_getFrame, posted in the order they come in.          *)
(* The first definition is a bug for the mutant runs: newest first.        *)
PostReversed(frames) == toPage' = toPage \o Reverse(frames)

PostFrames(frames) == toPage' = toPage \o frames

(* The worker's onmessage: packets that come too early are dropped.        *)
worker_onmessage ==
  /\ toWorker # <<>>
  /\ toWorker' = Tail(toWorker)
  /\ \/ /\ ~start
        /\ UNCHANGED <<delayed, toPage>>
     \/ /\ start
        /\ \E d \in Decodings(Head(toWorker)) :
             /\ PostFrames(d[1])
             /\ delayed' = d[2]
  /\ UNCHANGED <<width, sent, packetReaders, cxt, start, pictureReaders,
                 imgVars, canvasVars, failures, late, owed>>

-----------------------------------------------------------------------------
(* decodeWorker.onmessage on the page: a reader for each picture.          *)
page_onmessage ==
  /\ toPage # <<>>
  /\ toPage' = Tail(toPage)
  /\ pictureReaders' = pictureReaders \cup {Head(toPage)}
  /\ owed' = (width = _frame_w)
  /\ UNCHANGED <<width, sent, packetReaders, toWorker, workerVars, imgVars,
                 canvasVars, failures, late>>

(* The onload of such a reader: the <img> takes the picture unless it is   *)
(* busy, and then the picture is dropped.  The first two definitions are   *)
(* bugs for the mutant runs: Idle is not reset, and Valid is asked for.    *)
SetSourceStayIdle(p) ==
  \/ Idle /\ src' = p /\ load' = "loading" /\ UNCHANGED <<Idle, Valid>>
  \/ ~Idle /\ UNCHANGED imgVars

SetSourceWhenValid(p) ==
  \/ /\ Idle /\ Valid
     /\ src' = p /\ load' = "loading" /\ Idle' = FALSE /\ UNCHANGED Valid
  \/ ~(Idle /\ Valid) /\ UNCHANGED imgVars

SetSource(p) ==
  \/ /\ Idle
     /\ src' = p
     /\ load' = "loading"
     /\ Idle' = FALSE
     /\ UNCHANGED Valid
  \/ /\ ~Idle
     /\ UNCHANGED imgVars

PictureRead(p) ==
  /\ p \in pictureReaders
  /\ pictureReaders' = pictureReaders \ {p}
  /\ SetSource(p)
  /\ late' = late \cup {q \in pictureReaders : q < p}
  /\ UNCHANGED <<width, sent, packetReaders, toWorker, workerVars, toPage,
                 canvasVars, failures, owed>>

(* __drawCanvasOptimize4img: every canvas gets its block.  The items in    *)
(* bad are those whose drawImage throws, which the loop catches; the call  *)
(* of getContext before it is not caught, and ends the loop at item end.   *)
(* A bug for the mutant runs comes first: every exception ends the loop.   *)
DrawnUntilError(bad, end) ==
  {k \in 1..(end - 1) : \A n \in bad : k < n}

Drawn(bad, end) == 1..(end - 1) \ bad

Missed(bad, end) == bad \cup (end..Len(canvasList))

DrawCanvases(bad, end) ==
  /\ view' = [c \in Canvases |->
       LET mine == {k \in Drawn(bad, end) : canvasList[k].canvas = c}
       IN  IF mine = {} THEN view[c]
           ELSE <<src, canvasList[Max(mine)].x, canvasList[Max(mine)].y>>]
  /\ Valid' = (bad = {})
  /\ stale' = {canvasList[k].canvas : k \in Missed(bad, end)}

Exceptions(bad, end) ==
  Cardinality(bad) + (IF end <= Len(canvasList) THEN 1 ELSE 0)

(* The onload of the <img>.  Only a picture of the width the page counts   *)
(* with is drawn.                                                          *)
img_onload ==
  /\ load = "loading"
  /\ load' = "complete"
  /\ Idle' = TRUE
  /\ \/ /\ width = _frame_w
        /\ \E end \in 1..(Len(canvasList) + 1) : \E bad \in SUBSET (1..(end - 1)) :
             /\ failures + Exceptions(bad, end) <= MaxFailures
             /\ failures' = failures + Exceptions(bad, end)
             /\ DrawCanvases(bad, end)
        /\ shown' = src
        /\ owed' = FALSE
     \/ /\ width # _frame_w
        /\ Valid' = TRUE
        /\ UNCHANGED <<view, shown, stale, owed, failures>>
  /\ UNCHANGED <<width, sent, packetReaders, toWorker, workerVars, toPage,
                 pictureReaders, src, canvasList, calls, late>>

(* The picture cannot be loaded: there is no onerror.                      *)
img_onerror ==
  /\ load = "loading"
  /\ failures < MaxFailures
  /\ failures' = failures + 1
  /\ load' = "broken"
  /\ UNCHANGED <<width, sent, packetReaders, toWorker, workerVars, toPage,
                 pictureReaders, src, Idle, Valid, canvasVars, late, owed>>

-----------------------------------------------------------------------------
(* What the page's script calls.                                           *)
registerCanvas(c, idx, xp, yp) ==
  /\ canvasList' = Append(canvasList,
                          [canvas |-> c, index |-> idx, x |-> xp, y |-> yp])
  /\ stale' = stale \cup {c}
  /\ UNCHANGED <<view, shown>>

registerCanvasSimple(c, idx) ==
  registerCanvas(c, idx, idx % NumCol, idx \div NumRow)

clearCanvas == canvasList' = <<>> /\ UNCHANGED <<view, shown, stale>>

PageScript ==
  /\ calls < MaxCalls
  /\ calls' = calls + 1
  /\ \/ \E c \in Canvases, idx \in Indexes : registerCanvasSimple(c, idx)
     \/ clearCanvas
  /\ UNCHANGED <<width, sent, packetReaders, toWorker, workerVars, toPage,
                 pictureReaders, imgVars, failures, late, owed>>

(* The stream may end and the script may rest.                             *)
Done == sent = MaxPackets /\ UNCHANGED vars

PacketReaders == \E p \in Packets : PacketRead(p)
PictureReaders == \E p \in Packets : PictureRead(p)

Next ==
  \/ on_packet \/ PacketReaders
  \/ waitWasmLoading \/ StartDecoding \/ worker_onmessage
  \/ page_onmessage \/ PictureReaders \/ img_onload \/ img_onerror
  \/ PageScript
  \/ Done

Spec == Init /\ [][Next]_vars

(* Messages are delivered, readers end, and a picture loads or fails.      *)
Fairness ==
  /\ WF_vars(page_onmessage)
  /\ WF_vars(PictureReaders)
  /\ WF_vars(img_onload \/ img_onerror)

FairSpec == Spec /\ Fairness
-----------------------------------------------------------------------------
Item == [canvas : Canvases, index : Indexes,
         x : 0..(NumCol - 1), y : 0..(NumRow - 1)]

(* The places a picture may be in: its way from the websocket to the <img>.*)
Places == <<packetReaders, ToSet(toWorker), ToSet(delayed), ToSet(toPage),
            pictureReaders, {src}>>

OnePlace ==
  /\ \A i, j \in DOMAIN Places : i # j => Places[i] \cap Places[j] = {}
  /\ IsInjective(toWorker) /\ IsInjective(delayed) /\ IsInjective(toPage)

(* Types.  A picture is in one place only and there once, whatever is      *)
(* dropped, held back or overtaken, so it is given to the <img> at most    *)
(* once; the blocks that are asked for lie in the mosaic, and nothing is   *)
(* decoded without a decoder.                                              *)
TypeOK ==
  /\ width \in Widths
  /\ sent \in 0..MaxPackets
  /\ packetReaders \subseteq 1..sent
  /\ toWorker \in Seq(1..sent)
  /\ cxt \in BOOLEAN /\ start \in BOOLEAN /\ (start => cxt)
  /\ delayed \in Seq(1..sent) /\ toPage \in Seq(1..sent)
  /\ pictureReaders \subseteq 1..sent
  /\ src \in 0..sent
  /\ load \in {"none", "loading", "complete", "broken"}
  /\ Idle \in BOOLEAN /\ Valid \in BOOLEAN
  /\ canvasList \in Seq(Item)
  /\ view \in [Canvases -> (0..sent) \X (0..(NumCol - 1)) \X (0..(NumRow - 1))]
  /\ calls \in 0..MaxCalls /\ failures \in 0..MaxFailures
  /\ shown \in 0..sent
  /\ stale \subseteq Canvases
  /\ late \subseteq 1..sent /\ owed \in BOOLEAN
  /\ OnePlace

(* Idle tells what the <img> does: a picture is only given to it when no   *)
(* other is loading, and it is given one again whenever the last has       *)
(* loaded.  Only a picture that failed to load leaves it busy.             *)
IdleIsExact == Idle <=> load \in {"none", "complete"}

(* The item that decides what a canvas shows: the last that names it.      *)
ItemsOf(c) == {k \in DOMAIN canvasList : canvasList[k].canvas = c}
IndexOf(c) == canvasList[Max(ItemsOf(c))].index

(* After a drawing every canvas that was registered before it shows the    *)
(* same picture, and of it the block of its video index in row order; a    *)
(* canvas whose drawImage threw is drawn again with the next picture, and  *)
(* keeps no other from being drawn.  Only an exception of getContext does  *)
(* so, to the canvases of the later items.                                 *)
ViewIsWhole ==
  \A c \in Canvases :
    ItemsOf(c) # {} /\ c \notin stale =>
      /\ view[c][1] = shown /\ shown # None
      /\ view[c][3] * NumCol + view[c][2] = IndexOf(c)

(* A FileReader that ends before an older one does no harm but to the      *)
(* pictures it has overtaken: the view goes back to none but those, and    *)
(* all others keep the order of the stream, whatever has been overtaken    *)
(* before - through two readers, two queues and a decoder that delays.     *)
NeverGoesBack == [][shown' < shown => shown' \in late]_vars

(* Every picture of 1920 columns that reaches the page is followed by a    *)
(* drawing - of it or of a later one, or of the one that kept the <img>    *)
(* busy - unless a picture fails to load, and the view is then frozen.     *)
PictureFollows == owed ~> (~owed \/ load = "broken")
=============================================================================
