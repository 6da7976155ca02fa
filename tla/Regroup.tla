------------------------------- MODULE Regroup -------------------------------
(***************************************************************************)
(* The regrouping thread of vif_element.cpp: YUVdataProcess takes a frame  *)
(* from the output port of the VPE driver, a picture buffer from the input *)
(* port of the DIVP driver, which hands pictures on to the encoder, lets   *)
(* reorganizeYUV copy each input block to its position of the mosaic, and  *)
(* gives both buffers back.                                                *)
(*                                                                         *)
(* Frame and picture are YUV420 semi-planar: a luma plane of Width x       *)
(* Height samples and a chroma plane of half as many lines.  They are      *)
(* functions from addresses, so the address arithmetic of reorganizeYUV is *)
(* the code's; a sample is a pair of the frame and the address it was      *)
(* captured at.  The drivers run on; the thread copies a position per step.*)
(*                                                                         *)
(* The layout is that of the element's attributes, which nothing writes    *)
(* once the thread exists (LayoutConfig tells what they may be).           *)
(***************************************************************************)
EXTENDS Integers, Sequences, SequencesExt

CONSTANTS
  Width, Height,   (* of the frame and of the picture (3840 and 2160)      *)
  Layouts,         (* grids and tables the attributes may hold             *)
  LayNum,          (* the attribute layNum (64)                            *)
  UserDepth,       (* frames that wait at the output port (2)              *)
  OutDepth,        (* buffers of the output port (3)                       *)
  InDepth,         (* buffers of the input port of the DIVP                *)
  Frames,          (* what the camera may show                             *)
  MaxFailures      (* bound on driver calls that fail for no reason        *)

Empty == -1
NoHandle == 0
OutBufs == 1..OutDepth
InBufs == 1..InDepth

ASSUME RegroupAssumption ==
  /\ Width \in Nat \ {0} /\ Height \in Nat \ {0}
  /\ LayNum \in Nat /\ MaxFailures \in Nat
  /\ UserDepth \in Nat \ {0} /\ OutDepth \in Nat \ {0} /\ InDepth \in Nat \ {0}
  /\ \A l \in Layouts :
       /\ l.h \in 1..Width /\ l.v \in 1..Height
       /\ l.tab \in [0..(l.h * l.v - 1) -> {Empty} \cup 0..(l.h * l.v - 1)]

VARIABLES
  layout,   (* the attributes dst_horizontal_blks, dst_vertical_blks, tabId *)
  at,       (* where the thread is                                          *)
  i,        (* position of the mosaic it copies next                        *)
  hHandle,  (* the output buffer it got last                                *)
  hVencHandle, (* the picture buffer it got last                            *)
  outQ,     (* output buffers that wait for the thread                      *)
  outPix,   (* the frame in each output buffer                              *)
  outHeld,  (* output buffers the thread has not given back                 *)
  inQ,      (* pictures the DIVP has not taken for the encoder yet          *)
  inPix,    (* the samples of each picture buffer                           *)
  inHeld,   (* picture buffers the thread has not given back                *)
  failures  (* failures so far                                              *)

outVars == <<outQ, outPix, outHeld>>
inVars == <<inQ, inPix, inHeld>>
vars == <<layout, at, i, hHandle, hVencHandle, outVars, inVars, failures>>

Luma == {"y"} \X (0..(Width * Height - 1))
Chroma == {"uv"} \X (0..((Width * Height) \div 2 - 1))
Samples == Luma \cup Chroma
Unwritten == <<>>

Init ==
  /\ layout \in Layouts
  /\ at = "setup"
  /\ i = 0
  /\ hHandle = NoHandle
  /\ hVencHandle = NoHandle
  /\ outQ = <<>>
  /\ \E f \in Frames : outPix = [b \in OutBufs |-> f]
  /\ outHeld = {}
  /\ inQ = <<>>
  /\ inPix = [b \in InBufs |-> [p \in Samples |-> Unwritten]]
  /\ inHeld = {}
  /\ failures = 0

-----------------------------------------------------------------------------
(* reorganizeYUV *)

BlkW == Width \div layout.h
BlkH == Height \div layout.v
Positions == 0..(layout.h * layout.v - 1)
Row(n) == n \div layout.h
Column(n) == n % layout.h

(* The table is cleared to input 0 before the attributes are read.         *)
InputAt(n) == IF n < LayNum THEN layout.tab[n] ELSE 0

LumaStart(n) == (Row(n) * BlkH) * Width + Column(n) * BlkW
ChromaStart(n) == ((Row(n) * BlkH) \div 2) * Width + Column(n) * BlkW

(* The address that is copied to a, when some lines of a block are copied  *)
(* to address to from address from.                                        *)
IsCopied(a, to, lines) ==
  a >= to /\ (a - to) % Width < BlkW /\ (a - to) \div Width < lines

(* A chroma line is copied with each luma line; its address moves on after *)
(* every second one.                                                       *)
CopyBlock(pic, f, id, n) ==
  [p \in Samples |->
    LET luma == p[1] = "y"
        to == IF luma THEN LumaStart(n) ELSE ChromaStart(n)
        from == IF luma THEN LumaStart(id) ELSE ChromaStart(id)
    IN IF IsCopied(p[2], to, IF luma THEN BlkH ELSE (BlkH + 1) \div 2)
       THEN <<f, from + p[2] - to>>
       ELSE pic[p]]

-----------------------------------------------------------------------------
(* Calls of the driver.  A handle that the thread does not hold, because   *)
(* it was given back before or was never set, is refused.                  *)

MayFail == failures < MaxFailures /\ failures' = failures + 1
Fails(reason) == \/ reason /\ failures' = failures
                 \/ ~reason /\ MayFail

ChnOutputPortPutBuf(h) == outHeld' = outHeld \ {h} /\ UNCHANGED <<outQ, outPix>>

ChnInputPortPutBuf(h) ==
  /\ inQ' = IF h \in inHeld THEN Append(inQ, h) ELSE inQ
  /\ inHeld' = inHeld \ {h}
  /\ UNCHANGED inPix

FreeInBufs == InBufs \ (inHeld \cup ToSet(inQ))
FreeOutBufs == OutBufs \ (outHeld \cup ToSet(outQ))

-----------------------------------------------------------------------------
(* YUVdataProcess *)

(* MI_SYS_SetChnOutputPortDepth and MI_SYS_GetFd; the thread ends when one *)
(* of them fails.                                                          *)
Setup ==
  /\ at = "setup"
  /\ \/ at' = "select" /\ failures' = failures
     \/ at' = "dead" /\ MayFail
  /\ UNCHANGED <<layout, i, hHandle, hVencHandle, outVars, inVars>>

(* select returns when a frame waits.  Its result is unsigned, so that -1  *)
(* passes for a ready descriptor; a timeout only calls it again.           *)
Select ==
  /\ at = "select"
  /\ \/ outQ # <<>> /\ failures' = failures
     \/ MayFail
  /\ at' = "get"
  /\ UNCHANGED <<layout, i, hHandle, hVencHandle, outVars, inVars>>

(* A bug for the mutant runs: the buffer stays in the queue.               *)
PeekOutput ==
  /\ at = "get"
  /\ outQ # <<>>
  /\ hHandle' = Head(outQ)
  /\ outHeld' = outHeld \cup {Head(outQ)}
  /\ at' = "getin"
  /\ UNCHANGED <<layout, i, hVencHandle, outQ, outPix, inVars, failures>>

GetOutput ==
  /\ at = "get"
  /\ outQ # <<>>
  /\ hHandle' = Head(outQ)
  /\ outQ' = Tail(outQ)
  /\ outHeld' = outHeld \cup {Head(outQ)}
  /\ at' = "getin"
  /\ UNCHANGED <<layout, i, hVencHandle, outPix, inVars, failures>>

(* A bug for the mutant runs: the thread ends.                             *)
GiveUp ==
  /\ at = "get"
  /\ Fails(outQ = <<>>)
  /\ at' = "dead"
  /\ UNCHANGED <<layout, i, hHandle, hVencHandle, outVars, inVars>>

(* The handle that is put back is the one of the round before.             *)
GetOutputFails ==
  /\ at = "get"
  /\ Fails(outQ = <<>>)
  /\ ChnOutputPortPutBuf(hHandle)
  /\ at' = "select"
  /\ UNCHANGED <<layout, i, hHandle, hVencHandle, inVars>>

(* A bug for the mutant runs: the frame is given back before it is copied. *)
GetInputAndRelease ==
  /\ at = "getin"
  /\ \E b \in FreeInBufs : hVencHandle' = b /\ inHeld' = inHeld \cup {b}
  /\ i' = 0
  /\ at' = "copy"
  /\ ChnOutputPortPutBuf(hHandle)
  /\ UNCHANGED <<layout, hHandle, inQ, inPix, failures>>

GetInput ==
  /\ at = "getin"
  /\ \E b \in FreeInBufs : hVencHandle' = b /\ inHeld' = inHeld \cup {b}
  /\ i' = 0
  /\ at' = "copy"
  /\ UNCHANGED <<layout, hHandle, outVars, inQ, inPix, failures>>

(* A bug for the mutant runs: it goes on with the next frame, like after a *)
(* failed GetOutput.                                                       *)
GetInputContinues ==
  /\ at = "getin"
  /\ Fails(FreeInBufs = {})
  /\ at' = "select"
  /\ UNCHANGED <<layout, i, hHandle, hVencHandle, outVars, inVars>>

(* The call does not wait: without a free buffer it fails.  Nothing is     *)
(* copied, and the handle of an earlier round is put back.                 *)
GetInputFails ==
  /\ at = "getin"
  /\ Fails(FreeInBufs = {})
  /\ at' = "put"
  /\ UNCHANGED <<layout, i, hHandle, hVencHandle, outVars, inVars>>

CopyPosition ==
  /\ at = "copy"
  /\ IF i \in Positions
     THEN /\ inPix' = IF InputAt(i) = Empty THEN inPix
                      ELSE [inPix EXCEPT ![hVencHandle] =
                              CopyBlock(@, outPix[hHandle], InputAt(i), i)]
          /\ i' = i + 1
          /\ at' = at
     ELSE inPix' = inPix /\ i' = 0 /\ at' = "put"
  /\ UNCHANGED <<layout, hHandle, hVencHandle, outVars, inQ, inHeld, failures>>

PutInput ==
  /\ at = "put"
  /\ ChnInputPortPutBuf(hVencHandle)
  /\ at' = "putout"
  /\ UNCHANGED <<layout, i, hHandle, hVencHandle, outVars, failures>>

PutOutput ==
  /\ at = "putout"
  /\ ChnOutputPortPutBuf(hHandle)
  /\ at' = "select"
  /\ UNCHANGED <<layout, i, hHandle, hVencHandle, inVars, failures>>

YUVdataProcess ==
  \/ Setup \/ Select \/ GetOutput \/ GetOutputFails \/ GetInput \/ GetInputFails
  \/ CopyPosition \/ PutInput \/ PutOutput

-----------------------------------------------------------------------------
(* The drivers. *)

(* The VPE fills a free buffer once the depth of its port is set.  When    *)
(* enough frames wait, the oldest gives way.                               *)
Capture ==
  /\ at \notin {"setup", "dead"}
  /\ \E b \in FreeOutBufs, f \in Frames :
       /\ outPix' = [outPix EXCEPT ![b] = f]
       /\ outQ' = Append(IF Len(outQ) < UserDepth THEN outQ ELSE Tail(outQ), b)
  /\ UNCHANGED <<layout, at, i, hHandle, hVencHandle, outHeld, inVars, failures>>

(* The DIVP takes a picture and the encoder, bound to it, encodes it.      *)
Encode ==
  /\ inQ # <<>>
  /\ inQ' = Tail(inQ)
  /\ UNCHANGED <<layout, at, i, hHandle, hVencHandle, outVars, inPix, inHeld, failures>>

Next == YUVdataProcess \/ Capture \/ Encode

Spec == Init /\ [][Next]_vars

(* The thread is runnable, the camera is on and pictures are encoded.      *)
FairSpec ==
  Spec /\ WF_vars(YUVdataProcess) /\ WF_vars(Capture) /\ WF_vars(Encode)

-----------------------------------------------------------------------------
(* Types; a buffer has one owner: it waits, or the thread holds it.        *)
TypeOK ==
  /\ layout \in Layouts
  /\ at \in {"setup", "select", "get", "getin", "copy", "put", "putout", "dead"}
  /\ i \in Nat
  /\ hHandle \in OutBufs \cup {NoHandle}
  /\ hVencHandle \in InBufs \cup {NoHandle}
  /\ outQ \in Seq(OutBufs) /\ outHeld \subseteq OutBufs
  /\ outPix \in [OutBufs -> Frames]
  /\ inQ \in Seq(InBufs) /\ inHeld \subseteq InBufs
  /\ failures \in 0..MaxFailures
  /\ \A k \in DOMAIN outQ : outQ[k] \notin outHeld
  /\ \A k \in DOMAIN inQ : inQ[k] \notin inHeld

(* Whichever calls fail, with whatever stale handle is put back then, the  *)
(* loop of YUVdataProcess keeps no buffer into its next round.             *)
NothingLeaks == at \in {"select", "dead"} => outHeld = {} /\ inHeld = {}

(* A sample of the mosaic of a frame: the position it lies in, the input   *)
(* shown there, and the same place within the input's block.               *)
MosaicSample(f, p) ==
  LET bh == IF p[1] = "y" THEN BlkH ELSE BlkH \div 2
      x == p[2] % Width
      y == p[2] \div Width
      inside == x \div BlkW < layout.h /\ y \div bh < layout.v
      id == InputAt((y \div bh) * layout.h + (x \div BlkW))
  IN IF ~inside THEN Unwritten
     ELSE IF id = Empty THEN Unwritten
     ELSE <<f, (Row(id) * bh + (y % bh)) * Width + Column(id) * BlkW + (x % BlkW)>>

(* Every picture that waits to be encoded is the mosaic of one frame, the  *)
(* drivers going on while it was copied: each input at its position and    *)
(* nothing outside the positions that show an input.  For blocks with an odd       *)
(* number of lines, which have no chroma lines of their own, the luma.     *)
PicturesAreMosaics ==
  \A k \in DOMAIN inQ : \E f \in Frames :
    \A p \in IF BlkH % 2 = 0 THEN Samples ELSE Luma :
      inPix[inQ[k]][p] = MosaicSample(f, p)

(* The loop always comes to submit another picture, once the failures are  *)
(* over: neither stale handles nor lost frames stop it.                    *)
PicturesFlow == at = "select" ~> (at = "put" /\ inHeld # {})
=============================================================================
