---------------------------- MODULE FrameChannel ----------------------------
(***************************************************************************)
(* What the RTSP element promises to the encoder that feeds it: a bounded, *)
(* lossy, first-in first-out channel of encoded frames.                    *)
(*                                                                         *)
(* Frames are numbered in the order the encoder offers them.  A frame that *)
(* is offered is either taken into the channel or dropped at the door, and *)
(* it is dropped only when the channel is full.  A frame that was taken in *)
(* is delivered in its turn once the channel is open; only a channel that  *)
(* is not open yet may discard what it holds.                              *)
(*                                                                         *)
(* This is a specification, not a translation: LiveRtspServer is the       *)
(* translation of the code and is shown to implement it.                   *)
(***************************************************************************)
EXTENDS Naturals, Sequences

CONSTANT Cap  (* frames that wait in the channel, besides the one in hand *)

VARIABLES
  offered,  (* how many frames the encoder has offered             *)
  queue,    (* the frames inside the channel, oldest first         *)
  out,      (* the frames delivered so far, in order of delivery   *)
  open      (* the channel has a way out                           *)

chanVars == <<offered, queue, out, open>>

Init ==
  /\ offered = 0
  /\ queue = <<>>
  /\ out = <<>>
  /\ open = FALSE

(* The new frame finds room. *)
Accept ==
  /\ Len(queue) <= Cap
  /\ offered' = offered + 1
  /\ queue' = Append(queue, offered')
  /\ UNCHANGED <<out, open>>

(* The new frame is lost, which a channel with room never does. *)
Drop ==
  /\ Len(queue) >= Cap
  /\ offered' = offered + 1
  /\ UNCHANGED <<queue, out, open>>

Deliver ==
  /\ queue # <<>>
  /\ out' = Append(out, Head(queue))
  /\ queue' = Tail(queue)
  /\ UNCHANGED <<offered, open>>

(* A channel nobody can read from yet throws its oldest frame away. *)
Discard ==
  /\ ~open
  /\ queue # <<>>
  /\ queue' = Tail(queue)
  /\ UNCHANGED <<offered, out, open>>

Open ==
  /\ ~open
  /\ open' = TRUE
  /\ UNCHANGED <<offered, queue, out>>

Next == Accept \/ Drop \/ Deliver \/ Discard \/ Open

Spec == Init /\ [][Next]_chanVars

-----------------------------------------------------------------------------
TypeOK ==
  /\ offered \in Nat
  /\ queue \in Seq(Nat)
  /\ out \in Seq(Nat)
  /\ open \in BOOLEAN

Ordered(s) == \A i, j \in 1..Len(s) : i < j => s[i] < s[j]

(* The frames that left the channel and those still in it are in the order *)
(* in which they were offered, none of them twice, and none was invented.  *)
InOrder ==
  /\ Ordered(out)
  /\ Ordered(queue)
  /\ \A i \in 1..Len(out) : out[i] <= offered
  /\ \A j \in 1..Len(queue) : queue[j] <= offered
  /\ \A i \in 1..Len(out), j \in 1..Len(queue) : out[i] < queue[j]

=============================================================================
