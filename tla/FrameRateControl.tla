-------------------------- MODULE FrameRateControl --------------------------
(***************************************************************************)
(* The frame rate that player.cpp gives to the encoder when the largest    *)
(* number of packets pending at a browser changes                          *)
(* (ws_cli_max_pending_changed_handler).                                   *)
(***************************************************************************)
EXTENDS Integers

MAX_FRAME_RATE == 15
MIN_FRAME_RATE == 5

(* A count of packets reaches the handler as a void pointer and is cast to *)
(* int: an unsigned word of w bits is read as a signed one.                *)
AsInt(p, w) == IF p < 2^(w - 1) THEN p ELSE p - 2^w

Clamp(r) ==
  IF r > MAX_FRAME_RATE THEN MAX_FRAME_RATE
  ELSE IF r < MIN_FRAME_RATE THEN MIN_FRAME_RATE ELSE r

(* Ten percent down when more than 8 packets are pending, ten percent up   *)
(* below 2, and by one where a tenth of the rate is truncated to nothing.  *)
Slower(r) == IF (r * 9) \div 10 = r THEN r - 1 ELSE (r * 9) \div 10
Faster(r) == IF (r * 11) \div 10 = r THEN r + 1 ELSE (r * 11) \div 10

(* A bug for the mutant runs: the result is not clamped.                   *)
UnclampedRate(max_pendings, frame_rate) ==
  IF max_pendings > 8 THEN Slower(frame_rate)
  ELSE IF max_pendings < 2 THEN Faster(frame_rate) ELSE frame_rate

AdaptedRate(max_pendings, frame_rate) ==
  Clamp(IF max_pendings > 8 THEN Slower(frame_rate)
        ELSE IF max_pendings < 2 THEN Faster(frame_rate) ELSE frame_rate)

(* An RTSP client that is connected pins the encoder at the lowest rate.   *)
ws_cli_max_pending_changed_handler(max_pendings, frame_rate, isConnected) ==
  IF isConnected THEN MIN_FRAME_RATE ELSE AdaptedRate(max_pendings, frame_rate)
=============================================================================
