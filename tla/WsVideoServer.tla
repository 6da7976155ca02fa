---------------------------- MODULE WsVideoServer ----------------------------
(***************************************************************************)
(* The "ws-server" element (CXStreamer/common/websocketserver.cpp) with    *)
(* its implementation WebSocketServerImplcFWK, and the handler of          *)
(* player.cpp that adapts the encoder's frame rate.                        *)
(*                                                                         *)
(* Three threads meet here.                                                *)
(*   - the server thread of the cFWK library calls on_new_websocket,       *)
(*     on_disconnect and on_cli_read, one at a time;                       *)
(*   - the encoder's thread calls pushData, which holds cli_list_mutex     *)
(*     while it walks cli_list;                                            *)
(*   - the player's thread calls startSelf, which starts the server thread *)
(*     before it sets the callback, in two stores.                         *)
(* on_cli_read takes no lock: it stores a report and looks for the maximum *)
(* while pushData may be resetting the counters it looks at.               *)
(***************************************************************************)
EXTENDS FrameRateControl, SequencesExt

CONSTANTS
  Clients,    (* browsers                                                  *)
  Width,      (* the 32 bits of pending_h264                               *)
  ZeroAbove,  (* the 10 of cli_list.size() > 10                            *)
  Reports,    (* the counts a browser may report                           *)
  Garbage     (* what the memory of a new video_cli may hold               *)

ASSUME WsAssumption ==
  /\ Width \in Nat \ {0}
  /\ ZeroAbove \in Nat /\ ZeroAbove >= 2
  /\ Reports \cup Garbage \subseteq 0..(2^Width - 1)

VARIABLES
  cli_list,       (* connected clients, oldest first                       *)
  pending_h264,   (* the last report of each client, once it has one       *)
  m_max_pending,
  registered,     (* on_max_pending_changed is set                         *)
  user_data,      (* so is on_max_pending_changed_user_data                *)
  fault,          (* the callback was called without it                    *)
  scan,           (* what on_cli_read is doing                             *)
  lock,           (* pushData holds cli_list_mutex                         *)
  to_reset,       (* clients whose counter pushData has yet to zero        *)
  to_write,       (* clients pushData has yet to write the frame to        *)
  got,            (* clients the current frame has been written to         *)
  frame_rate,     (* the attribute "VENC-FRAMERATE"                        *)
  isConnected,    (* the attribute of the RTSP element                     *)
  heard,          (* history: clients whose report has been evaluated      *)
  undercut        (* history: pushData has reset the counter that the last *)
                  (* scan held for the largest                             *)

cliVars == <<cli_list, pending_h264, heard>>
pushVars == <<lock, to_reset, to_write, got>>
rateVars == <<m_max_pending, frame_rate>>
callbackVars == <<registered, user_data, fault>>
vars == <<cliVars, pushVars, rateVars, callbackVars, scan, isConnected,
          undercut>>

Word == 0..(2^Width - 1)
Listed == ToSet(cli_list)

(* on_cli_read is not looking for a maximum, or has `best' as the largest  *)
(* of the first at - 1 clients of the list.                                *)
NoScan == [best |-> 0, at |-> 0]

Init ==
  /\ cli_list = <<>>
  /\ pending_h264 = [c \in Clients |-> 0]
  /\ m_max_pending \in Garbage
  /\ registered = FALSE
  /\ user_data = FALSE
  /\ fault = FALSE
  /\ scan = NoScan
  /\ lock = FALSE
  /\ to_reset = <<>>
  /\ to_write = <<>>
  /\ got = {}
  /\ frame_rate = MAX_FRAME_RATE
  /\ isConnected = FALSE
  /\ heard = {}
  /\ undercut = FALSE

-----------------------------------------------------------------------------
(* The server thread. *)

(* video_cli comes from an allocator that does not clear it. *)
on_new_websocket(c) ==
  /\ ~fault
  /\ scan = NoScan
  /\ ~lock
  /\ c \notin Listed
  /\ cli_list' = Append(cli_list, c)
  /\ \E g \in Garbage : pending_h264' = [pending_h264 EXCEPT ![c] = g]
  /\ UNCHANGED <<heard, pushVars, rateVars, callbackVars, scan, isConnected,
                 undercut>>

(* A bug for the mutant runs: list.remove and free without the mutex. *)
DisconnectUnlocked(c) ==
  /\ ~fault
  /\ scan = NoScan
  /\ \E k \in DOMAIN cli_list :
       cli_list[k] = c /\ cli_list' = RemoveAt(cli_list, k)
  /\ heard' = heard \ {c}
  /\ UNCHANGED <<pending_h264, pushVars, rateVars, callbackVars, scan,
                 isConnected, undercut>>

on_disconnect(c) ==
  /\ ~fault
  /\ scan = NoScan
  /\ ~lock
  /\ \E k \in DOMAIN cli_list :
       cli_list[k] = c /\ cli_list' = RemoveAt(cli_list, k)
  /\ heard' = heard \ {c}
  /\ UNCHANGED <<pending_h264, pushVars, rateVars, callbackVars, scan,
                 isConnected, undercut>>

(* on_cli_read with the key "pendingH264pkg": the count is stored and, if  *)
(* there is a callback, std::max_element starts at the front of the list.  *)
on_cli_read(c, n) ==
  /\ ~fault
  /\ scan = NoScan
  /\ c \in Listed
  /\ pending_h264' = [pending_h264 EXCEPT ![c] = n]
  /\ scan' = IF registered THEN [best |-> 1, at |-> 2] ELSE NoScan
  /\ heard' = IF registered THEN heard \cup {c} ELSE heard
  /\ undercut' = (undercut /\ ~registered)
  /\ UNCHANGED <<cli_list, pushVars, rateVars, callbackVars, isConnected>>

(* One comparison of max_element. *)
CompareNext ==
  /\ ~fault
  /\ scan # NoScan
  /\ scan.at <= Len(cli_list)
  /\ scan' = [best |-> IF pending_h264[cli_list[scan.best]]
                           < pending_h264[cli_list[scan.at]]
                       THEN scan.at ELSE scan.best,
              at |-> scan.at + 1]
  /\ UNCHANGED <<cliVars, pushVars, rateVars, callbackVars, isConnected,
                 undercut>>

(* The maximum is stored and the handler called, with whatever is in       *)
(* on_max_pending_changed_user_data: an Element*, or uninitialised memory  *)
(* taken for one, which the program does not survive.                      *)
CallHandler(max) ==
  /\ m_max_pending' = max
  /\ \/ /\ user_data
        /\ frame_rate' = ws_cli_max_pending_changed_handler(
                            AsInt(max, Width), frame_rate, isConnected)
        /\ UNCHANGED fault
     \/ /\ ~user_data
        /\ fault' = TRUE
        /\ UNCHANGED frame_rate

KeepMax == UNCHANGED <<rateVars, fault>>

ScanEnds ==
  /\ scan' = NoScan
  /\ UNCHANGED <<cliVars, pushVars, registered, user_data, isConnected, undercut>>

Found == pending_h264[cli_list[scan.best]]

(* Two bugs for the mutant runs: the last client is not compared, and an   *)
(* unchanged maximum of 0 is not passed on.                                *)
NotifyEarly ==
  /\ ~fault
  /\ scan # NoScan
  /\ scan.at >= Len(cli_list)
  /\ IF Found # m_max_pending \/ Found = 0 THEN CallHandler(Found) ELSE KeepMax
  /\ ScanEnds

NotifyChangesOnly ==
  /\ ~fault
  /\ scan # NoScan
  /\ scan.at > Len(cli_list)
  /\ IF Found # m_max_pending THEN CallHandler(Found) ELSE KeepMax
  /\ ScanEnds

(* The counter of the client found is read once more; the handler is       *)
(* called when it differs from the last maximum, and always when it is 0.  *)
NotifyMax ==
  /\ ~fault
  /\ scan # NoScan
  /\ scan.at > Len(cli_list)
  /\ IF Found # m_max_pending \/ Found = 0 THEN CallHandler(Found) ELSE KeepMax
  /\ ScanEnds

ServerThread == CompareNext \/ NotifyMax

-----------------------------------------------------------------------------
(* The encoder's thread: pushData.  Both loops run from the newest client  *)
(* to the oldest.                                                          *)

Newest(l) == SubSeq(Reverse(l), 1, IF Len(l) > 2 THEN 2 ELSE Len(l))
AllButNewest(l) == SubSeq(Reverse(l), 3, Len(l))

pushData ==
  /\ ~fault
  /\ ~lock
  /\ lock' = TRUE
  /\ to_reset' = IF Len(cli_list) > ZeroAbove THEN AllButNewest(cli_list)
                                              ELSE <<>>
  /\ to_write' = Newest(cli_list)
  /\ got' = {}
  /\ UNCHANGED <<cliVars, rateVars, callbackVars, scan, isConnected, undercut>>

ResetCounter ==
  /\ ~fault
  /\ lock
  /\ to_reset # <<>>
  /\ pending_h264' = [pending_h264 EXCEPT ![Head(to_reset)] = 0]
  /\ to_reset' = Tail(to_reset)
  /\ undercut' = \/ undercut
                 \/ scan # NoScan /\ Head(to_reset) = cli_list[scan.best]
  /\ UNCHANGED <<cli_list, heard, lock, to_write, got, rateVars, callbackVars,
                 scan, isConnected>>

WriteFrame ==
  /\ ~fault
  /\ lock
  /\ to_reset = <<>>
  /\ to_write # <<>>
  /\ got' = got \cup {Head(to_write)}
  /\ to_write' = Tail(to_write)
  /\ UNCHANGED <<cliVars, lock, to_reset, rateVars, callbackVars, scan,
                 isConnected, undercut>>

Unlock ==
  /\ ~fault
  /\ lock
  /\ to_reset = <<>>
  /\ to_write = <<>>
  /\ lock' = FALSE
  /\ got' = {}
  /\ UNCHANGED <<cliVars, to_reset, to_write, rateVars, callbackVars, scan,
                 isConnected, undercut>>

EncoderThread == ResetCounter \/ WriteFrame \/ Unlock

-----------------------------------------------------------------------------
(* startSelf, while the server thread is already running, calls            *)
(* setMaxPendingChangedCallback if its attribute names a handler: two      *)
(* stores that nothing orders for the thread that reads them.              *)
StoreCallback ==
  /\ ~registered
  /\ registered' = TRUE
  /\ UNCHANGED <<user_data, fault>>

StoreUserData ==
  /\ ~user_data
  /\ user_data' = TRUE
  /\ UNCHANGED <<registered, fault>>

setMaxPendingChangedCallback ==
  /\ ~fault
  /\ StoreCallback \/ StoreUserData
  /\ UNCHANGED <<cliVars, pushVars, rateVars, scan, isConnected, undercut>>

(* LiveRTSPServer::pushData sets its attribute (see LiveRtspServer). *)
RtspAttribute ==
  /\ ~fault
  /\ isConnected' = ~isConnected
  /\ UNCHANGED <<cliVars, pushVars, rateVars, callbackVars, scan, undercut>>

(* Nothing runs any more. *)
Dead == fault /\ UNCHANGED vars

Next ==
  \/ \E c \in Clients :
       \/ on_new_websocket(c)
       \/ on_disconnect(c)
       \/ \E n \in Reports : on_cli_read(c, n)
  \/ ServerThread
  \/ pushData
  \/ EncoderThread
  \/ setMaxPendingChangedCallback
  \/ RtspAttribute
  \/ Dead

Spec == Init /\ [][Next]_vars

(* Threads that have begun a callback or a frame are scheduled; browsers,  *)
(* the encoder and RTSP clients do as they like.                           *)
FairSpec == Spec /\ WF_vars(ServerThread) /\ WF_vars(EncoderThread)

-----------------------------------------------------------------------------
(* Types of the variables; the rate never leaves its bounds. *)
TypeOK ==
  /\ cli_list \in Seq(Clients)
  /\ pending_h264 \in [Clients -> Word]
  /\ m_max_pending \in Word
  /\ registered \in BOOLEAN /\ user_data \in BOOLEAN /\ fault \in BOOLEAN
  /\ scan = NoScan \/ scan \in [best : 1..Len(cli_list), at : 2..(Len(cli_list) + 1)]
  /\ lock \in BOOLEAN
  /\ to_reset \in Seq(Clients)
  /\ to_write \in Seq(Clients)
  /\ got \subseteq Clients
  /\ frame_rate \in MIN_FRAME_RATE..MAX_FRAME_RATE
  /\ isConnected \in BOOLEAN
  /\ heard \subseteq Clients
  /\ undercut \in BOOLEAN

(* While pushData walks the list, every client it has yet to touch is      *)
(* still allocated (on_disconnect removes and frees it under the mutex),   *)
(* and the frame goes to the two newest clients and to nobody else however *)
(* clients come and go.                                                    *)
WalkSafe ==
  lock => /\ ToSet(to_reset) \subseteq Listed
          /\ got \cup ToSet(to_write) = ToSet(Newest(cli_list))

(* on_cli_read finds a maximum that is not below the last report of any    *)
(* connected client, although it scans without the mutex while pushData    *)
(* resets counters, clients it has passed and clients it has not.  One     *)
(* race alone understates it: the reset of the very counter the scan holds *)
(* for the largest, and then only until the next report.                   *)
NotUnderstated ==
  scan = NoScan /\ ~undercut =>
    \A c \in heard : pending_h264[c] <= m_max_pending

(* When browsers keep reporting that nothing is pending and no RTSP client *)
(* is connected, the rate climbs back to its maximum: truncation does not  *)
(* stall the ten-percent steps and an unchanged 0 is passed on.            *)
RateRecovers ==
  ( /\ <>[](/\ registered /\ ~isConnected
            /\ \A c \in Listed : pending_h264[c] = 0)
    /\ []<><<\E c \in Clients : on_cli_read(c, 0)>>_vars )
  => <>[](frame_rate = MAX_FRAME_RATE)

(* The comment on m_max_pending (websocketserverimplcfwk.h:19) says that   *)
(* it records the number of packets pending at the client with the most.   *)
(* That is asked here only of a quiet server all of whose clients have     *)
(* been heard, with too few of them for counters to be reset.              *)
RecordsTheMaximum ==
  scan = NoScan /\ cli_list # <<>> /\ Listed = heard =>
    \E c \in Listed : pending_h264[c] = m_max_pending
=============================================================================
