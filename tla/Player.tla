------------------------------- MODULE Player -------------------------------
(***************************************************************************)
(* How player.cpp puts the two encoder channels together, and the threads  *)
(* of the "venc" elements that take encoded frames to the RTSP servers.    *)
(*                                                                         *)
(* main calls getInstance(chn1, chn2): NovaEncoderInit(chn1) with the      *)
(* callback RTSPCallBack_0, then NovaEncoderInit(chn2) with                *)
(* RTSPCallBack_1.  Each call creates vif, vpe, venc and rtsp-server       *)
(* elements and starts them; the venc thread runs from then on.  start()   *)
(* then binds the drivers' ports together, and only then do frames flow.   *)
(* A callback finds its server through a global variable named after the   *)
(* POSITION of the call, while the variable is set according to the        *)
(* CHANNEL: that is what the properties here are about.                    *)
(*                                                                         *)
(* The drivers (MI_VIF, MI_VPE, MI_DIVP, MI_VENC, MI_SYS) are external: a  *)
(* channel has frames when its ports are bound, and any GetStream may      *)
(* fail.  LiveRtspServer models what a server does with a frame.           *)
(***************************************************************************)
EXTENDS Naturals, FiniteSets

CONSTANT Arguments  (* the pairs <<chn1, chn2>> on the command line        *)

(* NovaEncoderInit knows two channels; 2 stands for every other number.    *)
Channels == {0, 1}
Calls == {1, 2}

ASSUME PlayerAssumption == Arguments \subseteq [Calls -> 0..2]

VARIABLES
  chn,      (* the channel passed to each call of NovaEncoderInit          *)
  main,     (* where main's thread is: a call and its phase, or start()    *)
  server,   (* rtsp_server0 and rtsp_server1                               *)
  head,     (* mElemHead1 and mElemHead2                                   *)
  up,       (* drivers' channels that have been created and started        *)
  binds,    (* bound ports                                                 *)
  regroup,  (* the thread YUVdataProcess of channel 0 runs                 *)
  venc,     (* the loop getH264data started by each call                   *)
  data,     (* its variable data                                           *)
  got,      (* channels whose frames each server has been given            *)
  fault,    (* why the process is dead, if it is                           *)
  failed    (* history: the kinds of driver call that have failed          *)

mainVars == <<main, server, head, up, binds, regroup>>
vars == <<chn, mainVars, venc, data, got, fault, failed>>

Init ==
  /\ chn \in Arguments
  /\ main = <<1, "create">>
  /\ server = [c \in Channels |-> "null"]
  /\ head = [t \in Calls |-> "null"]
  /\ up = {}
  /\ binds = {}
  /\ regroup = FALSE
  /\ venc = [t \in Calls |-> "off"]
  /\ data = [t \in Calls |-> "uninit"]
  /\ got = [c \in Channels |-> {}]
  /\ fault = "none"
  /\ failed = {}

Alive == fault = "none"

-----------------------------------------------------------------------------
(* main's thread: the phases of NovaEncoderInit, call t. *)

(* The elements are created; the global server variable is that of the     *)
(* channel.                                                                *)
CreateElements(t) ==
  /\ Alive
  /\ main = <<t, "create">>
  /\ chn[t] \in Channels
  /\ server' = [server EXCEPT ![chn[t]] = "created"]
  /\ main' = <<t, "vif">>
  /\ UNCHANGED <<chn, head, up, binds, regroup, venc, data, got, fault, failed>>

(* The startSelf of vif and of vpe; the vpe of channel 0, which regroups,  *)
(* has a DIVP channel as well.  A driver's call may fail: startSelf then   *)
(* stops short, and nobody looks at what it returns.                       *)
StartVif(t) ==
  /\ Alive
  /\ main = <<t, "vif">>
  /\ \/ up' = up \cup {<<"vif", chn[t]>>} /\ failed' = failed
     \/ up' = up /\ failed' = failed \cup {"setup"}
  /\ main' = <<t, "vpe">>
  /\ UNCHANGED <<chn, server, head, binds, regroup, venc, data, got, fault>>

StartVpe(t) ==
  LET vpe == {<<"vpe", chn[t]>>}
      all == IF chn[t] = 0 THEN vpe \cup {<<"divp", 0>>} ELSE vpe
  IN /\ Alive
     /\ main = <<t, "vpe">>
     /\ \/ up' = up \cup all /\ failed' = failed
        \/ /\ \E part \in {{}, vpe} : up' = up \cup part
           /\ failed' = failed \cup {"setup"}
     /\ main' = <<t, "venc">>
     /\ UNCHANGED <<chn, server, head, binds, regroup, venc, data, got, fault>>

(* startSelfData: the encoder's channel is started and its thread created, *)
(* unless the driver refuses.                                              *)
StartVenc(t) ==
  /\ Alive
  /\ main = <<t, "venc">>
  /\ \/ /\ up' = up \cup {<<"venc", chn[t]>>}
        /\ venc' = [venc EXCEPT ![t] = "query"]
        /\ failed' = failed
     \/ failed' = failed \cup {"setup"} /\ UNCHANGED <<up, venc>>
  /\ main' = <<t, "rtsp">>
  /\ UNCHANGED <<chn, server, head, binds, regroup, data, got, fault>>

AfterCall(t) == IF t = 1 THEN <<2, "create">> ELSE <<1, "linkVpe">>

(* Two bugs for the mutant runs: channel 0 is bound as soon as it is       *)
(* started, and a server is not started on the second call.                *)
StartAndBind(t) ==
  /\ Alive
  /\ main = <<t, "rtsp">>
  /\ server' = [server EXCEPT ![chn[t]] = "started"]
  /\ head' = [head EXCEPT ![t] = "elements"]
  /\ binds' = binds \cup {<<"vif", chn[t], "vpe">>,
                          <<IF chn[t] = 0 THEN "divp" ELSE "vpe", chn[t], "venc">>}
  /\ regroup' = (regroup \/ chn[t] = 0)
  /\ main' = AfterCall(t)
  /\ UNCHANGED <<chn, up, venc, data, got, fault, failed>>

StartRtspOnce(t) ==
  /\ Alive
  /\ main = <<t, "rtsp">>
  /\ server' = IF t = 1 THEN [server EXCEPT ![chn[t]] = "started"] ELSE server
  /\ head' = [head EXCEPT ![t] = "elements"]
  /\ main' = AfterCall(t)
  /\ UNCHANGED <<chn, up, binds, regroup, venc, data, got, fault, failed>>

StartRtsp(t) ==
  /\ Alive
  /\ main = <<t, "rtsp">>
  /\ server' = [server EXCEPT ![chn[t]] = "started"]
  /\ head' = [head EXCEPT ![t] = "elements"]
  /\ main' = AfterCall(t)
  /\ UNCHANGED <<chn, up, binds, regroup, venc, data, got, fault, failed>>

(* Any other channel: the function ends without returning a value.         *)
OtherChannel(t) ==
  /\ Alive
  /\ main = <<t, "create">>
  /\ chn[t] \notin Channels
  /\ \E h \in {"null", "garbage"} : head' = [head EXCEPT ![t] = h]
  /\ main' = AfterCall(t)
  /\ UNCHANGED <<chn, server, up, binds, regroup, venc, data, got, fault, failed>>

NovaEncoderInit ==
  \E t \in Calls :
    CreateElements(t) \/ StartVif(t) \/ StartVpe(t) \/ StartVenc(t)
      \/ StartRtsp(t) \/ OtherChannel(t)

(* Player::start.  The elements of the second channel are linked to those  *)
(* of the first, of which linkTo only looks at the class name; so a second *)
(* channel is of no use without the first.                                 *)
Linkable(t) == head[t] = "elements" /\ head[1] = "elements"

(* A bug for the mutant runs: one element too many is linked.              *)
AfterLinkNext(t) == <<t + 1, "linkVpe">>

AfterLink(t) == IF t = 1 THEN <<2, "linkVpe">> ELSE <<0, "run">>

(* Vpe::linkTo binds the port that feeds the encoder; start() does not     *)
(* look at the result.                                                     *)
LinkVpe(t) ==
  /\ Alive
  /\ main = <<t, "linkVpe">>
  /\ Linkable(t)
  /\ \/ /\ binds' = binds \cup
             {<<IF chn[t] = 0 THEN "divp" ELSE "vpe", chn[t], "venc">>}
        /\ failed' = failed
     \/ binds' = binds /\ failed' = failed \cup {"setup"}
  /\ main' = <<t, "linkVif">>
  /\ UNCHANGED <<chn, server, head, up, regroup, venc, data, got, fault>>

(* A bug for the mutant runs: the regrouping thread is not started.        *)
LinkVifOnly(t) ==
  /\ Alive
  /\ main = <<t, "linkVif">>
  /\ \/ binds' = binds \cup {<<"vif", chn[t], "vpe">>} /\ failed' = failed
     \/ binds' = binds /\ failed' = failed \cup {"setup"}
  /\ main' = AfterLink(t)
  /\ UNCHANGED <<chn, server, head, up, regroup, venc, data, got, fault>>

(* vif::linkTo binds the camera and, for channel 0, starts the thread that *)
(* takes frames from the vpe, regroups them and hands them to the DIVP.    *)
(* When the camera cannot be bound it returns before that.                 *)
LinkVif(t) ==
  /\ Alive
  /\ main = <<t, "linkVif">>
  /\ \/ /\ binds' = binds \cup {<<"vif", chn[t], "vpe">>}
        /\ regroup' = (regroup \/ chn[t] = 0)
        /\ failed' = failed
     \/ failed' = failed \cup {"setup"} /\ UNCHANGED <<binds, regroup>>
  /\ main' = AfterLink(t)
  /\ UNCHANGED <<chn, server, head, up, venc, data, got, fault>>

SkipLink(t) ==
  /\ Alive
  /\ main = <<t, "linkVpe">>
  /\ head[t] = "null"
  /\ main' = AfterLink(t)
  /\ UNCHANGED <<chn, server, head, up, binds, regroup, venc, data, got, fault, failed>>

(* A pointer that is none, or mElemHead1 when it is null, is dereferenced. *)
WildLink(t) ==
  /\ Alive
  /\ main = <<t, "linkVpe">>
  /\ head[t] # "null"
  /\ ~Linkable(t)
  /\ fault' = "wildHead"
  /\ UNCHANGED <<chn, mainVars, venc, data, got, failed>>

start == \E t \in Calls : LinkVpe(t) \/ LinkVif(t) \/ SkipLink(t) \/ WildLink(t)

-----------------------------------------------------------------------------
(* The threads of the venc elements: getH264data. *)

(* The encoder of a channel has something to give once its camera's frames *)
(* reach it.                                                               *)
HasFrames(c) ==
  /\ {<<"vif", c>>, <<"vpe", c>>, <<"venc", c>>} \subseteq up
  /\ <<"vif", c, "vpe">> \in binds
  /\ IF c = 0 THEN regroup /\ <<"divp", 0>> \in up /\ <<"divp", 0, "venc">> \in binds
              ELSE <<"vpe", c, "venc">> \in binds

(* MI_VENC_Query finds a packet and MI_VENC_GetStream fetches it into a    *)
(* new buffer.                                                             *)
GetStream(t) ==
  /\ Alive
  /\ venc[t] = "query"
  /\ HasFrames(chn[t])
  /\ data' = [data EXCEPT ![t] = "owned"]
  /\ venc' = [venc EXCEPT ![t] = "call"]
  /\ UNCHANGED <<chn, mainVars, got, fault, failed>>

GetStreamFails(t) ==
  /\ Alive
  /\ venc[t] = "query"
  /\ HasFrames(chn[t])
  /\ failed' = failed \cup {"stream"}
  /\ venc' = [venc EXCEPT ![t] = "free"]
  /\ UNCHANGED <<chn, mainVars, data, got, fault>>

(* RTSPCallBack_0 or RTSPCallBack_1, by the position of the call.          *)
RTSPCallBack(t) ==
  /\ Alive
  /\ venc[t] = "call"
  /\ IF server[t - 1] = "null"
     THEN fault' = "nullServer" /\ UNCHANGED <<got, venc>>
     ELSE /\ got' = [got EXCEPT ![t - 1] = @ \cup {chn[t]}]
          /\ venc' = [venc EXCEPT ![t] = "free"]
          /\ fault' = fault
  /\ UNCHANGED <<chn, mainVars, data, failed>>

(* A bug for the mutant runs: the callback's caller frees as well.         *)
FreeTwice(t) ==
  /\ Alive
  /\ venc[t] = "free"
  /\ IF data[t] = "owned"
     THEN data' = [data EXCEPT ![t] = "freed"] /\ fault' = fault
     ELSE data' = data /\ \E f \in {"none", "badFree"} : fault' = f
  /\ \E p \in {"query", "free"} : venc' = [venc EXCEPT ![t] = p]
  /\ UNCHANGED <<chn, mainVars, got, failed>>

(* free(data) at the end of the loop is reached with whatever data holds   *)
(* when GetStream has failed; freeing that may or may not be fatal.        *)
FreeData(t) ==
  /\ Alive
  /\ venc[t] = "free"
  /\ IF data[t] = "owned"
     THEN data' = [data EXCEPT ![t] = "freed"] /\ fault' = fault
     ELSE data' = data /\ \E f \in {"none", "badFree"} : fault' = f
  /\ venc' = [venc EXCEPT ![t] = "query"]
  /\ UNCHANGED <<chn, mainVars, got, failed>>

getH264data(t) ==
  GetStream(t) \/ GetStreamFails(t) \/ RTSPCallBack(t) \/ FreeData(t)

Next ==
  \/ NovaEncoderInit
  \/ start
  \/ \E t \in Calls : getH264data(t)

Spec == Init /\ [][Next]_vars

(* Every thread is scheduled, and cameras that are bound deliver.          *)
FairSpec ==
  /\ Spec
  /\ WF_vars(NovaEncoderInit)
  /\ WF_vars(start)
  /\ \A t \in Calls : WF_vars(getH264data(t))
-----------------------------------------------------------------------------
(* Types of the variables. *)
TypeOK ==
  /\ chn \in [Calls -> 0..2]
  /\ main \in ((Calls \X {"create", "vif", "vpe", "venc", "rtsp", "linkVpe", "linkVif"})
                \cup {<<0, "run">>})
  /\ server \in [Channels -> {"null", "created", "started"}]
  /\ head \in [Calls -> {"null", "garbage", "elements"}]
  /\ up \subseteq ({"vif", "vpe", "divp", "venc"} \X Channels)
  /\ binds \subseteq ({"vif", "vpe", "divp"} \X Channels \X {"vpe", "venc"})
  /\ regroup \in BOOLEAN
  /\ venc \in [Calls -> {"off", "query", "call", "free"}]
  /\ data \in [Calls -> {"uninit", "owned", "freed"}]
  /\ got \in [Channels -> SUBSET Channels]
  /\ fault \in {"none", "wildHead", "nullServer", "badFree"}
  /\ failed \subseteq {"setup", "stream"}

BothChannels == {chn[1], chn[2]} = Channels

(* With both channels on the command line, in either order, no callback    *)
(* meets a null server and no pointer is wild: the venc threads run before *)
(* all servers exist, but frames flow only after start().                  *)
NoNullServer == BothChannels => fault \notin {"nullServer", "wildHead"}

(* With the default arguments each server is given the frames of its own   *)
(* channel and of no other, and only after startSelf.                      *)
OwnChannel ==
  chn = <<0, 1>> =>
    \A c \in Channels : /\ got[c] \subseteq {c}
                        /\ got[c] # {} => server[c] = "started"

(* The buffer of a frame is freed once: only a GetStream that fails makes  *)
(* the loop free a pointer that is none, or one it has already freed.      *)
FreedOnce == fault = "badFree" => "stream" \in failed

(* With both channels on the command line both servers are given frames,   *)
(* unless a driver fails.                                                  *)
BothStream ==
  \A c \in Channels : BothChannels ~> (got[c] # {} \/ failed # {})
=============================================================================
