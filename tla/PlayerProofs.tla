----------------------------- MODULE PlayerProofs -----------------------------
(* What holds of the two channels for any set of command lines, however    *)
(* main's thread and the venc threads interleave and whatever fails.       *)
EXTENDS Player, TLAPS

(* A frame that was fetched is owned until it is freed.  The loop comes to *)
(* its free() with another pointer only after GetStream has failed.        *)
BufferOwned ==
  \A t \in Calls :
    /\ venc[t] = "call" => data[t] = "owned"
    /\ venc[t] = "free" /\ data[t] # "owned" => "stream" \in failed

(* main's thread has built both channels.                                  *)
Linking == main \in (Calls \X {"linkVpe", "linkVif"}) \cup {<<0, "run">>}

(* Elements exist for the channels NovaEncoderInit knows only.             *)
KnownChannel ==
  /\ main[2] \in {"vif", "vpe", "venc", "rtsp", "linkVif"}
       => chn[main[1]] \in Channels
  /\ \A t \in Calls :
       head[t] = "elements" \/ venc[t] # "off" => chn[t] \in Channels

(* With both channels on the command line: what main has built at each     *)
(* place; nothing is bound before all is built, so no frame flows before.  *)
Built ==
  BothChannels =>
    /\ main[1] = 2 => server[chn[1]] = "started" /\ head[1] = "elements"
    /\ Linking => /\ \A c \in Channels : server[c] = "started"
                  /\ \A t \in Calls : head[t] = "elements"
    /\ ~Linking => binds = {}
    /\ ~Linking => /\ \A t \in Calls : venc[t] \notin {"call", "free"}
                   /\ \A c \in Channels : got[c] = {}

IInv ==
  /\ TypeOK /\ FreedOnce /\ BufferOwned /\ KnownChannel /\ Built
  /\ NoNullServer /\ OwnChannel

-----------------------------------------------------------------------------
LEMMA CommandLine ==
  ASSUME TypeOK, BothChannels
  PROVE  /\ \A t \in Calls : chn[t] \in Channels
         /\ \A c \in Channels : c = chn[1] \/ c = chn[2]
         /\ chn[1] # chn[2]
  BY DEF TypeOK, BothChannels, Channels, Calls

LEMMA DefaultLine ==
  ASSUME TypeOK, chn = <<0, 1>>
  PROVE  BothChannels /\ \A t \in Calls : chn[t] = t - 1
  BY DEF BothChannels, Channels, Calls

LEMMA InitIInv == Init => IInv
<1> SUFFICES ASSUME Init
             PROVE  IInv
  OBVIOUS
<1>1. TypeOK
  BY PlayerAssumption DEF Init, TypeOK, Calls, Channels
<1>2. FreedOnce /\ BufferOwned /\ NoNullServer
  BY DEF Init, FreedOnce, BufferOwned, NoNullServer
<1>3. Built
  <2>1. main = <<1, "create">> /\ main[1] # 2 /\ ~Linking
    BY DEF Init, Linking, Calls
  <2>2. QED
    BY <2>1 DEF Init, Built
<1>4. OwnChannel
  BY DEF Init, OwnChannel
<1>5. KnownChannel
  BY DEF Init, KnownChannel
<1>6. QED
  BY <1>1, <1>2, <1>3, <1>4, <1>5 DEF IInv

(* What a channel needs for its first frame includes a bound port.         *)
LEMMA FramesNeedLinks ==
  ASSUME IInv, BothChannels, NEW t \in Calls, HasFrames(chn[t])
  PROVE  Linking
  BY DEF IInv, Built, HasFrames

(* A callback that is running has a server that was started.               *)
LEMMA ServerThere ==
  ASSUME IInv, BothChannels, NEW t \in Calls, venc[t] \in {"call", "free"}
  PROVE  Linking /\ server[t - 1] = "started"
  BY DEF IInv, Built, Calls, Channels

-----------------------------------------------------------------------------
(* A step of main's thread leaves the venc threads alone, except that it   *)
(* may start one.                                                          *)
LEMMA MainKeepsFrames ==
  ASSUME IInv, UNCHANGED <<chn, data, got, fault>>, failed \subseteq failed',
         \A t \in Calls : venc'[t] = venc[t] \/ venc'[t] = "query",
         BothChannels =>
           \A c \in Channels : got[c] # {} => server'[c] = server[c]
  PROVE  FreedOnce' /\ BufferOwned' /\ NoNullServer' /\ OwnChannel'
<1>1. FreedOnce' /\ BufferOwned' /\ NoNullServer'
  BY DEF IInv, FreedOnce, BufferOwned, NoNullServer, BothChannels
<1>2. OwnChannel'
  BY DefaultLine DEF IInv, OwnChannel
<1>3. QED
  BY <1>1, <1>2

LEMMA InitStep ==
  ASSUME IInv, NEW t \in Calls,
         CreateElements(t) \/ StartVif(t) \/ StartVpe(t) \/ StartVenc(t)
           \/ StartRtsp(t) \/ OtherChannel(t)
  PROVE  IInv'
<1> USE DEF IInv
<1>1. CASE CreateElements(t)
  <2> USE <1>1 DEF CreateElements
  <2>1. TypeOK'
    BY DEF TypeOK, Calls
  <2>k. KnownChannel'
    BY DEF KnownChannel, TypeOK, AfterCall, Calls
  <2>2. Built'
    <3> SUFFICES ASSUME BothChannels
                 PROVE  Built'
      BY DEF Built, BothChannels
    <3>1. ~Linking /\ ~Linking'
      BY DEF Linking, Calls
    <3>2. t = 2 => chn[1] # chn[2]
      BY CommandLine
    <3>3. QED
      BY <3>1, <3>2 DEF Built, TypeOK, Calls
  <2>3. BothChannels => \A c \in Channels : got[c] # {} => server'[c] = server[c]
    BY DEF Built, Linking, Calls
  <2>4. QED
    BY <2>1, <2>2, <2>3, <2>k, MainKeepsFrames
<1>2. CASE StartVif(t)
  <2> USE <1>2 DEF StartVif
  <2>0. chn[t] \in Channels
    BY DEF KnownChannel, Calls
  <2>1. TypeOK'
    <3>1. up' \subseteq {"vif", "vpe", "divp", "venc"} \X Channels
      BY <2>0 DEF TypeOK, Channels
    <3>2. failed' \subseteq {"setup", "stream"}
      BY DEF TypeOK
    <3>3. venc' \in [Calls -> {"off", "query", "call", "free"}]
      BY DEF TypeOK
    <3>4. QED
      BY <3>1, <3>2, <3>3 DEF TypeOK, Calls
  <2>k. KnownChannel'
    BY DEF KnownChannel, TypeOK, AfterCall, Calls
  <2>2. Built'
    BY DEF Built, BothChannels, Linking, Calls
  <2>3. QED
    BY <2>1, <2>2, <2>k, MainKeepsFrames
<1>3. CASE StartVpe(t)
  <2> USE <1>3 DEF StartVpe
  <2>0. chn[t] \in Channels
    BY DEF KnownChannel, Calls
  <2>1. TypeOK'
    <3>1. up' \subseteq {"vif", "vpe", "divp", "venc"} \X Channels
      BY <2>0 DEF TypeOK, Channels
    <3>2. failed' \subseteq {"setup", "stream"}
      BY DEF TypeOK
    <3>3. venc' \in [Calls -> {"off", "query", "call", "free"}]
      BY DEF TypeOK
    <3>4. QED
      BY <3>1, <3>2, <3>3 DEF TypeOK, Calls
  <2>k. KnownChannel'
    BY DEF KnownChannel, TypeOK, AfterCall, Calls
  <2>2. Built'
    BY DEF Built, BothChannels, Linking, Calls
  <2>3. QED
    BY <2>1, <2>2, <2>k, MainKeepsFrames
<1>4. CASE StartVenc(t)
  <2> USE <1>4 DEF StartVenc
  <2>0. chn[t] \in Channels
    BY DEF KnownChannel, Calls
  <2>1. TypeOK'
    <3>1. up' \subseteq {"vif", "vpe", "divp", "venc"} \X Channels
      BY <2>0 DEF TypeOK, Channels
    <3>2. failed' \subseteq {"setup", "stream"}
      BY DEF TypeOK
    <3>3. venc' \in [Calls -> {"off", "query", "call", "free"}]
      BY DEF TypeOK
    <3>4. QED
      BY <3>1, <3>2, <3>3 DEF TypeOK, Calls
  <2>k. KnownChannel'
    BY DEF KnownChannel, TypeOK, AfterCall, Calls
  <2>2. \A u \in Calls : venc'[u] = venc[u] \/ venc'[u] = "query"
    BY DEF TypeOK
  <2>3. Built'
    BY <2>2 DEF Built, BothChannels, Linking, Calls
  <2>4. QED
    BY <2>1, <2>2, <2>3, <2>k, MainKeepsFrames
<1>5. CASE StartRtsp(t)
  <2> USE <1>5 DEF StartRtsp
  <2>1. TypeOK'
    BY DEF TypeOK, Calls, AfterCall
  <2>k. KnownChannel'
    BY DEF KnownChannel, TypeOK, AfterCall, Calls
  <2>2. Built'
    <3> SUFFICES ASSUME BothChannels
                 PROVE  Built'
      BY DEF Built, BothChannels
    <3>1. /\ ~Linking /\ binds' = {}
          /\ main' = IF t = 1 THEN <<2, "create">> ELSE <<1, "linkVpe">>
          /\ chn[1] \in Channels /\ chn[2] \in Channels
          /\ \A c \in Channels : c = chn[1] \/ c = chn[2]
      BY CommandLine DEF Built, Linking, Calls, AfterCall
    <3>2. server' = [server EXCEPT ![chn[t]] = "started"]
          /\ head' = [head EXCEPT ![t] = "elements"]
      OBVIOUS
    <3>3. t = 1 \/ /\ t = 2 /\ main[1] = 2
      BY DEF Calls
    <3>4. CASE t = 1
      <4>1. ~Linking' /\ main'[1] = 2
        BY <3>1, <3>4 DEF Linking, Calls
      <4>2. server'[chn[1]] = "started" /\ head'[1] = "elements"
        BY <3>1, <3>2, <3>4 DEF TypeOK, Calls
      <4>3. QED
        BY <4>1, <4>2, <3>1 DEF Built
    <3>5. CASE t = 2
      <4>1. main'[1] = 1 /\ Linking'
        BY <3>1, <3>5 DEF Linking, Calls
      <4>2. server[chn[1]] = "started" /\ head[1] = "elements"
        BY <3>3, <3>5 DEF Built
      <4>3. \A c \in Channels : server'[c] = "started"
        BY <4>2, <3>1, <3>2, <3>5 DEF TypeOK
      <4>4. \A u \in Calls : head'[u] = "elements"
        BY <4>2, <3>2, <3>5 DEF TypeOK, Calls
      <4>5. QED
        BY <4>1, <4>3, <4>4 DEF Built
    <3>6. QED
      BY <3>3, <3>4, <3>5
  <2>3. BothChannels => \A c \in Channels : got[c] # {} => server'[c] = server[c]
    BY DEF Built, Linking, Calls
  <2>4. QED
    BY <2>1, <2>2, <2>3, <2>k, MainKeepsFrames
<1>6. CASE OtherChannel(t)
  <2> USE <1>6 DEF OtherChannel
  <2>1. TypeOK'
    BY DEF TypeOK, Calls, AfterCall
  <2>k. KnownChannel'
    BY DEF KnownChannel, TypeOK, AfterCall, Calls
  <2>2. Built'
    BY CommandLine DEF Built, BothChannels
  <2>3. QED
    BY <2>1, <2>2, <2>k, MainKeepsFrames
<1>7. QED
  BY <1>1, <1>2, <1>3, <1>4, <1>5, <1>6

LEMMA LinkStep ==
  ASSUME IInv, NEW t \in Calls,
         LinkVpe(t) \/ LinkVif(t) \/ SkipLink(t)
  PROVE  IInv'
<1> USE DEF IInv
<1>1. Linking /\ UNCHANGED <<chn, server, head, venc, data, got, fault>>
  BY DEF LinkVpe, LinkVif, SkipLink, Linking
<1>2. /\ failed \subseteq failed' /\ failed' \subseteq {"setup", "stream"}
      /\ regroup' \in BOOLEAN
  BY DEF LinkVpe, LinkVif, SkipLink, TypeOK
<1>3. main' \in {<<t, "linkVif">>, <<2, "linkVpe">>, <<0, "run">>}
  BY DEF LinkVpe, LinkVif, SkipLink, AfterLink, Calls
<1>4. /\ main' = <<t, "linkVif">> => chn[t] \in Channels
      /\ binds' # binds => chn[t] \in Channels
  <2>1. CASE LinkVpe(t)
    BY <2>1 DEF LinkVpe, Linkable, KnownChannel
  <2>2. CASE LinkVif(t)
    <3>1. main = <<t, "linkVif">>
      BY <2>2 DEF LinkVif
    <3>2. main[1] = t /\ main[2] = "linkVif"
      BY <3>1
    <3>3. QED
      BY <3>2 DEF KnownChannel
  <2>3. CASE SkipLink(t)
    BY <2>3 DEF SkipLink, AfterLink, Calls
  <2>4. QED
    BY <2>1, <2>2, <2>3
<1>5. binds' \subseteq ({"vif", "vpe", "divp"} \X Channels \X {"vpe", "venc"})
  <2>1. binds' \subseteq binds \cup
          {<<"divp", chn[t], "venc">>, <<"vpe", chn[t], "venc">>,
           <<"vif", chn[t], "vpe">>}
    BY DEF LinkVpe, LinkVif, SkipLink
  <2>2. QED
    BY <2>1, <1>4 DEF TypeOK
<1>6. TypeOK'
  <2>1. main' \in ((Calls \X {"create", "vif", "vpe", "venc", "rtsp",
                               "linkVpe", "linkVif"}) \cup {<<0, "run">>})
    BY <1>3 DEF Calls
  <2>2. up' = up
    BY DEF LinkVpe, LinkVif, SkipLink
  <2>3. QED
    BY <1>1, <1>2, <1>5, <2>1, <2>2 DEF TypeOK
<1>7. KnownChannel'
  BY <1>1, <1>3, <1>4 DEF KnownChannel
<1>8. Built'
  <2>1. Linking'
    BY <1>3 DEF Linking, Calls
  <2>2. BothChannels' => BothChannels
    BY <1>1 DEF BothChannels
  <2>3. main'[1] = 2 /\ BothChannels =>
          server'[chn'[1]] = "started" /\ head'[1] = "elements"
    BY <1>1, CommandLine, 1 \in Calls DEF Built, Calls
  <2>4. QED
    BY <1>1, <2>1, <2>2, <2>3 DEF Built
<1>9. QED
  BY <1>1, <1>2, <1>6, <1>7, <1>8, MainKeepsFrames

(* A pointer that is wild means that one of the two calls built nothing.   *)
LEMMA WildStep ==
  ASSUME IInv, NEW t \in Calls, WildLink(t)
  PROVE  IInv'
<1> USE DEF IInv
<1>1. /\ fault' = "wildHead" /\ Linking /\ ~Linkable(t)
      /\ UNCHANGED <<chn, main, server, head, up, binds, regroup, venc, data,
                     got, failed>>
  BY DEF WildLink, Linking, mainVars
<1>2. ~BothChannels
  BY <1>1 DEF Built, Linkable, Calls
<1>3. TypeOK'
  BY <1>1 DEF TypeOK
<1>4. FreedOnce' /\ BufferOwned' /\ KnownChannel' /\ OwnChannel'
  BY <1>1 DEF FreedOnce, BufferOwned, KnownChannel, OwnChannel
<1>5. ~BothChannels'
  BY <1>1, <1>2 DEF BothChannels
<1>6. QED
  BY <1>3, <1>4, <1>5 DEF Built, NoNullServer

-----------------------------------------------------------------------------
(* The steps of a venc thread.                                             *)
LEMMA ThreadStep ==
  ASSUME IInv, NEW t \in Calls, getH264data(t)
  PROVE  IInv'
<1> USE DEF IInv
<1>1. CASE GetStream(t)
  <2>1. /\ HasFrames(chn[t]) /\ venc[t] = "query" /\ Alive
        /\ data' = [data EXCEPT ![t] = "owned"]
        /\ venc' = [venc EXCEPT ![t] = "call"]
        /\ UNCHANGED <<chn, main, server, head, up, binds, regroup, got, fault,
                       failed>>
    BY <1>1 DEF GetStream, mainVars
  <2>2. TypeOK'
    BY <2>1 DEF TypeOK
  <2>3. FreedOnce' /\ NoNullServer' /\ OwnChannel'
    BY <2>1 DEF FreedOnce, NoNullServer, OwnChannel, BothChannels
  <2>4. BufferOwned' /\ KnownChannel'
    BY <2>1 DEF BufferOwned, KnownChannel, TypeOK
  <2>5. Built'
    <3> SUFFICES ASSUME BothChannels
                 PROVE  Built'
      BY <2>1 DEF Built, BothChannels
    <3>1. Linking /\ Linking'
      BY <2>1, FramesNeedLinks DEF Linking
    <3>2. QED
      BY <2>1, <3>1 DEF Built
  <2>6. QED
    BY <2>2, <2>3, <2>4, <2>5
<1>2. CASE GetStreamFails(t)
  <2>1. /\ HasFrames(chn[t]) /\ venc[t] = "query" /\ Alive
        /\ failed' = failed \cup {"stream"}
        /\ venc' = [venc EXCEPT ![t] = "free"]
        /\ UNCHANGED <<chn, main, server, head, up, binds, regroup, data, got,
                       fault>>
    BY <1>2 DEF GetStreamFails, mainVars
  <2>2. TypeOK'
    BY <2>1 DEF TypeOK
  <2>3. FreedOnce' /\ NoNullServer' /\ OwnChannel'
    BY <2>1 DEF FreedOnce, NoNullServer, OwnChannel, BothChannels
  <2>4. BufferOwned' /\ KnownChannel'
    BY <2>1 DEF BufferOwned, KnownChannel, TypeOK
  <2>5. Built'
    <3> SUFFICES ASSUME BothChannels
                 PROVE  Built'
      BY <2>1 DEF Built, BothChannels
    <3>1. Linking /\ Linking'
      BY <2>1, FramesNeedLinks DEF Linking
    <3>2. QED
      BY <2>1, <3>1 DEF Built
  <2>6. QED
    BY <2>2, <2>3, <2>4, <2>5
<1>3. CASE RTSPCallBack(t)
  <2>1. /\ venc[t] = "call" /\ Alive /\ chn[t] \in Channels
        /\ t - 1 \in Channels
        /\ UNCHANGED <<chn, main, server, head, up, binds, regroup, data, failed>>
    BY <1>3 DEF RTSPCallBack, mainVars, KnownChannel, Channels, Calls
  <2>2. \/ /\ server[t - 1] = "null" /\ fault' = "nullServer"
           /\ UNCHANGED <<got, venc>>
        \/ /\ got' = [got EXCEPT ![t - 1] = @ \cup {chn[t]}]
           /\ venc' = [venc EXCEPT ![t] = "free"]
           /\ fault' = fault
    BY <1>3 DEF RTSPCallBack
  <2>3. TypeOK'
    <3>1. got' \in [Channels -> SUBSET Channels]
      BY <2>1, <2>2 DEF TypeOK
    <3>2. QED
      BY <2>1, <2>2, <3>1 DEF TypeOK
  <2>4. BothChannels => Linking /\ server[t - 1] = "started"
    BY <2>1, ServerThere
  <2>5. FreedOnce' /\ NoNullServer'
    BY <2>1, <2>2, <2>4 DEF FreedOnce, NoNullServer, BothChannels, Alive
  <2>6. BufferOwned' /\ KnownChannel'
    BY <2>1, <2>2 DEF BufferOwned, KnownChannel, TypeOK
  <2>7. Built'
    <3> SUFFICES ASSUME BothChannels
                 PROVE  Built'
      BY <2>1 DEF Built, BothChannels
    <3>1. Linking /\ Linking'
      BY <2>1, <2>4 DEF Linking
    <3>2. QED
      BY <2>1, <3>1 DEF Built
  <2>8. OwnChannel'
    <3> SUFFICES ASSUME chn = <<0, 1>>, NEW c \in Channels
                 PROVE  got'[c] \subseteq {c} /\ (got'[c] # {} => server[c] = "started")
      BY <2>1 DEF OwnChannel
    <3>1. chn[t] = t - 1 /\ server[t - 1] = "started"
      BY <2>4, DefaultLine
    <3>2. got[c] \subseteq {c} /\ (got[c] # {} => server[c] = "started")
      BY DEF OwnChannel
    <3>3. got' = got \/ got' = [got EXCEPT ![t - 1] = @ \cup {t - 1}]
      BY <2>2, <3>1
    <3>4. QED
      BY <3>1, <3>2, <3>3 DEF TypeOK
  <2>9. QED
    BY <2>3, <2>5, <2>6, <2>7, <2>8
<1>4. CASE FreeData(t)
  <2>1. /\ venc[t] = "free" /\ Alive
        /\ venc' = [venc EXCEPT ![t] = "query"]
        /\ UNCHANGED <<chn, main, server, head, up, binds, regroup, got, failed>>
    BY <1>4 DEF FreeData, mainVars
  <2>2. \/ data' = [data EXCEPT ![t] = "freed"] /\ fault' = fault
        \/ data[t] # "owned" /\ data' = data /\ fault' \in {"none", "badFree"}
    BY <1>4 DEF FreeData
  <2>3. TypeOK'
    BY <2>1, <2>2 DEF TypeOK
  <2>4. FreedOnce'
    BY <2>1, <2>2 DEF FreedOnce, BufferOwned, Alive
  <2>5. NoNullServer' /\ OwnChannel'
    BY <2>1, <2>2 DEF NoNullServer, OwnChannel, BothChannels
  <2>6. BufferOwned' /\ KnownChannel'
    BY <2>1, <2>2 DEF BufferOwned, KnownChannel, TypeOK
  <2>7. Built'
    <3> SUFFICES ASSUME BothChannels
                 PROVE  Built'
      BY <2>1 DEF Built, BothChannels
    <3>1. Linking /\ Linking'
      BY <2>1, ServerThere DEF Linking
    <3>2. QED
      BY <2>1, <3>1 DEF Built
  <2>8. QED
    BY <2>3, <2>4, <2>5, <2>6, <2>7
<1>5. QED
  BY <1>1, <1>2, <1>3, <1>4 DEF getH264data

-----------------------------------------------------------------------------
LEMMA NextIInv == IInv /\ [Next]_vars => IInv'
<1> SUFFICES ASSUME IInv, [Next]_vars
             PROVE  IInv'
  OBVIOUS
<1>1. CASE NovaEncoderInit
  BY <1>1, InitStep DEF NovaEncoderInit
<1>2. CASE start
  BY <1>2, LinkStep, WildStep DEF start
<1>3. CASE \E t \in Calls : getH264data(t)
  BY <1>3, ThreadStep
<1>4. CASE UNCHANGED vars
  <2> USE <1>4 DEF vars, mainVars, IInv
  <2>1. TypeOK' /\ FreedOnce' /\ BufferOwned' /\ KnownChannel'
    BY DEF TypeOK, FreedOnce, BufferOwned, KnownChannel
  <2>2. Built' /\ NoNullServer' /\ OwnChannel'
    BY DEF Built, Linking, NoNullServer, OwnChannel, BothChannels
  <2>3. QED
    BY <2>1, <2>2
<1>5. QED
  BY <1>1, <1>2, <1>3, <1>4 DEF Next

LEMMA Inductive == Spec => []IInv
<1>1. Init => IInv
  BY InitIInv
<1>2. IInv /\ [Next]_vars => IInv'
  BY NextIInv
<1>3. QED
  BY <1>1, <1>2, PTL DEF Spec

(* Every variable of main's thread, the drivers' channels and the venc     *)
(* threads keeps its type, for any set of command lines.                   *)
THEOREM TypeCorrect == Spec => []TypeOK
<1>1. IInv => TypeOK
  BY DEF IInv
<1>2. QED
  BY <1>1, Inductive, PTL

(* With both channels on the command line RTSPCallBack_0 and RTSPCallBack_1*)
(* never meet a null server, and start() follows no wild pointer.          *)
THEOREM ServersExist == Spec => []NoNullServer
<1>1. IInv => NoNullServer
  BY DEF IInv
<1>2. QED
  BY <1>1, Inductive, PTL

(* With the default arguments the frames of a channel reach the server of  *)
(* that channel only.                                                      *)
THEOREM ChannelsApart == Spec => []OwnChannel
<1>1. IInv => OwnChannel
  BY DEF IInv
<1>2. QED
  BY <1>1, Inductive, PTL

(* getH264data frees each buffer once unless MI_VENC_GetStream has failed. *)
THEOREM BuffersFreedOnce == Spec => []FreedOnce
<1>1. IInv => FreedOnce
  BY DEF IInv
<1>2. QED
  BY <1>1, Inductive, PTL
=============================================================================
