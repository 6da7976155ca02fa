------------------------------ MODULE StpManager ------------------------------
(***************************************************************************)
(* The request/response protocol of libcommon/STPManager.h over UDP, with  *)
(* the server and the client of stp_util.cpp.                              *)
(*                                                                         *)
(* The network loses, reorders and duplicates datagrams and may deliver    *)
(* those of strangers, which parse or do not.  A client waits for the      *)
(* response that carries the number of its last request, skips others, and *)
(* gives up after a time without a datagram; it may then ask again, or end *)
(* and be started again on another port.  The server may die between a     *)
(* request and its response.                                               *)
(*                                                                         *)
(* recv does not look at the sender's address, so that a stranger who sent *)
(* a client the very number it waits for would be believed: the strangers  *)
(* of this model do not.                                                   *)
(***************************************************************************)
EXTENDS Integers, FiniteSets

CONSTANTS
  Clients,
  Commands,      (* what clients ask; the server knows "onvif_list"        *)
  MaxSeq,        (* bound on the requests of a client's process            *)
  MaxRequests,   (* bound on all requests                                  *)
  MaxProcesses,  (* bound on the processes of a client                     *)
  MaxForeign,    (* bound on the strangers' datagrams that parse           *)
  Server,        (* its address                                            *)
  Stranger,      (* that of anybody else                                   *)
  None, Failed   (* no value yet, and what recv returns for a failure      *)

(* The body of the response to a command.                                  *)
Reply(cmd) == IF cmd = "onvif_list" THEN "response" ELSE "unknow_cmd"
Replies == {"response", "unknow_cmd"}

Ports == Clients \X (0..MaxProcesses)
Requests == [from : Ports, seq : 1..MaxSeq, cmd : Commands]

ASSUME StpAssumption ==
  /\ MaxSeq \in Nat /\ MaxRequests \in Nat /\ MaxProcesses \in Nat
  /\ MaxForeign \in Nat
  /\ Stranger \notin Ports
  /\ None \notin Ports \cup Requests \cup Commands \cup Replies
  /\ Failed \notin Replies \cup {None}

VARIABLES
  net,           (* datagrams on their way                                 *)
  sat,           (* what the server does: "recv" or "send"                 *)
  m_response_seq, remote, request_json,
  cat,           (* what a client does: "idle" or "recv"                   *)
  process,       (* the number of its process, which stands for its port   *)
  m_request_seq,
  request,       (* its last request                                       *)
  answer,        (* what recv returned for it                              *)
  foreign,       (* the number of strangers' datagrams that parse          *)
  asked,         (* history: all requests so far                           *)
  served         (* history: those the server has answered                 *)

serverVars == <<sat, m_response_seq, remote, request_json>>
clientVars == <<cat, process, m_request_seq, request, answer, asked>>
vars == <<net, foreign, serverVars, clientVars, served>>

(* Datagrams.  The network delivers up to two copies of a request, so that *)
(* there may be two responses to it.                                       *)
Request(r, k) == [type |-> "request", req |-> r, copy |-> k]
Response(to, n, body) ==
  [type |-> "response", to |-> to, seq |-> n, body |-> body]
Noise(to) == [type |-> "noise", to |-> to]
Foreign(to) == [type |-> "foreign", to |-> to]

Init ==
  /\ net = {}
  /\ sat = "recv"
  /\ m_response_seq = 0
  /\ remote = None
  /\ request_json = None
  /\ cat = [c \in Clients |-> "idle"]
  /\ process = [c \in Clients |-> 0]
  /\ m_request_seq = [c \in Clients |-> 0]
  /\ request = [c \in Clients |-> None]
  /\ answer = [c \in Clients |-> None]
  /\ foreign = 0
  /\ asked = {}
  /\ served = {}

-----------------------------------------------------------------------------
(* The client. *)

Port(c) == <<c, process[c]>>

(* A request r is sent and recv is called, whether sendto failed or not.   *)
Ask(c, r) ==
  /\ cat[c] = "idle"
  /\ m_request_seq[c] < MaxSeq /\ Cardinality(asked) < MaxRequests
  /\ m_request_seq' = [m_request_seq EXCEPT ![c] = @ + 1]
  /\ request' = [request EXCEPT ![c] = r]
  /\ answer' = [answer EXCEPT ![c] = None]
  /\ asked' = asked \cup {r}
  /\ \E copies \in 0..2 : net' = net \cup {Request(r, k) : k \in 1..copies}
  /\ cat' = [cat EXCEPT ![c] = "recv"]
  /\ UNCHANGED <<foreign, serverVars, process, served>>

(* A bug for the mutant runs: m_request_seq++ for ++m_request_seq.         *)
SendBeforeCounting(c, cmd) ==
  Ask(c, [from |-> Port(c), seq |-> m_request_seq[c], cmd |-> cmd])

send(c, cmd) ==
  Ask(c, [from |-> Port(c), seq |-> m_request_seq[c] + 1, cmd |-> cmd])

(* A bug for the mutant runs: any response will do.                        *)
RecvAnyResponse(c) ==
  /\ cat[c] = "recv"
  /\ \E d \in net :
       /\ d.type = "response" /\ d.to = Port(c)
       /\ answer' = [answer EXCEPT ![c] = d.body]
       /\ net' = net \ {d}
  /\ cat' = [cat EXCEPT ![c] = "idle"]
  /\ UNCHANGED <<foreign, serverVars, process, m_request_seq, request, asked,
                 served>>

RecvResponse(c) ==
  /\ cat[c] = "recv"
  /\ \E d \in net :
       /\ d.type = "response" /\ d.to = Port(c) /\ d.seq = m_request_seq[c]
       /\ answer' = [answer EXCEPT ![c] = d.body]
       /\ net' = net \ {d}
  /\ cat' = [cat EXCEPT ![c] = "idle"]
  /\ UNCHANGED <<foreign, serverVars, process, m_request_seq, request, asked,
                 served>>

(* The loop goes on with the next datagram, and a new timeout.             *)
RecvContinues(c) ==
  /\ cat[c] = "recv"
  /\ \E d \in net :
       /\ \/ d.type = "response" /\ d.to = Port(c) /\ d.seq # m_request_seq[c]
          \/ d = Foreign(Port(c))
       /\ net' = net \ {d}
  /\ UNCHANGED <<foreign, serverVars, clientVars, served>>

(* A bug for the mutant runs: a socket without SO_RCVTIMEO.                *)
RecvNoTimeout(c) ==
  /\ cat[c] = "recv"
  /\ Noise(Port(c)) \in net
  /\ net' = net \ {Noise(Port(c))}
  /\ answer' = [answer EXCEPT ![c] = Failed]
  /\ cat' = [cat EXCEPT ![c] = "idle"]
  /\ UNCHANGED <<foreign, serverVars, process, m_request_seq, request, asked,
                 served>>

(* recvfrom times out, or what came does not parse: recv returns -1.       *)
RecvFails(c) ==
  /\ cat[c] = "recv"
  /\ \/ UNCHANGED net
     \/ Noise(Port(c)) \in net /\ net' = net \ {Noise(Port(c))}
  /\ answer' = [answer EXCEPT ![c] = Failed]
  /\ cat' = [cat EXCEPT ![c] = "idle"]
  /\ UNCHANGED <<foreign, serverVars, process, m_request_seq, request, asked,
                 served>>

(* The client ends or is killed and its socket closes: what still comes to *)
(* its port is lost.  createClientInstance starts the next one on port n.  *)
NextClient(c, n) ==
  /\ process[c] < MaxProcesses
  /\ cat' = [cat EXCEPT ![c] = "idle"]
  /\ process' = [process EXCEPT ![c] = n]
  /\ m_request_seq' = [m_request_seq EXCEPT ![c] = 0]
  /\ request' = [request EXCEPT ![c] = None]
  /\ answer' = [answer EXCEPT ![c] = None]
  /\ net' = {d \in net : d.type = "request" \/ d.to # Port(c)}
  /\ UNCHANGED <<foreign, serverVars, asked, served>>

(* A bug for the mutant runs: the next process binds the same port.        *)
RestartSamePort(c) == request[c] # None /\ NextClient(c, process[c])

(* It binds no port and gets one that nothing is on its way to any more.   *)
createClientInstance(c) == NextClient(c, process[c] + 1)

recv(c) == RecvResponse(c) \/ RecvContinues(c) \/ RecvFails(c)

Client(c) ==
  \/ \E cmd \in Commands : send(c, cmd)
  \/ recv(c)
  \/ createClientInstance(c)

-----------------------------------------------------------------------------
(* The server of stp_util. *)

(* The number of the request is kept in the object, to tag the response.   *)
ServerRecv ==
  /\ sat = "recv"
  /\ \E d \in net :
       /\ d.type = "request"
       /\ net' = net \ {d}
       /\ m_response_seq' = d.req.seq
       /\ remote' = d.req.from
       /\ request_json' = d.req.cmd
  /\ sat' = "send"
  /\ UNCHANGED <<foreign, clientVars, served>>

(* Whatever parses is a request; without a number it counts as number 0.   *)
ServerRecvForeign ==
  /\ sat = "recv"
  /\ Foreign(Server) \in net
  /\ net' = net \ {Foreign(Server)}
  /\ m_response_seq' = 0
  /\ remote' = Stranger
  /\ request_json' \in Commands
  /\ sat' = "send"
  /\ UNCHANGED <<foreign, clientVars, served>>

(* What does not parse, and a timeout, bring it back to recv.              *)
ServerSkips ==
  /\ sat = "recv"
  /\ Noise(Server) \in net
  /\ net' = net \ {Noise(Server)}
  /\ UNCHANGED <<foreign, serverVars, clientVars, served>>

IsOpen(port) == process[port[1]] = port[2]

ServerSend ==
  /\ sat = "send"
  /\ remote # Stranger
  /\ served' = served \cup {[from |-> remote, seq |-> m_response_seq, cmd |-> request_json]}
  /\ \/ net' = net
     \/ /\ IsOpen(remote)
        /\ net' = net \cup {Response(remote, m_response_seq, Reply(request_json))}
  /\ sat' = "recv"
  /\ UNCHANGED <<foreign, m_response_seq, remote, request_json, clientVars>>

(* The stranger is answered like a client; his answer concerns nobody.     *)
ServerSendForeign ==
  /\ sat = "send"
  /\ remote = Stranger
  /\ sat' = "recv"
  /\ UNCHANGED <<net, foreign, m_response_seq, remote, request_json, clientVars, served>>

(* The server dies and is started again.                                   *)
ServerRestart ==
  /\ sat' = "recv"
  /\ m_response_seq' = 0
  /\ remote' = None
  /\ request_json' = None
  /\ UNCHANGED <<net, foreign, clientVars, served>>

ServerProcess ==
  ServerRecv \/ ServerRecvForeign \/ ServerSkips \/ ServerSend \/ ServerSendForeign
  \/ ServerRestart

-----------------------------------------------------------------------------
(* Somebody else's datagram is on its way to the server or to a client     *)
(* (bound: one at a time).  What does not parse may come again without     *)
(* end; what does, and makes recv wait once more, may not.                 *)
Addresses == {Server} \cup {Port(c) : c \in Clients}

Stray ==
  /\ \A d \in net : d.type \notin {"noise", "foreign"}
  /\ \E to \in Addresses :
       \/ net' = net \cup {Noise(to)} /\ foreign' = foreign
       \/ /\ foreign < MaxForeign
          /\ net' = net \cup {Foreign(to)}
          /\ foreign' = foreign + 1
  /\ UNCHANGED <<serverVars, clientVars, served>>

Next == (\E c \in Clients : Client(c)) \/ ServerProcess \/ Stray

Spec == Init /\ [][Next]_vars

(* recvfrom returns at the latest after its timeout.                       *)
FairSpec == Spec /\ \A c \in Clients : WF_vars(recv(c))

-----------------------------------------------------------------------------
TypeOK ==
  /\ \A d \in net :
       \/ d.type \in {"noise", "foreign"}
       \/ d.type = "request" /\ d.req \in Requests
       \/ d.type = "response" /\ d.to \in Ports /\ d.seq \in 1..MaxSeq /\ d.body \in Replies
  /\ sat \in {"recv", "send"}
  /\ m_response_seq \in 0..MaxSeq
  /\ remote \in Ports \cup {None, Stranger}
  /\ request_json \in Commands \cup {None}
  /\ cat \in [Clients -> {"idle", "recv"}]
  /\ process \in [Clients -> 0..MaxProcesses]
  /\ m_request_seq \in [Clients -> 0..MaxSeq]
  /\ request \in [Clients -> Requests \cup {None}]
  /\ answer \in [Clients -> Replies \cup {None, Failed}]
  /\ foreign \in 0..MaxForeign
  /\ asked \subseteq Requests
  /\ served \subseteq Requests

(* Whatever was lost, delayed, repeated or given up before: when recv      *)
(* returns 0, its answer is the one to the client's last command, and the  *)
(* server has answered that request.                                       *)
AnswerMatches ==
  \A c \in Clients : answer[c] \in Replies =>
    request[c] \in served /\ answer[c] = Reply(request[c].cmd)

(* recv always returns, although each late response and each datagram of a *)
(* stranger that it skips starts its timeout again.                        *)
RecvReturns == \A c \in Clients : cat[c] = "recv" ~> cat[c] # "recv"

(* The protocol keeps the promise of RequestReply.                         *)
ReplyTo(r) == Reply(r.cmd)
Abstract == INSTANCE RequestReply WITH Reply <- ReplyTo
ImplementsRequestReply == Abstract!Spec
=============================================================================
