--------------------------- MODULE StpManagerProofs ---------------------------
(* The request/response protocol keeps its promise for any number of       *)
(* clients, commands, requests and processes.                              *)
EXTENDS StpManager, TLAPS

(* A request is named by its port and its number: the requests of a port   *)
(* in use are numbered up to m_request_seq, later ports have none.         *)
Numbered ==
  /\ \A r \in asked : r.from[2] <= process[r.from[1]]
  /\ \A c \in Clients : \A r \in asked : r.from = Port(c) => r.seq <= m_request_seq[c]
  /\ \A r, s \in asked : r.from = s.from /\ r.seq = s.seq => r = s

(* Everything under way stems from a request, a response from one that was *)
(* answered.                                                               *)
IsReply(d, r) == d.to = r.from /\ d.seq = r.seq /\ d.body = Reply(r.cmd)

NetGenuine ==
  \A d \in net :
    /\ d.type = "request" => d.req \in asked
    /\ d.type = "response" => \E r \in served : IsReply(d, r)

ServerGenuine ==
  /\ served \subseteq asked
  /\ sat = "send" /\ remote # Stranger =>
       [from |-> remote, seq |-> m_response_seq, cmd |-> request_json] \in asked

(* A client that waits has asked what it waits for.                        *)
Waiting ==
  \A c \in Clients : cat[c] = "recv" =>
    /\ request[c] \in asked
    /\ request[c].from = Port(c)
    /\ request[c].seq = m_request_seq[c]
    /\ answer[c] = None

IInv == TypeOK /\ Numbered /\ NetGenuine /\ ServerGenuine /\ Waiting /\ AnswerMatches

LEMMA InitIInv == Init => IInv
<1> SUFFICES ASSUME Init
             PROVE  IInv
  OBVIOUS
<1>1. TypeOK
  BY StpAssumption DEF Init, TypeOK, Ports
<1>2. QED
  BY <1>1, StpAssumption DEF Init, IInv, Numbered, NetGenuine, ServerGenuine, Waiting, AnswerMatches

(* A response with the number of the last request is the reply to it.      *)
LEMMA Matched ==
  ASSUME IInv, NEW c \in Clients, cat[c] = "recv",
         NEW d \in net, d.type = "response", d.to = Port(c), d.seq = m_request_seq[c]
  PROVE  request[c] \in served /\ d.body = Reply(request[c].cmd)
<1>1. PICK r \in served : IsReply(d, r)
  BY DEF IInv, NetGenuine
<1>2. r \in asked /\ request[c] \in asked
  BY DEF IInv, ServerGenuine, Waiting
<1>3. r.from = request[c].from /\ r.seq = request[c].seq
  BY <1>1 DEF IsReply, IInv, Waiting
<1>4. r = request[c]
  BY <1>2, <1>3 DEF IInv, Numbered
<1>5. QED
  BY <1>1, <1>4 DEF IsReply

LEMMA RepliesAreReplies == \A cmd : Reply(cmd) \in Replies
  BY DEF Reply, Replies

(* A new request is of a number its port has not used.                     *)
LEMMA Fresh ==
  ASSUME IInv, NEW c \in Clients, NEW cmd \in Commands, m_request_seq[c] < MaxSeq,
         NEW r, r = [from |-> Port(c), seq |-> m_request_seq[c] + 1, cmd |-> cmd]
  PROVE  r \in Requests /\ r \notin asked
<1>1. Port(c) \in Ports /\ m_request_seq[c] \in 0..MaxSeq
  BY DEF IInv, TypeOK, Port, Ports
<1>2. m_request_seq[c] + 1 \in 1..MaxSeq /\ ~(m_request_seq[c] + 1 <= m_request_seq[c])
  BY <1>1, StpAssumption
<1>3. r \in Requests
  BY <1>1, <1>2 DEF Requests
<1>4. r \notin asked
  BY <1>2 DEF IInv, Numbered
<1>5. QED
  BY <1>3, <1>4

LEMMA SendStep ==
  ASSUME IInv, NEW c \in Clients, NEW cmd \in Commands, send(c, cmd)
  PROVE  IInv'
<1> DEFINE r == [from |-> Port(c), seq |-> m_request_seq[c] + 1, cmd |-> cmd]
<1>1. /\ cat[c] = "idle" /\ m_request_seq[c] < MaxSeq
      /\ m_request_seq' = [m_request_seq EXCEPT ![c] = @ + 1]
      /\ request' = [request EXCEPT ![c] = r]
      /\ answer' = [answer EXCEPT ![c] = None]
      /\ asked' = asked \cup {r}
      /\ \E copies \in 0..2 : net' = net \cup {Request(r, k) : k \in 1..copies}
      /\ cat' = [cat EXCEPT ![c] = "recv"]
      /\ UNCHANGED <<foreign, sat, m_response_seq, remote, request_json, process, served>>
  BY DEF send, Ask, serverVars
<1>2. /\ r \in Requests /\ r \notin asked
      /\ r.from = Port(c) /\ r.seq = m_request_seq[c] + 1
      /\ r.from[1] = c /\ r.from[2] = process[c]
  BY <1>1, Fresh DEF Port
<1> HIDE DEF r
<1>3. \A d \in net' : d \in net \/ (d.type = "request" /\ d.req = r)
  BY <1>1 DEF Request
<1>4. /\ m_request_seq[c] \in 0..MaxSeq /\ m_request_seq'[c] = m_request_seq[c] + 1
      /\ m_request_seq[c] + 1 \in 0..MaxSeq
      /\ \A b \in Clients : b # c => m_request_seq'[b] = m_request_seq[b]
      /\ process[c] \in Nat
  BY <1>1, StpAssumption DEF IInv, TypeOK
<1>5. TypeOK'
  BY <1>1, <1>2, <1>3, <1>4 DEF IInv, TypeOK
<1>6. Numbered'
  <2>1. \A s \in asked' : s.from[2] <= process'[s.from[1]]
    BY <1>1, <1>2, <1>4 DEF IInv, Numbered
  <2>2. \A s \in asked : s.from = Port(c) => s.seq <= m_request_seq[c] /\ s.seq \in Int
    BY DEF IInv, Numbered, TypeOK, Requests
  <2>3. ASSUME NEW b \in Clients, NEW s \in asked', s.from = Port(b)'
        PROVE  s.seq <= m_request_seq'[b]
    <3>1. s.from = Port(b)
      BY <1>1, <2>3 DEF Port
    <3>2. CASE s = r
      <4>1. b = c
        BY <1>2, <3>1, <3>2 DEF Port
      <4>2. QED
        BY <1>2, <1>4, <3>2, <4>1
    <3>3. CASE s \in asked
      BY <1>4, <2>2, <3>1, <3>3 DEF IInv, Numbered
    <3>4. QED
      BY <1>1, <2>3, <3>2, <3>3
  <2>4. \A s \in asked : ~(s.from = r.from /\ s.seq = r.seq)
    BY <1>2, <1>4, <2>2
  <2>5. \A s, t \in asked' : s.from = t.from /\ s.seq = t.seq => s = t
    BY <1>1, <2>4 DEF IInv, Numbered
  <2>6. QED
    BY <2>1, <2>3, <2>5 DEF Numbered
<1>7. NetGenuine'
  BY <1>1, <1>3 DEF IInv, NetGenuine, IsReply
<1>8. ServerGenuine'
  BY <1>1 DEF IInv, ServerGenuine
<1>9. Waiting'
  <2>1. \A b \in Clients : Port(b)' = Port(b)
    BY <1>1 DEF Port
  <2>2. /\ request'[c] = r /\ answer'[c] = None
        /\ \A b \in Clients : b # c =>
             /\ request'[b] = request[b] /\ answer'[b] = answer[b] /\ cat'[b] = cat[b]
    BY <1>1 DEF IInv, TypeOK
  <2>3. QED
    BY <1>1, <1>2, <1>4, <2>1, <2>2 DEF IInv, Waiting
<1>10. AnswerMatches'
  BY <1>1, StpAssumption DEF IInv, AnswerMatches, TypeOK
<1>11. QED
  BY <1>5, <1>6, <1>7, <1>8, <1>9, <1>10 DEF IInv

(* The steps of recv take a datagram at most.                              *)
LEMMA RecvStep ==
  ASSUME IInv, NEW c \in Clients, recv(c)
  PROVE  IInv'
<1>1. /\ net' \subseteq net /\ cat[c] = "recv"
      /\ UNCHANGED <<foreign, sat, m_response_seq, remote, request_json, process,
                     m_request_seq, request, asked, served>>
      /\ \A b \in Clients : Port(b)' = Port(b)
  BY DEF recv, RecvResponse, RecvContinues, RecvFails, serverVars, clientVars, Port
<1>2. \/ UNCHANGED <<cat, answer>>
      \/ /\ cat' = [cat EXCEPT ![c] = "idle"]
         /\ \/ answer' = [answer EXCEPT ![c] = Failed]
            \/ /\ request[c] \in served
               /\ answer' = [answer EXCEPT ![c] = Reply(request[c].cmd)]
  <2>1. CASE RecvResponse(c)
    <3>1. PICK d \in net : /\ d.type = "response" /\ d.to = Port(c)
                           /\ d.seq = m_request_seq[c]
                           /\ answer' = [answer EXCEPT ![c] = d.body]
      BY <2>1 DEF RecvResponse
    <3>2. QED
      BY <1>1, <2>1, <3>1, Matched DEF RecvResponse
  <2>2. CASE RecvContinues(c)
    BY <2>2 DEF RecvContinues, clientVars
  <2>3. CASE RecvFails(c)
    BY <2>3 DEF RecvFails
  <2>4. QED
    BY <2>1, <2>2, <2>3 DEF recv
<1>3. TypeOK'
  BY <1>1, <1>2, RepliesAreReplies DEF IInv, TypeOK
<1>4. Numbered'
  BY <1>1 DEF IInv, Numbered
<1>5. NetGenuine' /\ ServerGenuine'
  BY <1>1 DEF IInv, NetGenuine, ServerGenuine, IsReply
<1>6. Waiting'
  BY <1>1, <1>2 DEF IInv, Waiting, TypeOK
<1>7. AnswerMatches'
  BY <1>1, <1>2, StpAssumption DEF IInv, AnswerMatches, TypeOK
<1>8. QED
  BY <1>3, <1>4, <1>5, <1>6, <1>7 DEF IInv

LEMMA NextClientStep ==
  ASSUME IInv, NEW c \in Clients, createClientInstance(c)
  PROVE  IInv'
<1>1. /\ process[c] < MaxProcesses
      /\ process' = [process EXCEPT ![c] = @ + 1]
      /\ m_request_seq' = [m_request_seq EXCEPT ![c] = 0]
      /\ request' = [request EXCEPT ![c] = None]
      /\ answer' = [answer EXCEPT ![c] = None]
      /\ cat' = [cat EXCEPT ![c] = "idle"]
      /\ net' \subseteq net
      /\ UNCHANGED <<foreign, sat, m_response_seq, remote, request_json, asked, served>>
  BY DEF createClientInstance, NextClient, serverVars
<1>2. /\ process[c] \in 0..MaxProcesses /\ process'[c] = process[c] + 1
      /\ process[c] + 1 \in 0..MaxProcesses
      /\ \A b \in Clients : b # c => process'[b] = process[b] /\ Port(b)' = Port(b)
      /\ Port(c)' = <<c, process[c] + 1>>
  BY <1>1, StpAssumption DEF IInv, TypeOK, Port
<1>3. TypeOK'
  BY <1>1, <1>2, StpAssumption DEF IInv, TypeOK
<1>4. Numbered'
  <2>1. \A r \in asked : /\ r.from[1] \in Clients /\ r.from[2] \in Int
                         /\ r.from[2] <= process[r.from[1]]
    BY DEF IInv, Numbered, TypeOK, Requests, Ports
  <2>2. \A r \in asked : r.from # Port(c)'
    BY <1>2, <2>1
  <2>3. QED
    BY <1>1, <1>2, <2>1, <2>2 DEF IInv, Numbered, TypeOK
<1>5. NetGenuine' /\ ServerGenuine'
  BY <1>1 DEF IInv, NetGenuine, ServerGenuine, IsReply
<1>6. Waiting'
  BY <1>1, <1>2 DEF IInv, Waiting, TypeOK
<1>7. AnswerMatches'
  BY <1>1, StpAssumption DEF IInv, AnswerMatches, TypeOK
<1>8. QED
  BY <1>3, <1>4, <1>5, <1>6, <1>7 DEF IInv

LEMMA ServerStep ==
  ASSUME IInv, ServerProcess
  PROVE  IInv'
<1>1. UNCHANGED <<foreign, cat, process, m_request_seq, request, answer, asked>>
  BY DEF ServerProcess, ServerRecv, ServerRecvForeign, ServerSkips, ServerSend,
         ServerSendForeign, ServerRestart, clientVars
<1>2. \A c \in Clients : Port(c)' = Port(c)
  BY <1>1 DEF Port
<1>3. CASE ServerRecv
  <2>1. PICK d \in net : /\ d.type = "request" /\ net' = net \ {d}
                         /\ m_response_seq' = d.req.seq
                         /\ remote' = d.req.from
                         /\ request_json' = d.req.cmd
    BY <1>3 DEF ServerRecv
  <2>2. d.req \in asked /\ d.req \in Requests /\ d.req.seq \in 0..MaxSeq
    BY <2>1 DEF IInv, NetGenuine, TypeOK, Requests
  <2>3. d.req = [from |-> remote', seq |-> m_response_seq', cmd |-> request_json']
    BY <2>1, <2>2 DEF Requests
  <2>4. /\ remote' \in Ports /\ request_json' \in Commands
        /\ sat' = "send" /\ served' = served /\ net' \subseteq net
    BY <1>3, <2>1, <2>2 DEF ServerRecv, Requests
  <2>5. TypeOK'
    BY <1>1, <2>1, <2>2, <2>4 DEF IInv, TypeOK
  <2>6. NetGenuine' /\ ServerGenuine'
    BY <1>1, <2>2, <2>3, <2>4 DEF IInv, NetGenuine, ServerGenuine, IsReply
  <2>7. QED
    BY <1>1, <1>2, <2>4, <2>5, <2>6 DEF IInv, Numbered, Waiting, AnswerMatches
<1>4. CASE ServerSkips
  <2>1. net' \subseteq net /\ UNCHANGED <<sat, m_response_seq, remote, request_json, served>>
    BY <1>4 DEF ServerSkips, serverVars
  <2>2. QED
    BY <1>1, <1>2, <2>1
       DEF IInv, TypeOK, Numbered, NetGenuine, ServerGenuine, IsReply, Waiting, AnswerMatches
<1>5. CASE ServerRecvForeign
  <2>1. /\ net' \subseteq net /\ served' = served /\ remote' = Stranger
        /\ m_response_seq' = 0 /\ request_json' \in Commands /\ sat' = "send"
    BY <1>5 DEF ServerRecvForeign
  <2>2. TypeOK'
    BY <1>1, <2>1, StpAssumption DEF IInv, TypeOK
  <2>3. QED
    BY <1>1, <1>2, <2>1, <2>2
       DEF IInv, Numbered, NetGenuine, ServerGenuine, IsReply, Waiting, AnswerMatches
<1>6. CASE ServerSendForeign
  <2>1. sat' = "recv" /\ UNCHANGED <<net, m_response_seq, remote, request_json, served>>
    BY <1>6 DEF ServerSendForeign
  <2>2. QED
    BY <1>1, <1>2, <2>1
       DEF IInv, TypeOK, Numbered, NetGenuine, ServerGenuine, IsReply, Waiting, AnswerMatches
<1>7. CASE ServerSend
  <2> DEFINE r == [from |-> remote, seq |-> m_response_seq, cmd |-> request_json]
  <2>1. /\ served' = served \cup {r} /\ sat' = "recv"
        /\ net' \subseteq net \cup {Response(r.from, r.seq, Reply(r.cmd))}
        /\ UNCHANGED <<m_response_seq, remote, request_json>>
    BY <1>7 DEF ServerSend
  <2>2. r \in asked
    BY <1>7 DEF IInv, ServerGenuine, ServerSend
  <2> HIDE DEF r
  <2>3. r \in Requests /\ r.from \in Ports /\ r.seq \in 1..MaxSeq
    BY <2>2 DEF IInv, TypeOK, Requests
  <2>4. \A d \in net' : \/ d \in net
                        \/ /\ d.type = "response" /\ IsReply(d, r)
                           /\ d.to \in Ports /\ d.seq \in 1..MaxSeq /\ d.body \in Replies
    BY <2>1, <2>3, RepliesAreReplies DEF Response, IsReply
  <2>5. TypeOK'
    BY <1>1, <2>1, <2>3, <2>4 DEF IInv, TypeOK
  <2>6. NetGenuine'
    BY <1>1, <2>1, <2>4 DEF IInv, NetGenuine, IsReply
  <2>7. QED
    BY <1>1, <1>2, <2>1, <2>2, <2>5, <2>6
       DEF IInv, Numbered, ServerGenuine, Waiting, AnswerMatches
<1>8. CASE ServerRestart
  <2>1. /\ UNCHANGED <<net, served>> /\ sat' = "recv" /\ m_response_seq' = 0
        /\ remote' = None /\ request_json' = None
    BY <1>8 DEF ServerRestart
  <2>2. QED
    BY <1>1, <1>2, <2>1, StpAssumption
       DEF IInv, TypeOK, Numbered, NetGenuine, ServerGenuine, IsReply, Waiting, AnswerMatches
<1>9. QED
  BY <1>3, <1>4, <1>5, <1>6, <1>7, <1>8 DEF ServerProcess

LEMMA StrayStep ==
  ASSUME IInv, Stray
  PROVE  IInv'
<1>1. /\ \A d \in net' : d \in net \/ d.type \in {"noise", "foreign"}
      /\ foreign' = foreign \/ (foreign < MaxForeign /\ foreign' = foreign + 1)
      /\ UNCHANGED <<sat, m_response_seq, remote, request_json, cat, process,
                     m_request_seq, request, answer, asked, served>>
      /\ \A c \in Clients : Port(c)' = Port(c)
  BY DEF Stray, Noise, Foreign, serverVars, clientVars, Port
<1>2. TypeOK'
  <2>1. foreign' \in 0..MaxForeign
    BY <1>1, StpAssumption DEF IInv, TypeOK
  <2>2. QED
    BY <1>1, <2>1 DEF IInv, TypeOK
<1>3. QED
  BY <1>1, <1>2 DEF IInv, Numbered, NetGenuine, ServerGenuine, IsReply, Waiting, AnswerMatches

LEMMA NextIInv == IInv /\ [Next]_vars => IInv'
<1> SUFFICES ASSUME IInv, [Next]_vars
             PROVE  IInv'
  OBVIOUS
<1>1. ASSUME NEW c \in Clients, Client(c)
      PROVE  IInv'
  BY <1>1, SendStep, RecvStep, NextClientStep DEF Client
<1>2. CASE UNCHANGED vars
  <2>1. \A c \in Clients : Port(c)' = Port(c)
    BY <1>2 DEF vars, clientVars, Port
  <2>2. QED
    BY <1>2, <2>1 DEF vars, serverVars, clientVars, IInv, TypeOK, Numbered, NetGenuine,
                      ServerGenuine, IsReply, Waiting, AnswerMatches
<1>3. QED
  BY <1>1, <1>2, ServerStep, StrayStep DEF Next

LEMMA Invariance == Spec => []IInv
  BY InitIInv, NextIInv, PTL DEF Spec

(* The variables of clients, server and network keep their types.          *)
THEOREM TypeCorrect == Spec => []TypeOK
<1>1. IInv => TypeOK
  BY DEF IInv
<1>2. QED
  BY <1>1, Invariance, PTL

(* An answer that recv returns is the reply to the client's last request,  *)
(* whatever the network lost, delayed or repeated, whoever restarted and whatever strangers sent *)
(* but the number that is waited for.                                      *)
THEOREM AnswersMatch == Spec => []AnswerMatches
<1>1. IInv => AnswerMatches
  BY DEF IInv
<1>2. QED
  BY <1>1, Invariance, PTL

(* Each step of the protocol is a step of RequestReply or leaves its       *)
(* variables alone.                                                        *)
LEMMA StepSimulation ==
  ASSUME IInv, [Next]_vars
  PROVE  [Abstract!Next]_(Abstract!vars)
<1> USE DEF Abstract!vars
<1>1. ASSUME NEW c \in Clients, NEW cmd \in Commands, send(c, cmd)
      PROVE  Abstract!Next
  <2> DEFINE r == [from |-> Port(c), seq |-> m_request_seq[c] + 1, cmd |-> cmd]
  <2>1. r \in Requests /\ r \notin asked
    BY <1>1, Fresh DEF send, Ask
  <2>2. Abstract!Ask(c, r)
    BY <1>1, <2>1 DEF send, Ask, Abstract!Ask
  <2>3. QED
    BY <2>1, <2>2 DEF Abstract!Next
<1>2. ASSUME NEW c \in Clients, RecvResponse(c)
      PROVE  Abstract!Next
  <2>1. cat[c] = "recv" /\ UNCHANGED <<asked, served, request>>
    BY <1>2 DEF RecvResponse
  <2>2. PICK d \in net : /\ d.type = "response" /\ d.to = Port(c)
                         /\ d.seq = m_request_seq[c]
                         /\ answer' = [answer EXCEPT ![c] = d.body]
    BY <1>2 DEF RecvResponse
  <2>3. request[c] \in served /\ d.body = ReplyTo(request[c])
    BY <2>1, <2>2, Matched DEF ReplyTo
  <2>4. Abstract!Answer(c)
    BY <2>1, <2>2, <2>3 DEF IInv, Waiting, Abstract!Answer
  <2>5. QED
    BY <2>4 DEF Abstract!Next
<1>3. ASSUME NEW c \in Clients, RecvFails(c)
      PROVE  Abstract!Next
  <2>1. Abstract!GiveUp(c)
    BY <1>3 DEF RecvFails, IInv, Waiting, Abstract!GiveUp
  <2>2. QED
    BY <2>1 DEF Abstract!Next
<1>4. ASSUME NEW c \in Clients, RecvContinues(c)
      PROVE  UNCHANGED Abstract!vars
  BY <1>4 DEF RecvContinues, clientVars
<1>5. ASSUME NEW c \in Clients, createClientInstance(c)
      PROVE  Abstract!Next
  <2>1. Abstract!Leave(c)
    BY <1>5 DEF createClientInstance, NextClient, Abstract!Leave
  <2>2. QED
    BY <2>1 DEF Abstract!Next
<1>6. ASSUME ServerSend
      PROVE  Abstract!Next
  <2> DEFINE r == [from |-> remote, seq |-> m_response_seq, cmd |-> request_json]
  <2>1. r \in asked /\ r \in Requests
    BY <1>6 DEF ServerSend, IInv, ServerGenuine, TypeOK
  <2>2. Abstract!Serve(r)
    BY <1>6, <2>1 DEF ServerSend, clientVars, Abstract!Serve
  <2>3. QED
    BY <2>1, <2>2 DEF Abstract!Next
<1>7. CASE \/ ServerRecv \/ ServerRecvForeign \/ ServerSkips \/ ServerSendForeign
          \/ ServerRestart \/ Stray
  BY <1>7 DEF ServerRecv, ServerRecvForeign, ServerSkips, ServerSendForeign, ServerRestart,
              Stray, clientVars
<1>8. CASE UNCHANGED vars
  BY <1>8 DEF vars, clientVars
<1>9. QED
  BY <1>1, <1>2, <1>3, <1>4, <1>5, <1>6, <1>7, <1>8
     DEF Next, Client, recv, ServerProcess

(* The protocol implements the exchange that RequestReply describes.       *)
THEOREM Refinement == Spec => ImplementsRequestReply
<1>1. Init => Abstract!Init
  BY DEF Init, Abstract!Init
<1>2. QED
  BY <1>1, StepSimulation, Invariance, PTL DEF Spec, Abstract!Spec, ImplementsRequestReply
=============================================================================
