----------------------------- MODULE RequestReply -----------------------------
(***************************************************************************)
(* What an exchange of STPManager.h promises to a client: it asks, and it  *)
(* is answered or given up.  An answer is the reply to this very request,  *)
(* which the server has carried out; a request may be carried out without  *)
(* being answered, even more than once, and is never asked again.          *)
(***************************************************************************)
CONSTANTS
  Clients,
  Requests,      (* the requests that may be asked                         *)
  Reply(_),      (* the server's reply to a request                        *)
  None, Failed   (* no request or no answer yet, and a request given up    *)

VARIABLES
  asked,         (* all requests so far                                    *)
  served,        (* those the server has carried out                       *)
  request,       (* the last request of each client                        *)
  answer         (* what it got: an answer, or why there is none           *)

vars == <<asked, served, request, answer>>

Init ==
  /\ asked = {}
  /\ served = {}
  /\ request = [c \in Clients |-> None]
  /\ answer = [c \in Clients |-> None]

Ask(c, r) ==
  /\ r \notin asked
  /\ asked' = asked \cup {r}
  /\ request' = [request EXCEPT ![c] = r]
  /\ answer' = [answer EXCEPT ![c] = None]
  /\ UNCHANGED served

Serve(r) ==
  /\ r \in asked
  /\ served' = served \cup {r}
  /\ UNCHANGED <<asked, request, answer>>

Answer(c) ==
  /\ request[c] \in served
  /\ answer[c] = None
  /\ answer' = [answer EXCEPT ![c] = Reply(request[c])]
  /\ UNCHANGED <<asked, served, request>>

GiveUp(c) ==
  /\ answer[c] = None
  /\ answer' = [answer EXCEPT ![c] = Failed]
  /\ UNCHANGED <<asked, served, request>>

(* The client's process ends; the next one has asked nothing.              *)
Leave(c) ==
  /\ request' = [request EXCEPT ![c] = None]
  /\ answer' = [answer EXCEPT ![c] = None]
  /\ UNCHANGED <<asked, served>>

Next ==
  \/ \E c \in Clients, r \in Requests : Ask(c, r)
  \/ \E r \in Requests : Serve(r)
  \/ \E c \in Clients : Answer(c) \/ GiveUp(c) \/ Leave(c)

Spec == Init /\ [][Next]_vars
=============================================================================
