------------------------------ MODULE Netlink ------------------------------
(***************************************************************************)
(* The netlink socket of src/src/netlink/main.c and its clients, the C     *)
(* program netlink.c, which always binds port 50, and the Go program       *)
(* netlink.go, which binds its process number.  A client sends one request *)
(* and waits, without a timeout, for one answer.                           *)
(*                                                                         *)
(* Netlink is modelled from how the code uses it: a user socket of the     *)
(* protocol holds a reference to the module; a port has at most one        *)
(* socket; a message to the kernel is handled by recv_cb inside the        *)
(* sender's sendto, which gives the message back afterwards;               *)
(* netlink_unicast appends to the queue of the socket that is bound to the *)
(* port, or frees the message if there is none.  A client may be killed    *)
(* whenever it is not inside recv_cb, and its socket is closed then.       *)
(*                                                                         *)
(* Left out: the texts, and nl_bind, which is called for multicast groups  *)
(* only and no client asks for one.                                        *)
(***************************************************************************)
EXTENDS Integers, Sequences, FiniteSets

CONSTANTS
  CClients,   \* processes that run netlink.c
  GoClients,  \* processes that run netlink.go
  Port50,     \* the port that netlink.c binds
  None,       \* no client
  Runs        \* bound: how often a client is started

Clients == CClients \cup GoClients
Ports == {Port50} \cup GoClients

ASSUME NetlinkAssumption ==
  /\ IsFiniteSet(Clients) /\ CClients \cap GoClients = {}
  /\ Port50 \notin GoClients /\ None \notin Clients
  /\ Runs \in Nat

VARIABLES
  module,    \* "none", "loaded" or "going"
  pc,        \* pc[c]: what client c does next; "out" is before and after main
  runs,      \* runs[c]: how often c was started
  owner,     \* owner[p]: the client whose socket is bound to port p
  inbox,     \* inbox[c]: the receive queue of c's socket, each answer being
             \* known by the client and the run whose request it answers
  skb,       \* skb[c]: references to the request of c
  nomem,     \* nomem[c]: nlmsg_new failed for the answer to c
  requests,  \* how many requests have been sent
  setups     \* how many setup_params recv_cb has allocated

vars == <<module, pc, runs, owner, inbox, skb, nomem, requests, setups>>
sockets == <<owner, inbox>>

Goto(c, from, to) == pc[c] = from /\ pc' = [pc EXCEPT ![c] = to]

-----------------------------------------------------------------------------
(* Loading and unloading.  When netlink_kernel_create fails nothing has    *)
(* changed; rmmod is refused while a socket of the protocol is open.       *)
test_netlink_init ==
  /\ module = "none"
  /\ module' = "loaded"
  /\ UNCHANGED <<pc, runs, sockets, skb, nomem, requests, setups>>

rmmod ==
  /\ module = "loaded"
  /\ \A c \in Clients : pc[c] = "out"
  /\ module' = "going"
  /\ UNCHANGED <<pc, runs, sockets, skb, nomem, requests, setups>>

test_netlink_exit ==
  /\ module = "going"
  /\ module' = "none"
  /\ UNCHANGED <<pc, runs, sockets, skb, nomem, requests, setups>>

-----------------------------------------------------------------------------
(* The clients.  A socket of an unknown protocol cannot be made.           *)
portid(c) == IF c \in CClients THEN Port50 ELSE c

socket(c) ==
  /\ Goto(c, "out", "bind")
  /\ module = "loaded"
  /\ runs[c] < Runs
  /\ runs' = [runs EXCEPT ![c] = @ + 1]
  /\ UNCHANGED <<module, sockets, skb, nomem, requests, setups>>

Close(c) ==
  /\ pc' = [pc EXCEPT ![c] = "out"]
  /\ owner' = [p \in Ports |-> IF owner[p] = c THEN None ELSE owner[p]]
  /\ inbox' = [inbox EXCEPT ![c] = << >>]
  /\ nomem' = [nomem EXCEPT ![c] = FALSE]
  /\ UNCHANGED <<module, runs, skb, requests, setups>>

bind(c) ==
  \/ /\ Goto(c, "bind", "sendto")
     /\ owner[portid(c)] = None
     /\ owner' = [owner EXCEPT ![portid(c)] = c]
     /\ UNCHANGED <<module, runs, inbox, skb, nomem, requests, setups>>
  \/ /\ pc[c] = "bind"
     /\ owner[portid(c)] # None
     /\ Close(c)

sendto(c) ==
  \/ /\ Goto(c, "sendto", "recv_cb")
     /\ skb' = [skb EXCEPT ![c] = 1]
     /\ requests' = requests + 1
     /\ UNCHANGED <<module, runs, sockets, nomem, setups>>
  \/ pc[c] = "sendto" /\ Close(c)

sendto_returns(c) ==
  /\ Goto(c, "sent", "recvfrom")
  /\ skb' = [skb EXCEPT ![c] = @ - 1]
  /\ UNCHANGED <<module, runs, sockets, nomem, requests, setups>>

recvfrom(c) ==
  /\ pc[c] = "recvfrom"
  /\ inbox[c] # << >>
  /\ Close(c)

kill(c) ==
  /\ pc[c] \in {"bind", "sendto", "recvfrom"}
  /\ Close(c)

-----------------------------------------------------------------------------
(* recv_cb takes a reference, allocates a setup_param that it neither uses *)
(* nor frees (and does not check), answers, and drops the reference.  The  *)
(* requests of both clients are longer than a header.                      *)
recv_cb(c) ==
  /\ Goto(c, "recv_cb", "send_msg")
  /\ skb' = [skb EXCEPT ![c] = @ + 1]
  /\ setups' \in {setups, setups + 1}
  /\ UNCHANGED <<module, runs, sockets, nomem, requests>>

(* The answer goes to nlmsg_pid, which the client has set to its port.     *)
(* The result of send_msg is ignored.                                      *)
answer_port_fixed(c) == Port50
answer_port_unbound(c) == None
answer_port(c) == portid(c)

netlink_unicast(p, m) ==
  inbox' = [d \in Clients |-> IF p \in Ports /\ owner[p] = d THEN Append(inbox[d], m)
                              ELSE inbox[d]]

send_msg(c) ==
  /\ Goto(c, "send_msg", "kfree_skb")
  /\ \/ netlink_unicast(answer_port(c), [to |-> c, run |-> runs[c]]) /\ UNCHANGED nomem
     \/ nomem' = [nomem EXCEPT ![c] = TRUE] /\ UNCHANGED inbox
  /\ UNCHANGED <<module, runs, owner, skb, requests, setups>>

kfree_skb_missing(c) ==
  /\ Goto(c, "kfree_skb", "sent")
  /\ UNCHANGED <<module, runs, sockets, skb, nomem, requests, setups>>
kfree_skb(c) ==
  /\ Goto(c, "kfree_skb", "sent")
  /\ skb' = [skb EXCEPT ![c] = @ - 1]
  /\ UNCHANGED <<module, runs, sockets, nomem, requests, setups>>

-----------------------------------------------------------------------------
Init ==
  /\ module = "none"
  /\ pc = [c \in Clients |-> "out"]
  /\ runs = [c \in Clients |-> 0]
  /\ owner = [p \in Ports |-> None]
  /\ inbox = [c \in Clients |-> << >>]
  /\ skb = [c \in Clients |-> 0]
  /\ nomem = [c \in Clients |-> FALSE]
  /\ requests = 0
  /\ setups = 0

Step(c) ==
  \/ bind(c) \/ sendto(c) \/ recv_cb(c) \/ send_msg(c) \/ kfree_skb(c)
  \/ sendto_returns(c) \/ recvfrom(c)

Next ==
  \/ test_netlink_init \/ rmmod \/ test_netlink_exit
  \/ \E c \in Clients : socket(c) \/ Step(c) \/ kill(c)

Spec == Init /\ [][Next]_vars

(* A client that has been started is scheduled; nobody needs to be killed. *)
FairSpec ==
  Spec /\ \A c \in Clients : WF_vars(Step(c))

-----------------------------------------------------------------------------
(* An answer reaches the process that asked and no other: although all C   *)
(* clients use the same port, one after the other, and may be killed after *)
(* they have asked, the queue of a socket never holds anything but one     *)
(* answer to the request made over this very socket.                       *)
AnswerReachesAsker ==
  \A c \in Clients : inbox[c] \in {<< >>, <<[to |-> c, run |-> runs[c]]>>}

(* Every request is given back: a client is never back in user mode with a *)
(* reference to its request left, recv_cb never runs and no answer waits   *)
(* unless the module is loaded, and what recv_cb leaks is bounded by the   *)
(* number of requests.                                                     *)
RequestsGivenBack ==
  /\ \A c \in Clients : pc[c] \in {"out", "bind", "sendto", "recvfrom"} => skb[c] = 0
  /\ \A c \in Clients : module # "loaded" => skb[c] = 0 /\ inbox[c] = << >>
  /\ setups =< requests

(* Under FairSpec: a client that has sent its request ends, unless there   *)
(* was no memory for the answer.  Nothing else can lose an answer, and in  *)
(* that one case the client waits for good.                                *)
AnsweredUnlessNoMemory ==
  \A c \in Clients : pc[c] = "recv_cb" ~> (pc[c] = "out" \/ nomem[c])
=============================================================================
