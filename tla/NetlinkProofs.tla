--------------------------- MODULE NetlinkProofs ---------------------------
(***************************************************************************)
(* Proofs about the netlink socket of src/src/netlink/main.c, for any      *)
(* number of clients of both kinds, started any number of times.           *)
(***************************************************************************)
EXTENDS Netlink, FiniteSetTheorems, TLAPS

USE NetlinkAssumption

Labels == {"out", "bind", "sendto", "recv_cb", "send_msg", "kfree_skb", "sent", "recvfrom"}
Bound == {"sendto", "recv_cb", "send_msg", "kfree_skb", "sent", "recvfrom"}

TypeOK ==
  /\ module \in {"none", "loaded", "going"}
  /\ pc \in [Clients -> Labels]
  /\ runs \in [Clients -> Nat]
  /\ owner \in [Ports -> Clients \cup {None}]
  /\ inbox \in [Clients -> Seq([to : Clients, run : Nat])]
  /\ skb \in [Clients -> Int]
  /\ requests \in Nat /\ setups \in Nat

(* A port belongs to the client that is bound to it, and only to a client  *)
(* whose port it is.                                                       *)
PortsOwned ==
  /\ \A c \in Clients : pc[c] \in Bound => owner[portid(c)] = c
  /\ \A p \in Ports : owner[p] # None => pc[owner[p]] \in Bound

(* The references to the request of c.                                     *)
References(c) ==
  /\ pc[c] \in {"out", "bind", "sendto", "recvfrom"} => skb[c] = 0
  /\ pc[c] \in {"recv_cb", "sent"} => skb[c] = 1
  /\ pc[c] \in {"send_msg", "kfree_skb"} => skb[c] = 2

(* Nothing is in the queue before the answer to c has been sent.           *)
Queue(c) ==
  /\ inbox[c] \in {<< >>, <<[to |-> c, run |-> runs[c]]>>}
  /\ pc[c] \in {"out", "bind", "sendto", "recv_cb", "send_msg"} => inbox[c] = << >>

(* An open socket holds the module.                                        *)
Holds(c) == pc[c] # "out" => module = "loaded"

(* Requests whose setup_param is yet to be allocated.                      *)
Entering == {c \in Clients : pc[c] = "recv_cb"}

IInv ==
  /\ TypeOK /\ PortsOwned
  /\ \A c \in Clients : References(c) /\ Queue(c) /\ Holds(c)
  /\ setups + Cardinality(Entering) =< requests

-----------------------------------------------------------------------------
(* The port of a client is a port.                                         *)
LEMMA PortOf ==
  ASSUME NEW c \in Clients
  PROVE  portid(c) \in Ports
BY DEF portid, Ports, Clients

(* Initially no client runs.                                               *)
LEMMA InitIInv ==
  ASSUME Init
  PROVE  IInv
<1>1. << >> \in Seq([to : Clients, run : Nat])
  OBVIOUS
<1>2. TypeOK
  BY <1>1 DEF Init, TypeOK, Labels
<1>3. PortsOwned
  BY DEF Init, PortsOwned, Bound
<1>4. \A c \in Clients : References(c) /\ Queue(c) /\ Holds(c)
  BY DEF Init, References, Queue, Holds
<1>5. Entering = {}
  BY DEF Init, Entering
<1>6. Cardinality(Entering) = 0 /\ setups = 0 /\ requests = 0
  BY <1>5, FS_EmptySet DEF Init
<1> QED
  BY <1>2, <1>3, <1>4, <1>6 DEF IInv

(* There are finitely many clients inside recv_cb.                         *)
LEMMA EnteringFinite == IsFiniteSet(Entering) /\ Cardinality(Entering) \in Nat
<1>1. Entering \subseteq Clients
  BY DEF Entering
<1> QED
  BY <1>1, FS_Subset, FS_CardinalityType

(* The count survives a step that lets nobody enter.                       *)
LEMMA CountKept ==
  ASSUME IInv, Entering' \subseteq Entering, UNCHANGED <<requests, setups>>
  PROVE  setups' + Cardinality(Entering') =< requests'
<1>1. Cardinality(Entering') =< Cardinality(Entering) /\ IsFiniteSet(Entering')
  BY EnteringFinite, FS_Subset
<1>2. Cardinality(Entering') \in Nat
  BY <1>1, FS_CardinalityType
<1> QED
  BY <1>1, <1>2, EnteringFinite DEF IInv, TypeOK

(* Closing a socket outside of recv_cb gives everything of c back.         *)
LEMMA CloseKeeps ==
  ASSUME IInv, NEW c \in Clients, pc[c] \in {"bind", "sendto", "recvfrom"}, Close(c)
  PROVE  IInv'
<1>0. TypeOK /\ PortsOwned
  BY DEF IInv
<1>1. /\ pc' = [pc EXCEPT ![c] = "out"] /\ inbox' = [inbox EXCEPT ![c] = << >>]
      /\ owner' = [p \in Ports |-> IF owner[p] = c THEN None ELSE owner[p]]
      /\ UNCHANGED <<module, runs, skb, requests, setups>>
  BY DEF Close
<1>2. << >> \in Seq([to : Clients, run : Nat])
  OBVIOUS
<1>3. TypeOK'
  BY <1>0, <1>1, <1>2 DEF TypeOK, Labels
<1>4. PortsOwned'
  BY <1>0, <1>1, PortOf DEF TypeOK, PortsOwned, Bound
<1>5. ASSUME NEW d \in Clients PROVE References(d)' /\ Queue(d)' /\ Holds(d)'
  BY <1>0, <1>1 DEF IInv, TypeOK, References, Queue, Holds
<1>6. Entering' \subseteq Entering
  BY <1>0, <1>1 DEF Entering, TypeOK
<1> QED
  BY <1>1, <1>3, <1>4, <1>5, <1>6, CountKept DEF IInv

-----------------------------------------------------------------------------
(* Every step keeps the inductive invariant.                               *)
LEMMA NextIInv ==
  ASSUME IInv, [Next]_vars
  PROVE  IInv'
<1>0. TypeOK /\ PortsOwned /\ \A c \in Clients : References(c) /\ Queue(c) /\ Holds(c)
  BY DEF IInv
<1>1. /\ pc \in [Clients -> Labels] /\ runs \in [Clients -> Nat]
      /\ owner \in [Ports -> Clients \cup {None}]
      /\ skb \in [Clients -> Int] /\ requests \in Nat /\ setups \in Nat
  BY <1>0 DEF TypeOK
<1>2. IsFiniteSet(Entering) /\ Cardinality(Entering) \in Nat
      /\ setups + Cardinality(Entering) =< requests
  BY EnteringFinite DEF IInv
<1>l. /\ Labels = {"out", "bind", "sendto", "recv_cb", "send_msg", "kfree_skb", "sent", "recvfrom"}
      /\ Bound = {"sendto", "recv_cb", "send_msg", "kfree_skb", "sent", "recvfrom"}
  BY DEF Labels, Bound
<1>u. CASE UNCHANGED vars
  <2>1. UNCHANGED <<module, pc, runs, owner, inbox, skb, requests, setups>>
    BY <1>u DEF vars
  <2>2. Entering' = Entering
    BY <2>1 DEF Entering
  <2> QED
    BY <1>0, <1>2, <2>1, <2>2 DEF IInv, TypeOK, PortsOwned, References, Queue, Holds
<1>3. CASE test_netlink_init \/ rmmod \/ test_netlink_exit
  <2>1. /\ UNCHANGED <<pc, runs, owner, inbox, skb, requests, setups>>
        /\ module' \in {"none", "loaded", "going"}
        /\ module' = "loaded" \/ \A c \in Clients : pc[c] = "out"
    BY <1>0, <1>3 DEF test_netlink_init, rmmod, test_netlink_exit, sockets, Holds
  <2>2. Entering' = Entering
    BY <2>1 DEF Entering
  <2> QED
    BY <1>0, <1>2, <2>1, <2>2 DEF IInv, TypeOK, PortsOwned, References, Queue, Holds
<1>4. ASSUME NEW c \in Clients, socket(c) PROVE IInv'
  <2>1. /\ pc[c] = "out" /\ pc' = [pc EXCEPT ![c] = "bind"] /\ module = "loaded"
        /\ runs' = [runs EXCEPT ![c] = @ + 1]
        /\ UNCHANGED <<module, owner, inbox, skb, requests, setups>>
    BY <1>4 DEF socket, Goto, sockets
  <2>2. runs' \in [Clients -> Nat] /\ pc' \in [Clients -> Labels]
    BY <1>1, <1>l, <2>1
  <2>3. TypeOK'
    BY <1>0, <2>1, <2>2 DEF TypeOK
  <2>4. PortsOwned'
    BY <1>0, <1>1, <1>l, <2>1 DEF PortsOwned
  <2>5. ASSUME NEW d \in Clients PROVE References(d)' /\ Queue(d)' /\ Holds(d)'
    BY <1>0, <1>1, <2>1 DEF References, Queue, Holds
  <2>6. Entering' \subseteq Entering
    BY <1>1, <2>1 DEF Entering
  <2> QED
    BY <2>1, <2>3, <2>4, <2>5, <2>6, CountKept DEF IInv
<1>5. ASSUME NEW c \in Clients, bind(c) PROVE IInv'
  <2>1. CASE Close(c)
    BY <1>5, <2>1, CloseKeeps DEF bind, Goto
  <2>2. CASE /\ Goto(c, "bind", "sendto") /\ owner[portid(c)] = None
             /\ owner' = [owner EXCEPT ![portid(c)] = c]
             /\ UNCHANGED <<module, runs, inbox, skb, nomem, requests, setups>>
    <3>1. pc[c] = "bind" /\ pc' = [pc EXCEPT ![c] = "sendto"] /\ portid(c) \in Ports
      BY <2>2, PortOf DEF Goto
    <3>2. TypeOK'
      BY <1>0, <1>l, <2>2, <3>1 DEF TypeOK
    <3>3. PortsOwned'
      BY <1>0, <1>1, <1>l, <2>2, <3>1, PortOf DEF PortsOwned
    <3>4. ASSUME NEW d \in Clients PROVE References(d)' /\ Queue(d)' /\ Holds(d)'
      BY <1>0, <1>1, <2>2, <3>1 DEF References, Queue, Holds
    <3>5. Entering' \subseteq Entering
      BY <1>1, <3>1 DEF Entering
    <3> QED
      BY <2>2, <3>2, <3>3, <3>4, <3>5, CountKept DEF IInv
  <2> QED
    BY <1>5, <2>1, <2>2 DEF bind
<1>6. ASSUME NEW c \in Clients, sendto(c) PROVE IInv'
  <2>1. CASE pc[c] = "sendto" /\ Close(c)
    BY <2>1, CloseKeeps
  <2>2. CASE /\ Goto(c, "sendto", "recv_cb") /\ skb' = [skb EXCEPT ![c] = 1]
             /\ requests' = requests + 1
             /\ UNCHANGED <<module, runs, sockets, nomem, setups>>
    <3>1. /\ pc[c] = "sendto" /\ pc' = [pc EXCEPT ![c] = "recv_cb"]
          /\ UNCHANGED <<module, runs, owner, inbox, setups>>
      BY <2>2 DEF Goto, sockets
    <3>2. TypeOK'
      BY <1>0, <1>l, <2>2, <3>1 DEF TypeOK
    <3>3. PortsOwned'
      BY <1>0, <1>1, <1>l, <3>1 DEF PortsOwned
    <3>4. ASSUME NEW d \in Clients PROVE References(d)' /\ Queue(d)' /\ Holds(d)'
      BY <1>0, <1>1, <2>2, <3>1 DEF References, Queue, Holds
    <3>5. Entering' = Entering \cup {c} /\ c \notin Entering
      BY <1>1, <3>1 DEF Entering
    <3>6. Cardinality(Entering') = Cardinality(Entering) + 1
      BY <1>2, <3>5, FS_AddElement
    <3>7. setups' + Cardinality(Entering') =< requests'
      BY <1>1, <1>2, <2>2, <3>1, <3>6
    <3> QED
      BY <3>2, <3>3, <3>4, <3>7 DEF IInv
  <2> QED
    BY <1>6, <2>1, <2>2 DEF sendto
<1>7. ASSUME NEW c \in Clients, recv_cb(c) PROVE IInv'
  <2>1. /\ pc[c] = "recv_cb" /\ pc' = [pc EXCEPT ![c] = "send_msg"]
        /\ skb' = [skb EXCEPT ![c] = skb[c] + 1] /\ setups' \in {setups, setups + 1}
        /\ UNCHANGED <<module, runs, owner, inbox, requests>>
    BY <1>7 DEF recv_cb, Goto, sockets
  <2>2. skb[c] + 1 = 2
    BY <1>0, <2>1 DEF References
  <2>3. TypeOK'
    BY <1>0, <1>1, <1>l, <2>1 DEF TypeOK
  <2>p. PortsOwned'
    BY <1>0, <1>1, <1>l, <2>1 DEF PortsOwned
  <2>c. ASSUME NEW d \in Clients PROVE References(d)' /\ Queue(d)' /\ Holds(d)'
    BY <1>0, <1>1, <2>1, <2>2 DEF References, Queue, Holds
  <2>4. Entering' = Entering \ {c} /\ c \in Entering
    BY <1>1, <2>1 DEF Entering
  <2>5. Cardinality(Entering') = Cardinality(Entering) - 1
    BY <1>2, <2>4, FS_RemoveElement
  <2>6. setups' + Cardinality(Entering') =< requests'
    BY <1>1, <1>2, <2>1, <2>5
  <2> QED
    BY <2>3, <2>p, <2>c, <2>6 DEF IInv
<1>8. ASSUME NEW c \in Clients, send_msg(c) PROVE IInv'
  <2>1. /\ pc[c] = "send_msg" /\ pc' = [pc EXCEPT ![c] = "kfree_skb"]
        /\ UNCHANGED <<module, runs, owner, skb, requests, setups>>
    BY <1>8 DEF send_msg, Goto
  <2>2. owner[portid(c)] = c /\ inbox[c] = << >> /\ portid(c) \in Ports
    BY <1>0, <1>l, <2>1, PortOf DEF PortsOwned, Queue
  <2>3. /\ \A d \in Clients \ {c} : inbox'[d] = inbox[d]
        /\ inbox'[c] \in {<< >>, <<[to |-> c, run |-> runs[c]]>>}
        /\ inbox' \in [Clients -> Seq([to : Clients, run : Nat])]
    <3>1. CASE UNCHANGED inbox
      BY <1>0, <2>2, <3>1 DEF TypeOK
    <3>2. CASE netlink_unicast(answer_port(c), [to |-> c, run |-> runs[c]])
      <4>1. inbox' = [d \in Clients |-> IF d = c THEN Append(inbox[d], [to |-> c, run |-> runs[c]])
                                        ELSE inbox[d]]
        BY <2>2, <3>2 DEF netlink_unicast, answer_port
      <4>2. [to |-> c, run |-> runs[c]] \in [to : Clients, run : Nat]
        BY <1>1
      <4>3. inbox'[c] = Append(<< >>, [to |-> c, run |-> runs[c]])
        BY <2>2, <4>1
      <4>4. Append(<< >>, [to |-> c, run |-> runs[c]]) = <<[to |-> c, run |-> runs[c]]>>
        OBVIOUS
      <4>5. inbox' \in [Clients -> Seq([to : Clients, run : Nat])]
        <5>1. ASSUME NEW d \in Clients
              PROVE  Append(inbox[d], [to |-> c, run |-> runs[c]]) \in Seq([to : Clients, run : Nat])
          <6>1. inbox[d] \in Seq([to : Clients, run : Nat])
            BY <1>0 DEF TypeOK
          <6> QED
            BY <4>2, <6>1
        <5> QED
          BY <1>0, <4>1, <5>1 DEF TypeOK
      <4> QED
        BY <4>1, <4>3, <4>4, <4>5
    <3> QED
      BY <1>8, <3>1, <3>2 DEF send_msg
  <2>4. TypeOK'
    BY <1>0, <1>l, <2>1, <2>3 DEF TypeOK
  <2>5. PortsOwned'
    BY <1>0, <1>1, <1>l, <2>1 DEF PortsOwned
  <2>6. ASSUME NEW d \in Clients PROVE References(d)' /\ Queue(d)' /\ Holds(d)'
    BY <1>0, <1>1, <2>1, <2>3 DEF References, Queue, Holds
  <2>7. Entering' \subseteq Entering
    BY <1>1, <2>1 DEF Entering
  <2> QED
    BY <2>1, <2>4, <2>5, <2>6, <2>7, CountKept DEF IInv
<1>9. ASSUME NEW c \in Clients, kfree_skb(c) PROVE IInv'
  <2>1. /\ pc[c] = "kfree_skb" /\ pc' = [pc EXCEPT ![c] = "sent"]
        /\ skb' = [skb EXCEPT ![c] = skb[c] - 1]
        /\ UNCHANGED <<module, runs, owner, inbox, requests, setups>>
    BY <1>9 DEF kfree_skb, Goto, sockets
  <2>2. skb[c] - 1 = 1
    BY <1>0, <2>1 DEF References
  <2>3. TypeOK'
    BY <1>0, <1>1, <1>l, <2>1 DEF TypeOK
  <2>p. PortsOwned'
    BY <1>0, <1>1, <1>l, <2>1 DEF PortsOwned
  <2>c. ASSUME NEW d \in Clients PROVE References(d)' /\ Queue(d)' /\ Holds(d)'
    BY <1>0, <1>1, <2>1, <2>2 DEF References, Queue, Holds
  <2>4. Entering' \subseteq Entering
    BY <1>1, <2>1 DEF Entering
  <2> QED
    BY <2>1, <2>3, <2>p, <2>c, <2>4, CountKept DEF IInv
<1>10. ASSUME NEW c \in Clients, sendto_returns(c) PROVE IInv'
  <2>1. /\ pc[c] = "sent" /\ pc' = [pc EXCEPT ![c] = "recvfrom"]
        /\ skb' = [skb EXCEPT ![c] = skb[c] - 1]
        /\ UNCHANGED <<module, runs, owner, inbox, requests, setups>>
    BY <1>10 DEF sendto_returns, Goto, sockets
  <2>2. skb[c] - 1 = 0
    BY <1>0, <2>1 DEF References
  <2>3. TypeOK'
    BY <1>0, <1>1, <1>l, <2>1 DEF TypeOK
  <2>p. PortsOwned'
    BY <1>0, <1>1, <1>l, <2>1 DEF PortsOwned
  <2>c. ASSUME NEW d \in Clients PROVE References(d)' /\ Queue(d)' /\ Holds(d)'
    BY <1>0, <1>1, <2>1, <2>2 DEF References, Queue, Holds
  <2>4. Entering' \subseteq Entering
    BY <1>1, <2>1 DEF Entering
  <2> QED
    BY <2>1, <2>3, <2>p, <2>c, <2>4, CountKept DEF IInv
<1>11. ASSUME NEW c \in Clients, recvfrom(c) \/ kill(c) PROVE IInv'
  BY <1>11, CloseKeeps DEF recvfrom, kill
<1> QED
  BY <1>u, <1>3, <1>4, <1>5, <1>6, <1>7, <1>8, <1>9, <1>10, <1>11 DEF Next, Step

-----------------------------------------------------------------------------
(* The inductive invariant holds in every run.                             *)
THEOREM NetlinkIInv == Spec => []IInv
BY InitIInv, NextIInv, PTL DEF Spec

(* However many clients share port 50 one after the other and are killed   *)
(* at whatever moment, a client never finds the answer to another client   *)
(* or to an earlier run in its queue.                                      *)
THEOREM AnswerReachesAskerTheorem == Spec => []AnswerReachesAsker
<1>1. IInv => AnswerReachesAsker
  BY DEF IInv, Queue, AnswerReachesAsker
<1> QED
  BY <1>1, NetlinkIInv, PTL

(* Every reference that recv_cb takes is dropped, no request and no answer *)
(* outlives the module, and a request leaks at most one setup_param.       *)
THEOREM RequestsGivenBackTheorem == Spec => []RequestsGivenBack
<1>1. ASSUME IInv PROVE RequestsGivenBack
  <2>1. setups =< requests
    BY <1>1, EnteringFinite DEF IInv, TypeOK
  <2>2. \A c \in Clients : pc[c] \in {"out", "bind", "sendto", "recvfrom"} => skb[c] = 0
    BY <1>1 DEF IInv, References
  <2>3. \A c \in Clients : module # "loaded" => skb[c] = 0 /\ inbox[c] = << >>
    BY <1>1 DEF IInv, References, Queue, Holds
  <2> QED
    BY <2>1, <2>2, <2>3 DEF RequestsGivenBack
<1> QED
  BY <1>1, NetlinkIInv, PTL
=============================================================================
