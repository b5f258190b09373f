----------------------------- MODULE JoinProofs -----------------------------
(***************************************************************************)
(* What holds of Join for every set of peers, every node table, every      *)
(* number of confirmations and transmissions, and every network: any       *)
(* bound, with or without losses and repeated datagrams.                   *)
(*                                                                         *)
(* Both safety properties speak of what peers hold; they are inductive     *)
(* only together with what the datagrams under way may say, because a      *)
(* datagram can arrive long after its sender has changed.                  *)
(***************************************************************************)
EXTENDS Join, TLAPS

(* A request that tasks.exists sees has a transmission left.               *)
TriesLeft == \A p \in Peers : asking[p] # NoPeer => tries[p] < ATTEMPTS

TInv == TypeOK /\ TriesLeft

(* Nodes and what datagrams name as nodes have had the role of a node.     *)
NodesAreMembers == \A p \in Peers : role[p] = "NODE" => p \in members

NetNamesMembers ==
    \A m \in net :
        /\ m.type \in {"RES_FATHER", "NODE_PING", "PONG"} => m.from \in members
        /\ m.type = "RES_FATHER" => m.list \subseteq members

MInv == TInv /\ NodesAreMembers /\ NetNamesMembers /\ OnlyMembersServe

(* Stuck peers ask only each other, and nothing that could help is under   *)
(* way to one of them.                                                     *)
StuckAskStuck == \A p \in Stuck : asking[p] \in Stuck \cup {NoPeer}

NetPassesStuck ==
    \A m \in net :
        /\ m.from \in Stuck => m.type = "REQ_FATHER" /\ m.to \in Stuck
        /\ m.to \in Stuck => m.type \notin {"RES_FATHER", "RES_ROLE", "PONG"}

SInv == TInv /\ StuckStayOut /\ StuckAskStuck /\ NetPassesStuck

-----------------------------------------------------------------------------
(* Whatever Transmit and Consume keep, they add nothing but `out`.         *)
LEMMA TransmitAdds ==
  ASSUME NEW base, NEW out, Transmit(base, out)
  PROVE  net' \subseteq base \cup out
BY DEF Transmit

LEMMA ConsumeAdds ==
  ASSUME NEW m, NEW out, Consume(m, out)
  PROVE  net' \subseteq net \cup out
BY DEF Consume, Transmit

LEMMA InitTInv == Init => TInv
BY JoinAssumption DEF Init, TInv, TypeOK, TriesLeft, MaybePeer, StartRole

LEMMA TriesStep == TInv /\ [Next]_vars => TriesLeft'
<1> SUFFICES ASSUME TInv, [Next]_vars PROVE TriesLeft'
  OBVIOUS
<1> USE JoinAssumption DEF TInv, TypeOK, TriesLeft
<1>1. ASSUME NEW p \in Peers, Check(p) PROVE TriesLeft'
  BY <1>1 DEF Check
<1>2. ASSUME NEW p \in Peers, SendRequest(p) PROVE TriesLeft'
  <2>1. tries' = [tries EXCEPT ![p] = tries[p] + 1]
    BY <1>2 DEF SendRequest
  <2>2. asking' = [asking EXCEPT ![p] = IF tries'[p] < ATTEMPTS THEN asking[p] ELSE NoPeer]
    BY <1>2 DEF SendRequest
  <2> QED BY <2>1, <2>2
<1>3. ASSUME NEW p \in Peers, Restart(p) PROVE TriesLeft'
  BY <1>3 DEF Restart
<1>4. ASSUME NEW p \in Peers, NEW m \in net, HandleResFather(p, m) PROVE TriesLeft'
  BY <1>4 DEF HandleResFather
<1>5. CASE UNCHANGED <<asking, tries>>
  BY <1>5
<1> QED
  BY <1>1, <1>2, <1>3, <1>4, <1>5
  DEF Next, Step, Handle, Exit, SendToFather, FatherLost, ClientLost, HandleReqFather,
      HandleReqRole, HandleResRole, HandlePing, HandlePong, Lose, vars

LEMMA TypeStep == TInv /\ [Next]_vars => TypeOK'
<1> SUFFICES ASSUME TInv, [Next]_vars PROVE TypeOK'
  OBVIOUS
<1> USE JoinAssumption DEF TInv, TypeOK, MaybePeer
<1>1. ASSUME NEW p \in Peers, Check(p) PROVE TypeOK'
  <2>1. PICK near \in Nearest(p, nodes[p]) :
           /\ asking' = [asking EXCEPT ![p] = near]
           /\ tries' = [tries EXCEPT ![p] = 0]
           /\ \/ /\ nodes' = [nodes EXCEPT ![p] = @ \ {father[p]}]
                 /\ father' = [father EXCEPT ![p] = NoPeer]
              \/ UNCHANGED <<nodes, father>>
    BY <1>1 DEF Check
  <2>2. near \in Peers
    BY <2>1 DEF Nearest
  <2>3. asking' \in [Peers -> MaybePeer] /\ tries' \in [Peers -> 0..ATTEMPTS]
    BY <2>1, <2>2
  <2>4. /\ nodes' \in [Peers -> SUBSET Peers] /\ father' \in [Peers -> MaybePeer]
        /\ \A q \in Peers : q \notin nodes'[q] /\ father'[q] # q
    <3>1. CASE UNCHANGED <<nodes, father>>
      BY <3>1
    <3>2. CASE /\ nodes' = [nodes EXCEPT ![p] = @ \ {father[p]}]
               /\ father' = [father EXCEPT ![p] = NoPeer]
      <4>1. nodes' \in [Peers -> SUBSET Peers] /\ \A q \in Peers : q \notin nodes'[q]
        BY <3>2
      <4>2. father' \in [Peers -> MaybePeer] /\ \A q \in Peers : father'[q] # q
        BY <3>2
      <4> QED BY <4>1, <4>2
    <3> QED BY <2>1, <3>1, <3>2
  <2> QED BY <1>1, <2>3, <2>4 DEF Check
<1>2. ASSUME NEW p \in Peers, Exit(p) PROVE TypeOK'
  BY <1>2 DEF Exit
<1>3. ASSUME NEW p \in Peers, SendRequest(p) PROVE TypeOK'
  <2>1. net' \subseteq Message
    BY <1>3, TransmitAdds DEF SendRequest, Send, Message
  <2>2. tries' \in [Peers -> 0..ATTEMPTS]
    <3>1. tries' = [tries EXCEPT ![p] = tries[p] + 1] /\ tries[p] < ATTEMPTS
      BY <1>3 DEF SendRequest, TriesLeft
    <3> QED BY <3>1
  <2> QED BY <1>3, <2>1, <2>2 DEF SendRequest
<1>4. ASSUME NEW p \in Peers, SendToFather(p) PROVE TypeOK'
  <2>1. net' \subseteq Message
    BY <1>4, TransmitAdds DEF SendToFather, Send, Message
  <2> QED BY <1>4, <2>1 DEF SendToFather
<1>5. ASSUME NEW p \in Peers, FatherLost(p) PROVE TypeOK'
  BY <1>5 DEF FatherLost
<1>6. ASSUME NEW p \in Peers, Restart(p) PROVE TypeOK'
  BY <1>6 DEF Restart, StartRole
<1>7. ASSUME NEW p \in Peers, ClientLost(p) PROVE TypeOK'
  BY <1>7 DEF ClientLost
<1>8. ASSUME NEW p \in Peers, NEW m \in net, HandleReqFather(p, m) PROVE TypeOK'
  <2>1. m.from \in Peers
    BY DEF Message
  <2>2. net' \subseteq Message
    BY <1>8, <2>1, ConsumeAdds DEF HandleReqFather, Message
  <2> QED BY <1>8, <2>2 DEF HandleReqFather
<1>9. ASSUME NEW p \in Peers, NEW m \in net, HandleResFather(p, m) PROVE TypeOK'
  <2>1. m.from \in Peers /\ m.list \in SUBSET Peers
    BY <1>9 DEF HandleResFather, Message
  <2>2. Count(p, m.from) \in 0..CONFIRM
    BY DEF Count
  <2>3. net' \subseteq Message
    BY <1>9, ConsumeAdds DEF HandleResFather
  <2>4. nodes' \in [Peers -> SUBSET Peers] /\ \A q \in Peers : q \notin nodes'[q]
    BY <1>9, <2>1 DEF HandleResFather, NodesAdd
  <2>5. father' \in [Peers -> MaybePeer] /\ \A q \in Peers : father'[q] # q
    BY <1>9, <2>1 DEF HandleResFather
  <2>6. dad' \in [Peers -> MaybePeer] /\ attempts' \in [Peers -> 0..CONFIRM]
    BY <1>9, <2>1, <2>2 DEF HandleResFather
  <2>7. asking' \in [Peers -> MaybePeer]
    BY <1>9 DEF HandleResFather
  <2> QED BY <1>9, <2>3, <2>4, <2>5, <2>6, <2>7 DEF HandleResFather
<1>10. ASSUME NEW p \in Peers, NEW m \in net, HandleReqRole(p, m) PROVE TypeOK'
  <2>1. m.from \in Peers
    BY DEF Message
  <2>2. net' \subseteq Message
    BY <1>10, <2>1, ConsumeAdds DEF HandleReqRole, Message
  <2> QED BY <1>10, <2>2 DEF HandleReqRole
<1>11. ASSUME NEW p \in Peers, NEW m \in net, HandleResRole(p, m) PROVE TypeOK'
  <2>1. m.role \in {"NODE", "USER"}
    BY <1>11 DEF HandleResRole, Message
  <2>2. net' \subseteq Message
    BY <1>11, ConsumeAdds DEF HandleResRole
  <2> QED BY <1>11, <2>1, <2>2 DEF HandleResRole
<1>12. ASSUME NEW p \in Peers, NEW m \in net, HandlePing(p, m) PROVE TypeOK'
  <2>1. m.from \in Peers
    BY DEF Message
  <2>2. net' \subseteq Message
    BY <1>12, <2>1, ConsumeAdds DEF HandlePing, Message
  <2> QED BY <1>12, <2>1, <2>2 DEF HandlePing, NodesReg, NodesAdd
<1>13. ASSUME NEW p \in Peers, NEW m \in net, HandlePong(p, m) PROVE TypeOK'
  <2>1. m.from \in Peers
    BY DEF Message
  <2>2. net' \subseteq Message
    BY <1>13, ConsumeAdds DEF HandlePong
  <2> QED BY <1>13, <2>1, <2>2 DEF HandlePong, NodesReg, NodesAdd
<1>14. CASE Lose
  BY <1>14 DEF Lose
<1>15. CASE UNCHANGED vars
  BY <1>15 DEF vars
<1> QED
  BY <1>1, <1>2, <1>3, <1>4, <1>5, <1>6, <1>7, <1>8, <1>9, <1>10, <1>11, <1>12, <1>13, <1>14, <1>15
  DEF Next, Step, Handle

LEMMA TypeInductive == Spec => []TInv
BY InitTInv, TriesStep, TypeStep, PTL DEF Spec, TInv

(* The peers' tables, counters and datagrams keep their types; a peer is   *)
(* never its own father or in its own node table.                          *)
THEOREM TypeCorrect == Spec => []TypeOK
BY TypeInductive, PTL DEF TInv

-----------------------------------------------------------------------------
LEMMA InitMembers == Init => MInv
<1> SUFFICES ASSUME Init PROVE NodesAreMembers /\ NetNamesMembers /\ OnlyMembersServe
  BY InitTInv DEF MInv
<1> QED BY JoinAssumption
        DEF Init, NodesAreMembers, NetNamesMembers, OnlyMembersServe, StartRole

(* Peers that have had the role of a node are remembered as members.       *)
LEMMA RoleStep == MInv /\ [Next]_vars => NodesAreMembers' /\ members \subseteq members'
<1> SUFFICES ASSUME MInv, [Next]_vars PROVE NodesAreMembers' /\ members \subseteq members'
  OBVIOUS
<1> USE DEF MInv, TInv, TypeOK, NodesAreMembers
<1>1. ASSUME NEW p \in Peers, Restart(p) PROVE NodesAreMembers' /\ members \subseteq members'
  BY <1>1 DEF Restart, StartRole
<1>2. ASSUME NEW p \in Peers, NEW m \in net, HandleResRole(p, m)
      PROVE  NodesAreMembers' /\ members \subseteq members'
  <2>1. members' = IF role'[p] = "NODE" THEN members \cup {p} ELSE members
    BY <1>2 DEF HandleResRole
  <2>2. \A q \in Peers \ {p} : role'[q] = role[q]
    BY <1>2 DEF HandleResRole
  <2> QED BY <2>1, <2>2
<1>3. CASE UNCHANGED <<role, members>>
  BY <1>3
<1>4. ASSUME NEW p \in Peers, \/ Check(p) \/ Exit(p) \/ SendRequest(p) \/ SendToFather(p)
                              \/ FatherLost(p) \/ ClientLost(p)
      PROVE  UNCHANGED <<role, members>>
  BY <1>4 DEF Check, Exit, SendRequest, SendToFather, FatherLost, ClientLost
<1>5. ASSUME NEW p \in Peers, NEW m \in net,
             \/ HandleReqFather(p, m) \/ HandleResFather(p, m) \/ HandleReqRole(p, m)
             \/ HandlePing(p, m) \/ HandlePong(p, m)
      PROVE  UNCHANGED <<role, members>>
  BY <1>5 DEF HandleReqFather, HandleResFather, HandleReqRole, HandlePing, HandlePong
<1> QED
  BY <1>1, <1>2, <1>3, <1>4, <1>5, JoinAssumption DEF Next, Step, Handle, Lose, vars

(* A peer speaks as a node, and lists nodes, only when it is one.          *)
LEMMA NetStep == MInv /\ [Next]_vars => NetNamesMembers'
<1> SUFFICES ASSUME MInv, [Next]_vars PROVE NetNamesMembers'
  OBVIOUS
<1> DEFINE Names(m) == /\ m.type \in {"RES_FATHER", "NODE_PING", "PONG"} => m.from \in members
                       /\ m.type = "RES_FATHER" => m.list \subseteq members
<1>1. members \subseteq members' /\ \A m \in net : Names(m)
  BY RoleStep DEF MInv, NetNamesMembers
<1>2. ASSUME NEW p \in Peers, Answers(p) PROVE p \in members
  BY <1>2 DEF Answers, MInv, NodesAreMembers
<1> USE DEF MInv, TInv, TypeOK, NetNamesMembers
<1>3. ASSUME NEW p \in Peers, SendRequest(p) PROVE NetNamesMembers'
  <2> DEFINE new == [type |-> "REQ_FATHER", from |-> p, to |-> asking[p]]
  <2>1. net' \subseteq net \cup {new}
    BY <1>3, TransmitAdds DEF SendRequest, Send
  <2> QED BY <1>1, <2>1
<1>4. ASSUME NEW p \in Peers, SendToFather(p) PROVE NetNamesMembers'
  <2> DEFINE new == [type |-> CASE role[p] = "NONE" -> "REQ_ROLE"
                                [] role[p] = "NODE" -> "NODE_PING"
                                [] role[p] = "USER" -> "USER_PING",
                     from |-> p, to |-> father[p]]
  <2>1. net' \subseteq net \cup {new}
    BY <1>4, TransmitAdds DEF SendToFather, Send
  <2>2. Names(new)
    BY DEF NodesAreMembers
  <2> QED BY <1>1, <2>1, <2>2
<1>5. ASSUME NEW p \in Peers, NEW m \in net, HandleReqFather(p, m) PROVE NetNamesMembers'
  <2> DEFINE answer(l) == [type |-> "RES_FATHER", from |-> p, to |-> m.from, list |-> l]
             full == clients[p] \cup ({father[p]} \cap Peers)
  <2>1. net' \subseteq net \cup (IF Answers(p) THEN {answer(full), answer({})} ELSE {})
    BY <1>5, ConsumeAdds DEF HandleReqFather
  <2>2. full \subseteq members
    BY JoinAssumption DEF OnlyMembersServe
  <2>3. Answers(p) => Names(answer(full)) /\ Names(answer({}))
    BY <1>2, <2>2
  <2> QED BY <1>1, <2>1, <2>3
<1>6. ASSUME NEW p \in Peers, NEW m \in net, HandleReqRole(p, m) PROVE NetNamesMembers'
  <2> DEFINE new == [type |-> "RES_ROLE", from |-> p, to |-> m.from,
                     role |-> IF m.from \in Reachable THEN "NODE" ELSE "USER"]
  <2>1. net' \subseteq net \cup {new}
    BY <1>6, ConsumeAdds DEF HandleReqRole
  <2> QED BY <1>1, <2>1
<1>7. ASSUME NEW p \in Peers, NEW m \in net, HandlePing(p, m) PROVE NetNamesMembers'
  <2> DEFINE new == [type |-> "PONG", from |-> p, to |-> m.from]
  <2>1. net' \subseteq net \cup (IF Answers(p) THEN {new} ELSE {})
    BY <1>7, ConsumeAdds DEF HandlePing
  <2>2. Answers(p) => Names(new)
    BY <1>2
  <2> QED BY <1>1, <2>1, <2>2
<1>8. ASSUME NEW p \in Peers, NEW m \in net,
             HandleResFather(p, m) \/ HandleResRole(p, m) \/ HandlePong(p, m)
      PROVE  NetNamesMembers'
  <2>1. net' \subseteq net
    BY <1>8, ConsumeAdds DEF HandleResFather, HandleResRole, HandlePong
  <2> QED BY <1>1, <2>1
<1>9. CASE Lose \/ UNCHANGED net
  <2>1. net' \subseteq net
    BY <1>9 DEF Lose
  <2> QED BY <1>1, <2>1
<1> QED
  BY <1>3, <1>4, <1>5, <1>6, <1>7, <1>8, <1>9, JoinAssumption
  DEF Next, Step, Handle, Check, Exit, FatherLost, Restart, ClientLost, vars

LEMMA ServeStep == MInv /\ [Next]_vars => OnlyMembersServe'
<1> SUFFICES ASSUME MInv, [Next]_vars PROVE OnlyMembersServe'
  OBVIOUS
<1>1. members \subseteq members'
  BY RoleStep
<1> USE DEF MInv, TInv, TypeOK, OnlyMembersServe
<1>2. ASSUME NEW p \in Peers, Check(p) \/ FatherLost(p) \/ Restart(p) \/ ClientLost(p)
      PROVE  OnlyMembersServe'
  <2>1. \A q \in Peers : /\ father'[q] \in {father[q], NoPeer}
                         /\ nodes'[q] \subseteq nodes[q] /\ clients'[q] \subseteq clients[q]
    BY <1>2 DEF Check, FatherLost, Restart, ClientLost
  <2> QED BY <1>1, <2>1
<1>3. ASSUME NEW p \in Peers, NEW m \in net, HandleResFather(p, m) PROVE OnlyMembersServe'
  <2>1. m.from \in members /\ m.list \subseteq members
    BY <1>3 DEF HandleResFather, NetNamesMembers
  <2>2. \A q \in Peers : nodes'[q] \subseteq nodes[q] \cup {m.from} \cup m.list
    BY <1>3 DEF HandleResFather, NodesAdd
  <2>3. \A q \in Peers : father'[q] \in {father[q], m.from}
    BY <1>3 DEF HandleResFather
  <2>4. UNCHANGED <<clients, members>>
    BY <1>3 DEF HandleResFather
  <2> QED BY <2>1, <2>2, <2>3, <2>4
<1>4. ASSUME NEW p \in Peers, NEW m \in net, HandlePing(p, m) \/ HandlePong(p, m)
      PROVE  OnlyMembersServe'
  <2>1. Registers(p, m) => m.from \in members
    BY DEF Registers, NetNamesMembers
  <2>2. \A q \in Peers : /\ nodes'[q] \subseteq nodes[q] \cup members
                         /\ clients'[q] \subseteq clients[q] \cup members
    BY <1>4, <2>1 DEF HandlePing, HandlePong, NodesReg, NodesAdd
  <2>3. UNCHANGED <<father, members>>
    BY <1>4 DEF HandlePing, HandlePong
  <2> QED BY <2>2, <2>3
<1>5. CASE UNCHANGED <<father, nodes, clients>>
  BY <1>1, <1>5
<1> QED
  BY <1>2, <1>3, <1>4, <1>5, JoinAssumption
  DEF Next, Step, Handle, Exit, SendRequest, SendToFather, HandleReqFather, HandleReqRole,
      HandleResRole, Lose, vars

(* No loss, repetition, delay or restart makes a peer that never was a     *)
(* node anybody's father, client or newly learnt node.                     *)
THEOREM MembersServe == Spec => []OnlyMembersServe
<1>1. MInv /\ [Next]_vars => MInv'
  BY TypeStep, TriesStep, RoleStep, NetStep, ServeStep DEF MInv, TInv
<1> QED BY InitMembers, <1>1, PTL DEF Spec, MInv

-----------------------------------------------------------------------------
LEMMA InitStuck == Init => SInv
<1> SUFFICES ASSUME Init PROVE StuckStayOut /\ StuckAskStuck /\ NetPassesStuck
  BY InitTInv DEF SInv
<1> QED BY JoinAssumption, StuckAssumption
        DEF Init, StuckStayOut, StuckAskStuck, NetPassesStuck

(* A stuck peer is no node, so it answers nothing.                         *)
LEMMA StuckSilent == ASSUME SInv, NEW p \in Stuck PROVE ~Answers(p)
BY DEF SInv, StuckStayOut, Answers, StartRole

(* A stuck peer asks a nearest node of its bootstrap table, which is stuck.*)
LEMMA AskStep == SInv /\ [Next]_vars => StuckAskStuck'
<1> SUFFICES ASSUME SInv, [Next]_vars PROVE StuckAskStuck'
  OBVIOUS
<1> USE JoinAssumption, StuckAssumption DEF SInv, TInv, TypeOK, StuckAskStuck
<1>1. ASSUME NEW p \in Peers, Check(p) PROVE StuckAskStuck'
  <2>1. p \in Stuck => Nearest(p, nodes[p]) \subseteq Stuck
    BY DEF StuckStayOut
  <2> QED BY <1>1, <2>1 DEF Check
<1>2. ASSUME NEW p \in Peers, NEW m \in net, HandleResFather(p, m) PROVE StuckAskStuck'
  <2>1. \A q \in Peers : asking'[q] \in {asking[q], NoPeer}
    BY <1>2 DEF HandleResFather
  <2> QED BY <2>1
<1>3. ASSUME NEW p \in Peers, SendRequest(p) \/ Restart(p) PROVE StuckAskStuck'
  <2>1. \A q \in Peers : asking'[q] \in {asking[q], NoPeer}
    BY <1>3 DEF SendRequest, Restart
  <2> QED BY <2>1
<1>4. CASE UNCHANGED asking
  BY <1>4
<1>5. ASSUME NEW p \in Peers, \/ Exit(p) \/ SendToFather(p) \/ FatherLost(p) \/ ClientLost(p)
      PROVE  UNCHANGED asking
  BY <1>5 DEF Exit, SendToFather, FatherLost, ClientLost
<1>6. ASSUME NEW p \in Peers, NEW m \in net,
             \/ HandleReqFather(p, m) \/ HandleReqRole(p, m) \/ HandleResRole(p, m)
             \/ HandlePing(p, m) \/ HandlePong(p, m)
      PROVE  UNCHANGED asking
  BY <1>6 DEF HandleReqFather, HandleReqRole, HandleResRole, HandlePing, HandlePong
<1> QED
  BY <1>1, <1>2, <1>3, <1>4, <1>5, <1>6 DEF Next, Step, Handle, Lose, vars

(* Nobody who is asked by a stuck peer answers.                            *)
LEMMA PassStep == SInv /\ [Next]_vars => NetPassesStuck'
<1> SUFFICES ASSUME SInv, [Next]_vars PROVE NetPassesStuck'
  OBVIOUS
<1> DEFINE Passes(m) ==
             /\ m.from \in Stuck => m.type = "REQ_FATHER" /\ m.to \in Stuck
             /\ m.to \in Stuck => m.type \notin {"RES_FATHER", "RES_ROLE", "PONG"}
<1>1. \A m \in net : Passes(m)
  BY DEF SInv, NetPassesStuck
<1> USE JoinAssumption, StuckAssumption DEF NetPassesStuck
<1>2. ASSUME NEW p \in Peers, SendRequest(p) PROVE NetPassesStuck'
  <2> DEFINE new == [type |-> "REQ_FATHER", from |-> p, to |-> asking[p]]
  <2>1. net' \subseteq net \cup {new}
    BY <1>2, TransmitAdds DEF SendRequest, Send
  <2>2. Passes(new)
    BY <1>2 DEF SendRequest, SInv, StuckAskStuck
  <2> QED BY <1>1, <2>1, <2>2
<1>3. ASSUME NEW p \in Peers, SendToFather(p) PROVE NetPassesStuck'
  <2> DEFINE new == [type |-> CASE role[p] = "NONE" -> "REQ_ROLE"
                                [] role[p] = "NODE" -> "NODE_PING"
                                [] role[p] = "USER" -> "USER_PING",
                     from |-> p, to |-> father[p]]
  <2>1. net' \subseteq net \cup {new}
    BY <1>3, TransmitAdds DEF SendToFather, Send, SInv, TInv, TypeOK
  <2>2. p \notin Stuck
    BY <1>3 DEF SendToFather, SInv, StuckStayOut
  <2>3. new.type \in {"REQ_ROLE", "NODE_PING", "USER_PING"}
    BY DEF SInv, TInv, TypeOK
  <2>4. Passes(new)
    BY <2>2, <2>3
  <2> QED BY <1>1, <2>1, <2>4
<1>4. ASSUME NEW p \in Peers, NEW m \in net, NEW out,
             Consume(m, out), m.to = p, ~Answers(p) => out = {},
             \A o \in out : o.from = p /\ o.to = m.from
      PROVE  NetPassesStuck'
  <2>1. net' \subseteq net \cup out
    BY <1>4, ConsumeAdds
  <2>2. out # {} => p \notin Stuck /\ m.from \notin Stuck
    BY <1>1, <1>4, StuckSilent
  <2> QED BY <1>1, <1>4, <2>1, <2>2
<1>5. ASSUME NEW p \in Peers, NEW m \in net, HandleReqFather(p, m) PROVE NetPassesStuck'
  <2> DEFINE answer(l) == [type |-> "RES_FATHER", from |-> p, to |-> m.from, list |-> l]
             out == IF Answers(p)
                    THEN {answer(clients[p] \cup ({father[p]} \cap Peers)), answer({})}
                    ELSE {}
  <2>1. Consume(m, out) /\ m.to = p /\ (~Answers(p) => out = {})
    BY <1>5 DEF HandleReqFather
  <2>2. \A o \in out : o.from = p /\ o.to = m.from
    OBVIOUS
  <2> HIDE DEF out
  <2> QED BY <1>4, <2>1, <2>2
<1>6. ASSUME NEW p \in Peers, NEW m \in net, HandleReqRole(p, m) PROVE NetPassesStuck'
  <2> DEFINE out == IF Answers(p)
                    THEN {[type |-> "RES_ROLE", from |-> p, to |-> m.from,
                           role |-> IF m.from \in Reachable THEN "NODE" ELSE "USER"]}
                    ELSE {}
  <2>1. Consume(m, out) /\ m.to = p /\ (~Answers(p) => out = {})
    BY <1>6 DEF HandleReqRole
  <2>2. \A o \in out : o.from = p /\ o.to = m.from
    OBVIOUS
  <2> HIDE DEF out
  <2> QED BY <1>4, <2>1, <2>2
<1>7. ASSUME NEW p \in Peers, NEW m \in net, HandlePing(p, m) PROVE NetPassesStuck'
  <2> DEFINE out == IF Answers(p) THEN {[type |-> "PONG", from |-> p, to |-> m.from]} ELSE {}
  <2>1. Consume(m, out) /\ m.to = p /\ (~Answers(p) => out = {})
    BY <1>7 DEF HandlePing
  <2>2. \A o \in out : o.from = p /\ o.to = m.from
    OBVIOUS
  <2> HIDE DEF out
  <2> QED BY <1>4, <2>1, <2>2
<1>8. ASSUME NEW p \in Peers, NEW m \in net,
             HandleResFather(p, m) \/ HandleResRole(p, m) \/ HandlePong(p, m)
      PROVE  NetPassesStuck'
  <2>1. net' \subseteq net
    BY <1>8, ConsumeAdds DEF HandleResFather, HandleResRole, HandlePong
  <2> QED BY <1>1, <2>1
<1>9. CASE Lose \/ UNCHANGED net
  <2>1. net' \subseteq net
    BY <1>9 DEF Lose
  <2> QED BY <1>1, <2>1
<1> QED
  BY <1>2, <1>3, <1>5, <1>6, <1>7, <1>8, <1>9
  DEF Next, Step, Handle, Check, Exit, FatherLost, Restart, ClientLost, vars

(* Without an answer a stuck peer stays as it started.                     *)
LEMMA OutStep == SInv /\ [Next]_vars => StuckStayOut'
<1> SUFFICES ASSUME SInv, [Next]_vars PROVE StuckStayOut'
  OBVIOUS
<1> USE JoinAssumption, StuckAssumption DEF SInv, TInv, TypeOK, StuckStayOut, StartRole
<1>1. ASSUME NEW p \in Peers, Check(p) \/ FatherLost(p) PROVE StuckStayOut'
  <2>1. \A q \in Stuck : father'[q] = father[q] /\ nodes'[q] = nodes[q]
    BY <1>1 DEF Check, FatherLost
  <2>2. UNCHANGED role
    BY <1>1 DEF Check, FatherLost
  <2> QED BY <2>1, <2>2
<1>2. ASSUME NEW p \in Peers, Restart(p) PROVE StuckStayOut'
  BY <1>2 DEF Restart
<1>3. ASSUME NEW p \in Peers, NEW m \in net,
             HandleResFather(p, m) \/ HandleResRole(p, m) \/ HandlePing(p, m) \/ HandlePong(p, m)
      PROVE  StuckStayOut'
  <2>1. \A q \in Peers \ {p} : /\ father'[q] = father[q] /\ role'[q] = role[q]
                               /\ nodes'[q] = nodes[q]
    BY <1>3 DEF HandleResFather, HandleResRole, HandlePing, HandlePong, NodesReg, NodesAdd
  <2>2. p \in Stuck => HandlePing(p, m) /\ ~Registers(p, m)
    BY <1>3 DEF HandleResFather, HandleResRole, HandlePong, NetPassesStuck, Registers
  <2>3. p \in Stuck => /\ father'[p] = father[p] /\ role'[p] = role[p]
                       /\ nodes'[p] = nodes[p]
    BY <2>2 DEF HandlePing, NodesReg
  <2> QED BY <2>1, <2>3
<1>4. CASE UNCHANGED <<father, role, nodes>>
  BY <1>4
<1> QED
  BY <1>1, <1>2, <1>3, <1>4
  DEF Next, Step, Handle, Exit, SendRequest, SendToFather, ClientLost, HandleReqFather,
      HandleReqRole, Lose, vars

(* Peers whose nearest known nodes are all among themselves never join,    *)
(* whatever else their tables hold: with Stuck = Peers and no seeds, a set *)
(* of freshly installed peers never becomes a network.                     *)
THEOREM StuckForever == Spec => []StuckStayOut
<1>1. SInv /\ [Next]_vars => SInv'
  BY TypeStep, TriesStep, AskStep, PassStep, OutStep DEF SInv, TInv
<1> QED BY InitStuck, <1>1, PTL DEF Spec, SInv
=============================================================================
