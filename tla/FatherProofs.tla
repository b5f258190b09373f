---------------------------- MODULE FatherProofs ----------------------------
(***************************************************************************)
(* What holds of Father for every set of other peers, every number of      *)
(* handler threads, every key length and every limit of the node list.     *)
(*                                                                         *)
(* TypeOK is not inductive enough for anything else, so IInv adds what the *)
(* threads know of each other: which nodes a handler or the check thread   *)
(* may hold, how the counter of answers relates to the answers there were, *)
(* and that the father_handler::mute which father_handler::check holds     *)
(* keeps its comparison valid until it has dropped the father.             *)
(***************************************************************************)
EXTENDS Father, HashSpaceProofs

(* A handler that has not decided yet has a sender that was asked.         *)
SenderAsked ==
    \A t \in Handlers :
        handler[t].at \in {"start", "head", "known", "decide"} => handler[t].from \in asked

(* The check thread has chosen a node.                                     *)
HasChosen == checker \in {"head", "chosen", "forgot"} => chosen \in Others

(* father_router::attempts counts answers of the candidate alone.          *)
CountHonest ==
    IF dad.status
    THEN dad.hash \in Others /\ streak.from = dad.hash /\ attempts + 1 <= streak.len
    ELSE attempts = 0

(* While the check thread is between its two statements under the mutex,   *)
(* the father it found too far is still the father, or there is none.      *)
ComparisonHolds ==
    checker = "forgot" /\ father.status => Closer(me, chosen, father.hash)

IInv == TypeOK /\ SenderAsked /\ HasChosen /\ CountHonest /\ ComparisonHolds

-----------------------------------------------------------------------------
LEMMA OthersAreHashes ==
    /\ Others \subseteq Hash /\ me \in Hash
    /\ NoHash \notin Others /\ NoHash # me /\ me \notin Others
BY FatherAssumption

(* nodes_handler::add leaves a list of other peers a list of other peers.  *)
LEMMA NodesAddType ==
  ASSUME NEW S \in SUBSET Others, NEW h \in Peer, NEW T \in NodesAdd(S, h)
  PROVE  T \subseteq Others
BY DEF NodesAdd, LowestSum, Peer

(* nearest() returns its head or a node of the list.                       *)
LEMMA HeadsType == TypeOK => Heads \subseteq Others
BY DEF Heads, LowestSum, TypeOK

LEMMA NearestFromType ==
  ASSUME NEW S, NEW head, NEW n \in NearestFrom(me, head, S)
  PROVE  n \in S \/ n = head
BY DEF NearestFrom, Nearest

LEMMA InitIInv == Init => IInv
BY FatherAssumption
   DEF Init, IInv, TypeOK, SenderAsked, HasChosen, CountHonest, ComparisonHolds,
       MaybePeer, At, Handler, CONFIRM

(* The type of the variables is preserved by every step.                   *)
LEMMA TypeStep == IInv /\ [Next]_vars => TypeOK'
<1> SUFFICES ASSUME IInv, [Next]_vars PROVE TypeOK'
  OBVIOUS
<1> USE FatherAssumption DEF IInv, TypeOK, MaybePeer, CONFIRM, Handler, At
<1>1. ASSUME NEW t \in Handlers, NEW h \in Others, Receive(t, h) PROVE TypeOK'
  BY <1>1 DEF Receive
<1>2. ASSUME NEW t \in Handlers, ResponseNearest(t) PROVE TypeOK'
  <2>1. PICK n \in NearestFrom(me, handler[t].near, nodes) :
           handler' = [handler EXCEPT ![t] = At("known", handler[t].from, n)]
    BY <1>2 DEF ResponseNearest
  <2>2. n \in MaybePeer
    BY <2>1, NearestFromType
  <2>3. handler' \in [Handlers -> Handler]
    BY <2>1, <2>2
  <2>4. asking' \in MaybePeer
    BY <1>2 DEF ResponseNearest
  <2> QED BY <1>2, <2>3, <2>4 DEF ResponseNearest
<1>3. ASSUME NEW t \in Handlers, ResponseAddSender(t) PROVE TypeOK'
  <2>1. handler[t].from \in Others
    BY <1>3 DEF ResponseAddSender, SenderAsked
  <2>2. nodes' \subseteq Others
    BY <1>3, <2>1, NodesAddType DEF ResponseAddSender, Peer
  <2> QED BY <1>3, <2>2 DEF ResponseAddSender
<1>4. ASSUME NEW t \in Handlers, ResponseDecide(t) PROVE TypeOK'
  <2>1. handler[t].from \in Others
    BY <1>4 DEF ResponseDecide, SenderAsked
  <2>2. Confirmed(handler[t].from) \in 0..CONFIRM
    BY DEF Confirmed
  <2>3. father' \in [status : BOOLEAN, hash : MaybePeer]
        /\ (father'.status => father'.hash # NoHash) /\ silent' \in BOOLEAN
    <3>1. \/ UNCHANGED <<father, silent>>
          \/ father' = [status |-> TRUE, hash |-> handler[t].from] /\ silent' = FALSE
      BY <1>4 DEF ResponseDecide, set
    <3>2. CASE UNCHANGED <<father, silent>>
      BY <3>2
    <3>3. CASE father' = [status |-> TRUE, hash |-> handler[t].from] /\ silent' = FALSE
      <4>1. father'.hash = handler[t].from /\ father'.status = TRUE
        BY <3>3
      <4> QED BY <2>1, <3>3, <4>1, OthersAreHashes
    <3> QED BY <3>1, <3>2, <3>3
  <2>4. dad' \in [status : BOOLEAN, hash : MaybePeer]
    BY <1>4, <2>1 DEF ResponseDecide
  <2>5. attempts' \in 0..CONFIRM
    BY <1>4, <2>2 DEF ResponseDecide
  <2>6. streak' \in [from : MaybePeer, len : 0..CONFIRM + 1]
    BY <1>4, <2>1 DEF ResponseDecide
  <2>7. handler' \in [Handlers -> Handler]
    BY <1>4 DEF ResponseDecide
  <2> QED BY <1>4, <2>3, <2>4, <2>5, <2>6, <2>7 DEF ResponseDecide
<1>5. ASSUME NEW t \in Handlers, ResponseAddList(t) PROVE TypeOK'
  <2>1. nodes' \subseteq Others
    BY <1>5, NodesAddType DEF ResponseAddList
  <2>2. handler' \in [Handlers -> Handler]
    BY <1>5 DEF ResponseAddList
  <2> QED BY <1>5, <2>1, <2>2 DEF ResponseAddList
<1>6. CASE FatherSpeaks
  <2>1. silent' \in BOOLEAN
    BY <1>6 DEF FatherSpeaks
  <2> QED BY <1>6, <2>1 DEF FatherSpeaks
<1>7. ASSUME NEW h \in Others, NodeSpeaks(h) PROVE TypeOK'
  <2>1. nodes' \subseteq Others
    BY <1>7, NodesAddType DEF NodeSpeaks, Peer
  <2> QED BY <1>7, <2>1 DEF NodeSpeaks
<1>8. CASE SendLate \/ SendLost \/ SendForget \/ SendDrop
  BY <1>8 DEF SendLate, SendLost, SendForget, SendDrop
<1>9. CASE SendRequest \/ GiveUp
  BY <1>9 DEF SendRequest, GiveUp, Peer
<1>10. CASE Check
  <2>1. CASE CheckDue \/ CheckForget \/ CheckAsk
    BY <1>10, <2>1 DEF CheckDue, CheckForget, CheckAsk
  <2>2. CASE CheckHead
    BY <2>2, HeadsType DEF CheckHead
  <2>3. CASE CheckNearest
    BY <2>3, NearestFromType DEF CheckNearest
  <2> QED BY <1>10, <2>1, <2>2, <2>3 DEF Check
<1>11. CASE Exit \/ Silence \/ Wait
  BY <1>11 DEF Exit, Silence, Wait
<1>12. CASE UNCHANGED vars
  BY <1>12 DEF vars
<1>13. ASSUME NEW t \in Handlers, ResponseHead(t) PROVE TypeOK'
  <2>1. PICK n \in Heads : handler' = [handler EXCEPT ![t] = At("head", handler[t].from, n)]
    BY <1>13 DEF ResponseHead
  <2>2. n \in MaybePeer
    BY <2>1, HeadsType
  <2> QED BY <1>13, <2>1, <2>2 DEF ResponseHead
<1> QED
  BY <1>1, <1>2, <1>3, <1>4, <1>5, <1>6, <1>7, <1>8, <1>9, <1>10, <1>11, <1>12, <1>13
  DEF Next, Response

(* Handlers take their sender from the nodes that were asked, and nodes    *)
(* are never forgotten to have been asked.                                 *)
LEMMA SenderStep == IInv /\ [Next]_vars => SenderAsked'
<1> SUFFICES ASSUME IInv, [Next]_vars PROVE SenderAsked'
  OBVIOUS
<1> USE DEF IInv, TypeOK, SenderAsked, Handler, At
<1>1. ASSUME NEW t \in Handlers, NEW h \in Others, Receive(t, h) PROVE SenderAsked'
  BY <1>1 DEF Receive
<1>2. ASSUME NEW t \in Handlers, Response(t) PROVE SenderAsked'
  <2> USE DEF Response, ResponseHead, ResponseNearest, ResponseAddSender, ResponseDecide,
              ResponseAddList
  <2>1. UNCHANGED asked
    BY <1>2
  <2>2. \A s \in Handlers \ {t} : handler'[s] = handler[s]
    BY <1>2
  <2>3. \/ handler'[t].at \in {"list", "idle"}
        \/ /\ handler'[t].from = handler[t].from
           /\ handler[t].at \in {"start", "head", "known", "decide"}
    BY <1>2
  <2> QED BY <2>1, <2>2, <2>3
<1>3. CASE UNCHANGED handler
  <2>1. asked \subseteq asked'
    BY <1>3 DEF Next, Receive, Response, ResponseHead, ResponseNearest, ResponseAddSender, ResponseDecide,
                ResponseAddList, FatherSpeaks, NodeSpeaks, SendLate, SendLost, SendForget, SendDrop,
                SendRequest, GiveUp, Check, CheckDue, CheckHead, CheckNearest, CheckForget, CheckAsk,
                Exit, Silence, Wait, vars
  <2> QED BY <1>3, <2>1
<1> QED
  BY <1>1, <1>2, <1>3
  DEF Next, FatherSpeaks, NodeSpeaks, SendLate, SendLost, SendForget, SendDrop, SendRequest, GiveUp,
      Check, CheckDue, CheckHead, CheckNearest, CheckForget, CheckAsk, Exit, Silence, Wait, vars

(* The check thread chooses among the nodes of the list.                   *)
LEMMA ChosenStep == IInv /\ [Next]_vars => HasChosen'
BY HeadsType, NearestFromType
   DEF IInv, TypeOK, HasChosen, Next, Receive, Response, ResponseHead, ResponseNearest,
       ResponseAddSender, ResponseDecide, ResponseAddList, FatherSpeaks, NodeSpeaks,
       SendLate, SendLost, SendForget, SendDrop, SendRequest, GiveUp,
       Check, CheckDue, CheckHead, CheckNearest, CheckForget, CheckAsk, Exit, Silence, Wait, vars

(* Only the section under father_router::mute touches the candidate.       *)
LEMMA CountStep == IInv /\ [Next]_vars => CountHonest'
<1> SUFFICES ASSUME IInv, [Next]_vars PROVE CountHonest'
  OBVIOUS
<1> USE DEF IInv, TypeOK, CountHonest, CONFIRM
<1>1. ASSUME NEW t \in Handlers, ResponseDecide(t) PROVE CountHonest'
  <2> DEFINE h == handler[t].from
  <2>1. h \in Others
    BY <1>1 DEF ResponseDecide, SenderAsked
  <2>2. \/ ~dad'.status /\ attempts' = 0
        \/ /\ dad' = [status |-> TRUE, hash |-> h]
           /\ attempts' = Confirmed(h)
    BY <1>1 DEF ResponseDecide
  <2>3. streak'.from = h /\ streak'.len \in Nat /\ streak'.len >= 1
    BY <1>1 DEF ResponseDecide
  <2>4. dad.status /\ dad.hash = h /\ attempts < CONFIRM => attempts + 2 <= streak'.len
    BY <1>1 DEF ResponseDecide
  <2>5. dad.status /\ dad.hash = h /\ attempts = CONFIRM => attempts + 1 <= streak'.len
    BY <1>1 DEF ResponseDecide
  <2>6. Confirmed(h) + 1 <= streak'.len
    BY <2>3, <2>4, <2>5 DEF Confirmed
  <2> QED BY <2>1, <2>2, <2>3, <2>6
<1>2. CASE UNCHANGED <<dad, attempts, streak>>
  BY <1>2
<1> QED
  BY <1>1, <1>2
  DEF Next, Receive, Response, ResponseHead, ResponseNearest, ResponseAddSender, ResponseAddList,
      FatherSpeaks, NodeSpeaks, SendLate, SendLost, SendForget, SendDrop, SendRequest, GiveUp,
      Check, CheckDue, CheckHead, CheckNearest, CheckForget, CheckAsk, Exit, Silence, Wait, vars

(* Only ResponseDecide sets a father, and it waits for father_handler::mute.*)
LEMMA ComparisonStep == IInv /\ [Next]_vars => ComparisonHolds'
<1> SUFFICES ASSUME IInv, [Next]_vars PROVE ComparisonHolds'
  OBVIOUS
<1> USE DEF IInv, TypeOK, ComparisonHolds
<1>1. ASSUME NEW t \in Handlers, ResponseDecide(t) PROVE ComparisonHolds'
  BY <1>1 DEF ResponseDecide, father_mute_free
<1>2. CASE CheckForget
  <2>1. father.hash \in Hash /\ chosen \in Hash
    BY <1>2, OthersAreHashes DEF CheckForget, Overtaken, HasChosen, MaybePeer
  <2>2. Closer(me, chosen, father.hash)
    BY <1>2, <2>1, CmpMirror, OthersAreHashes DEF CheckForget, Overtaken
  <2> QED BY <1>2, <2>2 DEF CheckForget
<1>3. CASE SendDrop
  BY <1>3 DEF SendDrop
<1>4. CASE CheckDue \/ CheckHead \/ CheckNearest \/ CheckAsk
  BY <1>4 DEF CheckDue, CheckHead, CheckNearest, CheckAsk
<1>5. CASE UNCHANGED <<father, checker, chosen>>
  BY <1>5
<1> QED
  BY <1>1, <1>2, <1>3, <1>4, <1>5
  DEF Next, Receive, Response, ResponseHead, ResponseNearest, ResponseAddSender, ResponseAddList,
      FatherSpeaks, NodeSpeaks, SendLate, SendLost, SendForget, SendRequest, GiveUp, Check,
      Exit, Silence, Wait, vars

LEMMA Inductive == Spec => []IInv
<1>1. IInv /\ [Next]_vars => IInv'
  BY TypeStep, SenderStep, ChosenStep, CountStep, ComparisonStep DEF IInv
<1> QED BY InitIInv, <1>1, PTL DEF Spec

-----------------------------------------------------------------------------
(* The variables of the father threads keep their types: in particular a   *)
(* father always has a key, and a peer is never in its own node list.      *)
THEOREM TypeCorrect == Spec => []TypeOK
BY Inductive, PTL DEF IInv

(* A peer becomes the father only on the strength of CONFIRM + 1 answers   *)
(* in a row that are all its own, however many handlers share the counter. *)
THEOREM AdoptionIsEarned == Spec => AdoptionEarned
<1>1. ASSUME IInv, [Next]_vars, father'.status, father.status => father'.hash # father.hash
      PROVE  streak' = [from |-> father'.hash, len |-> CONFIRM + 1]
  <2> USE <1>1 DEF IInv, TypeOK, CountHonest, CONFIRM
  <2>1. PICK t \in Handlers : ResponseDecide(t)
    BY DEF Next, Receive, Response, ResponseHead, ResponseNearest, ResponseAddSender, ResponseAddList,
           FatherSpeaks, NodeSpeaks, SendLate, SendLost, SendForget, SendDrop, SendRequest, GiveUp,
           Check, CheckDue, CheckHead, CheckNearest, CheckForget, CheckAsk, Exit, Silence, Wait, vars
  <2> DEFINE h == handler[t].from
  <2>2. Confirmed(h) >= CONFIRM /\ father'.hash = h
    BY <2>1 DEF ResponseDecide, set
  <2>3. dad.status /\ dad.hash = h /\ attempts + 1 >= CONFIRM
    BY <2>2 DEF Confirmed
  <2>4. streak.from = h /\ streak.len \in {CONFIRM, CONFIRM + 1}
    BY <2>3
  <2> QED BY <2>1, <2>2, <2>4 DEF ResponseDecide
<1> QED BY <1>1, Inductive, PTL DEF Spec, AdoptionEarned

(* What the check thread concluded before it took father_handler::mute and *)
(* between its statements is still true when it drops the father.          *)
THEOREM DropIsJustified == Spec => CheckDropsForNearer
<1>1. ASSUME IInv, [Next]_vars, father.status, ~father'.status, UNCHANGED sender
      PROVE  Closer(me, chosen, father.hash)
  <2>1. CASE CheckAsk
    BY <1>1, <2>1 DEF CheckAsk, IInv, ComparisonHolds
  <2>2. CASE SendDrop
    BY <1>1, <2>2 DEF SendDrop
  <2>3. ASSUME NEW t \in Handlers, ResponseDecide(t) PROVE FALSE
    BY <1>1, <2>3 DEF ResponseDecide, set
  <2>4. CASE UNCHANGED father
    BY <1>1, <2>4
  <2> QED
    BY <1>1, <2>1, <2>2, <2>3, <2>4
    DEF Next, Receive, Response, ResponseHead, ResponseNearest, ResponseAddSender, ResponseAddList,
        FatherSpeaks, NodeSpeaks, SendLate, SendLost, SendForget, SendRequest, GiveUp, Check,
        CheckDue, CheckHead, CheckNearest, CheckForget, Exit, Silence, Wait, vars
<1> QED BY <1>1, Inductive, PTL DEF Spec, CheckDropsForNearer

-----------------------------------------------------------------------------
(* The threads together implement FatherSpec: every step of any of them is *)
(* a step of the abstract father or changes nothing it shows.              *)
Parent == IF father.status THEN father.hash ELSE NoHash

LEMMA InitRefines == Init => Promise!Init
BY DEF Init, Promise!Init

(* FatherSpec extends HashSpace itself: its metric is the same.            *)
LEMMA SameMetric == \A h \in Others : Promise!Closer(me, h, Parent) <=> Closer(me, h, Parent)
BY DEF Promise!Closer, Promise!cmp, Promise!Differ, Promise!Gap, Closer, cmp, Differ, Gap

Doubted == sender # "loop"

Shown == <<Parent, asked, silent, Doubted>>

LEMMA StepRefines ==
  ASSUME IInv, [Next]_vars
  PROVE  [Promise!Next]_Shown
<1> USE DEF IInv, TypeOK, Parent, Doubted, Shown
<1>1. ASSUME NEW t \in Handlers, ResponseDecide(t) PROVE [Promise!Next]_Shown
  <2> DEFINE h == handler[t].from
  <2>1. h \in asked /\ h \in Others /\ asked' = asked /\ sender' = sender
    BY <1>1 DEF ResponseDecide, SenderAsked
  <2>2. CASE UNCHANGED <<father, silent>>
    BY <2>1, <2>2
  <2>3. CASE /\ father' = [status |-> TRUE, hash |-> h] /\ silent' = FALSE
             /\ ~(father.status /\ cmp(me, h, father.hash) # 1)
    <3>1. Parent' = h
      BY <2>3
    <3>2. Parent = NoHash \/ Closer(me, h, Parent)
      BY <2>3 DEF Closer
    <3>3. Promise!Adopt(h)
      BY <2>1, <2>3, <3>1, <3>2, SameMetric DEF Promise!Adopt
    <3> QED BY <2>1, <3>3 DEF Promise!Next
  <2> QED BY <1>1, <2>2, <2>3 DEF ResponseDecide, set
<1>2. CASE SendRequest
  <2>1. asking \in Others /\ asked' = asked \cup {asking} /\ UNCHANGED <<father, silent, sender>>
    BY <1>2 DEF SendRequest, MaybePeer
  <2>2. Promise!Contact(asking)
    BY <2>1 DEF Promise!Contact
  <2> QED BY <2>1, <2>2 DEF Promise!Next
<1>3. CASE FatherSpeaks
  <2>1. Promise!Speak
    BY <1>3 DEF FatherSpeaks, Promise!Speak
  <2> QED BY <2>1 DEF Promise!Next
<1>4. CASE Silence
  BY <1>4 DEF Silence, Promise!Next, Promise!FallSilent
<1>5. CASE SendLate
  <2>1. Promise!Doubt
    BY <1>5 DEF SendLate, Late, Promise!Doubt
  <2> QED BY <2>1 DEF Promise!Next
<1>6. CASE SendLost
  <2>1. CASE father.status
    BY <1>6, <2>1 DEF SendLost
  <2>2. CASE ~father.status
    BY <1>6, <2>2 DEF SendLost, Promise!Next, Promise!Dismiss
  <2> QED BY <2>1, <2>2
<1>7. CASE SendForget
  BY <1>7 DEF SendForget
<1>8. CASE SendDrop
  <2>1. Promise!DropSilent
    BY <1>8 DEF SendDrop, Promise!DropSilent
  <2> QED BY <2>1 DEF Promise!Next
<1>9. CASE CheckAsk
  <2>1. CASE father.status /\ ~father'.status
    <3>1. checker = "forgot" /\ chosen \in Others /\ Closer(me, chosen, Parent)
      BY <1>9, <2>1 DEF CheckAsk, HasChosen, ComparisonHolds
    <3>2. Promise!DropFarther
      BY <1>9, <2>1, <3>1, SameMetric DEF CheckAsk, Promise!DropFarther
    <3> QED BY <3>2 DEF Promise!Next
  <2>2. CASE ~(father.status /\ ~father'.status)
    BY <1>9, <2>2 DEF CheckAsk
  <2> QED BY <2>1, <2>2
<1>10. CASE UNCHANGED <<father, asked, silent, sender>>
  BY <1>10
<1> QED
  BY <1>1, <1>2, <1>3, <1>4, <1>5, <1>6, <1>7, <1>8, <1>9, <1>10
  DEF Next, Receive, Response, ResponseHead, ResponseNearest, ResponseAddSender,
      ResponseAddList, NodeSpeaks, GiveUp, Check, CheckDue, CheckHead, CheckNearest,
      CheckForget, Exit, Wait, vars

(* The threads of a peer implement the promise of FatherSpec: one father,  *)
(* a node that was asked, exchanged only for a strictly nearer one, and    *)
(* dropped only for a nearer one or after a silence that was noticed and   *)
(* has not cost a father yet.                                              *)
THEOREM PromiseIsKept == Spec => KeepsPromise
<1>1. IInv /\ [Next]_vars => [Promise!Next]_Shown
  BY StepRefines
<1> QED BY <1>1, InitRefines, Inductive, PTL
        DEF Spec, KeepsPromise, Promise!Spec, Parent, Doubted, Shown
=============================================================================
