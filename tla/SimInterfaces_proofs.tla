------------------------ MODULE SimInterfaces_proofs ------------------------
(* Theorems about SimInterfaces, for every bound on what is played and said. *)
EXTENDS SimInterfaces, FiniteSetTheorems, SequenceTheorems,
        WellFoundedInduction, TLAPS

USE BoundsAssumption

LEMMA SimsAre == Sims = {"gspro", "e6"}
<1>1. DOMAIN SimList = 1..2 /\ SimList[1] = "gspro" /\ SimList[2] = "e6"
  BY DEF SimList
<1> QED
  BY <1>1 DEF Sims, ToSet

\* What is left to visit always ends with E6.
LEMMA TodoShapes ==
    /\ SimList # <<>> /\ Head(SimList) = "gspro" /\ Tail(SimList) = <<"e6">>
    /\ Len(SimList) = 2
    /\ <<"e6">> # <<>> /\ Head(<<"e6">>) = "e6" /\ Tail(<<"e6">>) = <<>>
    /\ Len(<<"e6">>) = 1
BY DEF SimList

LEMMA TodoAre ==
    /\ SubSeq(SimList, 1, 2) = SimList
    /\ SubSeq(SimList, 2, 2) = <<"e6">>
    /\ SubSeq(SimList, 3, 2) = <<>>
<1>1. SimList \in Seq({"gspro", "e6"}) /\ SimList # <<>> /\ Len(SimList) = 2
  BY DEF SimList
<1>2. SubSeq(SimList, 1, 2) = SimList
  BY <1>1, SubSeqFull
<1>3. SubSeq(SimList, 2, 2) = <<"e6">>
  BY <1>1, TailIsSubSeq, TodoShapes
<1>4. SubSeq(SimList, 3, 2) = <<>>
  BY SubSeqEmpty
<1> QED
  BY <1>2, <1>3, <1>4

Todos == {SimList, <<"e6">>, <<>>}
Threads == {"none", "starting", "reading", "processing", "ended"}
Messages == [kind : Kinds, shot : 0..MaxShots]

\* A simulator's inbox holds only what that simulator says, or a part of it.
SimType ==
    /\ at \in Steps /\ todo \in Todos
    /\ shotCounter \in 0..MaxShots
    /\ running \in BOOLEAN /\ armed \in BOOLEAN
    /\ initialized \in [Sims -> BOOLEAN] /\ hasThread \in [Sims -> BOOLEAN]
    /\ exited \in [Sims -> BOOLEAN] /\ open \in [Sims -> BOOLEAN]
    /\ thread \in [Sims -> Threads]
    /\ buf \in Texts
    /\ inbox \in [Sims -> Seq(Texts)]
    /\ \A s \in Sims : inbox[s] \in Seq(Says(s) \cup {"garbled"})
    /\ talked \in [Sims -> Nat]
    /\ \A s \in Sims : talked[s] <= Talk(s)
    /\ arms \in Nat /\ arms <= talked["e6"]
    /\ sent \in Seq(Messages)
    /\ asked \in Seq({"driver", "putter"}) /\ clubs \in Seq({"driver", "putter"})

\* Where the FSM thread visits an interface there is one left to visit, and
\* inside GsE6Interface::SendResults it is E6's.
TodoInv ==
    /\ at \in {"connect", "greet", "send", "stopping"} => todo # <<>>
    /\ at \in {"ball", "club", "shot", "disarm"} => todo = <<"e6">>

SimInv == SimType /\ TodoInv

LEMMA SimInit == Init => SimInv
<1> SUFFICES ASSUME Init PROVE SimInv
  OBVIOUS
<1>1. TodoInv
  BY TodoShapes DEF Init, TodoInv
<1>2. \A s \in Sims : inbox[s] = <<>>
  BY DEF Init
<1>3. inbox \in [Sims -> Seq(Texts)] /\ \A s \in Sims : inbox[s] \in Seq(Says(s) \cup {"garbled"})
  BY <1>2 DEF Init
<1>4. talked \in [Sims -> Nat] /\ \A s \in Sims : talked[s] <= Talk(s)
  BY DEF Init, Talk
<1>5. arms \in Nat /\ arms <= talked["e6"]
  BY SimsAre DEF Init
<1>6. sent \in Seq(Messages) /\ asked \in Seq({"driver", "putter"}) /\ clubs \in Seq({"driver", "putter"})
  BY DEF Init
<1>7. thread \in [Sims -> Threads] /\ open \in [Sims -> BOOLEAN] /\ exited \in [Sims -> BOOLEAN]
  BY DEF Init, Threads
<1>8. initialized \in [Sims -> BOOLEAN] /\ hasThread \in [Sims -> BOOLEAN]
  BY DEF Init
<1>9. buf \in Texts /\ at \in Steps /\ todo \in Todos /\ shotCounter \in 0..MaxShots
  BY DEF Init, Texts, Steps, Todos
<1>10. SimType
  BY <1>3, <1>4, <1>5, <1>6, <1>7, <1>8, <1>9 DEF Init, SimType
<1> QED
  BY <1>1, <1>10 DEF SimInv

\* An initialized interface has a next one, or the round is over.
LEMMA NextTodo ==
    ASSUME todo \in Todos, todo # <<>>
    PROVE  /\ Tail(todo) \in Todos
           /\ Len(todo) # 1 => Tail(todo) # <<>>
           /\ sim \in Sims
BY TodoShapes, SimsAre DEF Todos, sim

\* The actions of the FSM thread touch no socket but to open it.
LEMMA MainKeepsPeers ==
    ASSUME SimInv, MainStep
    PROVE  /\ UNCHANGED <<running, inbox, talked, arms, asked, clubs, buf, exited>>
           /\ open \in [Sims -> BOOLEAN] => open' \in [Sims -> BOOLEAN]
           /\ thread' \in [Sims -> Threads] /\ hasThread' \in [Sims -> BOOLEAN]
<1>1. CASE Connect
  <2>1. sim \in Sims
    BY <1>1, NextTodo DEF Connect, SimInv, SimType, TodoInv
  <2> QED
    BY <1>1, <2>1 DEF Connect, SimInv, SimType, Threads
<1>2. CASE ~Connect
  BY <1>2 DEF MainStep, Greet, WaitForArmed, IncrementShotCounter, SendResults,
       SendBallData, SendClubData, SendShot, E6Step, Disarm, Stop, DeInitializeSims,
       threadVars, peerVars, SimInv, SimType
<1> QED
  BY <1>1, <1>2
LEMMA MainStepTyped ==
    ASSUME SimInv, MainStep
    PROVE  /\ at' \in Steps /\ todo' \in Todos /\ TodoInv'
           /\ shotCounter' \in 0..MaxShots /\ armed' \in BOOLEAN
           /\ initialized' \in [Sims -> BOOLEAN]
           /\ sent' \in Seq(Messages)
<1> USE DEF SimInv, SimType, TodoInv
<1> DEFINE Goal == /\ at' \in Steps /\ todo' \in Todos /\ TodoInv'
                   /\ shotCounter' \in 0..MaxShots /\ armed' \in BOOLEAN
                   /\ initialized' \in [Sims -> BOOLEAN]
                   /\ sent' \in Seq(Messages)
<1>a. todo # <<>> => Tail(todo) \in Todos /\ (Len(todo) # 1 => Tail(todo) # <<>>) /\ sim \in Sims
  BY NextTodo
<1>b. SimList \in Todos /\ SimList # <<>>
  BY TodoShapes DEF Todos
<1>c. ASSUME NextSim, todo # <<>>
      PROVE  at' \in Steps /\ todo' \in Todos /\ TodoInv'
  BY <1>a, <1>c DEF NextSim, Steps
<1>d. ASSUME DeInitialize(sim), todo # <<>>, at \in {"greet", "send", "stopping"}
      PROVE  at' \in Steps /\ todo' \in Todos /\ TodoInv' /\ initialized' \in [Sims -> BOOLEAN]
  BY <1>a, <1>d DEF DeInitialize, Steps
<1>e. ASSUME NEW from, NEW kind \in Kinds, NEW to \in {"club", "shot", "disarm"},
             from \in {"ball", "club", "shot"}, E6Step(from, kind, to)
      PROVE  Goal
  <2>1. at = from /\ todo = <<"e6">>
    BY <1>e DEF E6Step
  <2>2. PICK ok \in BOOLEAN : /\ SendSimMessage(kind, ok)
                              /\ IF ok THEN at' = to /\ todo' = todo ELSE NextSim
    BY <1>e DEF E6Step
  <2>3. at' \in Steps /\ todo' \in Todos /\ TodoInv'
    BY <2>1, <2>2, <1>c, TodoShapes DEF Steps
  <2>4. Msg(kind, shotCounter) \in Messages
    BY DEF Msg, Messages
  <2>5. sent' \in Seq(Messages)
    BY <2>2, <2>4 DEF SendSimMessage
  <2> QED
    BY <1>e, <2>3, <2>5 DEF E6Step
<1> SUFFICES Goal
  OBVIOUS
<1> HIDE DEF Goal
<1>1. CASE Connect
  BY <1>1 DEF Connect, Steps, Goal
<1>2. CASE Greet
  BY <1>2, <1>a, <1>d DEF Greet, Steps, Goal
<1>3. CASE WaitForArmed
  BY <1>3 DEF WaitForArmed, Steps, Goal
<1>4. CASE IncrementShotCounter
  BY <1>4, <1>b DEF IncrementShotCounter, Steps, Goal
<1>5. CASE SendResults
  <2>1. at = "send" /\ todo # <<>>
    BY <1>5 DEF SendResults
  <2>2. CASE NextSim /\ UNCHANGED initialized
    BY <1>5, <2>1, <2>2, <1>c DEF SendResults, Goal
  <2>3. CASE DeInitialize(sim)
    BY <1>5, <2>1, <2>3, <1>d DEF SendResults, Goal
  <2>4. CASE sim = "e6" /\ at' = "ball" /\ todo' = todo /\ UNCHANGED initialized
    <3>1. todo = <<"e6">>
      BY <2>1, <2>4, TodoShapes DEF Todos, sim
    <3> QED
      BY <1>5, <2>4, <3>1 DEF SendResults, Goal, Steps
  <2> QED
    BY <1>5, <2>2, <2>3, <2>4 DEF SendResults
<1>6. CASE SendBallData
  BY <1>6, <1>e DEF SendBallData, Kinds
<1>7. CASE SendClubData
  BY <1>7, <1>e DEF SendClubData, Kinds
<1>8. CASE SendShot
  BY <1>8, <1>e DEF SendShot, Kinds
<1>9. CASE Disarm
  BY <1>9, TodoShapes DEF Disarm, Steps, Todos, Goal
<1>10. CASE Stop
  BY <1>10, <1>b DEF Stop, Steps, Goal
<1>11. CASE DeInitializeSims
  BY <1>11, <1>d DEF DeInitializeSims, Goal
<1> QED
  BY <1>1, <1>2, <1>3, <1>4, <1>5, <1>6, <1>7, <1>8, <1>9, <1>10, <1>11 DEF MainStep

\* What a read leaves in the inbox, and what it puts into the buffer.
LEMMA ReadTyped ==
    ASSUME NEW S, "garbled" \in S, NEW q \in Seq(S), q # <<>>
    PROVE  /\ Head(q) \in S
           /\ [q EXCEPT ![1] = "garbled"] \in Seq(S)
           /\ Len([q EXCEPT ![1] = "garbled"]) = Len(q)
           /\ \A n \in 1..Len(q) :
                 /\ SubSeq(q, n + 1, Len(q)) \in Seq(S)
                 /\ Len(SubSeq(q, n + 1, Len(q))) = Len(q) - n
                 /\ \A i \in 1..(Len(q) - n) : SubSeq(q, n + 1, Len(q))[i] = q[n + i]
<1>1. Head(q) \in S
  OBVIOUS
<1>2. [q EXCEPT ![1] = "garbled"] \in Seq(S) /\ Len([q EXCEPT ![1] = "garbled"]) = Len(q)
  BY ExceptSeq
<1>3. ASSUME NEW n \in 1..Len(q)
      PROVE  /\ SubSeq(q, n + 1, Len(q)) \in Seq(S)
             /\ Len(SubSeq(q, n + 1, Len(q))) = Len(q) - n
             /\ \A i \in 1..(Len(q) - n) : SubSeq(q, n + 1, Len(q))[i] = q[n + i]
  <2>1. \A i \in (n + 1)..Len(q) : q[i] \in S
    BY <1>3
  <2>2. n + 1 \in Int /\ Len(q) \in Int
    BY <1>3
  <2> DEFINE r == SubSeq(q, n + 1, Len(q))
  <2>3. /\ r \in Seq(S)
        /\ Len(r) = IF n + 1 <= Len(q) THEN Len(q) - (n + 1) + 1 ELSE 0
        /\ \A i \in 1..(Len(q) - (n + 1) + 1) : r[i] = q[n + 1 + i - 1]
    BY <2>1, <2>2, SubSeqProperties
  <2> HIDE DEF r
  <2>4. \A i \in Int : n + 1 + i - 1 = n + i
    BY <1>3
  <2>5. r \in Seq(S) /\ Len(r) = Len(q) - n /\ \A i \in 1..(Len(q) - n) : r[i] = q[n + i]
    BY <1>3, <2>3, <2>4
  <2> QED
    BY <2>5 DEF r
<1> QED
  BY <1>1, <1>2, <1>3

LEMMA SayTexts ==
    \A s \in Sims : /\ "garbled" \in Says(s) \cup {"garbled"}
                    /\ Says(s) \cup {"garbled"} \subseteq Texts
BY DEF Says, Texts

LEMMA ReceiverTyped ==
    ASSUME SimInv, NEW s \in Sims, ReceiverStep(s)
    PROVE  SimInv'
<1> USE DEF SimInv, SimType, TodoInv
<1>0. LoopAgain \in Threads /\ "ended" \in Threads /\ "processing" \in Threads
  BY DEF LoopAgain, Threads
<1>1. CASE ReceiverStarts(s)
  BY <1>0, <1>1 DEF ReceiverStarts, mainVars, peerVars
<1>2. CASE ReadSome(s)
  <2> DEFINE S == Says(s) \cup {"garbled"}
             q == inbox[s]
  <2>1. q \in Seq(S) /\ q # <<>> /\ "garbled" \in S /\ S \subseteq Texts
    BY <1>2, SayTexts DEF ReadSome
  <2>2. PICK r : r \in Seq(S) /\ inbox' = [inbox EXCEPT ![s] = r] /\ buf' \in S
    <3>1. CASE \E n \in 1..Len(inbox[s]) :
                   /\ buf' = IF n = 1 THEN Head(inbox[s]) ELSE "garbled"
                   /\ inbox' = [inbox EXCEPT ![s] = SubSeq(@, n + 1, Len(@))]
      <4>1. PICK n \in 1..Len(q) :
                   /\ buf' = IF n = 1 THEN Head(q) ELSE "garbled"
                   /\ inbox' = [inbox EXCEPT ![s] = SubSeq(q, n + 1, Len(q))]
        BY <3>1
      <4> HIDE DEF q, S
      <4> QED
        BY <2>1, <4>1, ReadTyped
    <3>2. CASE /\ buf' = "garbled"
               /\ inbox' = [inbox EXCEPT ![s][1] = "garbled"]
      <4>1. inbox' = [inbox EXCEPT ![s] = [q EXCEPT ![1] = "garbled"]]
        BY <3>2
      <4> HIDE DEF q, S
      <4> QED
        BY <2>1, <3>2, <4>1, ReadTyped
    <3> QED
      BY <1>2, <3>1, <3>2 DEF ReadSome
  <2>3. r \in Seq(Texts)
    BY <2>1, <2>2
  <2>4. inbox' \in [Sims -> Seq(Texts)]
    BY <2>2, <2>3
  <2>5. \A u \in Sims : inbox'[u] \in Seq(Says(u) \cup {"garbled"})
    BY <2>2
  <2>6. thread' \in [Sims -> Threads] /\ buf' \in Texts
    BY <1>0, <1>2, <2>1, <2>2 DEF ReadSome
  <2> QED
    BY <1>2, <2>4, <2>5, <2>6 DEF ReadSome, mainVars, peerVars
<1>3. CASE ReadNothing(s)
  BY <1>0, <1>3 DEF ReadNothing, mainVars, peerVars
<1>4. CASE ProcessGSPro
  <2>1. ClubOf(buf) \in {"driver", "putter"}
    BY DEF ClubOf
  <2>2. clubs' \in Seq({"driver", "putter"})
    BY <1>4, <2>1 DEF ProcessGSPro
  <2> QED
    BY <1>0, <1>4, <2>2 DEF ProcessGSPro, mainVars, peerVars
<1>5. CASE ProcessE6
  <2>1. PICK m \in ProcessJson(buf, armed), ok \in BOOLEAN :
           /\ armed' = m.armed
           /\ thread' = [thread EXCEPT !["e6"] = IF m.ok /\ ok THEN LoopAgain ELSE "ended"]
    BY <1>5 DEF ProcessE6
  <2>2. m.armed \in BOOLEAN
    <3>1. CASE buf \in SaysE6
      <4>1. m = [armed |-> IF buf = "ping" THEN armed ELSE buf = "arm", ok |-> TRUE]
        BY <2>1, <3>1 DEF ProcessJson
      <4>2. m.armed = IF buf = "ping" THEN armed ELSE buf = "arm"
        BY <4>1
      <4> QED
        BY <4>2
    <3>2. CASE buf \notin SaysE6
      <4>1. m \in [armed : {armed}, ok : BOOLEAN]
        BY <2>1, <3>2 DEF ProcessJson
      <4> QED
        BY <4>1
    <3> QED
      BY <3>1, <3>2
  <2> QED
    BY <1>0, <1>5, <2>1, <2>2 DEF ProcessE6, mainVars, peerVars
<1> QED
  BY <1>1, <1>2, <1>3, <1>4, <1>5 DEF ReceiverStep

LEMMA PeerTyped ==
    ASSUME SimInv, NEW s \in Sims, PeerStep(s)
    PROVE  SimInv'
<1> USE DEF SimInv, SimType, TodoInv
<1>1. CASE PeerCloses(s)
  BY <1>1 DEF PeerCloses, mainVars, threadVars
<1>2. ASSUME NEW text \in Says(s), PeerSays(s, text) PROVE SimInv'
  <2>1. inbox' = [inbox EXCEPT ![s] = Append(inbox[s], text)]
    BY <1>2 DEF PeerSays
  <2>2. Append(inbox[s], text) \in Seq(Says(s) \cup {"garbled"})
    BY <1>2
  <2>3. Append(inbox[s], text) \in Seq(Texts)
    BY <2>2, SayTexts
  <2>4. inbox' \in [Sims -> Seq(Texts)]
    BY <2>1, <2>3
  <2>5. \A u \in Sims : inbox'[u] \in Seq(Says(u) \cup {"garbled"})
    BY <2>1, <2>2
  <2>6. talked' \in [Sims -> Nat] /\ \A u \in Sims : talked'[u] <= Talk(u)
    BY <1>2 DEF PeerSays, Talk
  <2>7. text = "arm" => s = "e6"
    BY <1>2, SimsAre DEF Says, SaysGSPro
  <2>8. arms' \in Nat /\ arms' <= talked'["e6"]
    BY <1>2, <2>7, SimsAre DEF PeerSays
  <2>9. ClubOf(text) \in {"driver", "putter"}
    BY DEF ClubOf
  <2>10. asked' \in Seq({"driver", "putter"})
    BY <1>2, <2>9 DEF PeerSays
  <2> QED
    BY <1>2, <2>4, <2>5, <2>6, <2>8, <2>10 DEF PeerSays, mainVars, threadVars
<1> QED
  BY <1>1, <1>2 DEF PeerStep

LEMMA SimStep == SimInv /\ [Next]_vars => SimInv'
<1> SUFFICES ASSUME SimInv, [Next]_vars PROVE SimInv'
  OBVIOUS
<1>1. CASE MainStep
  <2>1. SimType'
    BY <1>1, MainKeepsPeers, MainStepTyped DEF SimInv, SimType
  <2> QED
    BY <1>1, <2>1, MainStepTyped DEF SimInv
<1>2. ASSUME NEW s \in Sims, ReceiverStep(s) PROVE SimInv'
  BY <1>2, ReceiverTyped
<1>3. ASSUME NEW s \in Sims, PeerStep(s) PROVE SimInv'
  BY <1>3, PeerTyped
<1>4. CASE TellToStop
  BY <1>4 DEF TellToStop, SimInv, SimType, TodoInv, mainVars, threadVars, peerVars
<1>5. CASE UNCHANGED vars
  BY <1>5 DEF vars, SimInv, SimType, TodoInv, mainVars, threadVars, peerVars
<1> QED
  BY <1>1, <1>2, <1>3, <1>4, <1>5 DEF Next

\* Every variable keeps its type; in particular nothing but what GSPro says, or
\* a part of it, is ever in GSPro's inbox, and no visit finds the list of the
\* interfaces empty.
THEOREM SimTypeCorrect == Spec => []TypeOK
<1>1. ASSUME SimInv PROVE TypeOK
  <2> USE <1>1 DEF SimInv, SimType
  <2>1. todo \in {SubSeq(SimList, i, 2) : i \in 1..3}
    <3>1. todo = SubSeq(SimList, 1, 2) \/ todo = SubSeq(SimList, 2, 2) \/ todo = SubSeq(SimList, 3, 2)
      BY TodoAre DEF Todos
    <3>2. 1 \in 1..3 /\ 2 \in 1..3 /\ 3 \in 1..3
      OBVIOUS
    <3> QED
      BY <3>1, <3>2
  <2>2. ASSUME NEW s \in Sims
        PROVE  /\ \A i \in 1..Len(inbox[s]) : inbox[s][i] \in Says(s) \cup {"garbled"}
               /\ talked[s] \in 0..Talk(s)
    <3>1. inbox[s] \in Seq(Says(s) \cup {"garbled"})
      BY <2>2
    <3>2. talked[s] \in Nat /\ talked[s] <= Talk(s) /\ Talk(s) \in Nat
      BY <2>2 DEF Talk
    <3> QED
      BY <3>1, <3>2
  <2>3. arms \in 0..E6Talk
    BY SimsAre DEF Talk
  <2> QED
    BY <2>1, <2>2, <2>3 DEF TypeOK, Threads, Messages
<1> QED
  BY SimInit, SimStep, <1>1, PTL DEF Spec

-----------------------------------------------------------------------------
(* A shot reaches E6 whole.                                                 *)

\* LastBefore of any sequence of messages.
Marks(s, i, kind) == {j \in 1..(i - 1) : s[j].kind = kind}
LastOf(s, js) == IF js = {} THEN 0 ELSE s[CHOOSE j \in js : \A k \in js : k <= j].shot
Latest(s, i, kind) == LastOf(s, Marks(s, i, kind))

LEMMA LastExists ==
    ASSUME NEW n \in Nat, NEW J, J \subseteq 1..n, J # {}
    PROVE  \E j \in J : \A k \in J : k <= j
<1> DEFINE R == OpToRel(<, Nat)
           T == {x \in Nat : n - x \in J}
<1>1. \A x, y \in Nat : <<x, y>> \in R <=> x < y
  BY DEF OpToRel
<1>2. IsWellFoundedOn(R, Nat)
  BY NatLessThanWellFounded
<1>3. \A j \in J : n - j \in T
  OBVIOUS
<1>4. T \subseteq Nat /\ T # {}
  BY <1>3
<1> HIDE DEF R
<1>5. PICK x \in T : \A y \in T : ~(<<y, x>> \in R)
  BY <1>2, <1>4, WFMin
<1>6. \A k \in J : ~(n - k < x)
  BY <1>1, <1>3, <1>4, <1>5
<1>7. \A k \in J : k <= n - x
  BY <1>4, <1>6
<1> QED
  BY <1>7

LEMMA LastBeforeIsLast ==
    \A i, kind : LastBefore(i, kind) = Latest(sent, i, kind)
BY DEF LastBefore, Latest, LastOf, Marks

\* One more message changes nothing before it; after it, it is the last one of
\* its kind, and the last ones of the other kinds are those of before.
LEMMA LastOfAppend ==
    ASSUME NEW S, NEW s \in Seq(S), NEW m, NEW kind
    PROVE  /\ \A i \in 1..(Len(s) + 1) : Latest(Append(s, m), i, kind) = Latest(s, i, kind)
           /\ Latest(Append(s, m), Len(s) + 2, kind) =
                 IF m.kind = kind THEN m.shot ELSE Latest(s, Len(s) + 1, kind)
<1> DEFINE a == Append(s, m)
           n == Len(s)
<1>1. n \in Nat /\ a[n + 1] = m /\ \A j \in 1..n : a[j] = s[j]
  OBVIOUS
<1> HIDE DEF a, n
<1>2. ASSUME NEW i \in 1..(n + 1) PROVE Latest(a, i, kind) = Latest(s, i, kind)
  <2>1. Marks(a, i, kind) = Marks(s, i, kind)
    BY <1>1 DEF Marks
  <2> DEFINE js == Marks(s, i, kind)
             top == CHOOSE j \in js : \A k \in js : k <= j
  <2>2. CASE js = {}
    BY <2>1, <2>2 DEF Latest, LastOf
  <2>3. CASE js # {}
    <3>1. js \subseteq 1..n
      BY <1>1 DEF Marks
    <3>2. \E j \in js : \A k \in js : k <= j
      BY <1>1, <2>3, <3>1, LastExists
    <3>3. top \in js
      BY <3>2
    <3>4. top \in 1..n
      BY <1>1, <3>3 DEF Marks
    <3> QED
      BY <1>1, <2>1, <2>3, <3>4 DEF Latest, LastOf
  <2> QED
    BY <2>2, <2>3
<1>3. CASE m.kind = kind
  <2> DEFINE js == Marks(a, n + 2, kind)
  <2>1. n + 1 \in js /\ \A k \in js : k \in Int /\ k <= n + 1
    BY <1>1, <1>3 DEF Marks
  <2> DEFINE top == CHOOSE j \in js : \A k \in js : k <= j
  <2>2. top \in js /\ \A k \in js : k <= top
    BY <2>1
  <2>3. top = n + 1
    BY <1>1, <2>1, <2>2
  <2>4. js # {}
    BY <2>1
  <2>5. Latest(a, n + 2, kind) = a[top].shot
    BY <2>4 DEF Latest, LastOf
  <2>6. Latest(a, n + 2, kind) = m.shot
    BY <1>1, <2>3, <2>5
  <2> QED
    BY <1>2, <1>3, <2>6 DEF a, n
<1>4. CASE m.kind # kind
  <2>1. Marks(a, n + 2, kind) = Marks(a, n + 1, kind)
    BY <1>1, <1>4 DEF Marks
  <2>2. Latest(a, n + 2, kind) = Latest(a, n + 1, kind)
    BY <2>1 DEF Latest
  <2>3. n + 1 \in 1..(n + 1)
    BY <1>1
  <2>4. Latest(a, n + 2, kind) = Latest(s, n + 1, kind)
    BY <1>2, <2>2, <2>3
  <2> QED
    BY <1>2, <1>4, <2>4 DEF a, n
<1> QED
  BY <1>3, <1>4

\* What the shot counter and the position of the FSM thread say about the last
\* messages: the shot in progress is newer than every shot played, and what of
\* it has been sent to an E6 that is still there is the latest of its kind.
WholeInv ==
    /\ E6GetsWholeShots
    /\ LastBefore(Len(sent) + 1, "SendShot") \in 0..shotCounter
    /\ at \in {"send", "ball", "club", "shot"} =>
          LastBefore(Len(sent) + 1, "SendShot") < shotCounter
    /\ at \in {"club", "shot"} /\ open["e6"] =>
          LastBefore(Len(sent) + 1, "SetBallData") = shotCounter
    /\ at = "shot" /\ open["e6"] =>
          LastBefore(Len(sent) + 1, "SetClubData") = shotCounter

LEMMA WholeInit == Init => WholeInv
<1> SUFFICES ASSUME Init PROVE WholeInv
  OBVIOUS
<1>1. Len(sent) = 0 /\ DOMAIN sent = {} /\ shotCounter = 0 /\ at = "connect"
  BY DEF Init
<1>2. LastBefore(Len(sent) + 1, "SendShot") = 0
  <2>1. Marks(sent, Len(sent) + 1, "SendShot") = {}
    BY <1>1 DEF Marks
  <2> QED
    BY <2>1, LastBeforeIsLast DEF Latest, LastOf
<1> QED
  BY <1>1, <1>2 DEF WholeInv, E6GetsWholeShots

\* A step that sends E6 nothing, and enters no step of E6's shot.
LEMMA WholeFrame ==
    ASSUME SimInv, WholeInv, UNCHANGED sent,
           /\ at' \in {"ball", "club", "shot"} => at' = at \/ (at = "send" /\ at' = "ball")
           /\ at' = "send" => at = "send" \/ shotCounter' > shotCounter
           /\ shotCounter' \in Nat /\ shotCounter' >= shotCounter
           /\ at' \in {"club", "shot"} =>
                 shotCounter' = shotCounter /\ (open'["e6"] => open["e6"])
    PROVE  WholeInv'
<1>1. \A i, kind : LastBefore(i, kind)' = LastBefore(i, kind)
  BY DEF LastBefore
<1>2. E6GetsWholeShots'
  BY <1>1 DEF E6GetsWholeShots, WholeInv
<1>3. \A kind : LastBefore(Len(sent) + 1, kind)' = LastBefore(Len(sent) + 1, kind)
  BY <1>1
<1> DEFINE last == LastBefore(Len(sent) + 1, "SendShot")
<1>4. last' = last
  BY <1>3
<1>5. shotCounter \in Nat /\ last \in 0..shotCounter
  BY DEF SimInv, SimType, WholeInv
<1>6. last' \in 0..shotCounter'
  BY <1>4, <1>5
<1>7. at' \in {"send", "ball", "club", "shot"} => last' < shotCounter'
  <2>1. at \in {"send", "ball", "club", "shot"} => last < shotCounter
    BY DEF WholeInv
  <2> HIDE DEF last
  <2> QED
    BY <1>4, <1>5, <2>1
<1>8. /\ at' \in {"club", "shot"} /\ open'["e6"] =>
             LastBefore(Len(sent) + 1, "SetBallData")' = shotCounter'
      /\ at' = "shot" /\ open'["e6"] =>
             LastBefore(Len(sent) + 1, "SetClubData")' = shotCounter'
  BY <1>3 DEF WholeInv
<1> QED
  BY <1>2, <1>6, <1>7, <1>8 DEF WholeInv

\* A step that sends E6 one more message of the shot in progress.
LEMMA WholeSend ==
    ASSUME SimInv, WholeInv, NEW kind \in Kinds,
           sent' = Append(sent, Msg(kind, shotCounter)), UNCHANGED <<open, shotCounter>>,
           open["e6"],
           \/ at = "ball" /\ kind = "SetBallData" /\ at' \in {"club", "idle", "send"}
           \/ at = "club" /\ kind = "SetClubData" /\ at' \in {"shot", "idle", "send"}
           \/ at = "shot" /\ kind = "SendShot" /\ at' = "disarm"
    PROVE  WholeInv'
<1> DEFINE n == Len(sent) + 1
           m == Msg(kind, shotCounter)
<1>1. /\ sent \in Seq(Messages) /\ shotCounter \in Nat
      /\ m.kind = kind /\ m.shot = shotCounter /\ m \in Messages
  BY DEF SimInv, SimType, Msg, Messages
<1>2. /\ n \in Nat /\ Len(sent') = n /\ DOMAIN sent' = 1..n /\ DOMAIN sent = 1..(n - 1)
      /\ sent'[n] = m /\ \A i \in 1..(n - 1) : sent'[i] = sent[i]
  BY <1>1
<1>3. ASSUME NEW k
      PROVE  /\ \A i \in 1..n : LastBefore(i, k)' = LastBefore(i, k)
             /\ Latest(sent', n + 1, k) =
                   IF kind = k THEN shotCounter ELSE LastBefore(n, k)
  <2>1. \A i : LastBefore(i, k)' = Latest(sent', i, k)
    BY DEF LastBefore, Latest, LastOf, Marks
  <2>2. /\ \A i \in 1..(Len(sent) + 1) : Latest(sent', i, k) = Latest(sent, i, k)
        /\ Latest(sent', Len(sent) + 2, k) =
              IF kind = k THEN shotCounter ELSE Latest(sent, Len(sent) + 1, k)
    BY <1>1, LastOfAppend
  <2>3. n + 1 = Len(sent) + 2
    BY <1>1
  <2> QED
    BY <2>1, <2>2, <2>3, LastBeforeIsLast
<1>4. \A k : LastBefore(Len(sent) + 1, k)' = Latest(sent', n + 1, k)
  BY <1>2 DEF LastBefore, Latest, LastOf, Marks
<1>5. /\ LastBefore(n, "SendShot") \in 0..shotCounter
      /\ at \in {"ball", "club", "shot"} => LastBefore(n, "SendShot") < shotCounter
      /\ at \in {"club", "shot"} => LastBefore(n, "SetBallData") = shotCounter
      /\ at = "shot" => LastBefore(n, "SetClubData") = shotCounter
  BY DEF WholeInv
<1>6. ASSUME NEW i \in DOMAIN sent', sent'[i].kind = "SendShot"
      PROVE  /\ LastBefore(i, "SetBallData")' = sent'[i].shot
             /\ LastBefore(i, "SetClubData")' = sent'[i].shot
             /\ LastBefore(i, "SendShot")' < sent'[i].shot
  <2>1. i \in 1..n
    BY <1>2
  <2>2. \A k : LastBefore(i, k)' = LastBefore(i, k)
    BY <1>3, <2>1
  <2>3. CASE i = n
    BY <1>1, <1>2, <1>5, <1>6, <2>2, <2>3
  <2>4. CASE i # n
    <3>1. i \in DOMAIN sent /\ sent'[i] = sent[i]
      BY <1>2, <2>1, <2>4
    <3> QED
      BY <1>6, <2>2, <3>1 DEF WholeInv, E6GetsWholeShots
  <2> QED
    BY <2>3, <2>4
<1>7. E6GetsWholeShots'
  BY <1>6 DEF E6GetsWholeShots
<1> HIDE DEF n, m
<1>8. LastBefore(Len(sent) + 1, "SendShot")' =
         IF kind = "SendShot" THEN shotCounter ELSE LastBefore(n, "SendShot")
  BY <1>3, <1>4
<1>9. LastBefore(Len(sent) + 1, "SetBallData")' =
         IF kind = "SetBallData" THEN shotCounter ELSE LastBefore(n, "SetBallData")
  BY <1>3, <1>4
<1>10. LastBefore(Len(sent) + 1, "SetClubData")' =
         IF kind = "SetClubData" THEN shotCounter ELSE LastBefore(n, "SetClubData")
  BY <1>3, <1>4
<1> QED
  BY <1>1, <1>5, <1>7, <1>8, <1>9, <1>10 DEF WholeInv

LEMMA WholeE6Step ==
    ASSUME SimInv, WholeInv, SimInv', NEW from, NEW kind \in Kinds, NEW to,
           \/ from = "ball" /\ kind = "SetBallData" /\ to = "club"
           \/ from = "club" /\ kind = "SetClubData" /\ to = "shot"
           \/ from = "shot" /\ kind = "SendShot" /\ to = "disarm",
           E6Step(from, kind, to)
    PROVE  WholeInv'
<1>1. at = from /\ UNCHANGED <<shotCounter, open>> /\ shotCounter \in Nat
  BY DEF E6Step, peerVars, SimInv, SimType
<1>2. PICK ok \in BOOLEAN : /\ open["e6"] => ok
                            /\ sent' = IF open["e6"] THEN Append(sent, Msg(kind, shotCounter)) ELSE sent
                            /\ IF ok THEN at' = to ELSE at' \in {"idle", "send"}
  BY DEF E6Step, SendSimMessage, WriteSome, NextSim
<1>3. CASE open["e6"]
  BY <1>1, <1>2, <1>3, WholeSend
<1>4. CASE ~open["e6"]
  <2>1. UNCHANGED sent
    BY <1>2, <1>4
  <2>2. at' # "send"
    <3>1. todo = <<"e6">>
      BY <1>1 DEF SimInv, TodoInv
    <3> QED
      BY <1>1, <1>2, <3>1, TodoShapes DEF E6Step, NextSim
  <2>3. LastBefore(Len(sent) + 1, "SendShot")' = LastBefore(Len(sent) + 1, "SendShot")
    BY <2>1 DEF LastBefore
  <2>4. E6GetsWholeShots'
    <3>1. \A i, k : LastBefore(i, k)' = LastBefore(i, k)
      BY <2>1 DEF LastBefore
    <3> QED
      BY <2>1, <3>1 DEF WholeInv, E6GetsWholeShots
  <2> QED
    BY <1>1, <1>2, <1>4, <2>2, <2>3, <2>4 DEF WholeInv
<1> QED
  BY <1>3, <1>4

LEMMA WholeStep == SimInv /\ SimInv' /\ WholeInv /\ [Next]_vars => WholeInv'
<1> SUFFICES ASSUME SimInv, SimInv', WholeInv, [Next]_vars PROVE WholeInv'
  OBVIOUS
<1>0. shotCounter \in Nat
  BY DEF SimInv, SimType
<1>1. CASE SendBallData
  BY <1>1, WholeE6Step DEF SendBallData, Kinds
<1>2. CASE SendClubData
  BY <1>2, WholeE6Step DEF SendClubData, Kinds
<1>3. CASE SendShot
  BY <1>3, WholeE6Step DEF SendShot, Kinds
<1>4. CASE IncrementShotCounter
  BY <1>0, <1>4, WholeFrame DEF IncrementShotCounter
<1>5. CASE SendResults
  BY <1>0, <1>5, WholeFrame DEF SendResults, NextSim, DeInitialize, peerVars
<1>6. CASE Connect \/ Greet \/ WaitForArmed \/ Disarm \/ Stop \/ DeInitializeSims
  BY <1>0, <1>6, WholeFrame
     DEF Connect, Greet, WaitForArmed, Disarm, Stop, DeInitializeSims, DeInitialize, peerVars
<1>a. ASSUME UNCHANGED <<at, sent, shotCounter>>, open'["e6"] => open["e6"] PROVE WholeInv'
  <2>1. at' = at /\ sent' = sent /\ shotCounter' = shotCounter
    BY <1>a
  <2>2. shotCounter' \in Nat /\ shotCounter' >= shotCounter
    BY <1>0, <2>1
  <2>3. at' = "send" => at = "send" \/ shotCounter' > shotCounter
    BY <2>1
  <2>4. at' \in {"ball", "club", "shot"} => at' = at \/ (at = "send" /\ at' = "ball")
    BY <2>1
  <2>5. at' \in {"club", "shot"} =>
           shotCounter' = shotCounter /\ (open'["e6"] => open["e6"])
    BY <1>a, <2>1
  <2> QED
    BY <2>1, <2>2, <2>3, <2>4, <2>5, WholeFrame
<1>7. ASSUME NEW s \in Sims, ReceiverStep(s) PROVE WholeInv'
  <2>1. UNCHANGED <<at, sent, shotCounter, open>>
    BY <1>7 DEF ReceiverStep, ReceiverStarts, ReadSome, ReadNothing, ProcessGSPro,
                ProcessE6, mainVars, peerVars
  <2> QED
    BY <1>a, <2>1
<1>8. ASSUME NEW s \in Sims, PeerStep(s) PROVE WholeInv'
  <2>1. UNCHANGED <<at, sent, shotCounter>>
    BY <1>8 DEF PeerStep, PeerCloses, PeerSays, mainVars
  <2>2. UNCHANGED open \/ open' = [open EXCEPT ![s] = FALSE]
    BY <1>8 DEF PeerStep, PeerCloses, PeerSays
  <2>3. open'["e6"] => open["e6"]
    BY <2>2, SimsAre DEF SimInv, SimType
  <2> QED
    BY <1>a, <2>1, <2>3
<1>9. CASE TellToStop \/ UNCHANGED vars
  <2>1. UNCHANGED <<at, sent, shotCounter, open>>
    BY <1>9 DEF TellToStop, vars, mainVars, peerVars
  <2> QED
    BY <1>a, <2>1
<1> QED
  BY <1>1, <1>2, <1>3, <1>4, <1>5, <1>6, <1>7, <1>8, <1>9 DEF Next, MainStep

\* E6 plays every shot on the ball and club data of that very shot, and no shot
\* twice, whatever the simulators say or close in between and however long the
\* session is.
THEOREM ShotsReachE6Whole == Spec => []E6GetsWholeShots
<1>1. WholeInv => E6GetsWholeShots
  BY DEF WholeInv
<1> QED
  BY SimInit, SimStep, WholeInit, WholeStep, <1>1, PTL DEF Spec

-----------------------------------------------------------------------------
(* E6 gets no more shots than it armed for.                                 *)

\* Where the shots are among the messages sent, and the armings in an inbox.
Shots(s) == {i \in DOMAIN s : s[i].kind = "SendShot"}
Armings(q) == {i \in DOMAIN q : q[i] = "arm"}

LEMMA CountsAreFinite ==
    ASSUME NEW S, NEW q \in Seq(S)
    PROVE  /\ IsFiniteSet(Shots(q)) /\ Cardinality(Shots(q)) \in Nat
           /\ IsFiniteSet(Armings(q)) /\ Cardinality(Armings(q)) \in Nat
<1>1. DOMAIN q = 1..Len(q) /\ 1 \in Int /\ Len(q) \in Int
  OBVIOUS
<1>2. IsFiniteSet(DOMAIN q)
  BY <1>1, FS_Interval
<1>3. Shots(q) \in SUBSET DOMAIN q /\ Armings(q) \in SUBSET DOMAIN q
  BY DEF Shots, Armings
<1>4. IsFiniteSet(Shots(q)) /\ IsFiniteSet(Armings(q))
  BY <1>2, <1>3, FS_Subset
<1> QED
  BY <1>4, FS_CardinalityType

LEMMA CountAppend ==
    ASSUME NEW S, NEW q \in Seq(S), NEW m \in S
    PROVE  /\ Cardinality(Shots(Append(q, m))) =
                 Cardinality(Shots(q)) + (IF m.kind = "SendShot" THEN 1 ELSE 0)
           /\ Cardinality(Armings(Append(q, m))) =
                 Cardinality(Armings(q)) + (IF m = "arm" THEN 1 ELSE 0)
<1> DEFINE a == Append(q, m)
           n == Len(q)
<1>1. /\ n \in Nat /\ DOMAIN q = 1..n /\ DOMAIN a = 1..(n + 1)
      /\ a[n + 1] = m /\ \A i \in 1..n : a[i] = q[i]
  OBVIOUS
<1>2. n + 1 \notin Shots(q) /\ n + 1 \notin Armings(q)
  BY <1>1 DEF Shots, Armings
<1> HIDE DEF a, n
<1>3. Shots(a) = IF m.kind = "SendShot" THEN Shots(q) \cup {n + 1} ELSE Shots(q)
  <2>1. CASE m.kind = "SendShot"
    BY <1>1, <2>1 DEF Shots
  <2>2. CASE m.kind # "SendShot"
    BY <1>1, <2>2 DEF Shots
  <2> QED
    BY <2>1, <2>2
<1>4. Armings(a) = IF m = "arm" THEN Armings(q) \cup {n + 1} ELSE Armings(q)
  <2>1. CASE m = "arm"
    BY <1>1, <2>1 DEF Armings
  <2>2. CASE m # "arm"
    BY <1>1, <2>2 DEF Armings
  <2> QED
    BY <2>1, <2>2
<1>5. IsFiniteSet(Shots(q)) /\ IsFiniteSet(Armings(q))
  BY CountsAreFinite
<1>6. /\ Cardinality(Shots(q) \cup {n + 1}) = Cardinality(Shots(q)) + 1
      /\ Cardinality(Armings(q) \cup {n + 1}) = Cardinality(Armings(q)) + 1
  BY <1>2, <1>5, FS_AddElement
<1>7. Cardinality(Shots(q)) \in Nat /\ Cardinality(Armings(q)) \in Nat
  BY CountsAreFinite
<1> QED
  BY <1>3, <1>4, <1>6, <1>7 DEF a

\* Reading takes what it reads out of the inbox: the first message is counted
\* once, and reading several loses the armings among them.
LEMMA CountRead ==
    ASSUME NEW S, "garbled" \in S, NEW q \in Seq(S), q # <<>>
    PROVE  /\ \A n \in 1..Len(q) :
                 Cardinality(Armings(SubSeq(q, n + 1, Len(q))))
                    + (IF q[1] = "arm" THEN 1 ELSE 0) <= Cardinality(Armings(q))
           /\ Cardinality(Armings([q EXCEPT ![1] = "garbled"])) <= Cardinality(Armings(q))
<1>0. IsFiniteSet(Armings(q)) /\ Cardinality(Armings(q)) \in Nat
  BY CountsAreFinite
<1>1. ASSUME NEW n \in 1..Len(q)
      PROVE  Cardinality(Armings(SubSeq(q, n + 1, Len(q))))
                + (IF q[1] = "arm" THEN 1 ELSE 0) <= Cardinality(Armings(q))
  <2> DEFINE r == SubSeq(q, n + 1, Len(q))
  <2>1. /\ r \in Seq(S) /\ Len(r) = Len(q) - n
        /\ \A i \in 1..(Len(q) - n) : r[i] = q[n + i]
    BY ReadTyped
  <2>2. Cardinality(Armings(r)) \in Nat
    BY <2>1, CountsAreFinite
  <2> HIDE DEF r
  <2> DEFINE rest == Armings(q) \ {1}
             f == [i \in Armings(r) |-> n + i]
  <2>3. IsFiniteSet(rest)
        /\ Cardinality(rest) = IF 1 \in Armings(q) THEN Cardinality(Armings(q)) - 1
                               ELSE Cardinality(Armings(q))
    BY <1>0, FS_RemoveElement
  <2>4. ASSUME NEW i \in Armings(r) PROVE n + i \in rest
    <3>1. i \in 1..(Len(q) - n) /\ r[i] = "arm"
      BY <2>1, <2>4 DEF Armings
    <3>2. n + i \in 1..Len(q) /\ q[n + i] = "arm" /\ n + i # 1
      BY <2>1, <3>1
    <3> QED
      BY <3>2 DEF Armings
  <2>5. \A i \in Armings(r) : i \in Int
    BY <2>1 DEF Armings
  <2> HIDE DEF rest
  <2>6. f \in [Armings(r) -> rest]
    BY <2>4
  <2>7. \A i, j \in Armings(r) : f[i] = f[j] => i = j
    BY <2>5
  <2> HIDE DEF f
  <2>8. f \in Injection(Armings(r), rest)
    BY <2>6, <2>7 DEF Injection, IsInjective
  <2>9. Cardinality(Armings(r)) <= Cardinality(rest)
    BY <2>3, <2>8, FS_Injection
  <2>10. q[1] = "arm" => 1 \in Armings(q)
    BY DEF Armings
  <2>11. Cardinality(Armings(r)) + (IF q[1] = "arm" THEN 1 ELSE 0) <= Cardinality(Armings(q))
    BY <1>0, <2>2, <2>3, <2>9, <2>10
  <2> QED
    BY <2>11 DEF r
<1>2. Armings([q EXCEPT ![1] = "garbled"]) \in SUBSET Armings(q)
  BY DEF Armings
<1>3. Cardinality(Armings([q EXCEPT ![1] = "garbled"])) <= Cardinality(Armings(q))
  BY <1>0, <1>2, FS_Subset
<1> QED
  BY <1>1, <1>3

\* Every arming of E6 is in its inbox, in the hands of its receive thread,
\* pending as sim_system_is_armed_ or as the shot being sent, used up by a shot,
\* or lost.  At "disarm" the shot is out, and the arming that is still set will
\* be cleared and counts for nothing.
InHand == IF thread["e6"] = "processing" /\ buf = "arm" THEN 1 ELSE 0
Pending == IF at \in {"ball", "club", "shot"} \/ (armed /\ at # "disarm") THEN 1 ELSE 0
ArmInv ==
    Cardinality(Shots(sent)) + Cardinality(Armings(inbox["e6"])) + InHand + Pending <= arms

LEMMA ArmInit == Init => ArmInv
<1> SUFFICES ASSUME Init PROVE ArmInv
  OBVIOUS
<1>1. sent = <<>> /\ inbox["e6"] = <<>> /\ arms = 0 /\ InHand = 0 /\ Pending = 0
  BY SimsAre DEF Init, InHand, Pending
<1>2. Shots(sent) = {} /\ Armings(inbox["e6"]) = {}
  BY <1>1 DEF Shots, Armings
<1>3. Cardinality(Shots(sent)) = 0 /\ Cardinality(Armings(inbox["e6"])) = 0
  BY <1>2, FS_EmptySet
<1> QED
  BY <1>1, <1>3 DEF ArmInv

LEMMA ArmCounts ==
    ASSUME SimInv
    PROVE  /\ Cardinality(Shots(sent)) \in Nat /\ Cardinality(Armings(inbox["e6"])) \in Nat
           /\ InHand \in {0, 1} /\ Pending \in {0, 1} /\ arms \in Nat
<1>1. sent \in Seq(Messages) /\ inbox["e6"] \in Seq(Texts)
  BY SimsAre DEF SimInv, SimType
<1> QED
  BY <1>1, CountsAreFinite DEF InHand, Pending, SimInv, SimType

\* The steps of the FSM thread that send E6 nothing.
LEMMA ArmVisits ==
    ASSUME SimInv, SimInv', ArmInv, MainStep, ~SendBallData, ~SendClubData, ~SendShot
    PROVE  ArmInv'
<1>1. UNCHANGED <<inbox, arms, buf, sent>>
  <2>1. UNCHANGED sent
    BY DEF MainStep, Connect, Greet, WaitForArmed, IncrementShotCounter, SendResults, Disarm,
           Stop, DeInitializeSims
  <2> QED
    BY <2>1, MainKeepsPeers
<1>2. InHand' <= InHand
  <2>1. thread' = thread \/ \E s \in Sims : thread' = [thread EXCEPT ![s] = "starting"]
    <3>1. CASE Connect
      <4>1. sim \in Sims
        BY <3>1, NextTodo DEF Connect, SimInv, SimType, TodoInv
      <4> QED
        BY <3>1, <4>1 DEF Connect
    <3>2. CASE ~Connect
      BY <3>2 DEF MainStep, Greet, WaitForArmed, IncrementShotCounter, SendResults, Disarm,
           Stop, DeInitializeSims, threadVars
    <3> QED
      BY <3>1, <3>2
  <2>2. thread'["e6"] = "processing" => thread["e6"] = "processing"
    BY <2>1, SimsAre DEF SimInv, SimType
  <2> QED
    BY <1>1, <2>2 DEF InHand
<1>3. Pending' <= Pending
  <2>1. CASE SendResults
    <3>1. at = "send" /\ armed' = armed /\ (at' \in {"ball", "club", "shot"} => armed)
      BY <2>1 DEF SendResults, NextSim, DeInitialize
    <3> QED
      BY <3>1 DEF Pending
  <2>2. CASE Disarm
    BY <2>2 DEF Disarm, Pending
  <2>3. CASE ~SendResults /\ ~Disarm
    <3>1. armed' = armed /\ at # "disarm" /\ at' \notin {"ball", "club", "shot"}
      BY <2>3 DEF MainStep, Connect, Greet, WaitForArmed, IncrementShotCounter,
           Stop, DeInitializeSims, DeInitialize
    <3> QED
      BY <3>1 DEF Pending
  <2> QED
    BY <2>1, <2>2, <2>3
<1>4. InHand' \in Int /\ Pending' \in Int
  BY DEF InHand, Pending
<1> QED
  BY <1>1, <1>2, <1>3, <1>4, ArmCounts DEF ArmInv

\* The three messages of a shot: the last one uses the arming up.
LEMMA ArmSends ==
    ASSUME SimInv, SimInv', ArmInv, NEW from, NEW kind \in Kinds, NEW to,
           \/ from = "ball" /\ kind = "SetBallData" /\ to = "club"
           \/ from = "club" /\ kind = "SetClubData" /\ to = "shot"
           \/ from = "shot" /\ kind = "SendShot" /\ to = "disarm",
           E6Step(from, kind, to)
    PROVE  ArmInv'
<1> DEFINE m == Msg(kind, shotCounter)
<1>1. at = from /\ UNCHANGED <<inbox, arms, buf, thread>>
  BY DEF E6Step, peerVars, threadVars
<1>2. InHand' = InHand /\ Cardinality(Armings(inbox["e6"]))' = Cardinality(Armings(inbox["e6"]))
  BY <1>1 DEF InHand
<1>3. Pending = 1
  BY <1>1 DEF Pending
<1>4. m \in Messages /\ m.kind = kind /\ sent \in Seq(Messages)
  BY DEF Msg, Messages, SimInv, SimType
<1> HIDE DEF m
<1>5. PICK ok \in BOOLEAN : /\ open["e6"] => ok
                            /\ sent' = IF open["e6"] THEN Append(sent, m) ELSE sent
                            /\ IF ok THEN at' = to ELSE at' \in {"idle", "send"}
  BY DEF E6Step, SendSimMessage, WriteSome, NextSim, m
<1>6. Cardinality(Shots(sent)') =
         Cardinality(Shots(sent)) + (IF open["e6"] /\ kind = "SendShot" THEN 1 ELSE 0)
  <2>1. CASE open["e6"]
    BY <1>4, <1>5, <2>1, CountAppend
  <2>2. CASE ~open["e6"]
    BY <1>5, <2>2, ArmCounts
  <2> QED
    BY <2>1, <2>2
<1>7. Pending' \in {0, 1} /\ (open["e6"] /\ kind = "SendShot" => Pending' = 0)
  BY <1>5 DEF Pending
<1> QED
  BY <1>1, <1>2, <1>3, <1>6, <1>7, ArmCounts DEF ArmInv

LEMMA ArmReads ==
    ASSUME SimInv, SimInv', ArmInv, NEW s \in Sims, ReadSome(s)
    PROVE  ArmInv'
<1> DEFINE S == Says("e6") \cup {"garbled"}
           q == inbox["e6"]
<1>1. UNCHANGED <<at, armed, sent, arms>> /\ thread' = [thread EXCEPT ![s] = "processing"]
  BY DEF ReadSome, mainVars, peerVars
<1>2. Pending' = Pending
  BY <1>1 DEF Pending
<1>c. Cardinality(Armings(inbox'["e6"])) \in Nat
  <2>1. inbox'["e6"] \in Seq(Texts)
    BY SimsAre DEF SimInv, SimType
  <2> QED
    BY <2>1, CountsAreFinite
<1>3. CASE s = "e6"
  <2>1. thread["e6"] = "reading" /\ q # <<>> /\ q \in Seq(S) /\ "garbled" \in S
    BY <1>3, SimsAre DEF ReadSome, SimInv, SimType
  <2>2. InHand = 0
    BY <2>1 DEF InHand
  <2>3. inbox \in [Sims -> Seq(Texts)] /\ "e6" \in Sims
    BY SimsAre DEF SimInv, SimType
  <2>4. Cardinality(Armings(inbox'["e6"])) + InHand' <= Cardinality(Armings(q))
    <3>1. ASSUME NEW n \in 1..Len(q),
                 buf' = IF n = 1 THEN Head(q) ELSE "garbled",
                 inbox' = [inbox EXCEPT !["e6"] = SubSeq(q, n + 1, Len(q))]
          PROVE  Cardinality(Armings(inbox'["e6"])) + InHand' <= Cardinality(Armings(q))
      <4>1. inbox'["e6"] = SubSeq(q, n + 1, Len(q))
        BY <2>3, <3>1
      <4>2. Cardinality(Armings(inbox'["e6"])) + (IF q[1] = "arm" THEN 1 ELSE 0)
               <= Cardinality(Armings(q))
        BY <2>1, <4>1, CountRead
      <4>3. Head(q) = q[1]
        BY <2>1
      <4>4. buf' = "arm" => q[1] = "arm"
        BY <3>1, <4>3
      <4>5. Cardinality(Armings(inbox'["e6"])) \in Nat /\ Cardinality(Armings(q)) \in Nat
        BY <1>c, ArmCounts
      <4> QED
        BY <4>2, <4>4, <4>5 DEF InHand
    <3>2. ASSUME buf' = "garbled", inbox' = [inbox EXCEPT !["e6"][1] = "garbled"]
          PROVE  Cardinality(Armings(inbox'["e6"])) + InHand' <= Cardinality(Armings(q))
      <4>1. inbox'["e6"] = [q EXCEPT ![1] = "garbled"]
        BY <2>3, <3>2
      <4>2. Cardinality(Armings(inbox'["e6"])) <= Cardinality(Armings(q))
        BY <2>1, <4>1, CountRead
      <4>3. Cardinality(Armings(inbox'["e6"])) \in Nat /\ Cardinality(Armings(q)) \in Nat
        BY <1>c, ArmCounts
      <4> QED
        BY <3>2, <4>2, <4>3 DEF InHand
    <3> QED
      BY <1>3, <3>1, <3>2 DEF ReadSome
  <2>5. InHand' \in {0, 1}
    BY DEF InHand
  <2>6. Cardinality(Armings(inbox'["e6"])) \in Nat
    BY <1>c
  <2> QED
    BY <1>1, <1>2, <2>2, <2>4, <2>5, <2>6, ArmCounts DEF ArmInv
<1>4. CASE s # "e6"
  <2>1. s = "gspro" /\ s \in Sims /\ "e6" \in Sims
    BY <1>4, SimsAre
  <2>2. inbox'["e6"] = inbox["e6"]
    BY <1>4, <2>1 DEF ReadSome, SimInv, SimType
  <2>3. inbox[s] \in Seq(Says("gspro") \cup {"garbled"}) /\ inbox[s] # <<>>
    BY <2>1 DEF ReadSome, SimInv, SimType
  <2>4. Head(inbox[s]) \in {"putter", "iron", "garbled"}
    BY <2>3 DEF Says, SaysGSPro
  <2>5. buf' # "arm"
    BY <2>4 DEF ReadSome
  <2>6. InHand' = 0
    BY <2>5 DEF InHand
  <2> QED
    BY <1>1, <1>2, <2>2, <2>6, ArmCounts DEF ArmInv
<1> QED
  BY <1>3, <1>4

LEMMA ArmReceives ==
    ASSUME SimInv, SimInv', ArmInv, NEW s \in Sims, ReceiverStep(s)
    PROVE  ArmInv'
<1>1. CASE ReadSome(s)
  BY <1>1, ArmReads
<1>2. CASE ReceiverStarts(s) \/ ReadNothing(s) \/ ProcessGSPro
  <2>1. UNCHANGED <<at, armed, sent, arms, inbox, buf>>
    BY <1>2 DEF ReceiverStarts, ReadNothing, ProcessGSPro, mainVars, peerVars
  <2>2. \E u \in Sims : \E to \in {"reading", "ended"} : thread' = [thread EXCEPT ![u] = to]
    BY <1>2, SimsAre DEF ReceiverStarts, ReadNothing, ProcessGSPro, LoopAgain
  <2>3. thread'["e6"] = "processing" => thread["e6"] = "processing"
    BY <2>2, SimsAre DEF SimInv, SimType
  <2>4. InHand' <= InHand /\ InHand' \in {0, 1} /\ Pending' = Pending
    BY <2>1, <2>3 DEF InHand, Pending
  <2> QED
    BY <2>1, <2>4, ArmCounts DEF ArmInv
<1>3. CASE ProcessE6
  <2>1. UNCHANGED <<at, sent, arms, inbox, buf>> /\ thread["e6"] = "processing"
    BY <1>3 DEF ProcessE6, mainVars, peerVars
  <2>2. PICK m \in ProcessJson(buf, armed), ok \in BOOLEAN :
           /\ armed' = m.armed
           /\ thread' = [thread EXCEPT !["e6"] = IF m.ok /\ ok THEN LoopAgain ELSE "ended"]
    BY <1>3 DEF ProcessE6
  <2>3. InHand' = 0
    BY <2>2, SimsAre DEF InHand, LoopAgain, SimInv, SimType
  <2>4. m.armed => armed \/ buf = "arm"
    <3>1. CASE buf \in SaysE6
      <4>1. m = [armed |-> IF buf = "ping" THEN armed ELSE buf = "arm", ok |-> TRUE]
        BY <2>2, <3>1 DEF ProcessJson
      <4>2. m.armed = IF buf = "ping" THEN armed ELSE buf = "arm"
        BY <4>1
      <4> QED
        BY <4>2
    <3>2. CASE buf \notin SaysE6
      <4>1. m \in [armed : {armed}, ok : BOOLEAN]
        BY <2>2, <3>2 DEF ProcessJson
      <4> QED
        BY <4>1
    <3> QED
      BY <3>1, <3>2
  <2>5. armed' => armed \/ buf = "arm"
    BY <2>2, <2>4
  <2>6. Pending' <= Pending + InHand /\ Pending' \in {0, 1}
    BY <2>1, <2>5 DEF Pending, InHand
  <2> QED
    BY <2>1, <2>3, <2>6, ArmCounts DEF ArmInv
<1> QED
  BY <1>1, <1>2, <1>3 DEF ReceiverStep

LEMMA ArmPeers ==
    ASSUME SimInv, SimInv', ArmInv, NEW s \in Sims, PeerStep(s)
    PROVE  ArmInv'
<1>1. UNCHANGED <<at, armed, sent, buf, thread>>
  BY DEF PeerStep, PeerSays, PeerCloses, mainVars, threadVars
<1>2. InHand' = InHand /\ Pending' = Pending
  BY <1>1 DEF InHand, Pending
<1>3. CASE PeerCloses(s)
  BY <1>1, <1>2, <1>3 DEF PeerCloses, ArmInv
<1>4. ASSUME NEW text \in Says(s), PeerSays(s, text) PROVE ArmInv'
  <2>1. inbox["e6"] \in Seq(Texts) /\ text \in Texts
    BY SimsAre, SayTexts DEF SimInv, SimType
  <2>2. inbox' = [inbox EXCEPT ![s] = Append(inbox[s], text)]
    BY <1>4 DEF PeerSays
  <2>3. CASE s = "e6"
    <3>1. inbox'["e6"] = Append(inbox["e6"], text)
      BY <2>2, <2>3, SimsAre DEF SimInv, SimType
    <3>2. Cardinality(Armings(inbox'["e6"])) =
             Cardinality(Armings(inbox["e6"])) + (IF text = "arm" THEN 1 ELSE 0)
      BY <2>1, <3>1, CountAppend
    <3>3. arms' = IF text = "arm" THEN arms + 1 ELSE arms
      BY <1>4 DEF PeerSays
    <3> QED
      BY <1>1, <1>2, <3>2, <3>3, ArmCounts DEF ArmInv
  <2>4. CASE s # "e6"
    <3>1. inbox'["e6"] = inbox["e6"]
      BY <2>2, <2>4, SimsAre DEF SimInv, SimType
    <3>2. text # "arm"
      BY <1>4, <2>4, SimsAre DEF Says, SaysGSPro
    <3>3. arms' = arms
      BY <1>4, <3>2 DEF PeerSays
    <3> QED
      BY <1>1, <1>2, <3>1, <3>3 DEF ArmInv
  <2> QED
    BY <2>3, <2>4
<1> QED
  BY <1>3, <1>4 DEF PeerStep

LEMMA ArmStep == SimInv /\ SimInv' /\ ArmInv /\ [Next]_vars => ArmInv'
<1> SUFFICES ASSUME SimInv, SimInv', ArmInv, [Next]_vars PROVE ArmInv'
  OBVIOUS
<1>1. CASE SendBallData
  BY <1>1, ArmSends DEF SendBallData, Kinds
<1>2. CASE SendClubData
  BY <1>2, ArmSends DEF SendClubData, Kinds
<1>3. CASE SendShot
  BY <1>3, ArmSends DEF SendShot, Kinds
<1>4. CASE MainStep /\ ~SendBallData /\ ~SendClubData /\ ~SendShot
  BY <1>4, ArmVisits
<1>5. ASSUME NEW s \in Sims, ReceiverStep(s) PROVE ArmInv'
  BY <1>5, ArmReceives
<1>6. ASSUME NEW s \in Sims, PeerStep(s) PROVE ArmInv'
  BY <1>6, ArmPeers
<1>7. CASE TellToStop \/ UNCHANGED vars
  <2>1. UNCHANGED <<at, armed, sent, arms, inbox, buf, thread>>
    BY <1>7 DEF TellToStop, vars, mainVars, peerVars, threadVars
  <2> QED
    BY <2>1 DEF ArmInv, InHand, Pending
<1> QED
  BY <1>1, <1>2, <1>3, <1>4, <1>5, <1>6, <1>7 DEF Next

\* E6 never gets more shots than it armed for, although one thread sets the
\* arming, another clears it, and both read into the same buffer.
THEOREM NoShotUnarmed == Spec => []OneShotPerArm
<1>1. ASSUME SimInv, ArmInv PROVE OneShotPerArm
  <2>1. Cardinality(Shots(sent)) <= arms
    BY <1>1, ArmCounts DEF ArmInv
  <2> QED
    BY <2>1 DEF OneShotPerArm, Shots
<1> QED
  BY SimInit, SimStep, ArmInit, ArmStep, <1>1, PTL DEF Spec

-----------------------------------------------------------------------------
(* The club changes are those GSPro asked for, in its order.                *)

\* c is a subsequence of the first n elements of a.
Follows(c, a, n) ==
    \E f \in [DOMAIN c -> 1..n] :
        /\ \A i, j \in DOMAIN c : i < j => f[i] < f[j]
        /\ \A i \in DOMAIN c : c[i] = a[f[i]]

LEMMA FollowsFurther ==
    ASSUME NEW S, NEW c, NEW a \in Seq(S), NEW n \in Int, NEW m \in Int,
           n <= m, n <= Len(a), Follows(c, a, n), NEW b,
           \A i \in 1..Len(a) : b[i] = a[i]
    PROVE  Follows(c, b, m)
<1>1. PICK f \in [DOMAIN c -> 1..n] :
         /\ \A i, j \in DOMAIN c : i < j => f[i] < f[j]
         /\ \A i \in DOMAIN c : c[i] = a[f[i]]
  BY DEF Follows
<1>2. \A i \in DOMAIN c : f[i] \in 1..m /\ f[i] \in 1..Len(a)
  BY <1>1
<1>3. f \in [DOMAIN c -> 1..m]
  BY <1>1, <1>2
<1>4. \A i \in DOMAIN c : c[i] = b[f[i]]
  BY <1>1, <1>2
<1> QED
  BY <1>1, <1>3, <1>4 DEF Follows

LEMMA FollowsOneMore ==
    ASSUME NEW S, NEW c \in Seq(S), NEW a, NEW n \in Nat, Follows(c, a, n)
    PROVE  Follows(Append(c, a[n + 1]), a, n + 1)
<1> DEFINE d == Append(c, a[n + 1])
           k == Len(c) + 1
<1>1. PICK f \in [DOMAIN c -> 1..n] :
         /\ \A i, j \in DOMAIN c : i < j => f[i] < f[j]
         /\ \A i \in DOMAIN c : c[i] = a[f[i]]
  BY DEF Follows
<1>2. /\ k \in Nat /\ k >= 1 /\ DOMAIN c = 1..(k - 1) /\ DOMAIN d = 1..k
      /\ d[k] = a[n + 1] /\ \A i \in 1..(k - 1) : d[i] = c[i]
  OBVIOUS
<1> HIDE DEF d, k
<1> DEFINE g == [i \in 1..k |-> IF i = k THEN n + 1 ELSE f[i]]
<1>3. \A i \in 1..(k - 1) : f[i] \in 1..n /\ g[i] = f[i]
  BY <1>1, <1>2
<1>4. g[k] = n + 1
  BY <1>2
<1>5. g \in [DOMAIN d -> 1..(n + 1)]
  BY <1>2, <1>3, <1>4
<1> HIDE DEF g
<1>6. ASSUME NEW i \in DOMAIN d, NEW j \in DOMAIN d, i < j PROVE g[i] < g[j]
  <2>1. i \in 1..(k - 1)
    BY <1>2, <1>6
  <2>2. CASE j = k
    BY <1>3, <1>4, <2>1, <2>2
  <2>3. CASE j # k
    <3>1. j \in 1..(k - 1)
      BY <1>2, <2>3
    <3> QED
      BY <1>1, <1>2, <1>3, <1>6, <2>1, <3>1
  <2> QED
    BY <2>2, <2>3
<1>7. ASSUME NEW i \in DOMAIN d PROVE d[i] = a[g[i]]
  BY <1>1, <1>2, <1>3, <1>4
<1>8. Follows(d, a, n + 1)
  BY <1>5, <1>6, <1>7 DEF Follows
<1> QED
  BY <1>8 DEF d

\* GSPro's inbox holds the last of what it asked for; what its receive thread has
\* in hand is the one before; the club changes queued are among those before that.
Unread == inbox["gspro"]
Taken == Len(asked) - Len(Unread)
ClubInHand == thread["gspro"] = "processing" /\ buf \in {"putter", "iron"}
ClubInv ==
    /\ Taken >= 0
    /\ \A i \in 1..Len(Unread) : Unread[i] = "garbled" \/ asked[Taken + i] = ClubOf(Unread[i])
    /\ ClubInHand => Taken >= 1 /\ asked[Taken] = ClubOf(buf)
    /\ Follows(clubs, asked, IF ClubInHand THEN Taken - 1 ELSE Taken)

LEMMA ClubInit == Init => ClubInv
<1> SUFFICES ASSUME Init PROVE ClubInv
  OBVIOUS
<1>1. asked = <<>> /\ clubs = <<>> /\ Unread = <<>> /\ ~ClubInHand
  BY SimsAre DEF Init, Unread, ClubInHand
<1>2. Taken = 0
  BY <1>1 DEF Taken
<1>3. DOMAIN clubs = {}
  BY <1>1
<1>4. Follows(clubs, asked, 0)
  <2>1. [i \in {} |-> 0] \in [{} -> 1..0]
    OBVIOUS
  <2> QED
    BY <1>3, <2>1 DEF Follows
<1> QED
  BY <1>1, <1>2, <1>4 DEF ClubInv

LEMMA ClubTypes ==
    ASSUME SimInv
    PROVE  /\ asked \in Seq({"driver", "putter"}) /\ clubs \in Seq({"driver", "putter"})
           /\ Unread \in Seq({"putter", "iron", "garbled"})
           /\ Len(asked) \in Nat /\ Len(Unread) \in Nat /\ Taken \in Int /\ Taken <= Len(asked)
<1>1. Unread \in Seq({"putter", "iron", "garbled"})
  BY SimsAre DEF SimInv, SimType, Unread, Says, SaysGSPro
<1> QED
  BY <1>1 DEF SimInv, SimType, Taken

\* What was followed is still followed when more is asked for and taken.
LEMMA ClubsStillFollow ==
    ASSUME SimInv, ClubInv, NEW m \in Int, m >= Taken
    PROVE  Follows(clubs, asked, m)
<1> DEFINE n == IF ClubInHand THEN Taken - 1 ELSE Taken
<1>1. n \in Int /\ n <= m /\ n <= Len(asked) /\ Follows(clubs, asked, n)
  BY ClubTypes DEF ClubInv
<1> HIDE DEF n
<1> QED
  BY <1>1, ClubTypes, FollowsFurther

\* A step that leaves GSPro's messages alone; it may overwrite the buffer.
LEMMA ClubFrame ==
    ASSUME SimInv, ClubInv, UNCHANGED <<asked, clubs>>, inbox'["gspro"] = inbox["gspro"],
           ClubInHand' => ClubInHand /\ buf' = buf
    PROVE  ClubInv'
<1>1. Unread' = Unread /\ Taken' = Taken
  BY DEF Unread, Taken
<1>2. Follows(clubs, asked, Taken)
  BY ClubTypes, ClubsStillFollow
<1>3. ClubInHand' => ClubInHand /\ buf' = buf
  OBVIOUS
<1>4. ClubInHand' => Taken' >= 1 /\ asked'[Taken'] = ClubOf(buf')
  BY <1>1, <1>3 DEF ClubInv
<1>5. Follows(clubs', asked', IF ClubInHand' THEN Taken' - 1 ELSE Taken')
  <2>1. CASE ClubInHand'
    BY <1>1, <1>3, <2>1 DEF ClubInv
  <2>2. CASE ~ClubInHand'
    BY <1>1, <1>2, <2>2
  <2> QED
    BY <2>1, <2>2
<1>6. Taken' >= 0 /\ \A i \in 1..Len(Unread') :
         Unread'[i] = "garbled" \/ asked'[Taken' + i] = ClubOf(Unread'[i])
  BY <1>1 DEF ClubInv
<1>7. ClubOf(buf)' = ClubOf(buf') /\ \A i : ClubOf(Unread[i])' = ClubOf(Unread'[i])
  BY DEF ClubOf
<1> QED
  BY <1>4, <1>5, <1>6, <1>7 DEF ClubInv, Follows

LEMMA ClubReads ==
    ASSUME SimInv, ClubInv, ReadSome("gspro")
    PROVE  ClubInv'
<1> DEFINE q == Unread
           S == {"putter", "iron", "garbled"}
<1>1. /\ q \in Seq(S) /\ q # <<>> /\ "garbled" \in S /\ q = inbox["gspro"]
      /\ UNCHANGED <<asked, clubs>> /\ Taken \in Int /\ Len(q) \in Nat
      /\ inbox \in [Sims -> Seq(Texts)] /\ "gspro" \in Sims
  BY ClubTypes, SimsAre DEF ReadSome, Unread, peerVars, SimInv, SimType
<1>2. /\ Taken >= 0 /\ Taken = Len(asked) - Len(q)
      /\ \A i \in 1..Len(q) : q[i] = "garbled" \/ asked[Taken + i] = ClubOf(q[i])
  BY DEF ClubInv, Taken
<1>3. \A x : ClubOf(x)' = ClubOf(x)
  BY DEF ClubOf
<1>4. CASE \E n \in 1..Len(inbox["gspro"]) :
              /\ buf' = IF n = 1 THEN Head(inbox["gspro"]) ELSE "garbled"
              /\ inbox' = [inbox EXCEPT !["gspro"] = SubSeq(@, n + 1, Len(@))]
  <2>1. PICK n \in 1..Len(q) : /\ buf' = IF n = 1 THEN Head(q) ELSE "garbled"
                               /\ inbox' = [inbox EXCEPT !["gspro"] = SubSeq(q, n + 1, Len(q))]
    BY <1>1, <1>4
  <2>2. Unread' = SubSeq(q, n + 1, Len(q))
    BY <1>1, <2>1 DEF Unread
  <2> HIDE DEF q, S
  <2>3. Len(Unread') = Len(q) - n /\ \A i \in 1..(Len(q) - n) : Unread'[i] = q[n + i]
    BY <1>1, <2>2, ReadTyped
  <2>4. Taken' = Taken + n
    <3>1. Taken' = Len(asked') - Len(Unread') /\ Len(asked) \in Nat /\ n \in Nat
      BY <2>1, ClubTypes DEF Taken
    <3> QED
      BY <1>1, <1>2, <2>3, <3>1
  <2>5. \A i \in 1..Len(Unread') : Unread'[i] = "garbled" \/ asked'[Taken' + i] = ClubOf(Unread'[i])
    <3> TAKE i \in 1..Len(Unread')
    <3>1. n + i \in 1..Len(q) /\ Taken' + i = Taken + (n + i) /\ Unread'[i] = q[n + i]
      BY <1>1, <2>3, <2>4
    <3> QED
      BY <1>1, <1>2, <3>1
  <2>6. ClubInHand' => n = 1 /\ buf' = q[1] /\ q[1] # "garbled"
    BY <1>1, <2>1 DEF ClubInHand
  <2>7. ClubInHand' => Taken' >= 1 /\ asked'[Taken'] = ClubOf(buf')
    <3>1. 1 \in 1..Len(q)
      BY <1>1, <2>1
    <3>2. q[1] = "garbled" \/ asked[Taken + 1] = ClubOf(q[1])
      BY <1>2, <3>1
    <3> QED
      BY <1>1, <1>2, <2>4, <2>6, <3>2
  <2>8. Follows(clubs, asked, IF ClubInHand' THEN Taken' - 1 ELSE Taken')
    <3> DEFINE m == IF ClubInHand' THEN Taken' - 1 ELSE Taken'
    <3>1. m \in Int /\ m >= Taken
      BY <1>1, <2>1, <2>4
    <3> HIDE DEF m
    <3>2. Follows(clubs, asked, m)
      BY <3>1, ClubsStillFollow
    <3> QED
      BY <3>2 DEF m
  <2>9. Taken' >= 0
    BY <1>1, <1>2, <2>1, <2>4
  <2> QED
    BY <1>1, <1>3, <2>5, <2>7, <2>8, <2>9 DEF ClubInv, Follows, ClubOf
<1>5. CASE /\ buf' = "garbled"
           /\ inbox' = [inbox EXCEPT !["gspro"][1] = "garbled"]
  <2>1. Unread' = [q EXCEPT ![1] = "garbled"]
    BY <1>1, <1>5 DEF Unread
  <2>2. \A i \in 1..Len(q) : [q EXCEPT ![1] = "garbled"][i] \in {"garbled", q[i]}
    BY <1>1
  <2> HIDE DEF q, S
  <2>3. Len(Unread') = Len(q) /\ \A i \in 1..Len(q) : Unread'[i] \in {"garbled", q[i]}
    BY <1>1, <2>1, <2>2, ReadTyped
  <2>4. Taken' = Taken
    BY <1>1, <1>2, <2>3 DEF Taken
  <2>5. ~ClubInHand'
    BY <1>5 DEF ClubInHand
  <2>6. Follows(clubs, asked, Taken)
    BY <1>1, ClubsStillFollow
  <2>7. \A i \in 1..Len(Unread') : Unread'[i] = "garbled" \/ asked'[Taken' + i] = ClubOf(Unread'[i])
    BY <1>1, <1>2, <2>3, <2>4
  <2> QED
    BY <1>1, <1>2, <1>3, <2>4, <2>5, <2>6, <2>7 DEF ClubInv, Follows, ClubOf
<1> QED
  BY <1>4, <1>5 DEF ReadSome

LEMMA ClubProcesses ==
    ASSUME SimInv, ClubInv, ProcessGSPro
    PROVE  ClubInv'
<1>1. /\ thread["gspro"] = "processing" /\ UNCHANGED <<asked, buf>> /\ Unread' = Unread
      /\ thread' = [thread EXCEPT !["gspro"] = LoopAgain]
      /\ clubs' = IF buf \in {"putter", "iron"} THEN Append(clubs, ClubOf(buf)) ELSE clubs
  BY DEF ProcessGSPro, peerVars, Unread
<1>2. Taken' = Taken
  BY <1>1 DEF Taken
<1>3. ~ClubInHand'
  BY <1>1, SimsAre DEF ClubInHand, LoopAgain, SimInv, SimType
<1>4. Follows(clubs', asked, Taken)
  <2>1. CASE buf \in {"putter", "iron"}
    <3>1. ClubInHand
      BY <1>1, <2>1 DEF ClubInHand
    <3> DEFINE n == Taken - 1
    <3>2. n \in Nat /\ n + 1 = Taken /\ asked[n + 1] = ClubOf(buf) /\ Follows(clubs, asked, n)
      BY <3>1, ClubTypes DEF ClubInv
    <3> HIDE DEF n
    <3>3. Follows(Append(clubs, asked[n + 1]), asked, n + 1)
      BY <3>2, ClubTypes, FollowsOneMore
    <3> QED
      BY <1>1, <2>1, <3>2, <3>3
  <2>2. CASE buf \notin {"putter", "iron"}
    BY <1>1, <2>2, ClubTypes, ClubsStillFollow
  <2> QED
    BY <2>1, <2>2
<1> QED
  BY <1>1, <1>2, <1>3, <1>4 DEF ClubInv, Follows, ClubOf

LEMMA ClubAsked ==
    ASSUME SimInv, ClubInv, NEW text \in Says("gspro"), PeerSays("gspro", text)
    PROVE  ClubInv'
<1>1. text \in {"putter", "iron"}
  BY DEF Says, SaysGSPro
<1>2. /\ asked' = Append(asked, ClubOf(text)) /\ UNCHANGED <<clubs, buf, thread>>
      /\ inbox' = [inbox EXCEPT !["gspro"] = Append(inbox["gspro"], text)]
  BY <1>1 DEF PeerSays, threadVars
<1>3. Unread' = Append(Unread, text)
  BY <1>2, SimsAre DEF Unread, SimInv, SimType
<1> DEFINE n == Len(Unread)
           k == Len(asked)
<1>4. /\ n \in Nat /\ k \in Nat /\ Taken = k - n /\ Len(Unread') = n + 1 /\ Len(asked') = k + 1
      /\ Unread'[n + 1] = text /\ \A i \in 1..n : Unread'[i] = Unread[i]
      /\ asked'[k + 1] = ClubOf(text) /\ \A i \in 1..k : asked'[i] = asked[i]
  BY <1>2, <1>3, ClubTypes DEF Taken
<1>5. Taken' = Len(asked') - Len(Unread')
  BY DEF Taken
<1> HIDE DEF n, k
<1>6. Taken' = Taken
  BY <1>4, <1>5
<1>7. Taken >= 0 /\ Taken \in Int
  BY ClubTypes DEF ClubInv
<1>8. \A i \in 1..n : Unread[i] = "garbled" \/ asked[Taken + i] = ClubOf(Unread[i])
  BY DEF ClubInv, n
<1>9. ASSUME NEW i \in 1..(n + 1)
      PROVE  Unread'[i] = "garbled" \/ asked'[Taken + i] = ClubOf(Unread'[i])
  <2>1. CASE i = n + 1
    <3>1. Taken + i = k + 1
      BY <1>4, <2>1
    <3> QED
      BY <1>4, <2>1, <3>1
  <2>2. CASE i # n + 1
    <3>1. i \in 1..n /\ Taken + i \in 1..k
      BY <1>4, <1>7, <2>2
    <3> QED
      BY <1>4, <1>8, <3>1
  <2> QED
    BY <2>1, <2>2
<1>10. ClubInHand' = ClubInHand
  BY <1>2 DEF ClubInHand
<1>11. ClubInHand => Taken \in 1..k /\ asked'[Taken] = ClubOf(buf)
  <2>1. ClubInHand => Taken >= 1 /\ asked[Taken] = ClubOf(buf)
    BY DEF ClubInv
  <2> QED
    BY <1>4, <1>7, <2>1
<1>12. Follows(clubs, asked', IF ClubInHand THEN Taken - 1 ELSE Taken)
  <2> DEFINE m == IF ClubInHand THEN Taken - 1 ELSE Taken
  <2>1. m \in Int /\ m <= Len(asked) /\ Follows(clubs, asked, m)
    BY ClubTypes DEF ClubInv
  <2>2. \A i \in 1..Len(asked) : asked'[i] = asked[i]
    BY <1>4 DEF k
  <2> HIDE DEF m
  <2>3. Follows(clubs, asked', m)
    BY <2>1, <2>2, ClubTypes, FollowsFurther
  <2> QED
    BY <2>3 DEF m
<1>13. Follows(clubs, asked, IF ClubInHand THEN Taken - 1 ELSE Taken)'
  <2>1. clubs' = clubs
    BY <1>2
  <2> QED
    BY <1>6, <1>10, <1>12, <2>1 DEF Follows
<1>14. (ClubInHand => Taken >= 1 /\ asked[Taken] = ClubOf(buf))'
  <2>1. ClubOf(buf)' = ClubOf(buf)
    BY <1>2 DEF ClubOf
  <2>2. ClubInHand => Taken >= 1 /\ asked'[Taken] = ClubOf(buf)
    BY <1>7, <1>11
  <2> HIDE DEF ClubInHand, Taken
  <2> QED
    BY <1>6, <1>10, <2>1, <2>2
<1>15. (\A i \in 1..Len(Unread) : Unread[i] = "garbled" \/ asked[Taken + i] = ClubOf(Unread[i]))'
  BY <1>4, <1>6, <1>9 DEF ClubOf
<1> QED
  BY <1>6, <1>7, <1>13, <1>14, <1>15 DEF ClubInv

LEMMA ClubStep == SimInv /\ ClubInv /\ [Next]_vars => ClubInv'
<1> SUFFICES ASSUME SimInv, ClubInv, [Next]_vars PROVE ClubInv'
  OBVIOUS
<1> USE SimsAre
<1>1. CASE MainStep
  <2>1. UNCHANGED <<inbox, asked, clubs, buf>>
    BY <1>1, MainKeepsPeers
  <2>2. thread' = thread \/ \E s \in Sims : thread' = [thread EXCEPT ![s] = "starting"]
    <3>1. CASE Connect
      <4>1. sim \in Sims
        BY <3>1, NextTodo DEF Connect, SimInv, SimType, TodoInv
      <4> QED
        BY <3>1, <4>1 DEF Connect
    <3>2. CASE ~Connect
      BY <1>1, <3>2 DEF MainStep, Greet, WaitForArmed, IncrementShotCounter, SendResults,
           SendBallData, SendClubData, SendShot, E6Step, Disarm, Stop, DeInitializeSims, threadVars
    <3> QED
      BY <3>1, <3>2
  <2>3. thread'["gspro"] = "processing" => thread["gspro"] = "processing"
    BY <2>2 DEF SimInv, SimType
  <2> QED
    BY <2>1, <2>3, ClubFrame DEF ClubInHand
<1>2. ASSUME NEW s \in Sims, ReceiverStep(s) PROVE ClubInv'
  <2>1. CASE s = "gspro" /\ ReadSome(s)
    BY <2>1, ClubReads
  <2>2. CASE ProcessGSPro
    BY <2>2, ClubProcesses
  <2>3. CASE s = "e6" /\ ReadSome(s)
    <3>1. UNCHANGED <<asked, clubs>> /\ inbox'["gspro"] = inbox["gspro"]
      BY <2>3 DEF ReadSome, peerVars, SimInv, SimType
    <3>2. Head(inbox["e6"]) \in SaysE6 \cup {"garbled"}
      BY <2>3 DEF ReadSome, Says, SimInv, SimType
    <3>3. buf' \notin {"putter", "iron"}
      BY <2>3, <3>2 DEF ReadSome, SaysE6
    <3> QED
      BY <3>1, <3>3, ClubFrame DEF ClubInHand
  <2>4. CASE ReceiverStarts(s) \/ ReadNothing(s) \/ ProcessE6
    <3>1. UNCHANGED <<asked, clubs, inbox, buf>>
      BY <2>4 DEF ReceiverStarts, ReadNothing, ProcessE6, peerVars
    <3>2. \E u \in Sims : \E to \in {"reading", "ended"} : thread' = [thread EXCEPT ![u] = to]
      BY <2>4 DEF ReceiverStarts, ReadNothing, ProcessE6, LoopAgain
    <3>3. thread'["gspro"] = "processing" => thread["gspro"] = "processing"
      BY <3>2 DEF SimInv, SimType
    <3> QED
      BY <3>1, <3>3, ClubFrame DEF ClubInHand
  <2> QED
    BY <1>2, <2>1, <2>2, <2>3, <2>4 DEF ReceiverStep
<1>3. ASSUME NEW s \in Sims, PeerStep(s) PROVE ClubInv'
  <2>1. CASE PeerCloses(s)
    <3>1. UNCHANGED <<asked, clubs, inbox, buf, thread>>
      BY <2>1 DEF PeerCloses, threadVars
    <3> QED
      BY <3>1, ClubFrame DEF ClubInHand
  <2>2. ASSUME NEW text \in Says(s), PeerSays(s, text), s = "gspro" PROVE ClubInv'
    BY <2>2, ClubAsked
  <2>3. ASSUME NEW text \in Says(s), PeerSays(s, text), s = "e6" PROVE ClubInv'
    <3>1. text \notin {"putter", "iron"}
      BY <2>3 DEF Says, SaysE6
    <3>2. UNCHANGED <<asked, clubs, buf, thread>> /\ inbox'["gspro"] = inbox["gspro"]
      BY <2>3, <3>1 DEF PeerSays, threadVars, SimInv, SimType
    <3> QED
      BY <3>2, ClubFrame DEF ClubInHand
  <2> QED
    BY <1>3, <2>1, <2>2, <2>3 DEF PeerStep
<1>4. CASE TellToStop \/ UNCHANGED vars
  <2>1. UNCHANGED <<asked, clubs, inbox, buf, thread>>
    BY <1>4 DEF TellToStop, vars, threadVars, peerVars
  <2> QED
    BY <2>1, ClubFrame DEF ClubInHand
<1> QED
  BY <1>1, <1>2, <1>3, <1>4 DEF Next

\* The club changes handed to the FSM are a subsequence of those GSPro asked for:
\* nothing E6 writes into the shared buffer, and no run-together or cut-off
\* message, is taken for one, and none is taken twice.
THEOREM ClubsAreAskedFor == Spec => []ClubsFollowGSPro
<1>1. ASSUME SimInv, ClubInv PROVE ClubsFollowGSPro
  <2>1. Follows(clubs, asked, Len(asked))
    BY <1>1, ClubTypes, ClubsStillFollow
  <2>2. DOMAIN asked = 1..Len(asked)
    BY <1>1, ClubTypes
  <2> QED
    BY <2>1, <2>2 DEF Follows, ClubsFollowGSPro
<1> QED
  BY SimInit, SimStep, ClubInit, ClubStep, <1>1, PTL DEF Spec
=============================================================================
