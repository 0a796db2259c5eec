---------------------------- MODULE SimInterfaces ----------------------------
(***************************************************************************)
(* The golf simulators a launch monitor reports to: GsSimInterface keeps    *)
(* one GsGSProInterface and one GsE6Interface, both over                    *)
(* GsSimSocketInterface.  The FSM thread opens the sockets, waits until     *)
(* every simulator is armed, numbers the shots and sends them; a receive    *)
(* thread per socket takes club changes from GSPro and the arming from E6.  *)
(*                                                                         *)
(* at:  "connect", "greet"  InitializeSims, in the interface Head(todo)     *)
(*      "idle"     the FSM waits for GetAllSystemsArmed                     *)
(*      "ready"    it waits for a ball and its hit                          *)
(*      "send"     SendResultsToGolfSims, at the interface Head(todo)       *)
(*      "ball", "club", "shot", "disarm"   inside GsE6Interface::SendResults*)
(*      "stopping" PerformSystemShutdownTasks                               *)
(*      "exited", "aborted"   the process has returned, or terminated       *)
(***************************************************************************)
EXTENDS Integers, Sequences, FiniteSets, SequencesExt

CONSTANTS
    MaxShots,      \* bound on the shots played
    GSProTalk,     \* bound on the messages GSPro sends ...
    E6Talk,        \* ... and E6
    MayStop        \* the process may be told to stop

ASSUME BoundsAssumption ==
    MaxShots \in Nat /\ GSProTalk \in Nat /\ E6Talk \in Nat /\ MayStop \in BOOLEAN

VARIABLES
    at, todo,      \* where the FSM thread is, and the interfaces left to visit
    running,       \* PiTrac_running_
    shotCounter,   \* GsSimInterface::shot_counter_
    initialized,   \* initialized_ of each interface
    hasThread,     \* receiver_thread_ # nullptr
    exited,        \* receive_thread_exited_
    armed,         \* sim_system_is_armed_ of E6
    thread,        \* where each receive thread is
    buf,           \* the buffer of ReceiveSocketData: static, so one for all
    inbox,         \* what each simulator wrote that is not yet read
    open,          \* the simulator has its end of the socket open
    talked,        \* how many messages each simulator wrote
    sent,          \* the shot messages E6 has received (history)
    arms,          \* how often E6 has armed (history)
    asked,         \* the clubs GSPro has asked for (history)
    clubs          \* the clubs of the ControlMessages queued (history)

mainVars == <<at, todo, shotCounter>>
threadVars == <<thread, exited, buf>>
peerVars == <<open, talked, arms, asked>>
vars == <<mainVars, running, initialized, hasThread, armed, threadVars, inbox,
          peerVars, sent, clubs>>

SimList == <<"gspro", "e6">>
Sims == ToSet(SimList)
Steps == {"connect", "greet", "idle", "ready", "send", "ball", "club", "shot",
          "disarm", "stopping", "exited", "aborted"}

\* What a simulator says: the club of GSPro's player; the arming of E6, and a
\* "ping" that wants an answer.  "garbled" is a read that is not one message.
SaysGSPro == {"putter", "iron"}
SaysE6 == {"arm", "disarm", "ping"}
Says(s) == IF s = "gspro" THEN SaysGSPro ELSE SaysE6
Talk(s) == IF s = "gspro" THEN GSProTalk ELSE E6Talk
Texts == SaysGSPro \cup SaysE6 \cup {"garbled"}

ClubOf(text) == IF text = "putter" THEN "putter" ELSE "driver"

Msg(k, n) == [kind |-> k, shot |-> n]
Kinds == {"SetBallData", "SetClubData", "SendShot"}

sim == Head(todo)

-----------------------------------------------------------------------------
(* Operators the actions are built from.                                    *)

\* write_some: a peer that has closed may still take the bytes into the void;
\* only later does the write fail, and then it returns 0.
WriteSome(s, ok) == open[s] => ok

SendSimMessage(kind, ok) ==
    /\ WriteSome("e6", ok)
    /\ sent' = IF open["e6"] THEN Append(sent, Msg(kind, shotCounter)) ELSE sent

\* pthread_cancel, then the std::thread is destroyed while it is joinable.
DeInitialize(s) ==
    /\ IF hasThread[s]
       THEN at' = "aborted" /\ UNCHANGED <<todo, initialized>>
       ELSE /\ initialized' = [initialized EXCEPT ![s] = FALSE]
            /\ todo' = Tail(todo) /\ at' = IF Len(todo) = 1 THEN "exited" ELSE at

\* GSPro is always armed.
GetAllSystemsArmed == \A s \in Sims : s = "e6" => armed

NextSim == /\ todo' = Tail(todo)
           /\ at' = IF Len(todo) = 1 THEN "idle" ELSE "send"

-----------------------------------------------------------------------------
(* The FSM thread.                                                          *)

\* InitializeSims, first half of an interface's Initialize: resolve, connect,
\* start the receive thread; any failure fails the start-up of the process.
Connect ==
    /\ at = "connect"
    /\ \/ /\ at' = "greet"
          /\ open' = [open EXCEPT ![sim] = TRUE]
          /\ hasThread' = [hasThread EXCEPT ![sim] = TRUE]
          /\ thread' = [thread EXCEPT ![sim] = "starting"]
       \/ at' = "exited" /\ UNCHANGED <<open, hasThread, thread>>
    /\ UNCHANGED <<todo, running, shotCounter, initialized, armed, exited, buf,
                   inbox, talked, arms, asked, sent, clubs>>

\* Second half: the first message.  GSPro's is sent by SendResults, which may
\* find the receive thread gone already.
Greet ==
    /\ at = "greet"
    /\ \/ /\ sim = "gspro" /\ exited[sim] /\ DeInitialize(sim)
       \/ /\ sim = "e6" \/ ~exited[sim]
          /\ initialized' = [initialized EXCEPT ![sim] = TRUE]
          /\ todo' = Tail(todo)
          /\ at' = IF Len(todo) = 1 THEN "idle" ELSE "connect"
    /\ UNCHANGED <<running, shotCounter, hasThread, armed, threadVars, inbox,
                   peerVars, sent, clubs>>

WaitForArmed ==
    /\ at = "idle" /\ running
    /\ GetAllSystemsArmed
    /\ at' = "ready"
    /\ UNCHANGED <<todo, running, shotCounter, initialized, hasThread, armed,
                   threadVars, inbox, peerVars, sent, clubs>>

\* The hit increments the counter before anything can fail; the results, if
\* the analysis produces any, follow in SendResultsToGolfSims.
IncrementShotCounter ==
    /\ at = "ready" /\ running
    /\ shotCounter < MaxShots
    /\ shotCounter' = shotCounter + 1
    /\ \/ at' = "send" /\ todo' = SimList
       \/ at' = "idle" /\ todo' = todo
    /\ UNCHANGED <<running, initialized, hasThread, armed, threadVars, inbox,
                   peerVars, sent, clubs>>

\* SendResults of GSPro, and the early returns and checks of E6's.
SendResults ==
    /\ at = "send"
    /\ \/ /\ \/ ~initialized[sim]
             \/ sim = "e6" /\ ~armed
          /\ NextSim /\ UNCHANGED initialized
       \/ /\ initialized[sim] /\ (sim = "e6" => armed)
          /\ \/ /\ exited[sim] /\ DeInitialize(sim)
             \/ /\ ~exited[sim] /\ UNCHANGED initialized
                /\ \/ sim = "gspro" /\ NextSim
                   \/ sim = "e6" /\ at' = "ball" /\ todo' = todo
    /\ UNCHANGED <<running, shotCounter, hasThread, armed, threadVars, inbox,
                   peerVars, sent, clubs>>

\* The three messages of an E6 shot; a failed write abandons the shot.
E6Step(from, kind, to) ==
    /\ at = from
    /\ \E ok \in BOOLEAN :
          /\ SendSimMessage(kind, ok)
          /\ IF ok THEN at' = to /\ todo' = todo ELSE NextSim
    /\ UNCHANGED <<running, shotCounter, initialized, hasThread, armed,
                   threadVars, inbox, peerVars, clubs>>

SendBallData == E6Step("ball", "SetBallData", "club")

\* A mutant: the shot is sent before its club data.
SendClubDataLate == E6Step("club", "SendShot", "disarm")

SendClubData == E6Step("club", "SetClubData", "shot")
SendShot == E6Step("shot", "SendShot", "disarm")

\* A mutant: the arming is kept for the next shot.
DisarmForgotten ==
    /\ at = "disarm"
    /\ todo' = Tail(todo) /\ at' = "idle"
    /\ UNCHANGED <<running, shotCounter, initialized, hasThread, armed,
                   threadVars, inbox, peerVars, sent, clubs>>

Disarm ==
    /\ at = "disarm"
    /\ armed' = FALSE
    /\ todo' = Tail(todo) /\ at' = "idle"
    /\ UNCHANGED <<running, shotCounter, initialized, hasThread, threadVars,
                   inbox, peerVars, sent, clubs>>

\* PerformSystemShutdownTasks calls DeInitializeSims.
Stop ==
    /\ at \in {"idle", "ready"} /\ ~running
    /\ at' = "stopping" /\ todo' = SimList
    /\ UNCHANGED <<running, shotCounter, initialized, hasThread, armed,
                   threadVars, inbox, peerVars, sent, clubs>>

DeInitializeSims ==
    /\ at = "stopping" /\ DeInitialize(sim)
    /\ UNCHANGED <<running, shotCounter, hasThread, armed, threadVars, inbox,
                   peerVars, sent, clubs>>

-----------------------------------------------------------------------------
(* The receive threads.                                                     *)

Live == at \notin {"exited", "aborted"}

\* The loop condition is looked at before every read.
LoopAgain == IF running THEN "reading" ELSE "ended"

ReceiverStarts(s) ==
    /\ Live /\ thread[s] = "starting"
    /\ exited' = [exited EXCEPT ![s] = FALSE]
    /\ thread' = [thread EXCEPT ![s] = LoopAgain]
    /\ UNCHANGED <<mainVars, running, initialized, hasThread, armed, buf, inbox,
                   peerVars, sent, clubs>>

\* A mutant: what was read is kept and read once more with what follows.
ReadSomeAgain(s) ==
    /\ Live /\ thread[s] = "reading" /\ inbox[s] # <<>>
    /\ buf' = Head(inbox[s])
    /\ \/ inbox' = inbox
       \/ inbox' = [inbox EXCEPT ![s] = Tail(@)]
    /\ thread' = [thread EXCEPT ![s] = "processing"]
    /\ UNCHANGED <<mainVars, running, initialized, hasThread, armed, exited,
                   peerVars, sent, clubs>>

\* read_some returns what has come: one message, several run together, or
\* part of one, the rest of which will be read next.
ReadSome(s) ==
    /\ Live /\ thread[s] = "reading" /\ inbox[s] # <<>>
    /\ \/ \E n \in 1..Len(inbox[s]) :
             /\ buf' = IF n = 1 THEN Head(inbox[s]) ELSE "garbled"
             /\ inbox' = [inbox EXCEPT ![s] = SubSeq(@, n + 1, Len(@))]
       \/ /\ Head(inbox[s]) # "garbled"
          /\ buf' = "garbled"
          /\ inbox' = [inbox EXCEPT ![s][1] = "garbled"]
    /\ thread' = [thread EXCEPT ![s] = "processing"]
    /\ UNCHANGED <<mainVars, running, initialized, hasThread, armed, exited,
                   peerVars, sent, clubs>>

\* A closed socket reads as 0 bytes: the thread says so and ends.
ReadNothing(s) ==
    /\ Live /\ thread[s] = "reading" /\ inbox[s] = <<>> /\ ~open[s]
    /\ exited' = [exited EXCEPT ![s] = TRUE]
    /\ thread' = [thread EXCEPT ![s] = "ended"]
    /\ UNCHANGED <<mainVars, running, initialized, hasThread, armed, buf, inbox,
                   peerVars, sent, clubs>>

\* GsGSProResponse::ParseJson and GsGSProInterface::ProcessReceivedData: what
\* cannot be parsed is accepted and dropped, an unknown club is a driver, and
\* only code 201 queues a ControlMessage.
ProcessGSPro ==
    /\ Live /\ thread["gspro"] = "processing"
    /\ clubs' = IF buf \in {"putter", "iron"}
                THEN Append(clubs, ClubOf(buf)) ELSE clubs
    /\ thread' = [thread EXCEPT !["gspro"] = LoopAgain]
    /\ UNCHANGED <<mainVars, running, initialized, hasThread, armed, exited, buf,
                   inbox, peerVars, sent>>

\* What GsE6Response makes of a text: the arming it leaves behind, and whether
\* it could process it (the class is linked from a closed object file).
ProcessJson(text, wasArmed) ==
    IF text \in SaysE6
    THEN {[armed |-> IF text = "ping" THEN wasArmed ELSE text = "arm", ok |-> TRUE]}
    ELSE [armed : {wasArmed}, ok : BOOLEAN]

\* GsE6Interface::ProcessReceivedData, and its answer.  When it fails the
\* thread returns without setting receive_thread_exited_.
ProcessE6 ==
    /\ Live /\ thread["e6"] = "processing"
    /\ \E r \in ProcessJson(buf, armed), ok \in BOOLEAN :
          /\ armed' = r.armed
          /\ IF r.ok /\ buf = "ping" THEN WriteSome("e6", ok) ELSE ok
          /\ thread' = [thread EXCEPT !["e6"] = IF r.ok /\ ok THEN LoopAgain ELSE "ended"]
    /\ UNCHANGED <<mainVars, running, initialized, hasThread, exited, buf, inbox,
                   peerVars, sent, clubs>>

-----------------------------------------------------------------------------
(* The simulators and the user.                                             *)

PeerSays(s, text) ==
    /\ Live /\ open[s] /\ talked[s] < Talk(s)
    /\ talked' = [talked EXCEPT ![s] = @ + 1]
    /\ arms' = IF text = "arm" THEN arms + 1 ELSE arms
    /\ asked' = IF text \in {"putter", "iron"} THEN Append(asked, ClubOf(text)) ELSE asked
    /\ inbox' = [inbox EXCEPT ![s] = Append(@, text)]
    /\ UNCHANGED <<mainVars, running, initialized, hasThread, armed, threadVars,
                   open, sent, clubs>>

PeerCloses(s) ==
    /\ Live /\ open[s]
    /\ open' = [open EXCEPT ![s] = FALSE]
    /\ UNCHANGED <<mainVars, running, initialized, hasThread, armed, threadVars,
                   inbox, talked, arms, asked, sent, clubs>>

TellToStop ==
    /\ Live /\ MayStop /\ running /\ running' = FALSE
    /\ UNCHANGED <<mainVars, initialized, hasThread, armed, threadVars, inbox,
                   peerVars, sent, clubs>>

-----------------------------------------------------------------------------
Init ==
    /\ at = "connect" /\ todo = SimList /\ shotCounter = 0
    /\ running = TRUE
    /\ initialized = [s \in Sims |-> FALSE]
    /\ hasThread = [s \in Sims |-> FALSE]
    /\ exited = [s \in Sims |-> FALSE]
    /\ armed = FALSE
    /\ thread = [s \in Sims |-> "none"]
    /\ buf = "garbled"
    /\ inbox = [s \in Sims |-> <<>>]
    /\ open = [s \in Sims |-> FALSE]
    /\ talked = [s \in Sims |-> 0]
    /\ sent = <<>> /\ arms = 0 /\ asked = <<>> /\ clubs = <<>>

MainStep == \/ Connect \/ Greet \/ WaitForArmed \/ IncrementShotCounter
            \/ SendResults \/ SendBallData \/ SendClubData \/ SendShot \/ Disarm
            \/ Stop \/ DeInitializeSims

ReceiverStep(s) == \/ ReceiverStarts(s) \/ ReadSome(s) \/ ReadNothing(s)
                   \/ s = "gspro" /\ ProcessGSPro
                   \/ s = "e6" /\ ProcessE6

PeerStep(s) == PeerCloses(s) \/ \E text \in Says(s) : PeerSays(s, text)

Next == \/ MainStep
        \/ \E s \in Sims : ReceiverStep(s) \/ PeerStep(s)
        \/ TellToStop

Spec == Init /\ [][Next]_vars

-----------------------------------------------------------------------------
(* Properties.                                                              *)

TypeOK ==
    /\ at \in Steps /\ todo \in {SubSeq(SimList, i, 2) : i \in 1..3}
    /\ shotCounter \in 0..MaxShots
    /\ running \in BOOLEAN /\ armed \in BOOLEAN
    /\ initialized \in [Sims -> BOOLEAN] /\ hasThread \in [Sims -> BOOLEAN]
    /\ exited \in [Sims -> BOOLEAN] /\ open \in [Sims -> BOOLEAN]
    /\ thread \in [Sims -> {"none", "starting", "reading", "processing", "ended"}]
    /\ buf \in Texts
    /\ \A s \in Sims :
          /\ \A i \in 1..Len(inbox[s]) : inbox[s][i] \in Says(s) \cup {"garbled"}
          /\ talked[s] \in 0..Talk(s)
    /\ arms \in 0..E6Talk
    /\ sent \in Seq([kind : Kinds, shot : 0..MaxShots])
    /\ asked \in Seq({"driver", "putter"}) /\ clubs \in Seq({"driver", "putter"})

\* E6 plays a shot on SendShot.  The ball data and the club data it has then
\* are those of that very shot, whatever writes failed before and whatever the
\* receive thread answered in between.
LastBefore(i, kind) ==
    LET js == {j \in 1..(i - 1) : sent[j].kind = kind}
    IN IF js = {} THEN 0 ELSE sent[CHOOSE j \in js : \A k \in js : k <= j].shot

E6GetsWholeShots ==
    \A i \in DOMAIN sent :
        sent[i].kind = "SendShot" =>
            /\ LastBefore(i, "SetBallData") = sent[i].shot
            /\ LastBefore(i, "SetClubData") = sent[i].shot
            /\ LastBefore(i, "SendShot") < sent[i].shot

\* E6 never gets more shots than it armed for, although its arming is set by
\* one thread and cleared, after the shot is out, by another.
OneShotPerArm ==
    Cardinality({i \in DOMAIN sent : sent[i].kind = "SendShot"}) <= arms

\* The club changes handed to the FSM are among those GSPro asked for, and in
\* its order: nothing E6 writes into the shared buffer, and no run-together or
\* cut-off message, is taken for one.
ClubsFollowGSPro ==
    \E f \in [DOMAIN clubs -> DOMAIN asked] :
        /\ \A i, j \in DOMAIN clubs : i < j => f[i] < f[j]
        /\ \A i \in DOMAIN clubs : clubs[i] = asked[f[i]]
=============================================================================
