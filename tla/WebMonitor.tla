----------------------------- MODULE WebMonitor -----------------------------
(***************************************************************************)
(* MonitorServlet, the web page that shows the last result: browsers       *)
(* refresh it with GET requests, each on a thread of the servlet container *)
(* and the first of them starts a consumer of the launch monitor's         *)
(* messages; a click on a club is a POST request.  All of them share       *)
(* static variables and none of them locks.                                *)
(***************************************************************************)
EXTENDS Naturals, Sequences, SequencesExt

CONSTANTS
  Requests,     \* the request threads
  Results,      \* the results the launch monitor may send: [shot, club, type], and
                \* how many of these fields can be unpacked
  Buttons,      \* the clubs that can be clicked, Putter and Driver or one of them
  MaxSent,      \* bound on the messages
  MaxGets,      \* bound on the refreshes
  MaxReset,     \* max_time_to_reset_seconds, in refresh times
  None

VARIABLES
  sent,       \* the results the launch monitor has sent
  created,    \* consumerIsCreated
  consumers,  \* per thread that started one, its consumer: [stage, next, new, object]
  request,    \* per request thread, where doGet is
  gets,       \* the refreshes so far
  idle,       \* time_since_last_reset_seconds
  result,     \* the GsIPCResult objects there have been
  current,    \* which of them current_result_ refers to
  clicked     \* history: the club clicked since current_result_ got one otherwise

vars == <<sent, created, consumers, request, gets, idle, result, current, clicked>>

servlet == <<created, request, gets>>

GsIPCResultType ==
  {"Unknown", "Initializing", "WaitingForBallToAppear", "WaitingForSimulatorArmed",
   "PausingForBallStabilization", "MultipleBallsPresent", "BallPlacedAndReadyForHit", "Hit",
   "Error", "CalibrationResults"}

GsClubType == {"NotSelected", "Driver", "Iron", "Putter"}
Shots == [shot : Nat, type : GsIPCResultType, club : GsClubType]
Messages == [shot : Nat, type : GsIPCResultType, club : GsClubType, fields : 0..3]

\* What a new GsIPCResult holds.
Fresh == [shot |-> 0, type |-> "Unknown", club |-> "NotSelected"]

Init ==
  /\ sent = <<>> /\ created = FALSE
  /\ consumers = [r \in Requests |-> None]
  /\ request = [r \in Requests |-> "idle"] /\ gets = 0
  /\ idle = 0 /\ result = <<Fresh>> /\ current = 1 /\ clicked = None

\* The launch monitor: what it sends before anyone listens is lost, and left out.
Send(m) ==
  /\ Len(sent) < MaxSent /\ \E r \in Requests : consumers[r] # None
  /\ sent' = Append(sent, m)
  /\ UNCHANGED <<consumers, idle, result, current, clicked, servlet>>

-----------------------------------------------------------------------------
(* doGet, on the thread r. *)

Step(r, from, to) == request[r] = from /\ request' = [request EXCEPT ![r] = to]

Get(r) ==
  /\ gets < MaxGets /\ gets' = gets + 1
  /\ Step(r, "idle", IF created THEN "count" ELSE "create")
  /\ UNCHANGED <<sent, created, consumers, idle, result, current, clicked>>

\* A consumer in receive, before the next message.
Waiting(next) == [stage |-> "receive", next |-> next, new |-> None, object |-> 1]

\* thread(new GolfSimConsumer(), false); the flag is set afterwards.
CreateConsumer(r) ==
  /\ Step(r, "create", "flag")
  /\ consumers' = [consumers EXCEPT ![r] = Waiting(Len(sent) + 1)]
  /\ UNCHANGED <<sent, created, gets, idle, result, current, clicked>>

SetCreated(r) ==
  /\ Step(r, "flag", "count")
  /\ created' = TRUE
  /\ UNCHANGED <<sent, consumers, gets, idle, result, current, clicked>>

\* Format reads the page's fields last, and changes nothing.
Count(r) ==
  /\ Step(r, "count", IF idle + 1 > MaxReset THEN "reset" ELSE "idle")
  /\ idle' = idle + 1
  /\ UNCHANGED <<sent, created, consumers, gets, result, current, clicked>>

Reset(r) ==
  /\ Step(r, "reset", "idle")
  /\ idle' = 0
  /\ result' = Append(result, Fresh) /\ current' = Len(result') /\ clicked' = None
  /\ UNCHANGED <<sent, created, consumers, gets>>

\* doPost, on any thread: when the control message is sent, the page gets the club.
SetCurrentClubType(c) ==
  /\ result' = [result EXCEPT ![current].club = c] /\ clicked' = c
  /\ UNCHANGED <<sent, consumers, idle, current, servlet>>

-----------------------------------------------------------------------------
(* GolfSimConsumer.run *)

\* What unpack makes of an object: an exception leaves the rest of it as it was, and
\* what unpack returns is not looked at.
Unpacked(old, m) ==
  [shot |-> IF m.fields > 0 THEN m.shot ELSE old.shot,
   club |-> IF m.fields > 1 THEN m.club ELSE old.club,
   type |-> IF m.fields > 2 THEN m.type ELSE old.type]

NewResult(m) == Unpacked(Fresh, m)

\* Results that replace a shot or an error the user may still be looking at.
Interesting == {"BallPlacedAndReadyForHit", "Initializing", "WaitingForSimulatorArmed", "Error"}

Replaces(new, old) ==
  (old.shot > 0 \/ old.type = "Error") => (new.shot > 0 \/ new.type \in Interesting)

Stages == {"receive", "club", "decide", "unpack", "type", "dead"}
Consumers == [stage : Stages, next : Nat \ {0}, new : Messages \cup {None}, object : Nat \ {0}]

At(r, stage) == consumers[r] # None /\ consumers[r].stage = stage
Goto(r, stage) == consumers' = [consumers EXCEPT ![r].stage = stage]
Await(r) == consumers' = [consumers EXCEPT ![r] = Waiting(consumers[r].next)]

\* consumer.receive, and the timer restarted
Receive(r) ==
  /\ At(r, "receive") /\ consumers[r].next <= Len(sent)
  /\ consumers' = [consumers EXCEPT ![r].stage = "club", ![r].next = @ + 1,
                                    ![r].new = sent[consumers[r].next]]
  /\ idle' = 0
  /\ UNCHANGED <<sent, result, current, clicked, servlet>>

\* A mutant: the club is left to the results that are unpacked.
KeepClub(r) ==
  /\ At(r, "club") /\ Goto(r, "decide")
  /\ UNCHANGED <<sent, idle, result, current, clicked, servlet>>

\* "Always update the club type."
UpdateClub(r) ==
  /\ At(r, "club") /\ Goto(r, "decide")
  /\ result' = [result EXCEPT ![current].club = NewResult(consumers[r].new).club]
  /\ clicked' = None
  /\ UNCHANGED <<sent, idle, current, servlet>>

Decide(r) ==
  /\ At(r, "decide")
  /\ IF Replaces(NewResult(consumers[r].new), result[current])
       THEN Goto(r, "unpack")
       ELSE Await(r)
  /\ UNCHANGED <<sent, idle, result, current, clicked, servlet>>

\* The message is unpacked once more, into the object that is the page's now: field by
\* field, the measurements first, club and type after.
UnpackShot(r) ==
  /\ At(r, "unpack")
  /\ consumers' = [consumers EXCEPT ![r].stage = "type", ![r].object = current]
  /\ result' = [result EXCEPT ![current].shot = Unpacked(result[current], consumers[r].new).shot]
  /\ UNCHANGED <<sent, idle, current, clicked, servlet>>

UnpackType(r) ==
  /\ At(r, "type") /\ Await(r)
  /\ LET object == consumers[r].object
         new == consumers[r].new
     IN  /\ result' = [result EXCEPT ![object] =
                         [Unpacked(result[object], new) EXCEPT !.shot = result[object].shot]]
         /\ clicked' = IF object = current /\ new.fields > 1 THEN None ELSE clicked
  /\ UNCHANGED <<sent, idle, current, servlet>>

\* Any other exception ends the thread; the flag that it was created stays.
ConsumerFails(r) ==
  /\ At(r, "receive") /\ Goto(r, "dead")
  /\ UNCHANGED <<sent, idle, result, current, clicked, servlet>>

Next ==
  \/ \E m \in Results : Send(m)
  \/ \E c \in Buttons : SetCurrentClubType(c)
  \/ \E r \in Requests :
       \/ Get(r) \/ CreateConsumer(r) \/ SetCreated(r) \/ Count(r) \/ Reset(r)
       \/ Receive(r) \/ UpdateClub(r) \/ Decide(r) \/ UnpackShot(r) \/ UnpackType(r)
       \/ ConsumerFails(r)

Spec == Init /\ [][Next]_vars

-----------------------------------------------------------------------------
\* What one consumer alone makes of a result.
Shown(old, m) ==
  LET withClub == [old EXCEPT !.club = NewResult(m).club]
  IN  IF Replaces(NewResult(m), withClub) THEN Unpacked(withClub, m) ELSE withClub

\* What it makes of the results it gets one after another, from a fresh page.
ShownAfter(messages) == FoldLeft(Shown, Fresh, messages)

Quiet ==
  \A r \in Requests :
    consumers[r] # None => At(r, "receive") /\ consumers[r].next = Len(sent) + 1

Alone == \A r, s \in Requests : (consumers[r] # None /\ consumers[s] # None) => r = s

\* Once every message is worked off, what a page would show is what they amount to since
\* some reset, however requests, clicks, resets and unpacking interleave: no measurements
\* are mixed with the type of another result, unless a result cannot be unpacked to its
\* end; and the club is the last one reported, or one that was clicked after that.  (Two
\* first requests at once may each start a consumer; then it need not.)
SettledPageIsRight ==
  (Quiet /\ Alone) =>
    \E k \in 0..Len(sent) :
      /\ current = 1 => k = 0
      /\ result[current] = [ShownAfter(SubSeq(sent, k + 1, Len(sent))) EXCEPT
                              !.club = IF clicked = None THEN @ ELSE clicked]
=============================================================================
