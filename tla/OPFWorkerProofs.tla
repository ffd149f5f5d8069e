--------------------------- MODULE OPFWorkerProofs ---------------------------
(***************************************************************************)
(* What the protocol between client and worker guarantees for any number   *)
(* of callers and calls: type correctness, every call reads its own        *)
(* answer, and no process is left behind.                                  *)
(*                                                                         *)
(* The argument: a process that lives has at most one request or answer    *)
(* in its pipes, that of the thread which holds the lock, because every    *)
(* thread that stops waiting for an answer has killed the process.         *)
(***************************************************************************)
EXTENDS OPFWorker, SequenceTheorems, TLAPS

\* Which labels each thread uses; a caller under way has begun a call.
PhasesFit ==
  /\ pc[Booter] \in {"idle", "awaiting", "published", "forgetting", "over"}
  /\ \A t \in Callers : 
       pc[t] \in {"idle", "polling", "waiting", "sending", "reading", "forgetting"}
  /\ \A t \in Callers : pc[t] # "idle" => calls[t] \in 1 .. MaxCalls
  /\ pc[Stopper] \in {"idle", "waiting", "joining", "forgetting", "over"}

\* The lock is with the thread that is within its critical section.
LockHeld ==
  /\ \A t \in Callers : lock = t <=> pc[t] \in {"sending", "reading", "forgetting"}
  /\ lock = Stopper <=> pc[Stopper] \in {"joining", "forgetting"}

\* What is being forgotten, and what was forgotten, is dead.
ForgottenIsDead ==
  /\ \A t \in Threads : pc[t] = "forgetting" => process = "gone"
  /\ ~handle => ~Alive
  /\ pc[Stopper] = "over" => ~Alive
  /\ pc[Booter] = "idle" <=> process = "none"

\* Nobody uses the client before start() has returned.
Private ==
  ~Published =>
    /\ \A t \in Callers : pc[t] = "idle"
    /\ pc[Stopper] = "idle" /\ stdin = <<>> /\ process # "busy"

\* start() finds in the pipe what the worker says while it loads.
Booting ==
  /\ pc[Booter] = "idle" => stdout = <<>>
  /\ pc[Booter] = "awaiting" =>
       /\ process = "starting" => stdout = <<>>
       /\ process = "loading" => stdout \in {<<>>, <<Event("loading")>>}
       /\ process = "idle" => stdout \in {<<Event("loading"), Event("ready")>>, <<Event("ready")>>}
       /\ process = "gone" =>
            stdout \in {<<>>, <<Event("loading")>>, <<Event("loading"), Event("ready")>>,
                        <<Event("ready")>>, <<Event("loading"), Event("error")>>, <<Event("error")>>}

\* What the pipes hold once the client is known, while the process lives: no
\* message when the lock is free, ...
Quiet ==
  Published /\ Alive /\ lock = NoOne => process = "idle" /\ stdin = <<>> /\ stdout = <<>>

\* ... none while a caller writes its request, ...
Writing ==
  \A t \in Callers : pc[t] = "sending" /\ Alive =>
    process = "idle" /\ stdin = <<>> /\ stdout = <<>>

\* ... one request or one answer when a caller reads, ...
Asking ==
  \A t \in Callers : pc[t] = "reading" =>
    \/ process \in {"idle", "gone"} /\ stdin = <<Detect(Asked(t))>> /\ stdout = <<>>
    \/ process = "busy" /\ current = Asked(t) /\ stdin = <<>> /\ stdout = <<>>
    \/ process = "gone" /\ stdin = <<>> /\ stdout = <<>>
    \/ /\ process \in {"idle", "gone"} /\ stdin = <<>>
       /\ stdout = <<Event("error")>> \/ stdout = <<Spans(Asked(t))>>

\* ... and the shutdown when it is being stopped.
Stopping ==
  pc[Stopper] = "joining" => process = "gone" \/ (process = "idle" /\ stdin = <<Shutdown>>)

\* A worker works on the text of the caller that reads.
Working ==
  /\ process = "busy" => Published /\ \E t \in Callers : pc[t] = "reading" /\ current = Asked(t)
  /\ process # "busy" => current = NoText

IInv ==
  /\ TypeOK /\ PhasesFit /\ LockHeld /\ ForgottenIsDead /\ Private
  /\ Booting /\ Quiet /\ Writing /\ Asking /\ Stopping /\ Working /\ AnswersMatch

----------------------------------------------------------------------------
(* Messages and pipes *)

\* What is put into an empty pipe, or one with a message, and taken from it.
LEMMA Pipes ==
  /\ \A x : Append(<<>>, x) = <<x>> /\ Head(<<x>>) = x /\ Tail(<<x>>) = <<>> /\ <<x>> # <<>>
  /\ \A x, y : /\ Append(<<x>>, y) = <<x, y>> /\ <<x, y>> # <<>>
               /\ Head(<<x, y>>) = x /\ Tail(<<x, y>>) = <<y>>
  <1>1. ASSUME NEW x
        PROVE  Append(<<>>, x) = <<x>> /\ Head(<<x>>) = x /\ Tail(<<x>>) = <<>> /\ <<x>> # <<>>
    OBVIOUS
  <1>2. ASSUME NEW x, NEW y PROVE Append(<<x>>, y) = <<x, y>>
    <2>1. <<x>> \in Seq({x, y}) /\ <<x, y>> \in Seq({x, y}) /\ Len(<<x>>) = 1 /\ Len(<<x, y>>) = 2
      OBVIOUS
    <2>2. /\ Append(<<x>>, y) \in Seq({x, y}) /\ Len(Append(<<x>>, y)) = 2
          /\ Append(<<x>>, y)[1] = <<x>>[1] /\ Append(<<x>>, y)[2] = y
      BY <2>1, AppendProperties
    <2>3. \A i \in 1 .. 2 : Append(<<x>>, y)[i] = <<x, y>>[i]
      BY <2>2
    <2> QED
      BY <2>1, <2>2, <2>3, SeqEqual
  <1>3. ASSUME NEW x, NEW y PROVE Head(<<x, y>>) = x
    OBVIOUS
  <1>4. ASSUME NEW x, NEW y PROVE Tail(<<x, y>>) = <<y>> /\ <<x, y>> # <<>>
    OBVIOUS
  <1> QED
    BY <1>1, <1>2, <1>3, <1>4

\* A pipe's type, with one message more.
LEMMA Appended ==
  ASSUME NEW S, NEW x \in S
  PROVE  <<x>> \in Seq(S) /\ <<>> \in Seq(S) /\ \A q \in Seq(S) : Append(q, x) \in Seq(S)
  OBVIOUS

\* The fields of the messages.
LEMMA Messages ==
  /\ \A x : Detect(x).action = "detect" /\ Detect(x).text = x
  /\ \A x : Spans(x).event = "spans" /\ Spans(x).text = x
  /\ \A e : Event(e).event = e /\ Event(e).text = NoText
  /\ Shutdown.action = "shutdown"
  BY DEF Detect, Spans, Event, Shutdown

\* What the two sides may send.
LEMMA MessageTypes ==
  /\ \A x \in Texts : Detect(x) \in Commands /\ Spans(x) \in Answers
  /\ Shutdown \in Commands
  /\ \A e \in {"loading", "ready", "error", "bye"} : Event(e) \in Answers
  BY DEF Commands, Answers

----------------------------------------------------------------------------
(* The steps of the worker process: one step per part of the invariant *)

LEMMA AnnounceKeeps ==
  ASSUME IInv, Announce
  PROVE  IInv'
  <1>1. TypeOK'
    BY ActorsDistinct, MessageTypes DEF IInv, Announce, Phases, TypeOK
  <1>2. ForgottenIsDead'
    BY DEF IInv, Announce, Alive, ForgottenIsDead
  <1>3. Private'
    BY DEF IInv, Announce, Published, Private
  <1>4. Booting'
    <2>1. /\ process = "starting" /\ process' = "loading" /\ pc' = pc
          /\ stdout' = Append(stdout, Event("loading"))
      BY DEF Announce
    <2>2. pc[Booter] # "idle"
      BY <2>1 DEF IInv, ForgottenIsDead
    <2>3. ASSUME pc[Booter] = "awaiting" PROVE stdout' = <<Event("loading")>>
      BY <2>1, <2>3, Pipes DEF IInv, Booting
    <2> QED
      BY <2>1, <2>2, <2>3 DEF Booting
  <1>5. Quiet'
    BY DEF IInv, Announce, Alive, Published, Quiet
  <1>6. Asking'
    BY DEF IInv, Announce, Asking
  <1>7. Stopping'
    BY DEF IInv, Announce, Stopping
  <1>8. Working'
    BY DEF IInv, Announce, Working
  <1>9. PhasesFit' /\ LockHeld' /\ AnswersMatch'
    BY ActorsDistinct DEF IInv, Announce, processVars, PhasesFit, LockHeld, AnswersMatch, Asked
  <1>10. Writing'
    BY DEF IInv, Announce, Alive, Writing
  <1> QED
    BY <1>1, <1>2, <1>3, <1>4, <1>5, <1>6, <1>7, <1>8, <1>9, <1>10 DEF IInv

LEMMA LoadKeeps ==
  ASSUME IInv, Load
  PROVE  IInv'
  <1>1. TypeOK'
    BY ActorsDistinct, MessageTypes DEF IInv, Load, Phases, TypeOK
  <1>2. ForgottenIsDead'
    BY DEF IInv, Load, Alive, ForgottenIsDead
  <1>3. Private'
    BY DEF IInv, Load, Published, Private
  <1>4. Booting'
    <2>1. stdout' = Append(stdout, Event("ready")) /\ process' = "idle" /\ pc' = pc
      BY DEF Load
    <2>2. CASE pc[Booter] = "awaiting"
      <3>1. stdout = <<>> \/ stdout = <<Event("loading")>>
        BY <2>2 DEF IInv, Booting, Load
      <3>2. Append(<<>>, Event("ready")) = <<Event("ready")>>
        BY Pipes
      <3>3. Append(<<Event("loading")>>, Event("ready")) = <<Event("loading"), Event("ready")>>
        BY Pipes
      <3> QED
        BY <2>1, <2>2, <3>1, <3>2, <3>3 DEF Booting
    <2> QED
      BY <2>1, <2>2 DEF IInv, Booting, ForgottenIsDead, Load
  <1>5. Quiet'
    BY DEF IInv, Load, Alive, Published, Quiet
  <1>6. Asking'
    BY DEF IInv, Load, Asking
  <1>7. Stopping'
    BY DEF IInv, Load, Stopping
  <1>8. Working'
    BY DEF IInv, Load, Working
  <1>9. PhasesFit' /\ LockHeld' /\ AnswersMatch'
    BY ActorsDistinct DEF IInv, Load, processVars, PhasesFit, LockHeld, AnswersMatch, Asked
  <1>10. Writing'
    BY DEF IInv, Load, Alive, Writing
  <1> QED
    BY <1>1, <1>2, <1>3, <1>4, <1>5, <1>6, <1>7, <1>8, <1>9, <1>10 DEF IInv

LEMMA LoadFailsKeeps ==
  ASSUME IInv, LoadFails
  PROVE  IInv'
  <1>1. TypeOK'
    BY ActorsDistinct, RoomsAreNumbers, MessageTypes DEF IInv, LoadFails, Phases, TypeOK
  <1>2. ForgottenIsDead'
    BY DEF IInv, LoadFails, Alive, ForgottenIsDead
  <1>3. Private'
    BY DEF IInv, LoadFails, Published, Private
  <1>4. Booting'
    <2>1. stdout' = Append(stdout, Event("error")) /\ process' = "gone" /\ pc' = pc
      BY DEF LoadFails
    <2>2. CASE pc[Booter] = "awaiting"
      <3>1. stdout = <<>> \/ stdout = <<Event("loading")>>
        BY <2>2 DEF IInv, Booting, LoadFails
      <3>2. Append(<<>>, Event("error")) = <<Event("error")>>
        BY Pipes
      <3>3. Append(<<Event("loading")>>, Event("error")) = <<Event("loading"), Event("error")>>
        BY Pipes
      <3> QED
        BY <2>1, <2>2, <3>1, <3>2, <3>3 DEF Booting
    <2> QED
      BY <2>1, <2>2 DEF IInv, Booting, ForgottenIsDead, LoadFails
  <1>5. Quiet'
    BY DEF IInv, LoadFails, Alive, Quiet
  <1>6. Asking'
    BY DEF IInv, LoadFails, Asking
  <1>7. Stopping'
    BY DEF IInv, LoadFails, Stopping
  <1>8. Working'
    BY DEF IInv, LoadFails, Working
  <1>9. PhasesFit' /\ LockHeld' /\ AnswersMatch'
    BY ActorsDistinct DEF IInv, LoadFails, processVars, PhasesFit, LockHeld, AnswersMatch, Asked
  <1>10. Writing'
    BY DEF IInv, LoadFails, Alive, Writing
  <1> QED
    BY <1>1, <1>2, <1>3, <1>4, <1>5, <1>6, <1>7, <1>8, <1>9, <1>10 DEF IInv

\* What it takes is the shutdown, or the request of the caller that reads.
LEMMA TakeKeeps ==
  ASSUME IInv, Take
  PROVE  IInv'
  <1>1. \/ /\ stdin = <<Shutdown>> /\ pc[Stopper] = "joining" /\ lock = Stopper
        \/ \E t \in Callers : /\ stdin = <<Detect(Asked(t))>> /\ stdout = <<>> /\ Asked(t) \in Texts
                              /\ pc[t] = "reading" /\ lock = t
    <2>1. Published /\ lock \in {Stopper} \cup Callers /\ process = "idle" /\ stdin # <<>>
      BY DEF IInv, Take, TypeOK, Private, Quiet, Alive
    <2>2. CASE lock = Stopper
      BY <2>1, <2>2 DEF IInv, LockHeld, ForgottenIsDead, Stopping, Threads
    <2>3. ASSUME NEW t \in Callers, lock = t
          PROVE  stdin = <<Detect(Asked(t))>> /\ stdout = <<>> /\ Asked(t) \in Texts /\ pc[t] = "reading"
      BY <2>1, <2>3
        DEF IInv, PhasesFit, LockHeld, ForgottenIsDead, Alive, Writing, Asking, Threads, Asked, Texts
    <2> QED
      BY <2>1, <2>2, <2>3
  <1>2. \/ /\ process' = "gone" /\ current' = current /\ stdout' = Append(stdout, Event("bye"))
           /\ pc[Stopper] = "joining" /\ lock = Stopper
        \/ \E t \in Callers : /\ process' = "busy" /\ current' = Asked(t) /\ stdout' = <<>>
                              /\ Asked(t) \in Texts /\ pc[t] = "reading" /\ lock = t
    BY <1>1, Pipes, Messages DEF Take
  <1>3. process = "idle" /\ Published /\ stdin' = <<>> /\ pc' = pc /\ calls' = calls /\ lock' = lock
    BY <1>1, Pipes DEF IInv, Take, Private
  <1>4. TypeOK'
    <2>1. process' \in Phases /\ current' \in Texts \cup {NoText}
      BY <1>2 DEF IInv, TypeOK, Phases
    <2>2. stdout' \in Seq(Answers)
      <3>1. Event("bye") \in Answers /\ stdout \in Seq(Answers)
        BY MessageTypes DEF IInv, TypeOK
      <3>2. Append(stdout, Event("bye")) \in Seq(Answers) /\ <<>> \in Seq(Answers)
        BY <3>1, Appended
      <3> QED
        BY <1>2, <3>2
    <2>3. stdin' \in Seq(Commands)
      BY <1>3
    <2> QED
      BY <2>1, <2>2, <2>3 DEF IInv, TypeOK, Take
  <1>5. ForgottenIsDead'
    BY DEF IInv, Take, Alive, ForgottenIsDead
  <1>6. Private'
    BY DEF IInv, Take, Published, Private
  <1>7. Booting'
    BY <1>3 DEF IInv, Published, Booting
  <1>8. Quiet'
    BY DEF IInv, Take, Alive, Published, Quiet
  <1>9. Asking'
    <2>1. ASSUME NEW t \in Callers, pc[t] = "reading"
          PROVE  process' = "busy" /\ current' = Asked(t) /\ stdin' = <<>> /\ stdout' = <<>>
      <3>1. lock = t
        BY <2>1 DEF IInv, LockHeld
      <3> QED
        BY <1>2, <1>3, <3>1, ActorsDistinct
    <2> QED
      BY <1>3, <2>1 DEF Asking, Asked
  <1>10. Stopping'
    <2>1. ASSUME pc[Stopper] = "joining" PROVE process' = "gone"
      <3>1. lock = Stopper
        BY <2>1 DEF IInv, LockHeld
      <3> QED
        BY <1>2, <3>1, ActorsDistinct
    <2> QED
      BY <1>3, <2>1 DEF Stopping
  <1>11. Working'
    <2>1. CASE process' = "gone"
      BY <1>2, <1>3, <2>1 DEF IInv, Working
    <2>2. CASE process' = "busy"
      <3>1. PICK t \in Callers : current' = Asked(t) /\ pc[t] = "reading"
        BY <1>2, <2>2
      <3> QED
        BY <1>3, <2>2, <3>1 DEF Working, Published, Asked
    <2> QED
      BY <1>2, <2>1, <2>2
  <1>12. PhasesFit' /\ LockHeld' /\ AnswersMatch'
    BY ActorsDistinct DEF IInv, Take, processVars, PhasesFit, LockHeld, AnswersMatch, Asked
  <1>13. Writing'
    BY DEF IInv, Take, Alive, Writing
  <1> QED
    BY <1>4, <1>5, <1>6, <1>7, <1>8, <1>9, <1>10, <1>11, <1>12, <1>13 DEF IInv

\* It answers the caller that reads, in an empty pipe.
LEMMA AnswerKeeps ==
  ASSUME IInv, Answer
  PROVE  IInv'
  <1>1. \E t \in Callers : /\ pc[t] = "reading" /\ current = Asked(t) /\ Asked(t) \in Texts /\ lock = t
                          /\ stdin = <<>> /\ stdout = <<>>
    BY NoTextIsNone, ActorsDistinct
      DEF IInv, Answer, TypeOK, PhasesFit, LockHeld, Asking, Working, Asked, Texts
  <1>2. TypeOK'
    BY ActorsDistinct, MessageTypes
      DEF IInv, Answer, PhasesFit, Working, Asked, Phases, TypeOK, Texts
  <1>3. ForgottenIsDead'
    BY DEF IInv, Answer, Alive, ForgottenIsDead
  <1>4. Private'
    BY DEF IInv, Answer, Published, Private
  <1>5. Booting'
    BY DEF IInv, Answer, Private, Published, Booting
  <1>6. Quiet'
    BY DEF IInv, Answer, Alive, Published, Quiet
  <1>7. Asking'
    BY <1>1 DEF IInv, Answer, Asked, Asking
  <1>8. Stopping'
    BY DEF IInv, Answer, Stopping
  <1>9. Working'
    BY DEF IInv, Answer, Working
  <1>10. PhasesFit' /\ LockHeld' /\ AnswersMatch'
    BY ActorsDistinct DEF IInv, Answer, processVars, PhasesFit, LockHeld, AnswersMatch, Asked
  <1>11. Writing'
    BY DEF IInv, Answer, Alive, Writing
  <1> QED
    BY <1>2, <1>3, <1>4, <1>5, <1>6, <1>7, <1>8, <1>9, <1>10, <1>11 DEF IInv

LEMMA DetectFailsKeeps ==
  ASSUME IInv, DetectFails
  PROVE  IInv'
  <1>1. TypeOK'
    BY ActorsDistinct, RoomsAreNumbers, MessageTypes DEF IInv, DetectFails, Phases, TypeOK
  <1>2. ForgottenIsDead'
    BY DEF IInv, DetectFails, Alive, ForgottenIsDead
  <1>3. Private'
    BY DEF IInv, DetectFails, Published, Private
  <1>4. Booting'
    BY DEF IInv, DetectFails, Private, Published, Booting
  <1>5. Quiet'
    BY DEF IInv, DetectFails, Alive, Published, Quiet
  <1>6. Asking'
    <2>1. ASSUME NEW t \in Callers, pc[t] = "reading"
          PROVE  stdin = <<>> /\ stdout' = <<Event("error")>> /\ process' = "idle"
      <3>1. stdin = <<>> /\ stdout = <<>>
        BY <2>1 DEF IInv, Asking, DetectFails
      <3> QED
        BY <3>1, Pipes DEF DetectFails
    <2> QED
      BY <2>1 DEF DetectFails, Asking, Asked
  <1>7. Stopping'
    BY DEF IInv, DetectFails, Stopping
  <1>8. Working'
    BY DEF IInv, DetectFails, Working
  <1>9. PhasesFit' /\ LockHeld' /\ AnswersMatch'
    BY ActorsDistinct DEF IInv, DetectFails, processVars, PhasesFit, LockHeld, AnswersMatch, Asked
  <1>10. Writing'
    BY DEF IInv, DetectFails, Alive, Writing
  <1> QED
    BY <1>1, <1>2, <1>3, <1>4, <1>5, <1>6, <1>7, <1>8, <1>9, <1>10 DEF IInv

LEMMA CrashKeeps ==
  ASSUME IInv, Crash
  PROVE  IInv'
  <1>1. TypeOK'
    BY DEF IInv, Crash, Phases, TypeOK
  <1>2. ForgottenIsDead'
    BY DEF IInv, Crash, Alive, ForgottenIsDead
  <1>3. Private'
    BY DEF IInv, Crash, Published, Private
  <1>4. Booting'
    BY DEF IInv, Crash, TypeOK, Private, Alive, Published, Phases, Booting
  <1>5. Quiet'
    BY DEF IInv, Crash, Alive, Quiet
  <1>6. Asking'
    BY DEF IInv, Crash, Asked, Asking
  <1>7. Stopping'
    BY DEF IInv, Crash, Stopping
  <1>8. Working'
    BY DEF IInv, Crash, Working
  <1>9. PhasesFit' /\ LockHeld' /\ AnswersMatch'
    BY ActorsDistinct DEF IInv, Crash, processVars, PhasesFit, LockHeld, AnswersMatch, Asked
  <1>10. Writing'
    BY DEF IInv, Crash, Alive, Writing
  <1> QED
    BY <1>1, <1>2, <1>3, <1>4, <1>5, <1>6, <1>7, <1>8, <1>9, <1>10 DEF IInv

LEMMA HangKeeps ==
  ASSUME IInv, Hang
  PROVE  IInv'
  <1>1. TypeOK'
    BY DEF IInv, Hang, TypeOK
  <1>2. PhasesFit' /\ LockHeld' /\ ForgottenIsDead' /\ Private' /\ Booting'
    BY DEF IInv, Hang, PhasesFit, LockHeld, ForgottenIsDead, Private, Booting, Alive, Published
  <1>3. Quiet' /\ Writing' /\ Asking' /\ Stopping'
    BY DEF IInv, Hang, Quiet, Writing, Asking, Stopping, Alive, Published, Asked
  <1>4. Working' /\ AnswersMatch'
    BY DEF IInv, Hang, Working, AnswersMatch, Published, Asked
  <1> QED
    BY <1>1, <1>2, <1>3, <1>4 DEF IInv

----------------------------------------------------------------------------
(* The steps of start(), detect() and stop() *)

LEMMA StartKeeps ==
  ASSUME IInv, Start
  PROVE  IInv'
  <1>1. TypeOK'
    BY ActorsDistinct DEF IInv, Start, Threads, Phases, TypeOK, Labels
  <1>2. PhasesFit'
    BY ActorsDistinct DEF IInv, Start, PhasesFit
  <1>3. LockHeld'
    BY DEF IInv, Start, LockHeld
  <1>4. ForgottenIsDead'
    BY DEF IInv, Start, TypeOK, Private, Threads, Published, ForgottenIsDead
  <1>5. Private'
    BY ActorsDistinct DEF IInv, Start, Published, Private
  <1>6. Booting'
    BY DEF IInv, Start, Booting
  <1>7. Quiet'
    BY DEF IInv, Start, Published, Quiet
  <1>8. Asking'
    BY DEF IInv, Start, Private, Published, Asking
  <1>9. Stopping'
    BY DEF IInv, Start, Private, Published, Stopping
  <1>10. Working'
    BY DEF IInv, Start, Published, Working
  <1>11. AnswersMatch'
    BY ActorsDistinct DEF IInv, Start, processVars, AnswersMatch, Asked
  <1>12. Writing'
    BY DEF IInv, Start, TypeOK, Threads, Private, Published, Writing
  <1> QED
    BY <1>1, <1>2, <1>3, <1>4, <1>5, <1>6, <1>7, <1>8, <1>9, <1>10, <1>11, <1>12 DEF IInv

LEMMA ReadEventKeeps ==
  ASSUME IInv, ReadEvent
  PROVE  IInv'
  <1>1. TypeOK'
    BY ActorsDistinct DEF IInv, ReadEvent, Killed, processVars, Threads, Phases, TypeOK, Labels
  <1>2. PhasesFit'
    BY ActorsDistinct DEF IInv, ReadEvent, Killed, processVars, TypeOK, Threads, PhasesFit
  <1>3. LockHeld'
    BY DEF IInv, ReadEvent, TypeOK, PhasesFit, Threads, LockHeld
  <1>4. ForgottenIsDead'
    BY DEF IInv, ReadEvent, Killed, processVars, TypeOK, Threads, Alive, ForgottenIsDead
  <1>5. Private'
    BY DEF IInv, ReadEvent, Killed, processVars, TypeOK, Threads, Published, Private
  <1>6. Booting'
    <2>1. CASE pc'[Booter] # "awaiting"
      BY <2>1 DEF IInv, TypeOK, Booting, ReadEvent, Threads
    <2>2. CASE pc'[Booter] = "awaiting"
      <3>1. Head(stdout).event = "loading" /\ process' = process /\ pc' = pc
        BY <2>2 DEF IInv, TypeOK, ReadEvent, Threads, processVars
      <3>2. stdout' = Tail(stdout) /\ stdout # <<>> /\ pc[Booter] = "awaiting"
        BY DEF ReadEvent
      <3>3. /\ Head(<<Event("ready")>>).event = "ready" /\ Head(<<Event("error")>>).event = "error"
            /\ Tail(<<Event("loading")>>) = <<>>
            /\ Tail(<<Event("loading"), Event("ready")>>) = <<Event("ready")>>
            /\ Tail(<<Event("loading"), Event("error")>>) = <<Event("error")>>
        BY Pipes, Messages
      <3> QED
        BY <2>2, <3>1, <3>2, <3>3 DEF IInv, Booting
    <2> QED
      BY <2>1, <2>2
  <1>7. Quiet'
    BY ActorsDistinct, Messages
      DEF IInv, ReadEvent, processVars, TypeOK, Private, Booting, Alive, Published, Phases, Quiet
  <1>8. Asking'
    BY DEF IInv, ReadEvent, TypeOK, Private, Threads, Published, Asking
  <1>9. Stopping'
    BY DEF IInv, ReadEvent, Killed, processVars, TypeOK, Threads, Stopping
  <1>10. Working'
    BY DEF IInv, ReadEvent, Killed, processVars, Published, Working
  <1>11. AnswersMatch'
    BY ActorsDistinct DEF IInv, ReadEvent, AnswersMatch, Asked
  <1>12. Writing'
    BY DEF IInv, ReadEvent, TypeOK, Threads, Private, Published, Writing
  <1> QED
    BY <1>1, <1>2, <1>3, <1>4, <1>5, <1>6, <1>7, <1>8, <1>9, <1>10, <1>11, <1>12 DEF IInv

LEMMA BootTimesOutKeeps ==
  ASSUME IInv, BootTimesOut
  PROVE  IInv'
  <1>1. TypeOK'
    BY ActorsDistinct DEF IInv, BootTimesOut, Killed, Threads, Phases, TypeOK, Labels
  <1>2. PhasesFit'
    BY DEF IInv, BootTimesOut, PhasesFit
  <1>3. LockHeld'
    BY DEF IInv, BootTimesOut, PhasesFit, LockHeld
  <1>4. ForgottenIsDead'
    BY DEF IInv, BootTimesOut, Killed, Alive, ForgottenIsDead
  <1>5. Private'
    BY DEF IInv, BootTimesOut, Killed, Published, Private
  <1>6. Booting'
    BY DEF IInv, BootTimesOut, TypeOK, Threads, Booting
  <1>7. Quiet'
    BY DEF IInv, BootTimesOut, Published, Quiet
  <1>8. Asking'
    BY DEF IInv, BootTimesOut, Private, Published, Asking
  <1>9. Stopping'
    BY DEF IInv, BootTimesOut, Killed, Stopping
  <1>10. Working'
    BY DEF IInv, BootTimesOut, Killed, Working
  <1>11. AnswersMatch'
    BY ActorsDistinct DEF IInv, BootTimesOut, AnswersMatch, Asked
  <1>12. Writing'
    BY DEF IInv, BootTimesOut, Killed, Alive, Writing
  <1> QED
    BY <1>1, <1>2, <1>3, <1>4, <1>5, <1>6, <1>7, <1>8, <1>9, <1>10, <1>11, <1>12 DEF IInv

LEMMA BeginKeeps ==
  ASSUME IInv, NEW t \in Callers, Begin(t)
  PROVE  IInv'
  <1>1. TypeOK'
    BY ActorsDistinct, RoomsAreNumbers DEF IInv, Begin, processVars, Threads, TypeOK, Labels
  <1>2. PhasesFit'
    BY ActorsDistinct, NoTextIsNone, RoomsAreNumbers DEF IInv, Begin, TypeOK, PhasesFit
  <1>3. LockHeld'
    BY DEF IInv, Begin, LockHeld
  <1>4. ForgottenIsDead'
    BY DEF IInv, Begin, processVars, Alive, Published, ForgottenIsDead
  <1>5. Private'
    BY DEF IInv, Begin, Published, Private
  <1>6. Asking'
    BY DEF IInv, Begin, processVars, Asked, Asking
  <1>7. Working'
    BY DEF IInv, Begin, processVars, Published, Asked, Working
  <1>8. AnswersMatch'
    BY DEF IInv, Begin, TypeOK, Asked, AnswersMatch
  <1>9. Booting' /\ Quiet' /\ Stopping'
    BY ActorsDistinct DEF IInv, Begin, processVars, Booting, Quiet, Stopping, Alive
  <1>10. Writing'
    BY DEF IInv, Begin, processVars, TypeOK, Threads, Alive, Writing
  <1> QED
    BY <1>1, <1>2, <1>3, <1>4, <1>5, <1>6, <1>7, <1>8, <1>9, <1>10 DEF IInv

LEMMA PollKeeps ==
  ASSUME IInv, NEW t \in Callers, Poll(t)
  PROVE  IInv'
  <1>1. TypeOK'
    BY ActorsDistinct DEF IInv, Poll, processVars, Threads, TypeOK, Labels
  <1>2. PhasesFit'
    BY DEF IInv, Poll, PhasesFit
  <1>3. LockHeld'
    BY DEF IInv, Poll, LockHeld
  <1>4. ForgottenIsDead'
    BY DEF IInv, Poll, processVars, PhasesFit, Alive, ForgottenIsDead
  <1>5. Private'
    BY DEF IInv, Poll, Published, Private
  <1>6. Asking'
    BY DEF IInv, Poll, processVars, Asked, Asking
  <1>7. Working'
    BY DEF IInv, Poll, processVars, Published, Asked, Working
  <1>8. Booting' /\ Quiet' /\ Stopping' /\ AnswersMatch'
    BY ActorsDistinct
      DEF IInv, Poll, processVars, Booting, Quiet, Stopping, AnswersMatch, Alive, Published, Asked
  <1>9. Writing'
    BY DEF IInv, Poll, processVars, TypeOK, Threads, Alive, Writing
  <1> QED
    BY <1>1, <1>2, <1>3, <1>4, <1>5, <1>6, <1>7, <1>8, <1>9 DEF IInv

\* The lock was free, so the pipes of a living worker are empty.
LEMMA SendKeeps ==
  ASSUME IInv, NEW t \in Callers, Send(t)
  PROVE  IInv'
  <1>1. Published /\ lock = NoOne
    BY DEF IInv, Send, Private
  <1>2. TypeOK'
    BY DEF IInv, Send, processVars, TypeOK, Threads, Labels
  <1>3. PhasesFit'
    BY ActorsDistinct DEF IInv, Send, TypeOK, Threads, PhasesFit
  <1>4. LockHeld'
    BY ActorsDistinct DEF IInv, Send, TypeOK, Threads, LockHeld
  <1>5. ForgottenIsDead'
    BY ActorsDistinct DEF IInv, Send, processVars, TypeOK, Threads, Alive, ForgottenIsDead
  <1>6. Private'
    BY <1>1, ActorsDistinct DEF IInv, Send, TypeOK, Threads, Published, Private
  <1>7. Quiet'
    BY ActorsDistinct
      DEF IInv, Send, processVars, TypeOK, ForgottenIsDead, Threads, Alive, Published, Quiet
  <1>8. Writing'
    BY <1>1 DEF IInv, Send, processVars, TypeOK, Threads, Alive, Quiet, LockHeld, Writing
  <1>9. Asking' /\ Stopping'
    BY DEF IInv, Send, processVars, TypeOK, Threads, Asked, Asking, Stopping
  <1>10. Working'
    BY DEF IInv, Send, processVars, TypeOK, Threads, Published, Asked, Working
  <1>11. Booting' /\ AnswersMatch'
    BY ActorsDistinct DEF IInv, Send, processVars, Booting, AnswersMatch, TypeOK, Threads, Asked
  <1> QED
    BY <1>2, <1>3, <1>4, <1>5, <1>6, <1>7, <1>8, <1>9, <1>10, <1>11 DEF IInv

\* The request is the only message in the pipes.
LEMMA SentKeeps ==
  ASSUME IInv, NEW t \in Callers, pc[t] = "sending", Alive, Sent(t)
  PROVE  IInv'
  <1>1. process = "idle" /\ stdin = <<>> /\ stdout = <<>> /\ Published /\ lock = t
    BY DEF IInv, Writing, Private, LockHeld
  <1>2. stdin' = <<Detect(Asked(t))>> /\ pc' = [pc EXCEPT ![t] = "reading"] /\ lock' = lock
    BY <1>1, Pipes DEF Sent
  <1>3. Asked(t) \in Texts
    BY DEF IInv, PhasesFit, Asked, Texts
  <1>4. TypeOK'
    <2>1. stdin' \in Seq(Commands)
      <3>1. Detect(Asked(t)) \in Commands /\ stdin \in Seq(Commands)
        BY <1>3, MessageTypes DEF IInv, TypeOK
      <3>2. <<Detect(Asked(t))>> \in Seq(Commands)
        BY <3>1, Appended
      <3> QED
        BY <1>2, <3>1, <3>2
    <2>2. lock' \in {NoOne, Stopper} \cup Callers /\ pc' \in [Threads -> Labels]
      BY <1>2 DEF IInv, TypeOK, Threads, Labels
    <2> QED
      BY <2>1, <2>2 DEF IInv, TypeOK, Labels, Sent, processVars
  <1>5. PhasesFit'
    BY ActorsDistinct, <1>2
      DEF IInv, Sent, TypeOK, LockHeld, ForgottenIsDead, Private, Threads, PhasesFit
  <1>6. LockHeld'
    BY ActorsDistinct DEF IInv, Sent, TypeOK, Threads, LockHeld
  <1>7. ForgottenIsDead'
    BY DEF IInv, Sent, processVars, TypeOK, PhasesFit, Threads, Alive, ForgottenIsDead
  <1>8. Private'
    BY DEF IInv, Sent, TypeOK, Threads, Published, Private
  <1>9. Quiet'
    BY <1>1, <1>2, ActorsDistinct DEF Quiet
  <1>10. Asking'
    BY ActorsDistinct, <1>1, <1>2, <1>3
      DEF IInv, Sent, processVars, TypeOK, PhasesFit, LockHeld, Threads, Alive, Asked, Asking
  <1>11. Stopping'
    BY <1>1, <1>2, ActorsDistinct DEF IInv, LockHeld, TypeOK, Threads, Stopping
  <1>12. Working'
    BY DEF IInv, Sent, processVars, TypeOK, Threads, Published, Asked, Working
  <1>13. Booting' /\ AnswersMatch'
    BY ActorsDistinct DEF IInv, Sent, processVars, Booting, AnswersMatch, TypeOK, Threads, Asked
  <1>14. Writing'
    BY <1>1, <1>2 DEF IInv, LockHeld, TypeOK, Threads, Writing
  <1> QED
    BY <1>4, <1>5, <1>6, <1>7, <1>8, <1>9, <1>10, <1>11, <1>12, <1>13, <1>14 DEF IInv

LEMMA WriteKeeps ==
  ASSUME IInv, NEW t \in Callers, Write(t) \/ Drain(t)
  PROVE  IInv'
  BY SentKeeps DEF Write, Drain, Alive

LEMMA WriteFailsKeeps ==
  ASSUME IInv, NEW t \in Callers, WriteFails(t)
  PROVE  IInv'
  <1>1. TypeOK'
    BY ActorsDistinct DEF IInv, WriteFails, Leave, processVars, Threads, TypeOK, Labels
  <1>2. PhasesFit'
    BY DEF IInv, WriteFails, PhasesFit
  <1>3. LockHeld'
    BY ActorsDistinct DEF IInv, WriteFails, Leave, TypeOK, Threads, LockHeld
  <1>4. ForgottenIsDead'
    BY DEF IInv, WriteFails, processVars, PhasesFit, Alive, ForgottenIsDead
  <1>5. Private'
    BY DEF IInv, WriteFails, processVars, Published, Private
  <1>6. Quiet' /\ Writing'
    BY DEF IInv, WriteFails, processVars, TypeOK, Threads, Alive, Quiet, Writing
  <1>7. Asking'
    BY DEF IInv, WriteFails, processVars, TypeOK, Threads, Asked, Asking
  <1>8. Working'
    BY DEF IInv, WriteFails, processVars, TypeOK, Threads, Published, Asked, Working
  <1>9. Booting' /\ Stopping' /\ AnswersMatch'
    BY ActorsDistinct DEF IInv, WriteFails, processVars, Booting, Stopping, AnswersMatch, Asked
  <1> QED
    BY <1>1, <1>2, <1>3, <1>4, <1>5, <1>6, <1>7, <1>8, <1>9 DEF IInv

\* The one answer in the pipe is to the caller that has the lock.
LEMMA ReadKeeps ==
  ASSUME IInv, NEW t \in Callers, Read(t)
  PROVE  IInv'
  <1>1. /\ process \in {"idle", "gone"} /\ stdin = <<>> /\ Published /\ lock = t
        /\ stdout = <<Event("error")>> \/ stdout = <<Spans(Asked(t))>>
    BY DEF IInv, Read, LockHeld, Private, Asking
  <1>2. Tail(stdout) = <<>> /\ Head(stdout).text \in {NoText, Asked(t)}
    <2>1. /\ Tail(<<Event("error")>>) = <<>> /\ Head(<<Event("error")>>) = Event("error")
          /\ Tail(<<Spans(Asked(t))>>) = <<>> /\ Head(<<Spans(Asked(t))>>) = Spans(Asked(t))
      BY Pipes
    <2>2. Event("error").text = NoText /\ Spans(Asked(t)).text = Asked(t)
      BY Messages
    <2>3. CASE stdout = <<Event("error")>>
      BY <2>1, <2>2, <2>3
    <2>4. CASE stdout = <<Spans(Asked(t))>>
      BY <2>1, <2>2, <2>4
    <2> QED
      BY <1>1, <2>3, <2>4
  <1>3. Asked(t) \in Texts
    BY DEF IInv, Read, PhasesFit, Asked, Texts
  <1>4. TypeOK'
    BY ActorsDistinct, <1>2
      DEF IInv, Read, Leave, processVars, PhasesFit, Threads, Asked, TypeOK, Texts, Labels
  <1>5. PhasesFit'
    BY DEF IInv, Read, PhasesFit
  <1>6. LockHeld'
    BY ActorsDistinct DEF IInv, Read, Leave, TypeOK, Threads, LockHeld
  <1>7. ForgottenIsDead'
    BY DEF IInv, Read, processVars, PhasesFit, Alive, ForgottenIsDead
  <1>8. Private'
    BY DEF IInv, Read, Published, Private
  <1>9. Booting'
    BY <1>1 DEF IInv, Read, Published, Booting
  <1>10. Quiet'
    BY <1>1 DEF IInv, Read, processVars, TypeOK, Alive, Quiet
  <1>11. Asking'
    BY DEF IInv, Read, TypeOK, LockHeld, Threads, Asking
  <1>12. Working'
    BY <1>1 DEF IInv, Read, processVars, Working
  <1>13. AnswersMatch'
    BY <1>2 DEF IInv, Read, Asked, AnswersMatch
  <1>14. Stopping'
    BY ActorsDistinct DEF IInv, Read, processVars, Stopping
  <1>15. Writing'
    BY DEF IInv, Read, processVars, TypeOK, LockHeld, Threads, Alive, Writing
  <1> QED
    BY <1>4, <1>5, <1>6, <1>7, <1>8, <1>9, <1>10, <1>11, <1>12, <1>13, <1>14, <1>15 DEF IInv

LEMMA ReadEOFKeeps ==
  ASSUME IInv, NEW t \in Callers, ReadEOF(t)
  PROVE  IInv'
  <1>1. TypeOK'
    BY ActorsDistinct DEF IInv, ReadEOF, Leave, processVars, Threads, TypeOK, Labels
  <1>2. PhasesFit'
    BY DEF IInv, ReadEOF, PhasesFit
  <1>3. LockHeld'
    BY ActorsDistinct DEF IInv, ReadEOF, Leave, TypeOK, Threads, LockHeld
  <1>4. ForgottenIsDead'
    BY DEF IInv, ReadEOF, processVars, PhasesFit, Alive, ForgottenIsDead
  <1>5. Private'
    BY DEF IInv, ReadEOF, Published, Private
  <1>6. Quiet'
    BY DEF IInv, ReadEOF, processVars, Alive, Quiet
  <1>7. Asking'
    BY DEF IInv, ReadEOF, TypeOK, LockHeld, Threads, Asking
  <1>8. Working'
    BY DEF IInv, ReadEOF, processVars, Working
  <1>9. Booting' /\ Stopping' /\ AnswersMatch'
    BY ActorsDistinct DEF IInv, ReadEOF, processVars, Booting, Stopping, AnswersMatch, Asked
  <1>10. Writing'
    BY DEF IInv, ReadEOF, processVars, TypeOK, Threads, Alive, Writing
  <1> QED
    BY <1>1, <1>2, <1>3, <1>4, <1>5, <1>6, <1>7, <1>8, <1>9, <1>10 DEF IInv

\* What is left in the pipes belongs to a dead process.
LEMMA TimeOutKeeps ==
  ASSUME IInv, NEW t \in Callers, TimeOut(t)
  PROVE  IInv'
  <1>1. TypeOK'
    BY ActorsDistinct DEF IInv, TimeOut, Killed, Threads, Phases, TypeOK, Labels
  <1>2. PhasesFit'
    BY DEF IInv, TimeOut, PhasesFit
  <1>3. LockHeld'
    BY DEF IInv, TimeOut, LockHeld
  <1>4. ForgottenIsDead'
    BY DEF IInv, TimeOut, Killed, Private, Alive, Published, ForgottenIsDead
  <1>5. Private'
    BY DEF IInv, TimeOut, Published, Private
  <1>6. Booting'
    BY DEF IInv, TimeOut, Private, Published, Booting
  <1>7. Quiet'
    BY DEF IInv, TimeOut, Killed, Alive, Quiet
  <1>8. Asking'
    BY DEF IInv, TimeOut, TypeOK, LockHeld, Threads, Asking
  <1>9. Stopping'
    BY DEF IInv, TimeOut, Killed, Stopping
  <1>10. Working'
    BY DEF IInv, TimeOut, Killed, Working
  <1>11. AnswersMatch'
    BY ActorsDistinct DEF IInv, TimeOut, AnswersMatch, Asked
  <1>12. Writing'
    BY DEF IInv, TimeOut, Killed, Alive, Writing
  <1> QED
    BY <1>1, <1>2, <1>3, <1>4, <1>5, <1>6, <1>7, <1>8, <1>9, <1>10, <1>11, <1>12 DEF IInv

LEMMA BeginStopKeeps ==
  ASSUME IInv, BeginStop
  PROVE  IInv'
  <1>1. TypeOK'
    BY ActorsDistinct DEF IInv, BeginStop, processVars, Threads, TypeOK, Labels
  <1>2. PhasesFit'
    BY ActorsDistinct DEF IInv, BeginStop, PhasesFit
  <1>3. LockHeld'
    BY DEF IInv, BeginStop, LockHeld
  <1>4. ForgottenIsDead'
    BY DEF IInv, BeginStop, processVars, Alive, Published, ForgottenIsDead
  <1>5. Private'
    BY DEF IInv, BeginStop, Published, Private
  <1>6. Stopping'
    BY DEF IInv, BeginStop, Stopping
  <1>7. Working'
    BY DEF IInv, BeginStop, processVars, Published, Asked, Working
  <1>8. Booting' /\ Quiet' /\ Asking' /\ AnswersMatch'
    BY ActorsDistinct
      DEF IInv, BeginStop, processVars, Booting, Quiet, Asking, AnswersMatch, Alive, Asked
  <1>9. Writing'
    BY ActorsDistinct DEF IInv, BeginStop, processVars, TypeOK, Threads, Alive, Writing
  <1> QED
    BY <1>1, <1>2, <1>3, <1>4, <1>5, <1>6, <1>7, <1>8, <1>9 DEF IInv

LEMMA SendShutdownKeeps ==
  ASSUME IInv, SendShutdown
  PROVE  IInv'
  <1>1. handle /\ Alive => /\ process = "idle" /\ stdin = <<>> /\ stdout = <<>> /\ Published
    BY DEF IInv, SendShutdown, Private, Quiet
  <1>2. /\ lock = NoOne
        /\ \/ UNCHANGED <<lock, stdin>> /\ pc' = [pc EXCEPT ![Stopper] = "over"] /\ ~handle
           \/ /\ lock' = Stopper /\ pc' = [pc EXCEPT ![Stopper] = "joining"]
              /\ process = "idle" /\ stdin' = <<Shutdown>>
           \/ lock' = Stopper /\ pc' = [pc EXCEPT ![Stopper] = "forgetting"] /\ stdin' = stdin /\ ~Alive
    BY <1>1, Pipes DEF SendShutdown
  <1>3. TypeOK'
    BY ActorsDistinct, MessageTypes
      DEF IInv, SendShutdown, processVars, Private, Quiet, Threads, TypeOK, Labels
  <1>4. PhasesFit'
    BY ActorsDistinct, <1>1 DEF IInv, SendShutdown, TypeOK, Threads, PhasesFit
  <1>5. LockHeld'
    BY ActorsDistinct DEF IInv, SendShutdown, TypeOK, Threads, LockHeld
  <1>6. ForgottenIsDead'
    BY DEF IInv, SendShutdown, processVars, TypeOK, Private, Threads, Alive, Published,
           ForgottenIsDead
  <1>7. Private'
    BY DEF IInv, SendShutdown, TypeOK, Threads, Published, Private
  <1>8. Quiet'
    BY ActorsDistinct DEF IInv, SendShutdown, processVars, TypeOK, Threads, Alive, Published, Quiet
  <1>9. Asking'
    BY <1>1 DEF IInv, SendShutdown, processVars, TypeOK, Threads, Asked, Asking
  <1>10. Stopping'
    BY <1>2 DEF IInv, SendShutdown, processVars, TypeOK, Stopping
  <1>11. Working'
    BY DEF IInv, SendShutdown, processVars, TypeOK, Threads, Published, Asked, Working
  <1>12. Booting' /\ AnswersMatch'
    BY ActorsDistinct
      DEF IInv, SendShutdown, processVars, Booting, AnswersMatch, TypeOK, Threads, Asked
  <1>13. Writing'
    BY ActorsDistinct DEF IInv, SendShutdown, LockHeld, TypeOK, Threads, Writing
  <1> QED
    BY <1>3, <1>4, <1>5, <1>6, <1>7, <1>8, <1>9, <1>10, <1>11, <1>12, <1>13 DEF IInv

LEMMA JoinedKeeps ==
  ASSUME IInv, Joined
  PROVE  IInv'
  <1>1. TypeOK'
    BY ActorsDistinct DEF IInv, Joined, processVars, Threads, TypeOK, Labels
  <1>2. PhasesFit'
    BY DEF IInv, Joined, PhasesFit
  <1>3. LockHeld'
    BY DEF IInv, Joined, LockHeld
  <1>4. ForgottenIsDead'
    BY DEF IInv, Joined, processVars, Alive, ForgottenIsDead
  <1>5. Private'
    BY DEF IInv, Joined, Published, Private
  <1>6. Stopping'
    BY DEF IInv, Joined, TypeOK, Threads, Stopping
  <1>7. Working'
    BY DEF IInv, Joined, processVars, Working
  <1>8. Booting' /\ Quiet' /\ Asking' /\ AnswersMatch'
    BY ActorsDistinct
      DEF IInv, Joined, processVars, Booting, Quiet, Asking, AnswersMatch, Alive, Asked
  <1>9. Writing'
    BY ActorsDistinct DEF IInv, Joined, processVars, TypeOK, Threads, Alive, Writing
  <1> QED
    BY <1>1, <1>2, <1>3, <1>4, <1>5, <1>6, <1>7, <1>8, <1>9 DEF IInv

LEMMA StopTimesOutKeeps ==
  ASSUME IInv, StopTimesOut
  PROVE  IInv'
  <1>1. TypeOK'
    BY ActorsDistinct DEF IInv, StopTimesOut, Killed, Threads, Phases, TypeOK, Labels
  <1>2. PhasesFit'
    BY DEF IInv, StopTimesOut, PhasesFit
  <1>3. LockHeld'
    BY DEF IInv, StopTimesOut, LockHeld
  <1>4. ForgottenIsDead'
    BY DEF IInv, StopTimesOut, Killed, Private, Alive, Published, ForgottenIsDead
  <1>5. Private'
    BY DEF IInv, StopTimesOut, Published, Private
  <1>6. Booting'
    BY DEF IInv, StopTimesOut, Private, Published, Booting
  <1>7. Quiet'
    BY DEF IInv, StopTimesOut, Killed, Alive, Quiet
  <1>8. Asking'
    BY DEF IInv, StopTimesOut, LockHeld, Asking
  <1>9. Stopping'
    BY DEF IInv, StopTimesOut, TypeOK, Threads, Stopping
  <1>10. Working'
    BY DEF IInv, StopTimesOut, Killed, Working
  <1>11. AnswersMatch'
    BY ActorsDistinct DEF IInv, StopTimesOut, AnswersMatch, Asked
  <1>12. Writing'
    BY DEF IInv, StopTimesOut, Killed, Alive, Writing
  <1> QED
    BY <1>1, <1>2, <1>3, <1>4, <1>5, <1>6, <1>7, <1>8, <1>9, <1>10, <1>11, <1>12 DEF IInv

\* Whoever forgets the process has killed it, or found it dead.
LEMMA ForgetKeeps ==
  ASSUME IInv, NEW t \in Threads, Forget(t)
  PROVE  IInv'
  <1>1. TypeOK'
    <2>1. handle' \in BOOLEAN /\ lock' \in {NoOne, Stopper} \cup Callers
      BY DEF IInv, Forget, Leave, TypeOK
    <2>2. pc' \in [Threads -> Labels]
      BY DEF IInv, Forget, TypeOK, Labels
    <2> QED
      BY <2>1, <2>2 DEF IInv, TypeOK, Forget, processVars
  <1>2. PhasesFit'
    BY DEF IInv, Forget, PhasesFit
  <1>3. LockHeld'
    BY ActorsDistinct DEF IInv, Forget, Leave, TypeOK, LockHeld
  <1>4. ForgottenIsDead'
    BY ActorsDistinct DEF IInv, Forget, processVars, Alive, ForgottenIsDead
  <1>5. Private'
    BY DEF IInv, Forget, processVars, Published, Private
  <1>6. Booting'
    BY ActorsDistinct DEF IInv, Forget, processVars, Booting
  <1>7. Quiet'
    BY DEF IInv, Forget, processVars, ForgottenIsDead, Alive, Quiet
  <1>8. Asking'
    BY DEF IInv, Forget, LockHeld, Private, Threads, Published, Asking
  <1>9. Stopping'
    BY DEF IInv, Forget, processVars, Stopping
  <1>10. Working'
    BY DEF IInv, Forget, processVars, Published, Asked, Working
  <1>11. AnswersMatch'
    BY ActorsDistinct DEF IInv, Forget, AnswersMatch, Asked
  <1>12. Writing'
    BY DEF IInv, Forget, processVars, TypeOK, Threads, Alive, Writing
  <1> QED
    BY <1>1, <1>2, <1>3, <1>4, <1>5, <1>6, <1>7, <1>8, <1>9, <1>10, <1>11, <1>12 DEF IInv

----------------------------------------------------------------------------
(* The theorems *)

LEMMA InitHolds == Init => IInv
  <1> SUFFICES ASSUME Init PROVE IInv
    OBVIOUS
  <1>1. TypeOK
    <2>1. stdin \in Seq(Commands) /\ stdout \in Seq(Answers)
      BY DEF Init
    <2>2. pc \in [Threads -> Labels] /\ lock \in {NoOne, Stopper} \cup Callers
      BY DEF Init, Labels
    <2>3. calls \in [Callers -> 0 .. MaxCalls] /\ logged \in 0 .. StderrRoom
      BY RoomsAreNumbers DEF Init
    <2>4. /\ handle \in BOOLEAN /\ hung \in BOOLEAN /\ process \in Phases /\ current \in Texts \cup {NoText}
          /\ result \in [Callers -> Texts \cup {NoText}]
      BY DEF Init, Phases
    <2> QED
      BY <2>1, <2>2, <2>3, <2>4 DEF TypeOK
  <1>2. PhasesFit /\ LockHeld
    BY ActorsDistinct DEF Init, PhasesFit, LockHeld, Threads
  <1>3. ForgottenIsDead /\ Private /\ Booting
    BY DEF Init, ForgottenIsDead, Private, Booting, Alive, Threads
  <1>4. Quiet /\ Writing /\ Asking /\ Stopping /\ Working /\ AnswersMatch
    BY DEF Init, Quiet, Writing, Asking, Stopping, Working, AnswersMatch, Alive, Published, Threads
  <1> QED
    BY <1>1, <1>2, <1>3, <1>4 DEF IInv

LEMMA NextKeeps == IInv /\ [Next]_vars => IInv'
  <1> SUFFICES ASSUME IInv, [Next]_vars PROVE IInv'
    OBVIOUS
  <1>1. CASE Worker \/ Crash \/ Hang
    BY <1>1, AnnounceKeeps, LoadKeeps, LoadFailsKeeps, TakeKeeps, AnswerKeeps, DetectFailsKeeps,
       CrashKeeps, HangKeeps
      DEF Worker
  <1>2. CASE Boot
    BY <1>2, StartKeeps, ReadEventKeeps, BootTimesOutKeeps, ForgetKeeps DEF Boot, Threads
  <1>3. ASSUME NEW t \in Callers, Begin(t) \/ Call(t) \/ Drain(t) PROVE IInv'
    BY <1>3, BeginKeeps, PollKeeps, SendKeeps, WriteKeeps, WriteFailsKeeps, ReadKeeps, ReadEOFKeeps, TimeOutKeeps, ForgetKeeps
      DEF Call, Threads
  <1>4. CASE BeginStop \/ Stop
    BY <1>4, BeginStopKeeps, SendShutdownKeeps, JoinedKeeps, StopTimesOutKeeps, ForgetKeeps
      DEF Stop, Threads
  <1>5. CASE UNCHANGED vars
    BY <1>5
      DEF vars, processVars, IInv, TypeOK, PhasesFit, LockHeld, ForgottenIsDead, Private, Booting,
                Quiet, Writing, Asking, Stopping, Working, AnswersMatch, Alive, Published, Asked
  <1> QED
    BY <1>1, <1>2, <1>3, <1>4, <1>5 DEF Next

LEMMA InvariantHolds == Spec => []IInv
  BY InitHolds, NextKeeps, PTL DEF Spec

\* The variables of client and worker keep their types, for any callers.
THEOREM WorkerTypeCorrect == Spec => []TypeOK
  <1>1. IInv => TypeOK
    BY DEF IInv
  <1> QED
    BY <1>1, InvariantHolds, PTL

\* No call reads the answer to another one (detect() in
\* anonymizer/subprocess_opf_client.py), however many callers there are.
THEOREM CallsReadTheirAnswers == Spec => []AnswersMatch
  <1>1. IInv => AnswersMatch
    BY DEF IInv
  <1> QED
    BY <1>1, InvariantHolds, PTL

\* start(), detect() and stop() leave no process behind that nobody refers to.
THEOREM NoWorkerIsOrphaned == Spec => []NoOrphanedWorker
  <1>1. IInv => NoOrphanedWorker
    BY DEF IInv, ForgottenIsDead, NoOrphanedWorker
  <1> QED
    BY <1>1, InvariantHolds, PTL
=============================================================================
