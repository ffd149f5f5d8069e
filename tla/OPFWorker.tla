------------------------------ MODULE OPFWorker ------------------------------
(***************************************************************************)
(* One SubprocessOPFClient and its worker process: the JSON-lines protocol *)
(* over pipes between anonymizer/subprocess_opf_client.py and              *)
(* scripts/opf_worker.py.                                                  *)
(*                                                                         *)
(* The manager starts a client before any other thread can see it, threads *)
(* then call detect(), and at most one stop() is made (OPFManager's        *)
(* OneOwner).  A step is one access to the shared _proc, one message put   *)
(* into a pipe or taken from it, or one thing that happens to the process. *)
(* A text is named by the call that sends it.  A pipe holds any message    *)
(* but a long one, which goes in only while the worker reads.              *)
(***************************************************************************)
EXTENDS Integers, Sequences

CONSTANTS
  Callers,    \* threads that call detect()
  Booter,     \* the thread that calls start()
  Stopper,    \* the thread that calls stop()
  NoOne,      \* the lock's holder when it is free
  NoText,     \* no text
  MaxCalls,   \* bound: detections of a caller
  StderrRoom, \* tracebacks the stderr pipe holds; nobody reads it meanwhile
  Long        \* the texts that are longer than the stdin pipe

ASSUME ActorsDistinct ==
  /\ Booter \notin Callers /\ Stopper \notin Callers /\ Booter # Stopper
  /\ NoOne \notin Callers \cup {Booter, Stopper}
ASSUME RoomsAreNumbers == MaxCalls \in Nat /\ StderrRoom \in Nat

Texts == Callers \X (1 .. MaxCalls)
ASSUME NoTextIsNone == NoText \notin Texts
ASSUME LongAreTexts == Long \subseteq Texts

VARIABLES
  handle,   \* _proc is not None
  lock,     \* who holds _lock
  process,  \* what the worker process is doing
  current,  \* the text it is working on
  logged,   \* tracebacks in the stderr pipe
  hung,     \* it lives but does nothing any more
  stdin,    \* messages on their way to the worker
  stdout,   \* messages on their way to the client
  pc,       \* where each thread is
  calls,    \* how many detections each caller has begun
  result    \* what its last detection gave: a text's spans, named by the text

processVars == <<process, current, logged, hung>>
vars == <<handle, lock, processVars, stdin, stdout, pc, calls, result>>

Threads == Callers \cup {Booter, Stopper}
Labels == {"idle", "polling", "waiting", "sending", "reading", "forgetting", "awaiting",
           "published", "joining", "over"}
Phases == {"none", "starting", "loading", "idle", "busy", "gone"}
Alive == process \notin {"none", "gone"}

\* What each caller has last asked for.
Asked(t) == <<t, calls[t]>>

Detect(x) == [action |-> "detect", text |-> x]
Shutdown == [action |-> "shutdown", text |-> NoText]
Event(e) == [event |-> e, text |-> NoText]
Spans(x) == [event |-> "spans", text |-> x]

Commands == {Detect(x) : x \in Texts} \cup {Shutdown}
Answers == {Event(e) : e \in {"loading", "ready", "error", "bye"}} \cup {Spans(x) : x \in Texts}

Init ==
  /\ handle = FALSE /\ lock = NoOne
  /\ process = "none" /\ current = NoText /\ logged = 0 /\ hung = FALSE
  /\ stdin = <<>> /\ stdout = <<>>
  /\ pc = [t \in Threads |-> "idle"]
  /\ calls = [t \in Callers |-> 0] /\ result = [t \in Callers |-> NoText]

----------------------------------------------------------------------------
(* The worker process *)

\* It announces itself and begins to load the model.
Announce ==
  /\ process = "starting" /\ ~hung
  /\ process' = "loading" /\ stdout' = Append(stdout, Event("loading"))
  /\ UNCHANGED <<handle, lock, current, logged, hung, stdin, pc, calls, result>>

Load ==
  /\ process = "loading" /\ ~hung
  /\ process' = "idle" /\ stdout' = Append(stdout, Event("ready"))
  /\ UNCHANGED <<handle, lock, current, logged, hung, stdin, pc, calls, result>>

LoadFails ==
  /\ process = "loading" /\ ~hung /\ logged < StderrRoom
  /\ process' = "gone" /\ logged' = logged + 1
  /\ stdout' = Append(stdout, Event("error"))
  /\ UNCHANGED <<handle, lock, current, hung, stdin, pc, calls, result>>

Take ==
  /\ process = "idle" /\ ~hung /\ stdin # <<>>
  /\ stdin' = Tail(stdin)
  /\ \/ /\ Head(stdin).action = "detect"
        /\ process' = "busy" /\ current' = Head(stdin).text
        /\ UNCHANGED stdout
     \/ /\ Head(stdin).action = "shutdown"
        /\ process' = "gone" /\ stdout' = Append(stdout, Event("bye"))
        /\ UNCHANGED current
  /\ UNCHANGED <<handle, lock, logged, hung, pc, calls, result>>

\* Wrong on purpose (see README, "Mutants"): the text is reset before it is used.
Answer_Cleared ==
  /\ process = "busy" /\ ~hung
  /\ process' = "idle" /\ current' = NoText
  /\ stdout' = Append(stdout, Spans(current'))
  /\ UNCHANGED <<handle, lock, logged, hung, stdin, pc, calls, result>>

Answer ==
  /\ process = "busy" /\ ~hung
  /\ process' = "idle" /\ current' = NoText
  /\ stdout' = Append(stdout, Spans(current))
  /\ UNCHANGED <<handle, lock, logged, hung, stdin, pc, calls, result>>

\* The traceback is logged first: once stderr is full the worker stays there.
DetectFails ==
  /\ process = "busy" /\ ~hung /\ logged < StderrRoom
  /\ process' = "idle" /\ current' = NoText /\ logged' = logged + 1
  /\ stdout' = Append(stdout, Event("error"))
  /\ UNCHANGED <<handle, lock, hung, stdin, pc, calls, result>>

\* The process dies by itself; what it has written can still be read.
Crash ==
  /\ Alive
  /\ process' = "gone" /\ current' = NoText
  /\ UNCHANGED <<handle, lock, logged, hung, stdin, stdout, pc, calls, result>>

\* The process lives on but no longer reads, works or answers.
Hang ==
  /\ Alive /\ ~hung
  /\ hung' = TRUE
  /\ UNCHANGED <<handle, lock, process, current, logged, stdin, stdout, pc, calls, result>>

----------------------------------------------------------------------------
(* _kill_proc(): kill, wait, and forget the process, in the thread t that   *)
(* goes on at "after".                                                      *)

Killed == process' = "gone" /\ current' = NoText /\ UNCHANGED <<logged, hung>>

\* The last step of a thread that had the lock, or had no need of it.
Leave(t) == lock' = IF lock = t THEN NoOne ELSE lock

Forget(t) ==
  /\ pc[t] = "forgetting"
  /\ handle' = FALSE
  /\ pc' = [pc EXCEPT ![t] = IF t \in Callers THEN "idle" ELSE "over"]
  /\ Leave(t)
  /\ UNCHANGED <<processVars, stdin, stdout, calls, result>>

----------------------------------------------------------------------------
(* start() *)

Start ==
  /\ pc[Booter] = "idle"
  /\ pc' = [pc EXCEPT ![Booter] = "awaiting"]
  /\ handle' = TRUE /\ process' = "starting"
  /\ UNCHANGED <<lock, current, logged, hung, stdin, stdout, calls, result>>

\* "ready" makes the client known to the manager; "loading" is skipped.
ReadEvent ==
  /\ pc[Booter] = "awaiting" /\ stdout # <<>>
  /\ stdout' = Tail(stdout)
  /\ \/ /\ Head(stdout).event = "ready" /\ pc' = [pc EXCEPT ![Booter] = "published"]
        /\ UNCHANGED processVars
     \/ /\ Head(stdout).event = "loading" /\ UNCHANGED <<pc, processVars>>
     \/ /\ Head(stdout).event = "error" /\ Killed
        /\ pc' = [pc EXCEPT ![Booter] = "forgetting"]
  /\ UNCHANGED <<handle, lock, stdin, calls, result>>

\* End of file, or no line within the time for it.
BootTimesOut ==
  /\ pc[Booter] = "awaiting"
  /\ Killed /\ pc' = [pc EXCEPT ![Booter] = "forgetting"]
  /\ UNCHANGED <<handle, lock, stdin, stdout, calls, result>>

Published == pc[Booter] = "published"

----------------------------------------------------------------------------
(* detect() *)

\* is_running() reads _proc a first time, without the lock.
Begin(t) ==
  /\ Published /\ pc[t] = "idle" /\ calls[t] < MaxCalls
  /\ calls' = [calls EXCEPT ![t] = @ + 1]
  /\ result' = [result EXCEPT ![t] = NoText]
  /\ pc' = [pc EXCEPT ![t] = IF handle THEN "polling" ELSE "idle"]
  /\ UNCHANGED <<handle, lock, processVars, stdin, stdout>>

\* ... and a second time: forgotten in between, poll() is called on None.
Poll(t) ==
  /\ pc[t] = "polling"
  /\ pc' = [pc EXCEPT ![t] = IF handle /\ Alive THEN "waiting" ELSE "idle"]
  /\ UNCHANGED <<handle, lock, processVars, stdin, stdout, calls, result>>

\* With the lock: _send() raises if the process was forgotten, and begins to
\* write otherwise.  Nothing limits the time that this may take.
Send(t) ==
  /\ pc[t] = "waiting" /\ lock = NoOne
  /\ IF handle
     THEN lock' = t /\ pc' = [pc EXCEPT ![t] = "sending"]
     ELSE pc' = [pc EXCEPT ![t] = "idle"] /\ UNCHANGED lock
  /\ UNCHANGED <<handle, processVars, stdin, stdout, calls, result>>

\* The whole request is in the pipe; the clock of _read_one() starts only now.
Sent(t) ==
  /\ stdin' = Append(stdin, Detect(Asked(t)))
  /\ pc' = [pc EXCEPT ![t] = "reading"]
  /\ UNCHANGED <<handle, lock, processVars, stdout, calls, result>>

\* A text that fits is written at once ...
Write(t) == pc[t] = "sending" /\ Alive /\ Asked(t) \notin Long /\ Sent(t)

\* ... a long one when the worker, waiting for a line, reads the first part.
Drain(t) ==
  /\ pc[t] = "sending" /\ process = "idle" /\ ~hung
  /\ Asked(t) \in Long
  /\ Sent(t)

\* Nobody is left to read it: write() or flush() raises.
WriteFails(t) ==
  /\ pc[t] = "sending" /\ ~Alive
  /\ pc' = [pc EXCEPT ![t] = "idle"] /\ Leave(t)
  /\ UNCHANGED <<handle, processVars, stdin, stdout, calls, result>>

\* A line: the spans, or an error event, which detect() raises.
Read(t) ==
  /\ pc[t] = "reading" /\ stdout # <<>>
  /\ stdout' = Tail(stdout)
  /\ result' = [result EXCEPT ![t] = Head(stdout).text]
  /\ pc' = [pc EXCEPT ![t] = "idle"] /\ Leave(t)
  /\ UNCHANGED <<handle, processVars, stdin, calls>>

\* End of file: the process died; it is not forgotten.
ReadEOF(t) ==
  /\ pc[t] = "reading" /\ stdout = <<>> /\ process = "gone"
  /\ pc' = [pc EXCEPT ![t] = "idle"] /\ Leave(t)
  /\ UNCHANGED <<handle, processVars, stdin, stdout, calls, result>>

\* Wrong on purpose: the call gives up and the worker keeps its text.
TimeOut_Leaving(t) ==
  /\ pc[t] = "reading"
  /\ pc' = [pc EXCEPT ![t] = "idle"] /\ Leave(t)
  /\ UNCHANGED <<handle, processVars, stdin, stdout, calls, result>>

\* Wrong on purpose: readline() is waited for without a limit.
TimeOut_Never(t) == FALSE /\ UNCHANGED vars

\* No line within the time: the worker counts as stuck and is killed.
TimeOut(t) ==
  /\ pc[t] = "reading"
  /\ Killed /\ pc' = [pc EXCEPT ![t] = "forgetting"]
  /\ UNCHANGED <<handle, lock, stdin, stdout, calls, result>>

----------------------------------------------------------------------------
(* stop() *)

BeginStop ==
  /\ Published /\ pc[Stopper] = "idle"
  /\ pc' = [pc EXCEPT ![Stopper] = IF handle THEN "waiting" ELSE "over"]
  /\ UNCHANGED <<handle, lock, processVars, stdin, stdout, calls, result>>

\* With the lock.  Forgotten meanwhile, poll() is called on None, and the
\* manager swallows that; dead already, the process is only forgotten.
SendShutdown ==
  /\ pc[Stopper] = "waiting" /\ lock = NoOne
  /\ IF ~handle THEN pc' = [pc EXCEPT ![Stopper] = "over"] /\ UNCHANGED <<lock, stdin>>
     ELSE /\ lock' = Stopper
          /\ IF Alive THEN /\ stdin' = Append(stdin, Shutdown)
                           /\ pc' = [pc EXCEPT ![Stopper] = "joining"]
                      ELSE /\ pc' = [pc EXCEPT ![Stopper] = "forgetting"] /\ UNCHANGED stdin
  /\ UNCHANGED <<handle, processVars, stdout, calls, result>>

Joined ==
  /\ pc[Stopper] = "joining" /\ process = "gone"
  /\ pc' = [pc EXCEPT ![Stopper] = "forgetting"]
  /\ UNCHANGED <<handle, lock, processVars, stdin, stdout, calls, result>>

\* Wrong on purpose: after the time for it the process is let go.
StopTimesOut_Leaving ==
  /\ pc[Stopper] = "joining"
  /\ pc' = [pc EXCEPT ![Stopper] = "forgetting"]
  /\ UNCHANGED <<handle, lock, processVars, stdin, stdout, calls, result>>

StopTimesOut ==
  /\ pc[Stopper] = "joining"
  /\ Killed /\ pc' = [pc EXCEPT ![Stopper] = "forgetting"]
  /\ UNCHANGED <<handle, lock, stdin, stdout, calls, result>>

----------------------------------------------------------------------------
Worker == Announce \/ Load \/ LoadFails \/ Take \/ Answer \/ DetectFails
Boot == Start \/ ReadEvent \/ BootTimesOut \/ Forget(Booter)
Call(t) ==
  \/ Poll(t) \/ Send(t) \/ Write(t) \/ WriteFails(t)
  \/ Read(t) \/ ReadEOF(t) \/ TimeOut(t) \/ Forget(t)
Stop == SendShutdown \/ Joined \/ StopTimesOut \/ Forget(Stopper)

Next ==
  \/ Worker \/ Crash \/ Hang \/ Boot
  \/ \E t \in Callers : Begin(t) \/ Call(t) \/ Drain(t)
  \/ BeginStop \/ Stop

Spec == Init /\ [][Next]_vars

\* A call that has begun goes on: its thread runs and its deadlines expire.
\* Of the worker only this is assumed: one that is not hung reads its stdin
\* while it waits for a line.  Nothing is assumed of who gets the lock first.
Fairness ==
  /\ WF_vars(ReadEvent \/ BootTimesOut \/ Forget(Booter))
  /\ \A t \in Callers : WF_vars(Call(t)) /\ WF_vars(Drain(t))
  /\ WF_vars(Stop)

FairSpec == Spec /\ Fairness

----------------------------------------------------------------------------
(* Properties *)

TypeOK ==
  /\ handle \in BOOLEAN /\ lock \in {NoOne, Stopper} \cup Callers
  /\ process \in Phases /\ current \in Texts \cup {NoText} /\ logged \in 0 .. StderrRoom
  /\ hung \in BOOLEAN
  /\ stdin \in Seq(Commands) /\ stdout \in Seq(Answers)
  /\ pc \in [Threads -> Labels]
  /\ calls \in [Callers -> 0 .. MaxCalls] /\ result \in [Callers -> Texts \cup {NoText}]

\* The spans that detect() returns are those of the text it was given: after
\* failures, timeouts and calls that wait for one another, no answer is read
\* by another call than the one that asked.
AnswersMatch == \A t \in Callers : result[t] \in {NoText, Asked(t)}

\* A worker nobody refers to any more is dead: a boot that failed, a detection
\* that timed out and a stop() leave no process with the model in memory.
NoOrphanedWorker ==
  (pc[Booter] # "idle" /\ ~handle) \/ pc[Stopper] = "over" => ~Alive

\* The one thing the deadlines do not cover: a text longer than the pipe is
\* being written, with the lock held, to a worker that has stopped reading.
Blocked == Alive /\ hung /\ \E t \in Callers : pc[t] = "sending" /\ Asked(t) \in Long

\* Whatever the worker does, start(), detect() and stop() return, unless a
\* long text is being written to a worker that hangs: then neither that call
\* nor any other, nor stop(), ever gets the lock.
CallsReturn ==
  \/ <>[]Blocked
  \/ /\ pc[Booter] = "awaiting" ~> pc[Booter] \in {"published", "over"}
     /\ \A t \in Callers : pc[t] # "idle" ~> pc[t] = "idle"
     /\ pc[Stopper] # "idle" ~> pc[Stopper] = "over"

\* subprocess_opf_client.py:30-31: _DEFAULT_DETECT_TIMEOUT is the "per-call
\* timeout for detect()", and line 195: a stuck worker is "treated as fatal so
\* the manager can recycle it".  So every detect() comes to an end.
DetectHasATimeout == \A t \in Callers : pc[t] # "idle" ~> pc[t] = "idle"
=============================================================================
