---------------------------- MODULE ChildProcess -----------------------------
(***************************************************************************)
(* One child process of gitops.py and its reader: run_profile (the checks  *)
(* of approved requests), _bounded_capture (every short Git command) and   *)
(* _stream_archive (git archive).  The three read pipes in one loop against*)
(* a deadline and a limit, then kill the process group where they must, and*)
(* reap the child.                                                         *)
(*                                                                         *)
(* Output is counted in abstract units; a descendant of the child may hold *)
(* its pipes, in its process group or outside it.                          *)
(***************************************************************************)
EXTENDS Naturals

CONSTANTS
    Limit,              \* _MAX_OUTPUT_BYTES, maximum, _MAX_ARCHIVE_BYTES
    MaxWritten          \* bound: what is written to one pipe

ASSUME LimitAssumption == Limit \in Nat \ {0} /\ MaxWritten \in Nat

VARIABLES
    mode,               \* who reads: "check", "git" or "archive"
    child, code,        \* the child, and how it has ended
    immune,             \* the child may not be signalled (it changed its user)
    helper,             \* a descendant: "none", "group" or "escaped"
    writers,            \* who can still write to each pipe
    written, unread,    \* what was written to a pipe, and what it still holds
    killed,             \* processes that have been sent SIGKILL and not ended
    late,               \* the deadline is over
    at,                 \* where the reader is
    registered, ready,  \* pipes in the selector, pipes still to be read now
    captured, timedOut, exceeded,
    outcome             \* "none", "result", "refused" or "raised"

childVars == <<child, code, helper, writers, written, unread, killed>>
readVars == <<registered, ready, captured>>
flagVars == <<timedOut, exceeded>>
vars == <<mode, immune, childVars, late, at, readVars, flagVars, outcome>>

Modes == {"check", "git", "archive"}
Pipes == {"out", "err"}

\* A check's two streams are one pipe; the archive's errors go to a file.
PipesOf(m) == IF m = "git" THEN Pipes ELSE {"out"}

Stages == {"feed", "loop", "select", "read", "kill", "wait", "rekill", "rewait",
           "cleanup", "reap", "lastwait", "done"}

TypeOK ==
    /\ mode \in Modes /\ immune \in BOOLEAN /\ late \in BOOLEAN
    /\ child \in {"running", "zombie", "reaped"}
    /\ code \in {"none", "zero", "nonzero", "signal"}
    /\ helper \in {"none", "group", "escaped"}
    /\ writers \in [Pipes -> SUBSET {"child", "helper"}]
    /\ written \in [Pipes -> 0..MaxWritten]
    /\ unread \in [Pipes -> 0..MaxWritten]
    /\ killed \subseteq {"child", "helper"}
    /\ at \in Stages
    /\ registered \subseteq Pipes /\ ready \subseteq Pipes
    /\ captured \in [Pipes -> 0..Limit]
    /\ timedOut \in BOOLEAN /\ exceeded \in BOOLEAN
    /\ outcome \in {"none", "result", "refused", "raised"}

Init ==
    /\ mode \in Modes /\ immune \in BOOLEAN
    /\ child = "running" /\ code = "none" /\ helper = "none"
    /\ writers = [s \in Pipes |-> IF s \in PipesOf(mode) THEN {"child"} ELSE {}]
    /\ written = [s \in Pipes |-> 0]
    /\ unread = [s \in Pipes |-> 0]
    /\ killed = {} /\ late = FALSE
    /\ at \in IF mode = "git" THEN {"feed", "loop"} ELSE {"loop"}
    /\ registered = PipesOf(mode) /\ ready = {}
    /\ captured = [s \in Pipes |-> 0]
    /\ timedOut = FALSE /\ exceeded = FALSE
    /\ outcome = "none"

----------------------------------------------------------------------------
(* The child and its descendant.  Whoever has been killed does nothing more. *)

Alive(x) == IF x = "child" THEN child = "running" ELSE helper # "none"

Active(x) == Alive(x) /\ x \notin killed

Lets(x, pipes) == [s \in Pipes |-> IF s \in pipes THEN writers[s] \ {x} ELSE writers[s]]

Output(x, s) ==
    /\ Active(x) /\ x \in writers[s] /\ written[s] < MaxWritten
    /\ written' = [written EXCEPT ![s] = @ + 1]
    /\ unread' = [unread EXCEPT ![s] = @ + 1]
    /\ UNCHANGED <<mode, immune, child, code, helper, writers, killed, late, at, readVars,
                   flagVars, outcome>>

ClosePipe(x, s) ==
    /\ Active(x) /\ x \in writers[s]
    /\ writers' = Lets(x, {s})
    /\ UNCHANGED <<mode, immune, child, code, helper, written, unread, killed, late, at,
                   readVars, flagVars, outcome>>

\* The descendant inherits what the child holds; it may leave the group.
Fork ==
    /\ Active("child") /\ helper = "none"
    /\ helper' \in {"group", "escaped"}
    /\ writers' = [s \in Pipes |-> IF "child" \in writers[s] THEN writers[s] \cup {"helper"}
                                   ELSE writers[s]]
    /\ UNCHANGED <<mode, immune, child, code, written, unread, killed, late, at, readVars,
                   flagVars, outcome>>

\* A process ends, by itself or because it has been killed.
Exit(x) ==
    /\ Alive(x)
    /\ writers' = Lets(x, Pipes)
    /\ killed' = killed \ {x}
    /\ IF x = "child"
       THEN /\ child' = "zombie"
            /\ code' \in IF x \in killed THEN {"signal"} ELSE {"zero", "nonzero", "signal"}
            /\ UNCHANGED helper
       ELSE helper' = "none" /\ UNCHANGED <<child, code>>
    /\ UNCHANGED <<mode, immune, written, unread, late, at, readVars, flagVars, outcome>>

DeadlinePasses ==
    /\ ~late /\ at # "feed"
    /\ late' = TRUE
    /\ UNCHANGED <<mode, immune, childVars, at, readVars, flagVars, outcome>>

----------------------------------------------------------------------------
(* The reader.                                                               *)

Goto(stage) == at' = stage /\ UNCHANGED outcome

\* poll and wait collect a child that has ended.
Collect == child' = IF child = "running" THEN child ELSE "reaped"

KeepsChild == UNCHANGED childVars
Collected == Collect /\ UNCHANGED <<code, helper, writers, written, unread, killed>>

\* An exception: Git commands pass it on, the others clean up first.
Throw == IF mode = "git" THEN at' = "done" /\ outcome' = "raised" ELSE Goto("cleanup")

\* The input is written before there is a deadline, until the child has taken it
\* or is gone.
Feed ==
    /\ at = "feed"
    /\ Goto("loop")
    /\ KeepsChild /\ UNCHANGED <<mode, immune, late, readVars, flagVars>>

\* Slip: the deadline is for children that run.
LoopWhileRunning ==
    /\ at = "loop"
    /\ IF registered = {} THEN Goto("wait") /\ UNCHANGED timedOut
       ELSE IF late /\ child = "running" THEN timedOut' = TRUE /\ Goto("kill")
       ELSE Goto("select") /\ UNCHANGED timedOut
    /\ KeepsChild /\ UNCHANGED <<mode, immune, late, readVars, exceeded>>

Loop ==
    /\ at = "loop"
    /\ IF registered = {} THEN Goto("wait") /\ UNCHANGED timedOut
       ELSE IF late THEN timedOut' = TRUE /\ Goto("kill")
       ELSE Goto("select") /\ UNCHANGED timedOut
    /\ KeepsChild /\ UNCHANGED <<mode, immune, late, readVars, exceeded>>

Readable(s) == unread[s] > 0 \/ writers[s] = {}

\* Slip: reading ends with the child.
SelectUntilExit ==
    /\ at = "select"
    /\ IF child # "running" THEN Goto("wait") /\ Collected /\ UNCHANGED ready
       ELSE /\ ready' = {s \in registered : Readable(s)}
            /\ ready' # {} \/ late
            /\ Goto(IF ready' = {} THEN "loop" ELSE "read")
            /\ KeepsChild
    /\ UNCHANGED <<mode, immune, late, registered, captured, flagVars>>

\* Blocks until there is something to read or the deadline is over; in the second
\* case the child is polled.
Select ==
    /\ at = "select"
    /\ ready' = {s \in registered : Readable(s)}
    /\ IF ready' # {} THEN Goto("read") /\ KeepsChild
       ELSE late /\ Goto("loop") /\ Collected
    /\ UNCHANGED <<mode, immune, late, registered, captured, flagVars>>

\* End of file, a chunk that fits, or one that exceeds the limit and ends the loop.
EndOfFile(s) ==
    /\ unread[s] = 0
    /\ registered' = registered \ {s} /\ ready' = ready \ {s}
    /\ Goto(IF ready' = {} THEN "loop" ELSE "read")
    /\ UNCHANGED <<captured, unread, exceeded>>

Take(s, n) == unread' = [unread EXCEPT ![s] = @ - n]

\* Slip: whatever comes is kept.
Keep(s) ==
    \E n \in 1..unread[s] :
       /\ Take(s, n)
       /\ captured' = [captured EXCEPT ![s] = @ + n]
       /\ ready' = ready \ {s}
       /\ Goto(IF ready' = {} THEN "loop" ELSE "read")
       /\ UNCHANGED <<registered, exceeded>>

Fits(s) ==
    \E n \in 1..unread[s] :
       /\ captured[s] + n <= Limit
       /\ Take(s, n)
       /\ captured' = [captured EXCEPT ![s] = @ + n]
       /\ ready' = ready \ {s}
       /\ Goto(IF ready' = {} THEN "loop" ELSE "read")
       /\ UNCHANGED <<registered, exceeded>>

\* Slip: output that reaches the limit is taken for more.
OverflowsAt(s) ==
    \E n \in 1..unread[s] :
       /\ captured[s] + n >= Limit
       /\ Take(s, n)
       /\ captured' = [captured EXCEPT ![s] = IF mode = "archive" THEN @ ELSE Limit]
       /\ exceeded' = TRUE
       /\ Goto("kill")
       /\ UNCHANGED <<registered, ready>>

\* The archive does not keep the chunk, the others what still fits of it.
Overflows(s) ==
    \E n \in 1..unread[s] :
       /\ captured[s] + n > Limit
       /\ Take(s, n)
       /\ captured' = [captured EXCEPT ![s] = IF mode = "archive" THEN @ ELSE Limit]
       /\ exceeded' = TRUE
       /\ Goto("kill")
       /\ UNCHANGED <<registered, ready>>

Read(s) ==
    /\ at = "read" /\ s \in ready
    /\ EndOfFile(s) \/ Fits(s) \/ Overflows(s)
    /\ UNCHANGED <<mode, immune, child, code, helper, writers, written, killed, late, timedOut>>

\* The members of the child's process group that a signal can reach.
Reachable ==
    {x \in {"child"} : child = "running" /\ ~immune} \cup {x \in {"helper"} : helper = "group"}

Signal(targets) ==
    killed' = killed \cup targets /\ UNCHANGED <<child, code, helper, writers, written, unread>>

\* _kill_process_group: a refusal (EPERM) is ignored when the child has ended,
\* which the poll finds out, and an error when it runs.
KillGroup(next) ==
    \/ Reachable # {} /\ Signal(Reachable) /\ Goto(next)
    \/ child # "running" /\ (Collected \/ KeepsChild) /\ Goto(next)
    \/ child = "running" /\ Reachable = {} /\ KeepsChild /\ Throw

Kill ==
    /\ at \in {"kill", "rekill"}
    /\ KillGroup(IF at = "kill" THEN "wait" ELSE "rewait")
    /\ UNCHANGED <<mode, immune, late, readVars, flagVars>>

\* What becomes of a child that has been reaped.
Conclude ==
    \/ mode = "check" /\ at' = "done" /\ outcome' = "result"
    \/ /\ mode = "git" /\ at' = "done"
       /\ outcome' = IF timedOut \/ exceeded THEN "refused" ELSE "result"
    \/ /\ mode = "archive"
       /\ IF timedOut \/ exceeded \/ code # "zero" THEN Throw
          ELSE at' = "done" /\ outcome' = "result"

\* Slip: a child that has not ended after the kill is left alone.
WaitOnce ==
    /\ at \in {"wait", "rewait"}
    /\ Collected /\ Conclude
    /\ UNCHANGED <<mode, immune, late, readVars, flagVars>>

\* wait(timeout=10), which may expire as long as the child runs.
Wait ==
    /\ at \in {"wait", "rewait"}
    /\ Collected
    /\ IF child # "running" THEN Conclude
       ELSE IF at = "wait" /\ mode # "archive" THEN Goto("rekill")
       ELSE Throw
    /\ UNCHANGED <<mode, immune, late, readVars, flagVars>>

\* Anything else that can go wrong: an interrupt, a read error, a full disk.
Fail ==
    /\ at \notin {"cleanup", "reap", "lastwait", "done"}
    /\ Throw
    /\ KeepsChild /\ UNCHANGED <<mode, immune, late, readVars, flagVars>>

\* _stop_and_reap_best_effort: no step of it may fail the others.
Cleanup ==
    /\ at = "cleanup"
    /\ Signal(Reachable) \/ Collected \/ KeepsChild
    /\ Goto("reap")
    /\ UNCHANGED <<mode, immune, late, readVars, flagVars>>

\* Slip: the clean-up ends with the wait.
ReapOrLeave ==
    /\ at = "reap"
    /\ Collected
    /\ at' = "done" /\ outcome' = "raised"
    /\ UNCHANGED <<mode, immune, late, readVars, flagVars>>

\* The wait finds the child ended; or it fails, and the child itself is killed.
Reap ==
    /\ at = "reap"
    /\ \/ child # "running" /\ Collected /\ at' = "done" /\ outcome' = "raised"
       \/ Signal(Reachable \ {"helper"}) /\ Goto("lastwait")
    /\ UNCHANGED <<mode, immune, late, readVars, flagVars>>

LastWait ==
    /\ at = "lastwait"
    /\ Collected \/ KeepsChild
    /\ at' = "done" /\ outcome' = "raised"
    /\ UNCHANGED <<mode, immune, late, readVars, flagVars>>

----------------------------------------------------------------------------

ReaderStep ==
    \/ Loop \/ Select \/ (\E s \in Pipes : Read(s)) \/ Kill \/ Wait
    \/ Cleanup \/ Reap \/ LastWait

ProcessStep ==
    \/ Fork
    \/ \E x \in {"child", "helper"} :
          \/ Exit(x)
          \/ \E s \in Pipes : Output(x, s) \/ ClosePipe(x, s)

Next == ProcessStep \/ DeadlinePasses \/ Feed \/ ReaderStep \/ Fail

Spec == Init /\ [][Next]_vars

\* Time passes and the reader is scheduled.  Nothing is assumed of the child: it
\* may never write, close, end, or take its input.
FairSpec == Spec /\ WF_vars(DeadlinePasses) /\ WF_vars(ReaderStep)

----------------------------------------------------------------------------
(* Properties.                                                               *)

\* An answer that is not flagged has everything that was ever written: nothing is
\* lost, whoever wrote it and in whatever order the child, its descendants, the
\* deadline and the limit came, and nobody is left who could write more.
AnswerIsComplete ==
    outcome = "result" /\ ~timedOut /\ ~exceeded =>
       \A s \in Pipes : captured[s] = written[s] /\ writers[s] = {}

\* Output of exactly the limit is never taken for too much, also when the limit is
\* reached in the middle of a chunk; and what is clipped is clipped at the limit.
LimitIsExact ==
    exceeded =>
       \E s \in Pipes : written[s] > Limit /\ (mode = "archive" \/ captured[s] = Limit)

\* Whoever gets an answer about a child, a refusal included, has a child that has
\* ended, and knows how.
AnsweredIsReaped ==
    outcome \in {"result", "refused"} => child = "reaped" /\ code # "none"

\* However run_profile or _stream_archive end, their child has ended or has been
\* sent SIGKILL, as far as it can be signalled at all.
NoRunaway ==
    mode # "git" /\ at = "done" /\ ~immune => child # "running" \/ "child" \in killed

\* From the deadline's existence on, every reader ends, whatever holds its pipes
\* and whatever cannot be killed.
ReaderEnds == at \notin {"feed", "done"} ~> at = "done"
=============================================================================
