-------------------------- MODULE ChildProcessProofs ---------------------------
(***************************************************************************)
(* Whatever a child and its descendants do, and whenever the deadline and  *)
(* the limit are met: for every limit and any amount of output.            *)
(***************************************************************************)
EXTENDS ChildProcess, TLAPS

----------------------------------------------------------------------------
(* The invariant, in four parts.                                            *)

\* Processes and pipes: only what lives can hold a pipe, and a pipe that nobody
\* reads was never opened.
Processes ==
    /\ child = "running" <=> code = "none"
    /\ \A s \in Pipes : "child" \in writers[s] => child = "running"
    /\ \A s \in Pipes : "helper" \in writers[s] => helper # "none"
    /\ \A s \in Pipes \ PipesOf(mode) : written[s] = 0 /\ captured[s] = 0 /\ writers[s] = {}
    /\ \A s \in Pipes : unread[s] <= written[s]

\* Until the limit is exceeded, what was written was captured or is in the pipe.
Accounts ==
    /\ ~exceeded => \A s \in Pipes : captured[s] + unread[s] = written[s]
    /\ at \in {"feed", "loop", "select", "read"} => ~exceeded
    /\ registered \subseteq PipesOf(mode)

\* A pipe leaves the selector at its end; the loop ends when all have, or flagged.
Ends ==
    /\ \A s \in PipesOf(mode) \ registered : unread[s] = 0 /\ writers[s] = {}
    /\ at = "read" => \A s \in ready : unread[s] > 0 \/ writers[s] = {}
    /\ at \in {"kill", "wait", "rekill", "rewait"} \/ outcome = "result" =>
          timedOut \/ exceeded \/ registered = {}
    /\ outcome # "none" => at = "done"

\* The last wait follows a kill of whatever still runs.
Stopped ==
    mode # "git" /\ at \in {"lastwait", "done"} /\ ~immune =>
       child # "running" \/ "child" \in killed

IInv == TypeOK /\ Processes /\ Accounts /\ Ends /\ LimitIsExact /\ AnsweredIsReaped /\ Stopped

----------------------------------------------------------------------------

LEMMA Limits == Limit \in Nat /\ Limit > 0 /\ MaxWritten \in Nat
BY LimitAssumption

\* What a step of the child or its descendant leaves alone.
LEMMA ProcessFrame ==
    ASSUME ProcessStep
    PROVE  UNCHANGED <<mode, immune, late, at, readVars, flagVars, outcome>>
BY DEF ProcessStep, Fork, Exit, Output, ClosePipe

LEMMA OutputKeeps ==
    ASSUME IInv, NEW x \in {"child", "helper"}, NEW s \in Pipes, Output(x, s)
    PROVE  IInv'
<1>1. TypeOK'
  BY Limits DEF IInv, Output, TypeOK, Processes, readVars, flagVars
<1>2. Processes'
  BY DEF IInv, Output, TypeOK, Processes, readVars, flagVars, PipesOf
<1>3. Accounts'
  BY DEF IInv, Output, TypeOK, Processes, Accounts, readVars, flagVars, PipesOf
<1>4. Ends'
  BY DEF IInv, Output, TypeOK, Processes, Ends, readVars, flagVars, PipesOf
<1>5. LimitIsExact' /\ AnsweredIsReaped' /\ Stopped'
  BY Limits DEF IInv, Output, TypeOK, LimitIsExact, AnsweredIsReaped, Stopped, readVars, flagVars
<1> QED BY <1>1, <1>2, <1>3, <1>4, <1>5 DEF IInv

LEMMA ClosePipeKeeps ==
    ASSUME IInv, NEW x \in {"child", "helper"}, NEW s \in Pipes, ClosePipe(x, s)
    PROVE  IInv'
<1>1. TypeOK'
  BY DEF IInv, ClosePipe, Lets, TypeOK, readVars, flagVars
<1>2. Processes' /\ Accounts' /\ Ends'
  BY DEF IInv, ClosePipe, Lets, TypeOK, Processes, Accounts, Ends, readVars, flagVars, PipesOf
<1>3. LimitIsExact' /\ AnsweredIsReaped' /\ Stopped'
  BY DEF IInv, ClosePipe, LimitIsExact, AnsweredIsReaped, Stopped, readVars, flagVars
<1> QED BY <1>1, <1>2, <1>3 DEF IInv

LEMMA ForkKeeps == ASSUME IInv, Fork PROVE IInv'
<1>1. TypeOK'
  BY DEF IInv, Fork, TypeOK, readVars, flagVars
<1>2. Processes' /\ Accounts' /\ Ends'
  BY DEF IInv, Fork, TypeOK, Processes, Accounts, Ends, readVars, flagVars, PipesOf
<1>3. LimitIsExact' /\ AnsweredIsReaped' /\ Stopped'
  BY DEF IInv, Fork, LimitIsExact, AnsweredIsReaped, Stopped, readVars, flagVars
<1> QED BY <1>1, <1>2, <1>3 DEF IInv

LEMMA ExitKeeps ==
    ASSUME IInv, NEW x \in {"child", "helper"}, Exit(x)
    PROVE  IInv'
<1>1. TypeOK'
  BY DEF IInv, Exit, Lets, TypeOK, readVars, flagVars
<1>2. Processes'
  <2>1. \A s \in Pipes : writers'[s] = writers[s] \ {x}
    BY DEF Exit, Lets
  <2>2. UNCHANGED <<mode, written, unread, captured>>
    BY DEF Exit, readVars
  <2>3. CASE x = "child"
    <3>1. child' = "zombie" /\ code' # "none" /\ helper' = helper
      BY <2>3 DEF Exit
    <3> QED BY <2>1, <2>2, <2>3, <3>1 DEF IInv, Processes, PipesOf
  <2>4. CASE x = "helper"
    <3>1. UNCHANGED <<child, code>>
      BY <2>4 DEF Exit
    <3> QED BY <2>1, <2>2, <2>4, <3>1 DEF IInv, Processes, PipesOf
  <2> QED BY <2>3, <2>4
<1>4. Accounts' /\ Ends'
  <2>1. \A s \in Pipes : writers[s] = {} => writers'[s] = {}
    BY DEF Exit, Lets
  <2>2. UNCHANGED <<mode, written, unread, captured, registered, ready, at, outcome, timedOut, exceeded>>
    BY DEF Exit, readVars, flagVars
  <2>3. PipesOf(mode) \subseteq Pipes /\ ready \subseteq Pipes
    BY DEF IInv, TypeOK, PipesOf, Pipes
  <2>4. Accounts'
    BY <2>2 DEF IInv, Accounts, PipesOf
  <2>5. Ends'
    BY <2>1, <2>2, <2>3 DEF IInv, Ends, PipesOf
  <2> QED BY <2>4, <2>5
<1>3. LimitIsExact' /\ AnsweredIsReaped' /\ Stopped'
  BY DEF IInv, Exit, Alive, LimitIsExact, AnsweredIsReaped, Stopped, readVars, flagVars
<1> QED BY <1>1, <1>2, <1>3, <1>4 DEF IInv

----------------------------------------------------------------------------
(* Steps that read nothing: the output, the pipes and the counts stay.      *)

Still == UNCHANGED <<mode, immune, helper, code, writers, written, unread, registered, captured, exceeded>>

\* The child can only be collected, and processes only be signalled.
Gentle ==
    /\ child' = child \/ (child # "running" /\ child' = "reaped")
    /\ killed \subseteq killed' /\ killed' \subseteq {"child", "helper"}

LEMMA StillKeeps ==
    ASSUME IInv, Still, Gentle, timedOut' \in BOOLEAN, timedOut => timedOut', late' \in BOOLEAN,
           at' \in Stages, ready' \subseteq Pipes, outcome' \in {"none", "result", "refused", "raised"},
           at' \in {"feed", "loop", "select", "read"} => ~exceeded,
           at' = "read" => \A s \in ready' : unread[s] > 0 \/ writers[s] = {},
           at' \in {"kill", "wait", "rekill", "rewait"} \/ outcome' = "result" =>
              timedOut' \/ exceeded \/ registered = {},
           outcome' # "none" => at' = "done",
           outcome' \in {"result", "refused"} => child' = "reaped",
           mode # "git" /\ at' \in {"lastwait", "done"} /\ ~immune => child' # "running" \/ "child" \in killed'
    PROVE  IInv'
<1>1. TypeOK'
  BY DEF IInv, Still, Gentle, TypeOK
<1>2. Processes' /\ Accounts' /\ Ends'
  BY DEF IInv, Still, Gentle, TypeOK, Processes, Accounts, Ends, PipesOf
<1>3. LimitIsExact' /\ AnsweredIsReaped' /\ Stopped'
  BY DEF IInv, Still, Gentle, TypeOK, Processes, LimitIsExact, AnsweredIsReaped, Stopped
<1> QED BY <1>1, <1>2, <1>3 DEF IInv

LEMMA Gently ==
    ASSUME TypeOK
    PROVE  /\ KeepsChild => Gentle /\ UNCHANGED <<helper, code, writers, written, unread, child>>
           /\ Collected => Gentle /\ UNCHANGED <<helper, code, writers, written, unread>>
           /\ Collected /\ child # "running" => child' = "reaped"
           /\ Collected => killed' = killed
           /\ \A T \in SUBSET {"child", "helper"} :
                 Signal(T) => /\ Gentle /\ UNCHANGED <<helper, code, writers, written, unread, child>>
                              /\ killed' = killed \cup T
<1>1. KeepsChild => Gentle /\ UNCHANGED <<helper, code, writers, written, unread, child>>
  BY DEF KeepsChild, Gentle, childVars, TypeOK
<1>2. Collected => /\ Gentle /\ UNCHANGED <<helper, code, writers, written, unread, killed>>
                   /\ child # "running" => child' = "reaped"
  BY DEF Collected, Collect, Gentle, TypeOK
<1>3. ASSUME NEW T \in SUBSET {"child", "helper"}, Signal(T)
      PROVE  Gentle /\ UNCHANGED <<helper, code, writers, written, unread, child>> /\ killed' = killed \cup T
  BY <1>3 DEF Signal, Gentle, TypeOK
<1> QED BY <1>1, <1>2, <1>3

LEMMA Throws ==
    ASSUME IInv, Still, Gentle, Throw, late' = late, UNCHANGED <<timedOut, ready>>, at # "done"
    PROVE  IInv'
<1>1. outcome = "none"
  BY DEF IInv, Ends
<1>2. CASE mode = "git" /\ at' = "done" /\ outcome' = "raised"
  BY <1>1, <1>2, StillKeeps DEF IInv, TypeOK, Stages
<1>3. CASE mode # "git" /\ at' = "cleanup" /\ outcome' = outcome
  BY <1>1, <1>3, StillKeeps DEF IInv, TypeOK, Stages
<1> QED BY <1>2, <1>3 DEF Throw, Goto

----------------------------------------------------------------------------
(* The reader's steps.                                                      *)

LEMMA DeadlineKeeps == ASSUME IInv, DeadlinePasses PROVE IInv'
<1>1. Still /\ Gentle /\ UNCHANGED <<at, ready, timedOut, outcome, child, killed>> /\ late' = TRUE
  BY DEF IInv, TypeOK, DeadlinePasses, Still, Gentle, childVars, readVars, flagVars
<1> QED BY <1>1, StillKeeps DEF IInv, TypeOK, Accounts, Ends, AnsweredIsReaped, Stopped

LEMMA FeedKeeps == ASSUME IInv, Feed PROVE IInv'
<1>1. Still /\ Gentle /\ UNCHANGED <<ready, timedOut, outcome, late>> /\ at' = "loop"
  BY DEF IInv, TypeOK, Feed, Goto, KeepsChild, Still, Gentle, childVars, readVars, flagVars
<1>2. outcome = "none" /\ ~exceeded
  BY DEF IInv, Feed, Ends, Accounts
<1> QED BY <1>1, <1>2, StillKeeps DEF IInv, TypeOK, Stages

LEMMA LoopKeeps == ASSUME IInv, Loop PROVE IInv'
<1>1. Still /\ Gentle /\ UNCHANGED <<ready, outcome, late>>
  BY DEF IInv, TypeOK, Loop, Goto, KeepsChild, Still, Gentle, childVars, readVars
<1>2. outcome = "none" /\ ~exceeded
  BY DEF IInv, Loop, Ends, Accounts
<1>3. \/ at' = "wait" /\ timedOut' = timedOut /\ registered = {}
      \/ at' = "kill" /\ timedOut' = TRUE
      \/ at' = "select" /\ timedOut' = timedOut
  BY DEF Loop, Goto
<1> QED BY <1>1, <1>2, <1>3, StillKeeps DEF IInv, TypeOK, Stages

LEMMA SelectKeeps == ASSUME IInv, Select PROVE IInv'
<1>1. Still /\ Gentle /\ UNCHANGED <<outcome, late, timedOut>>
  BY Gently DEF IInv, Select, Goto, Still, flagVars
<1>2. outcome = "none" /\ ~exceeded
  BY DEF IInv, Select, Ends, Accounts
<1>3. ready' \subseteq Pipes /\ at' \in {"read", "loop"} /\ \A s \in ready' : unread[s] > 0 \/ writers[s] = {}
  BY DEF IInv, TypeOK, Select, Goto, Readable
<1> QED BY <1>1, <1>2, <1>3, StillKeeps DEF IInv, TypeOK, Stages

LEMMA KillKeeps == ASSUME IInv, Kill PROVE IInv'
<1>1. /\ UNCHANGED <<mode, immune, late, ready, timedOut, registered, captured, exceeded>>
      /\ timedOut \/ exceeded \/ registered = {}
      /\ outcome = "none" /\ at # "done"
  BY DEF IInv, Kill, readVars, flagVars, Ends
<1>2. Gentle /\ UNCHANGED <<helper, code, writers, written, unread>>
  <2>1. Reachable \in SUBSET {"child", "helper"}
    BY DEF Reachable
  <2>2. Signal(Reachable) \/ Collected \/ KeepsChild
    BY DEF Kill, KillGroup
  <2> QED BY <2>1, <2>2, Gently DEF IInv
<1>3. Still
  BY <1>1, <1>2 DEF Still
<1>4. CASE Throw
  BY <1>1, <1>2, <1>3, <1>4, Throws
<1>5. CASE Goto("wait") \/ Goto("rewait")
  BY <1>1, <1>2, <1>3, <1>5, StillKeeps DEF Goto, IInv, TypeOK, Stages
<1> QED BY <1>4, <1>5 DEF Kill, KillGroup

LEMMA WaitKeeps == ASSUME IInv, Wait PROVE IInv'
<1>1. /\ UNCHANGED <<mode, immune, late, ready, timedOut, registered, captured, exceeded>>
      /\ timedOut \/ exceeded \/ registered = {}
      /\ outcome = "none" /\ at # "done"
  BY DEF IInv, Wait, readVars, flagVars, Ends
<1>2. /\ Gentle /\ UNCHANGED <<helper, code, writers, written, unread>>
      /\ child # "running" => child' = "reaped"
  BY Gently DEF IInv, Wait
<1>3. Still
  BY <1>1, <1>2 DEF Still
<1>4. CASE Throw
  BY <1>1, <1>2, <1>3, <1>4, Throws
<1>5. CASE Goto("rekill")
  BY <1>1, <1>2, <1>3, <1>5, StillKeeps DEF Goto, IInv, TypeOK, Stages
<1>6. CASE child # "running" /\ at' = "done" /\ outcome' \in {"result", "refused"}
  BY <1>1, <1>2, <1>3, <1>6, StillKeeps DEF IInv, TypeOK, Stages
<1> QED BY <1>4, <1>5, <1>6 DEF Wait, Conclude

LEMMA FailKeeps == ASSUME IInv, Fail PROVE IInv'
<1>1. /\ UNCHANGED <<mode, immune, late, ready, timedOut, registered, captured, exceeded>>
      /\ Gentle /\ UNCHANGED <<helper, code, writers, written, unread>>
      /\ at # "done" /\ Throw
  BY Gently DEF IInv, Fail, readVars, flagVars
<1>2. Still
  BY <1>1 DEF Still
<1> QED BY <1>1, <1>2, Throws

LEMMA CleanupKeeps == ASSUME IInv, Cleanup \/ Reap \/ LastWait PROVE IInv'
<1>1. /\ UNCHANGED <<mode, immune, late, ready, timedOut, registered, captured, exceeded>>
      /\ outcome = "none" /\ at \in {"cleanup", "reap", "lastwait"}
  BY DEF IInv, Cleanup, Reap, LastWait, readVars, flagVars, Ends
<1>2. Gentle /\ UNCHANGED <<helper, code, writers, written, unread>>
  <2>1. Reachable \in SUBSET {"child", "helper"}
    BY DEF Reachable
  <2>2. Signal(Reachable) \/ Signal(Reachable \ {"helper"}) \/ Collected \/ KeepsChild
    BY DEF Cleanup, Reap, LastWait
  <2> QED BY <2>1, <2>2, Gently DEF IInv
<1>3. Still
  BY <1>1, <1>2 DEF Still
<1>4. CASE Cleanup
  BY <1>1, <1>2, <1>3, <1>4, StillKeeps DEF Cleanup, Goto, IInv, TypeOK, Stages
<1>5. CASE Reap
  <2>1. CASE child # "running" /\ at' = "done" /\ outcome' = "raised"
    BY <1>1, <1>2, <1>3, <2>1, StillKeeps DEF Gentle, IInv, TypeOK, Stages
  <2>2. CASE Signal(Reachable \ {"helper"}) /\ Goto("lastwait")
    <3>1. ~immune => child' # "running" \/ "child" \in killed'
      BY <2>2 DEF Signal, Reachable
    <3> QED BY <1>1, <1>2, <1>3, <2>2, <3>1, StillKeeps DEF Goto, IInv, TypeOK, Stages
  <2> QED BY <1>5, <2>1, <2>2 DEF Reap
<1>6. CASE LastWait
  <2>1. mode # "git" /\ ~immune => child' # "running" \/ "child" \in killed'
    BY <1>1, <1>2, <1>6 DEF LastWait, IInv, Stopped, Gentle
  <2> QED BY <1>1, <1>2, <1>3, <1>6, <2>1, StillKeeps DEF LastWait, IInv, TypeOK, Stages
<1> QED BY <1>4, <1>5, <1>6

----------------------------------------------------------------------------
(* Reading.                                                                 *)

LEMMA ReadFrame ==
    ASSUME IInv, NEW s \in Pipes, Read(s)
    PROVE  /\ UNCHANGED <<mode, immune, child, code, helper, writers, written, killed, late, timedOut>>
           /\ at = "read" /\ outcome = "none" /\ ~exceeded /\ s \in ready
           /\ unread[s] \in Nat /\ captured[s] \in Nat /\ written[s] \in Nat /\ written[s] <= MaxWritten
           /\ captured[s] + unread[s] = written[s]
           /\ unread[s] > 0 \/ writers[s] = {}
BY DEF IInv, TypeOK, Read, Accounts, Ends, Processes

LEMMA EndOfFileKeeps ==
    ASSUME IInv, NEW s \in Pipes, Read(s), EndOfFile(s)
    PROVE  IInv'
<1>1. /\ UNCHANGED <<mode, immune, child, code, helper, writers, written, killed, late, timedOut, captured, unread,
                     exceeded, outcome>>
      /\ at' \in {"loop", "read"} /\ registered' = registered \ {s} /\ ready' = ready \ {s}
      /\ unread[s] = 0 /\ writers[s] = {} /\ ~exceeded /\ outcome = "none" /\ at = "read"
  BY ReadFrame DEF EndOfFile, Goto
<1>2. TypeOK'
  BY <1>1 DEF IInv, TypeOK, Stages
<1>3. Processes' /\ Accounts' /\ Ends'
  BY <1>1 DEF IInv, Processes, Accounts, Ends, PipesOf
<1>4. LimitIsExact' /\ AnsweredIsReaped' /\ Stopped'
  BY <1>1 DEF IInv, LimitIsExact, AnsweredIsReaped, Stopped
<1> QED BY <1>2, <1>3, <1>4 DEF IInv

LEMMA FitsKeeps ==
    ASSUME IInv, NEW s \in Pipes, Read(s), Fits(s)
    PROVE  IInv'
<1>1. PICK n \in 1..unread[s] :
         /\ captured[s] + n <= Limit
         /\ unread' = [unread EXCEPT ![s] = @ - n]
         /\ captured' = [captured EXCEPT ![s] = @ + n]
         /\ ready' = ready \ {s} /\ UNCHANGED <<registered, exceeded, outcome>>
         /\ at' \in {"loop", "read"}
  BY DEF Fits, Take, Goto
<1>2. /\ UNCHANGED <<mode, immune, child, code, helper, writers, written, killed, late, timedOut>>
      /\ at = "read" /\ outcome = "none" /\ ~exceeded /\ s \in ready
      /\ unread[s] \in Nat /\ captured[s] \in Nat /\ written[s] \in Nat /\ written[s] <= MaxWritten
      /\ captured[s] + unread[s] = written[s]
  BY ReadFrame
<1>3. n \in Nat /\ n > 0 /\ n <= unread[s]
  BY <1>1, <1>2
<1>4. /\ unread'[s] = unread[s] - n /\ unread'[s] \in 0..MaxWritten /\ unread'[s] <= written[s]
      /\ captured'[s] = captured[s] + n /\ captured'[s] \in 0..Limit
      /\ captured'[s] + unread'[s] = written[s]
      /\ \A t \in Pipes : t # s => unread'[t] = unread[t] /\ captured'[t] = captured[t]
  BY <1>1, <1>2, <1>3, Limits DEF IInv, TypeOK
<1>5. TypeOK'
  BY <1>1, <1>2, <1>4 DEF IInv, TypeOK, Stages
<1>6. s \in registered /\ s \in PipesOf(mode)
  <2>1. s \in PipesOf(mode)
    BY <1>2, <1>3 DEF IInv, Processes
  <2> QED BY <1>2, <1>3, <2>1 DEF IInv, Ends
<1>7. Processes'
  BY <1>2, <1>4, <1>6 DEF IInv, Processes, PipesOf
<1>8. Accounts'
  BY <1>1, <1>2, <1>4 DEF IInv, Accounts, PipesOf
<1>9. Ends'
  <2>1. \A t \in PipesOf(mode) \ registered : t # s /\ t \in Pipes
    BY <1>6 DEF PipesOf, Pipes
  <2>2. \A t \in ready' : t # s /\ t \in Pipes /\ t \in ready
    BY <1>1 DEF IInv, TypeOK
  <2> QED BY <1>1, <1>2, <1>4, <2>1, <2>2 DEF IInv, Ends, PipesOf
<1>10. LimitIsExact' /\ AnsweredIsReaped' /\ Stopped'
  BY <1>1, <1>2 DEF IInv, LimitIsExact, AnsweredIsReaped, Stopped
<1> QED BY <1>5, <1>7, <1>8, <1>9, <1>10 DEF IInv

LEMMA OverflowsKeeps ==
    ASSUME IInv, NEW s \in Pipes, Read(s), Overflows(s)
    PROVE  IInv'
<1>1. PICK n \in 1..unread[s] :
         /\ captured[s] + n > Limit
         /\ unread' = [unread EXCEPT ![s] = @ - n]
         /\ captured' = [captured EXCEPT ![s] = IF mode = "archive" THEN @ ELSE Limit]
         /\ exceeded' = TRUE /\ UNCHANGED <<registered, ready, outcome>>
         /\ at' = "kill"
  BY DEF Overflows, Take, Goto
<1>2. /\ UNCHANGED <<mode, immune, child, code, helper, writers, written, killed, late, timedOut>>
      /\ at = "read" /\ outcome = "none" /\ ~exceeded /\ s \in ready
      /\ unread[s] \in Nat /\ captured[s] \in Nat /\ written[s] \in Nat /\ written[s] <= MaxWritten
      /\ captured[s] + unread[s] = written[s]
  BY ReadFrame
<1>3. n \in Nat /\ n > 0 /\ n <= unread[s] /\ written[s] > Limit
  BY <1>1, <1>2, Limits
<1>4. /\ unread'[s] \in 0..MaxWritten /\ unread'[s] <= written[s]
      /\ captured'[s] \in 0..Limit /\ (mode = "archive" \/ captured'[s] = Limit)
      /\ \A t \in Pipes : t # s => unread'[t] = unread[t] /\ captured'[t] = captured[t]
  BY <1>1, <1>2, <1>3, Limits DEF IInv, TypeOK
<1>5. TypeOK'
  BY <1>1, <1>2, <1>4 DEF IInv, TypeOK, Stages
<1>6. s \in registered /\ s \in PipesOf(mode)
  <2>1. s \in PipesOf(mode)
    BY <1>2, <1>3 DEF IInv, Processes
  <2> QED BY <1>2, <1>3, <2>1 DEF IInv, Ends
<1>7. Processes'
  BY <1>2, <1>4, <1>6 DEF IInv, Processes, PipesOf
<1>8. Accounts'
  BY <1>1, <1>2 DEF IInv, Accounts, PipesOf
<1>9. Ends'
  <2>1. \A t \in PipesOf(mode) \ registered : t # s /\ t \in Pipes
    BY <1>6 DEF PipesOf, Pipes
  <2> QED BY <1>1, <1>2, <1>4, <2>1 DEF IInv, Ends, PipesOf
<1>10. LimitIsExact' /\ AnsweredIsReaped' /\ Stopped'
  BY <1>1, <1>2, <1>3, <1>4 DEF IInv, LimitIsExact, AnsweredIsReaped, Stopped
<1> QED BY <1>5, <1>7, <1>8, <1>9, <1>10 DEF IInv

----------------------------------------------------------------------------

LEMMA InvariantHolds == Spec => []IInv
<1>1. Init => IInv
  <2> SUFFICES ASSUME Init PROVE IInv
    OBVIOUS
  <2>0. /\ PipesOf(mode) \subseteq Pipes /\ at \in {"feed", "loop"}
        /\ \A s \in Pipes : writers[s] \in SUBSET {"child", "helper"}
    BY DEF Init, PipesOf, Pipes
  <2>1. TypeOK
    <3>1. /\ writers \in [Pipes -> SUBSET {"child", "helper"}]
          /\ written \in [Pipes -> 0..MaxWritten] /\ unread \in [Pipes -> 0..MaxWritten]
          /\ captured \in [Pipes -> 0..Limit]
      BY <2>0, Limits DEF Init
    <3>2. mode \in Modes /\ immune \in BOOLEAN /\ at \in Stages
      BY <2>0 DEF Init, Stages
    <3>3. /\ late \in BOOLEAN /\ child = "running" /\ code = "none" /\ helper = "none" /\ killed = {}
          /\ registered \subseteq Pipes /\ ready \subseteq Pipes /\ timedOut \in BOOLEAN /\ exceeded \in BOOLEAN
          /\ outcome = "none"
      BY <2>0 DEF Init
    <3> QED BY <3>1, <3>2, <3>3 DEF TypeOK
  <2>2. Processes
    BY DEF Init, Processes
  <2>3. Accounts /\ Ends
    BY DEF Init, Accounts, Ends, Pipes, PipesOf
  <2>4. LimitIsExact /\ AnsweredIsReaped /\ Stopped
    BY DEF Init, LimitIsExact, AnsweredIsReaped, Stopped
  <2> QED BY <2>1, <2>2, <2>3, <2>4 DEF IInv
<1>2. IInv /\ [Next]_vars => IInv'
  <2> SUFFICES ASSUME IInv, [Next]_vars PROVE IInv'
    OBVIOUS
  <2>1. CASE ProcessStep
    BY <2>1, OutputKeeps, ClosePipeKeeps, ForkKeeps, ExitKeeps DEF ProcessStep
  <2>2. CASE ReaderStep
    <3>1. ASSUME NEW s \in Pipes, Read(s) PROVE IInv'
      BY <3>1, EndOfFileKeeps, FitsKeeps, OverflowsKeeps DEF Read
    <3> QED BY <2>2, <3>1, LoopKeeps, SelectKeeps, KillKeeps, WaitKeeps, CleanupKeeps DEF ReaderStep
  <2>3. CASE UNCHANGED vars
    BY <2>3 DEF vars, childVars, readVars, flagVars, IInv, TypeOK, Processes, Accounts, Ends, LimitIsExact,
       AnsweredIsReaped, Stopped, PipesOf
  <2> QED BY <2>1, <2>2, <2>3, DeadlineKeeps, FeedKeeps, FailKeeps DEF Next
<1> QED BY <1>1, <1>2, PTL DEF Spec

\* Types hold; in particular what is kept of the output never exceeds the limit.
THEOREM ChildProcessTypes == Spec => []TypeOK
<1>1. IInv => TypeOK
  BY DEF IInv
<1> QED BY <1>1, InvariantHolds, PTL

\* An unflagged answer has all that was written, and nobody is left who could
\* write more.
THEOREM AnswersAreComplete == Spec => []AnswerIsComplete
<1>1. IInv => AnswerIsComplete
  <2> SUFFICES ASSUME IInv, outcome = "result", ~timedOut, ~exceeded, NEW s \in Pipes
               PROVE  captured[s] = written[s] /\ writers[s] = {}
    BY DEF AnswerIsComplete
  <2>1. CASE s \in PipesOf(mode)
    <3>1. unread[s] = 0 /\ writers[s] = {}
      BY <2>1 DEF IInv, Ends
    <3> QED BY <3>1 DEF IInv, Accounts, TypeOK
  <2>2. CASE s \notin PipesOf(mode)
    BY <2>2 DEF IInv, Processes
  <2> QED BY <2>1, <2>2
<1> QED BY <1>1, InvariantHolds, PTL

\* Only output beyond the limit is ever taken for too much.
THEOREM LimitsAreExact == Spec => []LimitIsExact
<1>1. IInv => LimitIsExact
  BY DEF IInv
<1> QED BY <1>1, InvariantHolds, PTL

\* Whoever gets an answer has a child that is gone.
THEOREM AnsweredChildIsReaped == Spec => []AnsweredIsReaped
<1>1. IInv => AnsweredIsReaped
  BY DEF IInv
<1> QED BY <1>1, InvariantHolds, PTL

\* No check and no archive leaves its child running unkilled.
THEOREM NoRunawayChild == Spec => []NoRunaway
<1>1. IInv => NoRunaway
  BY DEF IInv, Stopped, NoRunaway
<1> QED BY <1>1, InvariantHolds, PTL
=============================================================================
