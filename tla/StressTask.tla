----------------------------- MODULE StressTask -----------------------------
(***************************************************************************)
(* One run of a stress plan, without its execution mode: the goroutine of  *)
(* TaskDecomposition (start record, mode, end record, close), the result   *)
(* channel, the goroutine of SendKafkaMsg that drains it, the worker       *)
(* goroutines a mode spawns and counts in its WaitGroup, and the status    *)
(* messages a mode receives from redis.                                    *)
(*                                                                         *)
(* The execution modes (ConcurrentModel, RoundModel) extend this module:   *)
(* each owns the values of pc between "enter" and "clearStart", where      *)
(* TaskDecomposition is inside the mode's function.                        *)
(***************************************************************************)
EXTENDS Integers, Sequences, FiniteSets

CONSTANTS
  Goroutine,    \* handles of worker goroutines; a handle is reused once its goroutine ended
  ChanCap,      \* capacity of resultDataMsgCh, 500000 in the code
  SceneSize,    \* the most results one execution of the scene sends
  KafkaFails,   \* whether a write to Kafka may return an error
  ControlModes, \* the values of ConfigTask.ControlMode a task may be given
  Messages,     \* for each of them, the status messages the management service may publish
  MaxMessages   \* bound: how many of them arrive during one task

StatusMessage ==
  [type : {"StopPlan", "DebugStatus", "ReportChange"},
   machineModeConf : BOOLEAN,   \* the field is present, not nil
   stopPlan : BOOLEAN,          \* the field holds "stop"
   local : BOOLEAN,             \* Machine is this machine's address
   modeConf : BOOLEAN,          \* ModeConf is present, not nil; then its fields
   duration : Nat, concurrency : Nat, roundNum : Nat, startConcurrency : Nat, step : Nat,
   stepRunTime : Nat, maxConcurrency : Nat]

\* a message that changes nothing
Unchanged ==
  [type |-> "ReportChange", machineModeConf |-> TRUE, stopPlan |-> FALSE, local |-> TRUE,
   modeConf |-> TRUE, duration |-> 0, concurrency |-> 0, roundNum |-> 0, startConcurrency |-> 0,
   step |-> 0, stepRunTime |-> 0, maxConcurrency |-> 0]

ASSUME TaskAssumption ==
  /\ ChanCap \in Nat \ {0}
  /\ SceneSize \in Nat
  /\ KafkaFails \in BOOLEAN
  /\ ControlModes \subseteq {"Centralized", "Alone"}
  /\ Messages \in [ControlModes -> SUBSET StatusMessage]
  /\ MaxMessages \in Nat

VARIABLES
  controlMode,      \* ConfigTask.ControlMode, an argument of the task
  pc,               \* where the goroutine of TaskDecomposition is
  startMsg,         \* the record it allocates once and sends twice, by pointer
  resultDataMsgCh,  \* what is buffered: "boundary" points to startMsg, "result" is a worker's
  closed,           \* resultDataMsgCh is closed
  crashed,          \* a goroutine sent on the closed channel: the process is gone
  sender,           \* where SendKafkaMsg is, and the flags it marshalled so far
  delivered,        \* what Kafka accepted: first and last record, number of records with End
  gpc, gid, todo,   \* of each worker: where it is, its concurrency id, results left to send
  wg,               \* counter of currentWg
  statusCh,         \* messages of the redis subscription not yet received
  published         \* how many status messages were published

taskVars == <<controlMode, pc, startMsg, resultDataMsgCh, closed, crashed, sender, delivered,
              gpc, gid, todo, wg, statusCh, published>>

Centralized == controlMode = "Centralized"

\* the places of TaskDecomposition outside the mode's function, and those after it
FramePc  == {"start", "enter", "clearStart", "setEnd", "sendEnd", "close", "returned"}
ReturnPc == FramePc \ {"start", "enter"}

-----------------------------------------------------------------------------
(* Status messages: the nil test comes before the switch on the type.      *)

StopsPlan(m) == m.machineModeConf /\ m.type = "StopPlan" /\ m.stopPlan

\* a change of this machine's configuration; without a ModeConf it is a nil dereference
Addressed(m)   == m.machineModeConf /\ m.type = "ReportChange" /\ m.local
Changes(m)     == Addressed(m) /\ m.modeConf
Dereferences(m) == Addressed(m) /\ ~m.modeConf

\* delivered only while the mode's subscription is open
Publish ==
  /\ published < MaxMessages
  /\ pc \notin FramePc \ {"enter"}
  /\ \E m \in Messages[controlMode] : statusCh' = Append(statusCh, m)
  /\ published' = published + 1
  /\ UNCHANGED <<pc, startMsg, resultDataMsgCh, closed, crashed, sender, delivered,
                 gpc, gid, todo, wg>>

-----------------------------------------------------------------------------
(* SendKafkaMsg.  The start record is read field by field, in the order of *)
(* the struct, while TaskDecomposition may be writing it.                  *)

Room == Len(resultDataMsgCh) < ChanCap

KindOf(start, end) ==
  CASE start /\ ~end -> "Start"
    [] start /\ end  -> "StartEnd"
    [] ~start /\ end -> "End"
    [] OTHER         -> "Result"

Receive ==
  /\ sender.pc = "recv"
  /\ resultDataMsgCh # <<>>
  /\ resultDataMsgCh' = Tail(resultDataMsgCh)
  /\ sender' = IF Head(resultDataMsgCh) = "boundary"
               THEN [pc |-> "marshal", start |-> startMsg.start, end |-> FALSE]
               ELSE [pc |-> "send", start |-> FALSE, end |-> FALSE]
  /\ UNCHANGED <<startMsg, closed, delivered>>

Marshal ==
  /\ sender.pc = "marshal"
  /\ sender' = [sender EXCEPT !.pc = "send", !.end = startMsg.end]
  /\ UNCHANGED <<startMsg, resultDataMsgCh, closed, delivered>>

SendMessage ==
  /\ sender.pc = "send"
  /\ sender' = [sender EXCEPT !.pc = "recv"]
  /\ LET kind == KindOf(sender.start, sender.end)
     IN  delivered' = [first |-> IF delivered.first = "none" THEN kind ELSE delivered.first,
                       last  |-> kind,
                       ends  |-> delivered.ends + IF sender.end THEN 1 ELSE 0]
  /\ UNCHANGED <<startMsg, resultDataMsgCh, closed>>

\* an error breaks out of the loop: the goroutine ends and nobody drains the channel
SendFails ==
  /\ KafkaFails
  /\ sender.pc = "send"
  /\ sender' = [sender EXCEPT !.pc = "failed"]
  /\ UNCHANGED <<startMsg, resultDataMsgCh, closed, delivered>>

\* Faulty variant: the sender ends as soon as it finds the channel empty.
SenderStopsWhenEmpty ==
  /\ sender.pc = "recv"
  /\ resultDataMsgCh = <<>>
  /\ sender' = [sender EXCEPT !.pc = "done"]
  /\ UNCHANGED <<startMsg, resultDataMsgCh, closed, delivered>>

SenderDone ==
  /\ sender.pc = "recv"
  /\ resultDataMsgCh = <<>>
  /\ closed
  /\ sender' = [sender EXCEPT !.pc = "done"]
  /\ UNCHANGED <<startMsg, resultDataMsgCh, closed, delivered>>

SendKafkaMsg ==
  /\ ~crashed
  /\ Receive \/ Marshal \/ SendMessage \/ SendFails \/ SenderDone
  /\ UNCHANGED <<pc, crashed, gpc, gid, todo, wg, statusCh, published>>

-----------------------------------------------------------------------------
(* TaskDecomposition around the mode.  Its deferred recover runs the same  *)
(* three steps on the record when the mode panics.                         *)

SendStart ==
  /\ pc = "start"
  /\ Room
  /\ resultDataMsgCh' = Append(resultDataMsgCh, "boundary")
  /\ pc' = "enter"
  /\ UNCHANGED <<startMsg, closed>>

ClearStart ==
  /\ pc = "clearStart"
  /\ startMsg' = [startMsg EXCEPT !.start = FALSE]
  /\ pc' = "setEnd"
  /\ UNCHANGED <<resultDataMsgCh, closed>>

SetEnd ==
  /\ pc = "setEnd"
  /\ startMsg' = [startMsg EXCEPT !.end = TRUE]
  /\ pc' = "sendEnd"
  /\ UNCHANGED <<resultDataMsgCh, closed>>

SendEnd ==
  /\ pc = "sendEnd"
  /\ Room
  /\ resultDataMsgCh' = Append(resultDataMsgCh, "boundary")
  /\ pc' = "close"
  /\ UNCHANGED <<startMsg, closed>>

\* Faulty variant: TaskDecomposition returns without closing the channel.
ReturnWithoutClose ==
  /\ pc = "close"
  /\ pc' = "returned"
  /\ UNCHANGED <<startMsg, resultDataMsgCh, closed>>

Close ==
  /\ pc = "close"
  /\ closed' = TRUE
  /\ pc' = "returned"
  /\ UNCHANGED <<startMsg, resultDataMsgCh>>

TaskDecomposition ==
  /\ ~crashed
  /\ SendStart \/ ClearStart \/ SetEnd \/ SendEnd \/ Close
  /\ UNCHANGED <<crashed, sender, delivered, gpc, gid, todo, wg, statusCh, published>>

-----------------------------------------------------------------------------
(* Workers.  A worker is at "head" before a scene, at "scene" while        *)
(* DisposeScene runs, at "unmap" and "done" in its two deferred calls.     *)

Live == {g \in Goroutine : gpc[g] # "free"}

\* Faulty variant: the worker is started before it is counted in.
GoUncounted(g, i) ==
  /\ gpc[g] = "free"
  /\ gpc' = [gpc EXCEPT ![g] = "head"]
  /\ gid' = [gid EXCEPT ![g] = i]
  /\ UNCHANGED <<wg, todo>>

\* go func(...): the controller has just counted the worker in
Go(g, i) ==
  /\ gpc[g] = "free"
  /\ gpc' = [gpc EXCEPT ![g] = "head"]
  /\ gid' = [gid EXCEPT ![g] = i]
  /\ wg' = wg + 1
  /\ UNCHANGED todo

\* DisposeScene is called; how many of its nodes send a result is left open
EnterScene(g) ==
  /\ gpc' = [gpc EXCEPT ![g] = "scene"]
  /\ \E n \in 0 .. SceneSize : todo' = [todo EXCEPT ![g] = n]

\* a node of the scene sends its result; on a closed channel the send panics
SendResult(g) ==
  /\ gpc[g] = "scene"
  /\ todo[g] > 0
  /\ \/ /\ closed
        /\ crashed' = TRUE
        /\ UNCHANGED <<resultDataMsgCh, todo>>
     \/ /\ ~closed
        /\ Room
        /\ resultDataMsgCh' = Append(resultDataMsgCh, "result")
        /\ todo' = [todo EXCEPT ![g] = @ - 1]
        /\ UNCHANGED crashed
  /\ UNCHANGED <<pc, startMsg, closed, sender, delivered, gpc, gid, wg, statusCh, published>>

\* DisposeScene has waited for its nodes and returns to the worker's loop, or to its end
SceneReturns(g, next) ==
  /\ gpc[g] = "scene"
  /\ todo[g] = 0
  /\ gpc' = [gpc EXCEPT ![g] = next]
  /\ UNCHANGED <<pc, startMsg, resultDataMsgCh, closed, crashed, sender, delivered,
                 gid, todo, wg, statusCh, published>>

\* Faulty variant: the worker ends without its currentWg.Done().
WorkerEndsUncounted(g) ==
  /\ gpc[g] = "done"
  /\ gpc' = [gpc EXCEPT ![g] = "free"]
  /\ gid' = [gid EXCEPT ![g] = 0]
  /\ UNCHANGED <<pc, startMsg, resultDataMsgCh, closed, crashed, sender, delivered,
                 todo, wg, statusCh, published>>

\* defer currentWg.Done(), the last thing a worker does
WorkerDone(g) ==
  /\ gpc[g] = "done"
  /\ gpc' = [gpc EXCEPT ![g] = "free"]
  /\ gid' = [gid EXCEPT ![g] = 0]
  /\ wg' = wg - 1
  /\ UNCHANGED <<pc, startMsg, resultDataMsgCh, closed, crashed, sender, delivered,
                 todo, statusCh, published>>

-----------------------------------------------------------------------------
TaskInit ==
  /\ controlMode \in ControlModes
  /\ pc = "start"
  /\ startMsg = [start |-> TRUE, end |-> FALSE]
  /\ resultDataMsgCh = <<>>
  /\ closed = FALSE
  /\ crashed = FALSE
  /\ sender = [pc |-> "recv", start |-> FALSE, end |-> FALSE]
  /\ delivered = [first |-> "none", last |-> "none", ends |-> 0]
  /\ gpc = [g \in Goroutine |-> "free"]
  /\ gid = [g \in Goroutine |-> 0]
  /\ todo = [g \in Goroutine |-> 0]
  /\ wg = 0
  /\ statusCh = <<>>
  /\ published = 0

Kind == {"none", "Start", "StartEnd", "End", "Result"}

TaskTypeOK ==
  /\ controlMode \in ControlModes
  /\ startMsg \in [start : BOOLEAN, end : BOOLEAN]
  /\ resultDataMsgCh \in Seq({"boundary", "result"})
  /\ closed \in BOOLEAN
  /\ crashed \in BOOLEAN
  /\ sender \in [pc : {"recv", "marshal", "send", "done", "failed"},
                 start : BOOLEAN, end : BOOLEAN]
  /\ delivered \in [first : Kind, last : Kind, ends : Nat]
  /\ gpc \in [Goroutine -> {"free", "head", "scene", "unmap", "done"}]
  /\ gid \in [Goroutine -> Nat]
  /\ todo \in [Goroutine -> 0 .. SceneSize]
  /\ wg \in Nat
  /\ statusCh \in Seq(Messages[controlMode])
  /\ published \in 0 .. MaxMessages

\* The counter of the WaitGroup is the number of workers that have not ended.
WgCounts == IsFiniteSet(Live) /\ wg = Cardinality(Live)

-----------------------------------------------------------------------------
(* What every mode owes its caller.                                        *)

\* No goroutine ever sends on the closed result channel (dispose.go:167 closes it when
\* TaskDecomposition returns; a worker's send at link.go:625 would then panic outside
\* every recover and end the whole process).
NoSendOnClosedChannel == ~crashed

\* If the sender took the start record before the mode returned (so the record it
\* delivered first is Start), the record with End is the last one: nothing is buffered
\* behind it and nobody is left to send (dispose.go:286-299 against link.go:625).
EndSealsTheStream ==
  delivered.first = "Start" /\ delivered.ends > 0 => resultDataMsgCh = <<>> /\ Live = {}

\* When the sender stops because the channel is closed, everything was delivered and the
\* last record of the stream is the one marked End (request_kafka.go:41-45).
StreamIsComplete ==
  sender.pc = "done" => delivered.last = "End"

\* Nothing follows a record marked End, "最后一条记录标记" in the words of result.go:69.
EndMarksTheLastRecord == [][delivered.ends > 0 => delivered' = delivered]_taskVars

\* The sender goroutine ends: the end of the stream reaches Kafka or Kafka failed.
SenderEnds == <>(sender.pc \in {"done", "failed"})
=============================================================================
