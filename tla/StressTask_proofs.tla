-------------------------- MODULE StressTask_proofs --------------------------
(***************************************************************************)
(* Facts about the parts every execution mode is built from: which steps   *)
(* change the set of live workers and its count, and that the steps of     *)
(* StressTask keep its types.                                              *)
(***************************************************************************)
EXTENDS StressTask, FiniteSetTheorems, SequenceTheorems, TLAPS

WorkerPc == {"free", "head", "scene", "unmap", "done"}

\* Starting a goroutine adds it to the live ones and counts it (the Add(1) before go).
LEMMA GoCounts ==
  ASSUME NEW g \in Goroutine, NEW i, gpc \in [Goroutine -> WorkerPc], WgCounts, Go(g, i)
  PROVE  WgCounts' /\ Live' = Live \cup {g}
<1>1. Live' = Live \cup {g} /\ g \notin Live
  BY DEF Go, Live, WorkerPc
<1>2. IsFiniteSet(Live \cup {g}) /\ Cardinality(Live \cup {g}) = Cardinality(Live) + 1
  BY <1>1, FS_AddElement DEF WgCounts
<1>3. QED
  BY <1>1, <1>2 DEF WgCounts, Go

\* The deferred Done of a worker takes exactly that worker out of the count.
LEMMA DoneCounts ==
  ASSUME NEW g \in Goroutine, gpc \in [Goroutine -> WorkerPc], WgCounts, WorkerDone(g)
  PROVE  WgCounts' /\ Live' = Live \ {g} /\ wg \in Nat \ {0}
<1>1. Live' = Live \ {g} /\ g \in Live
  BY DEF WorkerDone, Live, WorkerPc
<1>2. IsFiniteSet(Live \ {g}) /\ Cardinality(Live \ {g}) = Cardinality(Live) - 1
  BY <1>1, FS_RemoveElement DEF WgCounts
<1>3. Cardinality(Live) \in Nat /\ Cardinality(Live) # 0
  BY <1>1, FS_CardinalityType, FS_EmptySet DEF WgCounts
<1>4. QED
  BY <1>1, <1>2, <1>3 DEF WgCounts, WorkerDone

\* A worker that moves on without ending or being started leaves the count alone.
LEMMA MoveCounts ==
  ASSUME NEW g \in Goroutine, NEW next \in WorkerPc \ {"free"},
         gpc \in [Goroutine -> WorkerPc], WgCounts,
         gpc[g] # "free", gpc' = [gpc EXCEPT ![g] = next], wg' = wg
  PROVE  WgCounts' /\ Live' = Live
<1>1. Live' = Live
  BY DEF Live, WorkerPc
<1>2. QED
  BY <1>1 DEF WgCounts

\* Wait returns only when no worker is left: the counter at zero is the empty pool.
LEMMA ZeroIsEmpty ==
  ASSUME WgCounts, wg = 0
  PROVE  Live = {}
BY FS_EmptySet DEF WgCounts

\* Workers with different ids below n are at most n.
LEMMA IdsBoundWorkers ==
  ASSUME NEW n \in Nat, IsFiniteSet(Live), gid \in [Goroutine -> Nat],
         \A g \in Live : gid[g] < n,
         \A g, h \in Live : gid[g] = gid[h] => g = h
  PROVE  Cardinality(Live) <= n
<1> DEFINE f == [g \in Live |-> gid[g]]
<1>1. Live \subseteq Goroutine
  BY DEF Live
<1>2. \A g \in Live : gid[g] \in 0 .. n - 1
  BY <1>1
<1>3. f \in Injection(Live, 0 .. n - 1)
  BY <1>2 DEF Injection, IsInjective
<1>4. IsFiniteSet(0 .. n - 1) /\ Cardinality(0 .. n - 1) = n
  BY FS_Interval
<1>5. QED
  <2> HIDE DEF f
  <2>1. QED
    BY <1>3, <1>4, FS_Injection

\* The first state is typed.
LEMMA TaskInitTypes ==
  ASSUME TaskInit
  PROVE  TaskTypeOK
<1>1. gid \in [Goroutine -> Nat] /\ gpc \in [Goroutine -> WorkerPc]
  BY DEF TaskInit, WorkerPc
<1>2. todo \in [Goroutine -> 0 .. SceneSize]
  <2>1. 0 \in 0 .. SceneSize
    BY TaskAssumption
  <2>2. QED
    BY <2>1 DEF TaskInit
<1>3. delivered \in [first : Kind, last : Kind, ends : Nat]
  BY DEF TaskInit, Kind
<1>4. resultDataMsgCh \in Seq({"boundary", "result"}) /\ statusCh \in Seq(Messages[controlMode])
  BY DEF TaskInit
<1>5. published \in 0 .. MaxMessages
  BY TaskAssumption DEF TaskInit
<1>6. QED
  BY <1>1, <1>2, <1>3, <1>4, <1>5 DEF TaskInit, TaskTypeOK, WorkerPc

\* The steps of TaskDecomposition keep the types.
LEMMA TaskDecompositionTypes ==
  ASSUME TaskTypeOK, TaskDecomposition, UNCHANGED controlMode
  PROVE  TaskTypeOK'
<1>1. CASE SendStart
  BY <1>1 DEF SendStart, TaskDecomposition, TaskTypeOK
<1>2. CASE ClearStart
  BY <1>2 DEF ClearStart, TaskDecomposition, TaskTypeOK
<1>3. CASE SetEnd
  BY <1>3 DEF SetEnd, TaskDecomposition, TaskTypeOK
<1>4. CASE SendEnd
  BY <1>4 DEF SendEnd, TaskDecomposition, TaskTypeOK
<1>5. CASE Close
  BY <1>5 DEF Close, TaskDecomposition, TaskTypeOK
<1>6. QED
  BY <1>1, <1>2, <1>3, <1>4, <1>5 DEF TaskDecomposition

\* The steps of the Kafka sender keep the types.
LEMMA SendKafkaMsgTypes ==
  ASSUME TaskTypeOK, SendKafkaMsg, UNCHANGED controlMode
  PROVE  TaskTypeOK'
<1>1. CASE Receive
  BY <1>1 DEF Receive, SendKafkaMsg, TaskTypeOK
<1>2. CASE Marshal
  BY <1>2 DEF Marshal, SendKafkaMsg, TaskTypeOK
<1>3. CASE SendMessage
  <2>1. KindOf(sender.start, sender.end) \in Kind
    BY DEF TaskTypeOK, KindOf, Kind
  <2>2. delivered' \in [first : Kind, last : Kind, ends : Nat]
    BY <1>3, <2>1 DEF SendMessage, TaskTypeOK
  <2>3. sender' \in [pc : {"recv", "marshal", "send", "done", "failed"},
                     start : BOOLEAN, end : BOOLEAN]
    BY <1>3 DEF SendMessage, TaskTypeOK
  <2>4. QED
    BY <1>3, <2>2, <2>3 DEF SendMessage, SendKafkaMsg, TaskTypeOK
<1>4. CASE SendFails
  BY <1>4 DEF SendFails, SendKafkaMsg, TaskTypeOK
<1>5. CASE SenderDone
  BY <1>5 DEF SenderDone, SendKafkaMsg, TaskTypeOK
<1>6. QED
  BY <1>1, <1>2, <1>3, <1>4, <1>5 DEF SendKafkaMsg

\* Publishing a status message keeps the types.
LEMMA PublishTypes ==
  ASSUME TaskTypeOK, Publish, UNCHANGED controlMode
  PROVE  TaskTypeOK'
BY TaskAssumption DEF Publish, TaskTypeOK

\* A worker that sends a result keeps the types.
LEMMA SendResultTypes ==
  ASSUME TaskTypeOK, NEW g \in Goroutine, SendResult(g), UNCHANGED controlMode
  PROVE  TaskTypeOK'
<1>1. todo' \in [Goroutine -> 0 .. SceneSize]
  <2>1. todo \in [Goroutine -> 0 .. SceneSize] /\ todo[g] > 0 /\ SceneSize \in Nat
    BY TaskAssumption DEF SendResult, TaskTypeOK
  <2>2. todo[g] \in 1 .. SceneSize
    BY <2>1
  <2>3. todo' = todo \/ todo' = [todo EXCEPT ![g] = todo[g] - 1]
    BY DEF SendResult
  <2>4. QED
    BY <2>1, <2>2, <2>3
<1>2. resultDataMsgCh' \in Seq({"boundary", "result"})
  <2>1. resultDataMsgCh \in Seq({"boundary", "result"})
    BY DEF TaskTypeOK
  <2>2. \/ resultDataMsgCh' = resultDataMsgCh
        \/ resultDataMsgCh' = Append(resultDataMsgCh, "result")
    BY DEF SendResult
  <2>3. QED
    BY <2>1, <2>2
<1>3. crashed' \in BOOLEAN
  BY DEF SendResult, TaskTypeOK
<1>4. QED
  BY <1>1, <1>2, <1>3 DEF SendResult, TaskTypeOK

-----------------------------------------------------------------------------
(* The end of the stream                                                   *)

\* The end record is on its way to Kafka: the last one buffered, in the hands of the
\* sender, or delivered as the last one.
EndUnderway ==
  \/ sender.pc = "failed"
  \/ resultDataMsgCh # <<>> /\ resultDataMsgCh[Len(resultDataMsgCh)] = "boundary"
  \/ /\ resultDataMsgCh = <<>>
     /\ \/ sender.pc = "marshal" /\ ~sender.start
        \/ sender.pc = "send" /\ ~sender.start /\ sender.end
        \/ sender.pc \in {"recv", "done"} /\ delivered.last = "End"

\* What makes StreamIsComplete inductive: the flags of the record the frame sends last.
StreamInv ==
  /\ pc \in {"setEnd", "sendEnd", "close", "returned"} => ~startMsg.start
  /\ pc \in {"sendEnd", "close", "returned"} => startMsg.end
  /\ pc \in {"close", "returned"} => EndUnderway
  /\ closed => pc = "returned"
  /\ sender.pc = "done" => closed /\ resultDataMsgCh = <<>>

LEMMA StreamInvInit ==
  ASSUME TaskInit
  PROVE  StreamInv
BY DEF TaskInit, StreamInv

\* The goal that StreamInv strengthens.
LEMMA StreamInvComplete ==
  ASSUME StreamInv, TaskTypeOK
  PROVE  StreamIsComplete
<1> SUFFICES ASSUME sender.pc = "done" PROVE delivered.last = "End"
  BY DEF StreamIsComplete
<1>1. pc = "returned" /\ resultDataMsgCh = <<>>
  BY DEF StreamInv
<1>2. EndUnderway
  BY <1>1 DEF StreamInv
<1>3. QED
  BY <1>1, <1>2 DEF EndUnderway

\* The frame sets the flags before it sends the record for the second time.
LEMMA TaskDecompositionStream ==
  ASSUME TaskTypeOK, StreamInv, TaskDecomposition
  PROVE  StreamInv'
<1> USE DEF StreamInv
<1>1. CASE SendStart
  BY <1>1 DEF SendStart, TaskDecomposition
<1>2. CASE ClearStart
  BY <1>2 DEF ClearStart, TaskDecomposition, TaskTypeOK
<1>3. CASE SetEnd
  BY <1>3 DEF SetEnd, TaskDecomposition, TaskTypeOK
<1>4. CASE SendEnd
  <2>1. /\ pc = "sendEnd" /\ pc' = "close" /\ resultDataMsgCh' = Append(resultDataMsgCh, "boundary")
        /\ UNCHANGED <<startMsg, closed, sender>>
    BY <1>4 DEF SendEnd, TaskDecomposition
  <2>2. resultDataMsgCh' # <<>> /\ resultDataMsgCh'[Len(resultDataMsgCh')] = "boundary"
    BY <2>1 DEF TaskTypeOK
  <2>3. QED
    BY <2>1, <2>2 DEF EndUnderway
<1>5. CASE Close
  BY <1>5 DEF Close, TaskDecomposition, EndUnderway
<1>6. QED
  BY <1>1, <1>2, <1>3, <1>4, <1>5 DEF TaskDecomposition

\* The sender hands the last record on, with the flags it has by then.
LEMMA SendKafkaMsgStream ==
  ASSUME TaskTypeOK, StreamInv, SendKafkaMsg
  PROVE  StreamInv'
<1> USE DEF StreamInv
<1>1. UNCHANGED <<pc, startMsg, closed>>
  BY DEF SendKafkaMsg, Receive, Marshal, SendMessage, SendFails, SenderDone
<1>2. sender.pc # "done"
  BY DEF SendKafkaMsg, Receive, Marshal, SendMessage, SendFails, SenderDone
<1>3. sender'.pc = "done" => closed /\ resultDataMsgCh' = <<>>
  <2>1. CASE Receive
    BY <2>1 DEF Receive
  <2>2. CASE Marshal
    <3>1. sender' = [sender EXCEPT !.pc = "send", !.end = startMsg.end]
      BY <2>2 DEF Marshal
    <3>2. sender'.pc = "send"
      BY <3>1 DEF TaskTypeOK
    <3>3. QED
      BY <3>2
  <2>3. CASE SendMessage
    BY <2>3 DEF SendMessage, TaskTypeOK
  <2>4. CASE SendFails
    BY <2>4 DEF SendFails, TaskTypeOK
  <2>5. CASE SenderDone
    BY <2>5 DEF SenderDone
  <2>6. QED
    BY <2>1, <2>2, <2>3, <2>4, <2>5 DEF SendKafkaMsg
<1>4. ASSUME pc \in {"close", "returned"} PROVE EndUnderway'
  <2>1. EndUnderway /\ ~startMsg.start /\ startMsg.end
    BY <1>4
  <2>2. CASE Receive
    <3> DEFINE ch == resultDataMsgCh
    <3>1. /\ ch \in Seq({"boundary", "result"}) /\ ch # <<>> /\ ch' = Tail(ch)
          /\ Len(ch) \in Nat \ {0} /\ sender.pc = "recv"
      BY <2>2 DEF Receive, TaskTypeOK
    <3>2. ch[Len(ch)] = "boundary"
      BY <2>1, <3>1 DEF EndUnderway
    <3>3. CASE Len(ch) = 1
      <4>1. Head(ch) = "boundary" /\ ch' = <<>>
        BY <3>1, <3>2, <3>3
      <4>2. sender' = [pc |-> "marshal", start |-> startMsg.start, end |-> FALSE]
        BY <2>2, <4>1 DEF Receive
      <4>3. QED
        BY <2>1, <4>1, <4>2 DEF EndUnderway
    <3>4. CASE Len(ch) # 1
      <4>1. /\ Tail(ch) \in Seq({"boundary", "result"})
            /\ Len(Tail(ch)) = Len(ch) - 1
            /\ \A i \in 1 .. Len(Tail(ch)) : Tail(ch)[i] = ch[i + 1]
        BY <3>1, HeadTailProperties
      <4>2. Len(ch) - 1 \in 1 .. Len(Tail(ch))
        BY <3>1, <3>4, <4>1
      <4>3. Tail(ch)[Len(ch) - 1] = ch[Len(ch)]
        BY <3>1, <4>1, <4>2
      <4>4. Tail(ch) # <<>>
        <5>1. Tail(ch) = <<>> => Len(Tail(ch)) = 0
          BY EmptySeq
        <5>2. Len(Tail(ch)) # 0
          BY <3>1, <3>4, <4>1
        <5>3. QED
          BY <5>1, <5>2
      <4>5. QED
        BY <3>1, <3>2, <4>1, <4>3, <4>4 DEF EndUnderway
    <3>5. QED
      BY <3>3, <3>4
  <2>3. CASE ~Receive
    <3>1. resultDataMsgCh' = resultDataMsgCh /\ sender.pc # "failed"
      BY <2>3 DEF SendKafkaMsg, Marshal, SendMessage, SendFails, SenderDone
    <3>2. CASE resultDataMsgCh # <<>> /\ resultDataMsgCh[Len(resultDataMsgCh)] = "boundary"
      BY <3>1, <3>2 DEF EndUnderway
    <3>3. CASE /\ resultDataMsgCh = <<>>
               /\ \/ sender.pc = "marshal" /\ ~sender.start
                  \/ sender.pc = "send" /\ ~sender.start /\ sender.end
                  \/ sender.pc \in {"recv", "done"} /\ delivered.last = "End"
      <4>1. CASE Marshal
        <5>1. sender.pc = "marshal" /\ ~sender.start
          BY <3>3, <4>1 DEF Marshal
        <5>2. sender' = [sender EXCEPT !.pc = "send", !.end = startMsg.end]
          BY <4>1 DEF Marshal
        <5>3. sender'.pc = "send" /\ sender'.start = sender.start /\ sender'.end = startMsg.end
          BY <5>2 DEF TaskTypeOK
        <5>4. QED
          BY <2>1, <3>1, <3>3, <5>1, <5>3 DEF EndUnderway
      <4>2. CASE SendMessage
        <5>1. ~sender.start /\ sender.end
          BY <3>3, <4>2 DEF SendMessage
        <5>2. KindOf(sender.start, sender.end) = "End"
          BY <5>1 DEF KindOf
        <5>3. sender'.pc = "recv" /\ delivered'.last = "End"
          BY <4>2, <5>2 DEF SendMessage, TaskTypeOK
        <5>4. QED
          BY <3>1, <3>3, <5>3 DEF EndUnderway
      <4>3. CASE SendFails
        <5>1. sender' = [sender EXCEPT !.pc = "failed"]
          BY <4>3 DEF SendFails
        <5>2. sender'.pc = "failed"
          BY <5>1 DEF TaskTypeOK
        <5>3. QED
          BY <5>2 DEF EndUnderway
      <4>4. CASE SenderDone
        <5>1. delivered'.last = "End" /\ sender' = [sender EXCEPT !.pc = "done"]
          BY <3>3, <4>4 DEF SenderDone
        <5>2. sender'.pc = "done"
          BY <5>1 DEF TaskTypeOK
        <5>3. QED
          BY <3>1, <3>3, <5>1, <5>2 DEF EndUnderway
      <4>5. QED
        BY <2>3, <4>1, <4>2, <4>3, <4>4 DEF SendKafkaMsg
    <3>4. QED
      BY <2>1, <3>1, <3>2, <3>3 DEF EndUnderway
  <2>4. QED
    BY <2>2, <2>3
<1>5. QED
  BY <1>1, <1>3, <1>4

\* Whatever a mode and its workers do: they are not in the frame any more, or leave it alone.
LEMMA ModeStream ==
  ASSUME StreamInv, UNCHANGED <<startMsg, closed, sender, delivered>>,
         pc' = pc \/ (pc \notin FramePc \ {"enter"} /\ pc' \notin FramePc \ {"clearStart"}),
         resultDataMsgCh' = resultDataMsgCh \/ pc' \notin ReturnPc
  PROVE  StreamInv'
BY DEF StreamInv, EndUnderway, FramePc, ReturnPc
=============================================================================
