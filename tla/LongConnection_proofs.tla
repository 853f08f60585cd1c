------------------------ MODULE LongConnection_proofs ------------------------
(***************************************************************************)
(* A side of a long connection that ended has told so and stays silent,    *)
(* and a request that got its connection survives: whatever the number of  *)
(* messages, of dials and of failed reads.  What the two rest on is that   *)
(* the first connection, once made, is the only one: nobody dials again,   *)
(* and both sides keep to socket 1.  Without one, and with one attempt     *)
(* each, a side can overwrite the connection of the other only once, so    *)
(* one socket at most is lost.                                             *)
(***************************************************************************)
EXTENDS LongConnection, FiniteSetTheorems, TLAPS

\* A side in the loop over the attempts.
InLoop(s) == at[s] \in {"dialing", "attempted"}

\* The sides run while the request waits for them; only a short connection answers.
PlacesInv ==
  /\ pc \in {"dial", "ready", "answer"} => \A s \in Side : at[s] = "off"
  /\ pc = "wait" => \A s \in Side : at[s] # "off"
  /\ pc = "returned" => \A s \in Side : at[s] \in {"off", "ended"}
  /\ pc = "answer" => request.connectType = "short"

\* Socket 1 is the one of the first dial, and there is no other when that succeeded.
SocketsInv ==
  /\ pc = "dial" => socket[1] = "unused" /\ conn = 0
  /\ conn # 0 => socket[conn] # "unused"
  /\ pc # "dial" /\ socket[1] # "unused" =>
       /\ conn = 1 /\ \A s \in Side : ~InLoop(s)
       /\ at["read"] = "reading" => held["read"] = 1
       /\ Ws /\ pc # "returned" => socket[1] \in {"open", "gone"}

\* A record with IsStop is the last one of its side.
RecordsInv ==
  /\ pc = "dial" => \A s \in Side : record[s] = "none"
  /\ pc # "returned" /\ at["read"] # "ended" /\ record["read"] = "stop" => Ws /\ FirstDialFailed
  /\ pc # "returned" /\ at["write"] # "ended" /\ record["write"] = "stop" => Tcp \/ FirstDialFailed

Inv == /\ TypeOK /\ PlacesInv /\ SocketsInv /\ RecordsInv
       /\ StopMarksTheEnd /\ SurvivesItsPeer
       /\ ~crashed => failedReads < MaxFailedReads

USE ConnectionAssumption DEF Side, MessageType, InLoop

LEMMA InitInv == Init => Inv
<1> SUFFICES ASSUME Init PROVE Inv
  OBVIOUS
<1>1. TypeOK
  <2>1. /\ MaxDials \in Nat \ {0} /\ MaxMessages \in Nat \ {0} /\ MaxFailedReads \in Nat \ {0}
    OBVIOUS
  <2>2. 0 \in 0 .. MaxDials /\ 0 \in 0 .. MaxMessages /\ 0 \in 0 .. MaxFailedReads
    BY <2>1
  <2>3. conn \in 0 .. MaxDials /\ held \in [Side -> 0 .. MaxDials] /\ tries \in [Side -> Nat]
        /\ published \in 0 .. MaxMessages /\ failedReads \in 0 .. MaxFailedReads
    BY <2>2 DEF Init
  <2>4. statusCh \in Seq(MessageType)
    BY DEF Init
  <2>5. /\ at \in [Side -> {"off", "head", "dialing", "attempted", "dialled", "select", "decoded",
                     "reading", "writing", "ended"}]
        /\ status \in [Side -> {0} \cup MessageType] /\ timer \in [Side -> {"armed", "fired", "taken"}]
        /\ record \in [Side -> {"none", "going", "stop"}]
    BY DEF Init
  <2>6. QED
    BY <2>3, <2>4, <2>5 DEF Init, TypeOK
<1>2. PlacesInv /\ SocketsInv /\ RecordsInv
  BY DEF Init, PlacesInv, SocketsInv, RecordsInv
<1>3. StopMarksTheEnd /\ SurvivesItsPeer /\ failedReads < MaxFailedReads
  BY DEF Init, StopMarksTheEnd, SurvivesItsPeer
<1>4. QED
  BY <1>1, <1>2, <1>3 DEF Inv

-----------------------------------------------------------------------------
(* What the parts of the steps do *)

LEMMA InsertTypes ==
  ASSUME TypeOK, NEW sides \in SUBSET Side, NEW kind \in {"going", "stop"}, Insert(sides, kind)
  PROVE  record' \in [Side -> {"none", "going", "stop"}] /\ resumed' \subseteq Side
BY DEF TypeOK, Insert

LEMMA ShutSockets ==
  ASSUME TypeOK, SocketsInv, Shut(conn)
  PROVE  /\ socket' \in [1 .. MaxDials -> {"unused", "open", "gone", "shut"}]
         /\ \A i \in 1 .. MaxDials : socket'[i] = IF i = conn THEN "shut" ELSE socket[i]
         /\ \A i \in 1 .. MaxDials : socket'[i] = "unused" <=> socket[i] = "unused"
BY DEF TypeOK, SocketsInv, Shut

LEMMA DialSockets ==
  ASSUME TypeOK, Dial
  PROVE  /\ socket' \in [1 .. MaxDials -> {"unused", "open", "gone", "shut"}]
         /\ conn' \in 1 .. MaxDials /\ socket'[conn'] = "open"
         /\ \A i \in 1 .. MaxDials : i # conn' => socket'[i] = socket[i]
         /\ conn' = 1 <=> pc = "dial"
BY DEF TypeOK, Dial

-----------------------------------------------------------------------------
(* Send and Request *)

\* The request returns, or its short connection answers or panics, and closes what it has.
LEMMA ReturnStep ==
  ASSUME Inv, ~crashed, pc \in {"ready", "wait", "answer"},
         pc' = "returned", Shut(conn),
         pc = "wait" => \A s \in Side : at[s] = "ended",
         inbox' \subseteq inbox,
         UNCHANGED <<request, conn, at, held, tries, statusCh, published, status, timer, failedReads, crashed>>,
         record' \in [Side -> {"none", "going", "stop"}],
         pc = "wait" => UNCHANGED <<record, resumed>>,
         resumed' \subseteq resumed \cup {s \in Side : record[s] = "stop"},
         pc # "wait" /\ request.connectType # "other" =>
           /\ record'["read"] = "stop" \/ (Ws /\ request.connectType = "long" /\ request.sendMode = "other")
           /\ record'["write"] = "stop" \/ (Ws /\ request.connectType = "short")
  PROVE  Inv'
<1> USE DEF Inv
<1>1. TypeOK'
  BY ShutSockets DEF TypeOK
<1>2. FirstDialFailed' <=> FirstDialFailed
  BY ShutSockets DEF FirstDialFailed
<1>3. PlacesInv'
  BY DEF PlacesInv
<1>4. SocketsInv'
  BY ShutSockets DEF SocketsInv, PlacesInv, TypeOK
<1>5. RecordsInv'
  BY DEF RecordsInv
<1>6. (Ws' <=> Ws) /\ (Tcp' <=> Tcp)
  BY DEF Ws, Tcp
<1>7. StopMarksTheEnd'
  <2>1. CASE pc = "wait"
    BY <1>2, <1>6, <2>1 DEF StopMarksTheEnd
  <2>2. CASE pc # "wait"
    BY <1>2, <1>6, <2>2 DEF StopMarksTheEnd, RecordsInv, PlacesInv
  <2>3. QED
    BY <2>1, <2>2
<1>8. SurvivesItsPeer'
  BY DEF SurvivesItsPeer
<1>9. QED
  BY <1>1, <1>3, <1>4, <1>5, <1>7, <1>8

\* Where the request stands outside of its sides, none of them runs.
LEMMA MainStep ==
  ASSUME Inv, ~crashed, Main \/ Short
  PROVE  Inv'
<1> USE DEF Inv, KeepRecords, KeepSides, Tcp, Ws
<1>1. CASE Connect
  <2>1. Dial /\ pc = "dial" /\ pc' = "ready"
        /\ UNCHANGED <<request, record, resumed, at, inbox, held, tries, statusCh, published, status, timer, failedReads, crashed>>
    BY <1>1 DEF Connect
  <2>2. TypeOK'
    BY <2>1, DialSockets DEF TypeOK
  <2>3. conn' = 1 /\ socket'[1] = "open"
    BY <2>1, DialSockets
  <2>4. PlacesInv' /\ SocketsInv' /\ RecordsInv'
    BY <2>1, <2>3 DEF PlacesInv, SocketsInv, RecordsInv
  <2>5. StopMarksTheEnd' /\ SurvivesItsPeer'
    BY <2>1 DEF StopMarksTheEnd, SurvivesItsPeer, FirstDialFailed, PlacesInv
  <2>6. QED
    BY <2>1, <2>2, <2>4, <2>5
<1>2. CASE NotConnected
  <2>1. /\ pc = "dial" /\ pc' \in {"ready", "returned"} /\ socket[1] = "unused"
        /\ UNCHANGED <<request, conn, socket, at, inbox, held, tries, statusCh, published, status, timer, failedReads, crashed>>
        /\ pc' = "ready" /\ Tcp => UNCHANGED <<record, resumed>>
        /\ UNCHANGED <<record, resumed>> \/ Insert(Side, "stop")
        /\ pc' = "returned" => Insert(Side, "stop")
    BY <1>2 DEF NotConnected, SocketsInv
  <2>2. TypeOK'
    BY <2>1, InsertTypes DEF TypeOK
  <2>3. PlacesInv' /\ SocketsInv'
    BY <2>1 DEF PlacesInv, SocketsInv
  <2>4. FirstDialFailed' /\ resumed' = resumed
    BY <2>1 DEF FirstDialFailed, RecordsInv, Insert
  <2>5. RecordsInv'
    <3>1. Tcp \/ Ws
      BY DEF TypeOK, RequestRecord
    <3>2. CASE Ws
      BY <2>1, <2>4, <3>2 DEF RecordsInv
    <3>3. CASE Tcp /\ pc' = "ready"
      BY <2>1, <3>3 DEF RecordsInv
    <3>4. CASE pc' = "returned"
      BY <3>4 DEF RecordsInv
    <3>5. QED
      BY <2>1, <3>1, <3>2, <3>3, <3>4
  <2>6. StopMarksTheEnd' /\ SurvivesItsPeer'
    BY <2>1, <2>4 DEF StopMarksTheEnd, SurvivesItsPeer, PlacesInv, FirstDialFailed, Insert
  <2>7. QED
    BY <2>1, <2>2, <2>3, <2>5, <2>6
<1>3. CASE StartSides
  <2>1. /\ pc = "ready" /\ pc' = "wait" /\ at' = [s \in Side |-> "head"]
        /\ UNCHANGED <<request, conn, socket, record, resumed, inbox, held, tries, statusCh, published, status, timer, failedReads, crashed>>
    BY <1>3 DEF StartSides
  <2>2. TypeOK'
    BY <2>1 DEF TypeOK
  <2>3. PlacesInv' /\ SocketsInv'
    BY <2>1 DEF PlacesInv, SocketsInv
  <2>4. RecordsInv' /\ StopMarksTheEnd' /\ SurvivesItsPeer'
    BY <2>1 DEF RecordsInv, StopMarksTheEnd, SurvivesItsPeer, FirstDialFailed, PlacesInv
  <2>5. QED
    BY <2>1, <2>2, <2>3, <2>4
<1>4. CASE UnknownSendMode \/ UnknownConnectType \/ Join
  <2>1. /\ pc \in {"ready", "wait"} /\ pc' = "returned" /\ Shut(conn)
        /\ pc = "wait" => (\A s \in Side : at[s] = "ended") /\ UNCHANGED <<record, resumed>>
        /\ UNCHANGED <<request, conn, at, inbox, held, tries, statusCh, published, status, timer, failedReads, crashed>>
    BY <1>4 DEF UnknownSendMode, UnknownConnectType, Join
  <2>2. UNCHANGED <<record, resumed>> \/ Insert({"write"}, "stop")
    BY <1>4 DEF UnknownSendMode, UnknownConnectType, Join
  <2>3. /\ record' \in [Side -> {"none", "going", "stop"}]
        /\ resumed' \subseteq resumed \cup {s \in Side : record[s] = "stop"}
    BY <2>2, InsertTypes DEF Insert, TypeOK
  <2>4. pc # "wait" /\ request.connectType # "other" =>
          Ws /\ request.connectType = "long" /\ request.sendMode = "other" /\ record'["write"] = "stop"
    BY <1>4 DEF UnknownSendMode, UnknownConnectType, Join, Insert
  <2>5. QED
    BY <2>1, <2>3, <2>4, ReturnStep
<1>5. CASE Exchange
  <2>1. pc = "ready" /\ request.connectType = "short" /\ UNCHANGED <<request, conn, at, inbox, held, tries, statusCh, published, status, timer, failedReads>>
    BY <1>5 DEF Exchange
  <2>2. CASE conn # 0 /\ pc' = "answer" /\ UNCHANGED <<record, resumed, socket, crashed>>
    <3>1. TypeOK' /\ PlacesInv' /\ SocketsInv'
      BY <2>1, <2>2 DEF TypeOK, PlacesInv, SocketsInv
    <3>2. RecordsInv' /\ StopMarksTheEnd' /\ SurvivesItsPeer'
      BY <2>1, <2>2 DEF RecordsInv, StopMarksTheEnd, SurvivesItsPeer, FirstDialFailed
    <3>3. QED
      BY <2>1, <2>2, <3>1, <3>2
  <2>3. CASE pc' = "returned" /\ Insert(Side, "stop") /\ Shut(conn) /\ UNCHANGED crashed
    <3>1. /\ record' \in [Side -> {"none", "going", "stop"}]
          /\ resumed' \subseteq resumed \cup {s \in Side : record[s] = "stop"}
      BY <2>3, InsertTypes DEF Insert
    <3>2. record'["read"] = "stop" /\ record'["write"] = "stop"
      BY <2>3 DEF Insert
    <3>3. QED
      BY <2>1, <2>3, <3>1, <3>2, ReturnStep
  <2>4. CASE conn = 0 /\ crashed' = TRUE /\ UNCHANGED <<record, resumed, pc, socket>>
    <3>1. FirstDialFailed /\ FirstDialFailed'
      BY <2>1, <2>4 DEF FirstDialFailed, SocketsInv, TypeOK
    <3>2. TypeOK' /\ PlacesInv' /\ SocketsInv'
      BY <2>1, <2>4 DEF TypeOK, PlacesInv, SocketsInv
    <3>3. RecordsInv' /\ StopMarksTheEnd' /\ SurvivesItsPeer'
      BY <2>1, <2>4, <3>1 DEF RecordsInv, StopMarksTheEnd, SurvivesItsPeer
    <3>4. QED
      BY <2>4, <3>2, <3>3
  <2>5. QED
    BY <1>5, <2>2, <2>3, <2>4 DEF Exchange, Panic
<1>6. CASE Answer
  <2>1. /\ pc = "answer" /\ pc' = "returned" /\ Shut(conn) /\ inbox' \subseteq inbox
        /\ UNCHANGED <<request, conn, at, held, tries, statusCh, published, status, timer, failedReads, crashed>>
    BY <1>6 DEF Answer
  <2>2. /\ record' \in [Side -> {"none", "going", "stop"}]
        /\ resumed' \subseteq resumed \cup {s \in Side : record[s] = "stop"}
    BY <1>6, InsertTypes DEF Answer, Insert
  <2>3. record'["read"] = "stop" /\ (record'["write"] = "stop" \/ (Ws /\ request.connectType = "short"))
    <3>1. request.connectType = "short" /\ (Tcp \/ Ws)
      BY <2>1 DEF PlacesInv, TypeOK, RequestRecord
    <3>2. QED
      BY <1>6, <3>1 DEF Answer, Insert
  <2>4. QED
    BY <2>1, <2>2, <2>3, ReturnStep
<1>7. QED
  BY <1>1, <1>2, <1>3, <1>4, <1>5, <1>6 DEF Main, Short

-----------------------------------------------------------------------------
(* The sides *)

\* A side runs while the request waits, and inserts records of its own only.
Waiting(s) == pc = "wait" /\ at[s] \notin {"off", "ended"}

\* A side that moves on, whatever it inserts, over a socket it does not change.
LEMMA MoveStep ==
  ASSUME Inv, ~crashed, NEW s \in Side, Waiting(s),
         NEW next \in {"head", "select", "decoded", "reading", "writing"}, at' = [at EXCEPT ![s] = next],
         UNCHANGED <<request, pc, conn, socket, tries, published, failedReads, crashed>>,
         \/ UNCHANGED <<record, resumed>>
         \/ Insert({s}, "going")
         \/ Insert({s}, "stop") /\ s = "write" /\ Tcp,
         inbox' \subseteq inbox, held' \in [Side -> 0 .. MaxDials],
         IF next = "reading" THEN s = "read" /\ held'["read"] = conn
                             ELSE s = "read" \/ held'["read"] = held["read"],
         statusCh' \in Seq(MessageType),
         status' \in [Side -> {0} \cup MessageType], timer' \in [Side -> {"armed", "fired", "taken"}]
  PROVE  Inv'
<1> USE DEF Inv, Waiting
<1>1. (Ws' <=> Ws) /\ (Tcp' <=> Tcp) /\ (FirstDialFailed' <=> FirstDialFailed)
  BY DEF Ws, Tcp, FirstDialFailed
<1>2. /\ record' \in [Side -> {"none", "going", "stop"}] /\ resumed' \subseteq Side
      /\ \A t \in Side \ {s} : record'[t] = record[t]
      /\ resumed' \subseteq resumed \cup {t \in {s} : record[t] = "stop"}
      /\ record'[s] = "stop" => record[s] = "stop" \/ (s = "write" /\ Tcp)
  BY InsertTypes DEF Insert, TypeOK
<1>3. TypeOK'
  BY <1>2 DEF TypeOK
<1>4. at'[s] = next /\ \A t \in Side \ {s} : at'[t] = at[t]
  BY DEF TypeOK
<1>5. PlacesInv'
  BY <1>4 DEF PlacesInv
<1>6. SocketsInv'
  BY <1>1, <1>4 DEF SocketsInv
<1>7. RecordsInv' /\ StopMarksTheEnd'
  BY <1>1, <1>2, <1>4 DEF RecordsInv, StopMarksTheEnd
<1>8. SurvivesItsPeer'
  BY DEF SurvivesItsPeer
<1>9. QED
  BY <1>3, <1>5, <1>6, <1>7, <1>8

\* A side that ends.
LEMMA EndStep ==
  ASSUME Inv, ~crashed, NEW s \in Side, Waiting(s), Insert({s}, "stop"), End(s),
         UNCHANGED <<request, pc, published, inbox, held, tries, failedReads, crashed>>,
         statusCh' \in Seq(MessageType),
         status' \in [Side -> {0} \cup MessageType], timer' \in [Side -> {"armed", "fired", "taken"}]
  PROVE  Inv'
<1> USE DEF Inv, Waiting
<1>1. /\ at' = [at EXCEPT ![s] = "ended"] /\ UNCHANGED conn
      /\ (Tcp /\ Shut(conn)) \/ UNCHANGED socket
  BY DEF End, Goes
<1>2. /\ socket' \in [1 .. MaxDials -> {"unused", "open", "gone", "shut"}]
      /\ \A i \in 1 .. MaxDials : socket'[i] = "unused" <=> socket[i] = "unused"
      /\ Ws => UNCHANGED socket
  BY <1>1, ShutSockets DEF Ws, Tcp, TypeOK
<1>3. (Ws' <=> Ws) /\ (Tcp' <=> Tcp) /\ (FirstDialFailed' <=> FirstDialFailed)
  BY <1>2 DEF Ws, Tcp, FirstDialFailed
<1>4. /\ record' \in [Side -> {"none", "going", "stop"}] /\ resumed' \subseteq Side
      /\ record'[s] = "stop" /\ \A t \in Side \ {s} : record'[t] = record[t]
      /\ resumed' \subseteq resumed \cup {t \in {s} : record[t] = "stop"}
  BY InsertTypes DEF Insert, TypeOK
<1>5. TypeOK'
  BY <1>1, <1>2, <1>4 DEF TypeOK
<1>6. at'[s] = "ended" /\ \A t \in Side \ {s} : at'[t] = at[t]
  BY <1>1 DEF TypeOK
<1>7. PlacesInv'
  BY <1>6 DEF PlacesInv
<1>8. SocketsInv'
  BY <1>1, <1>2, <1>3, <1>6 DEF SocketsInv, TypeOK
<1>9. RecordsInv' /\ StopMarksTheEnd'
  BY <1>3, <1>4, <1>6 DEF RecordsInv, StopMarksTheEnd
<1>10. SurvivesItsPeer'
  BY DEF SurvivesItsPeer
<1>11. QED
  BY <1>5, <1>7, <1>8, <1>9, <1>10

\* A side that panics has no connection, an unknown send mode, or reads one that is gone.
LEMMA PanicStep ==
  ASSUME Inv, ~crashed, crashed' = TRUE, pc = "wait",
         UNCHANGED <<request, pc, at, conn, socket, published, inbox, held, tries, failedReads, record, resumed,
                     statusCh, status, timer>>,
         conn = 0 \/ (Tcp /\ request.sendMode = "other")
  PROVE  Inv'
<1> USE DEF Inv
<1>1. TypeOK' /\ PlacesInv' /\ SocketsInv'
  BY DEF TypeOK, PlacesInv, SocketsInv, Ws
<1>2. RecordsInv' /\ StopMarksTheEnd'
  BY DEF RecordsInv, StopMarksTheEnd, FirstDialFailed, Ws, Tcp
<1>3. FirstDialFailed' \/ (Tcp /\ request.sendMode = "other")'
  BY DEF FirstDialFailed, SocketsInv, Tcp
<1>4. SurvivesItsPeer'
  BY <1>3 DEF SurvivesItsPeer
<1>5. QED
  BY <1>1, <1>2, <1>4

\* A side that dials, or that has dialled, had no first connection.
LEMMA RedialStep ==
  ASSUME Inv, ~crashed, NEW s \in Side, Redial(s) \/ Attempt(s) \/ Attempted(s)
  PROVE  Inv'
<1> USE DEF Inv
<1>1. UNCHANGED <<request, pc, published, inbox, held, failedReads, record, resumed, statusCh, status, timer, crashed>>
  BY DEF Redial, Attempt, Attempted, Dials, KeepRecords, KeepMain
<1>2. PICK next \in {"dialing", "attempted", "dialled"}, left \in Nat :
        /\ at' = [at EXCEPT ![s] = next] /\ tries' = [tries EXCEPT ![s] = left]
        /\ next = "dialing" => left > 0
  <2>1. CASE Redial(s)
    <3>1. request.retryNum \in Nat
      BY DEF TypeOK, RequestRecord
    <3>2. QED
      BY <2>1, <3>1 DEF Redial, Dials, Goes
  <2>2. CASE Attempt(s)
    <3>1. tries[s] - 1 \in Nat
      BY <2>2 DEF Attempt, TypeOK
    <3>2. QED
      BY <2>2, <3>1 DEF Attempt, Dials, Goes
  <2>3. CASE Attempted(s)
    <3>1. tries[s] \in Nat
      BY DEF TypeOK
    <3>2. QED
      BY <2>3, <3>1 DEF Attempted, Dials, Goes
  <2>4. QED
    BY <2>1, <2>2, <2>3
<1>3. at'[s] = next /\ \A t \in Side \ {s} : at'[t] = at[t]
  BY <1>2 DEF TypeOK
<1>4. at[s] \in {"head", "dialing", "attempted"} /\ pc = "wait" /\ socket[1] = "unused"
  <2>1. at[s] \in {"head", "dialing", "attempted"} /\ (conn = 0 \/ InLoop(s))
    BY DEF Redial, Attempt, Attempted
  <2>2. pc = "wait"
    BY <2>1 DEF PlacesInv, TypeOK
  <2>3. QED
    BY <2>1, <2>2 DEF SocketsInv
<1>5. /\ socket' \in [1 .. MaxDials -> {"unused", "open", "gone", "shut"}]
      /\ conn' \in 0 .. MaxDials /\ socket'[1] = "unused"
      /\ conn' # 0 => socket'[conn'] # "unused"
  <2>1. CASE Dial
    BY <1>4, <2>1, DialSockets DEF TypeOK
  <2>2. CASE UNCHANGED socket /\ (conn' = 0 \/ conn' = conn)
    BY <1>4, <2>2 DEF TypeOK, SocketsInv
  <2>3. QED
    BY <2>1, <2>2 DEF Redial, Attempt, Attempted, KeepDial
<1>6. TypeOK'
  <2>1. /\ at' \in [Side -> {"off", "head", "dialing", "attempted", "dialled", "select", "decoded",
                     "reading", "writing", "ended"}]
        /\ tries' \in [Side -> Nat] /\ \A t \in Side : at'[t] = "dialing" => tries'[t] > 0
    BY <1>2 DEF TypeOK
  <2>2. QED
    BY <1>1, <1>5, <2>1 DEF TypeOK
<1>7. PlacesInv' /\ SocketsInv'
  BY <1>1, <1>3, <1>4, <1>5 DEF PlacesInv, SocketsInv
<1>8. FirstDialFailed /\ FirstDialFailed'
  BY <1>1, <1>4, <1>5 DEF FirstDialFailed
<1>9. RecordsInv' /\ StopMarksTheEnd' /\ SurvivesItsPeer'
  BY <1>1, <1>3, <1>4, <1>8 DEF RecordsInv, StopMarksTheEnd, SurvivesItsPeer, Ws, Tcp
<1>10. QED
  BY <1>1, <1>6, <1>7, <1>9

\* A read that ends crashes the process only when the peer of a WebSocket is gone, or when
\* the first dial failed.
LEMMA EndReadStep ==
  ASSUME Inv, ~crashed, EndRead
  PROVE  Inv'
<1> USE DEF Inv
<1>1. /\ at["read"] = "reading" /\ at' = [at EXCEPT !["read"] = "head"]
      /\ inbox' = inbox \ {held["read"]} /\ held' = [held EXCEPT !["read"] = 0] /\ UNCHANGED tries
      /\ Insert({"read"}, "going")
      /\ crashed' = (failedReads' = MaxFailedReads)
      /\ UNCHANGED <<request, pc, conn, socket, published, statusCh, status, timer>>
      /\ failedReads' = IF Ws /\ held["read"] \notin inbox THEN failedReads + 1 ELSE failedReads
      /\ held["read"] \in inbox \/ Broken(held["read"])
  BY DEF EndRead, Woken, Message, Failed, Goes, KeepMain, KeepDial
<1>2. pc = "wait"
  BY <1>1 DEF PlacesInv, TypeOK
<1>3. at'["read"] = "head" /\ at'["write"] = at["write"]
  BY <1>1 DEF TypeOK
<1>4. (Ws' <=> Ws) /\ (Tcp' <=> Tcp) /\ (FirstDialFailed' <=> FirstDialFailed)
  BY <1>1 DEF Ws, Tcp, FirstDialFailed
<1>5. /\ record' \in [Side -> {"none", "going", "stop"}] /\ resumed' \subseteq Side
      /\ record'["read"] = "going" /\ record'["write"] = record["write"]
      /\ resumed' \subseteq resumed \cup {t \in {"read"} : record[t] = "stop"}
  BY <1>1, InsertTypes DEF Insert, TypeOK
<1>6. failedReads' \in 0 .. MaxFailedReads /\ MaxFailedReads \in Nat
  BY <1>1 DEF TypeOK
<1>7. ~crashed' => failedReads' < MaxFailedReads
  <2>1. failedReads' # MaxFailedReads => failedReads' < MaxFailedReads
    BY <1>6
  <2>2. ~crashed' => failedReads' # MaxFailedReads
    BY <1>1
  <2>3. QED
    BY <2>1, <2>2
<1>8. TypeOK'
  <2>1. crashed' \in BOOLEAN
    BY <1>1
  <2>2. /\ at' \in [Side -> {"off", "head", "dialing", "attempted", "dialled", "select", "decoded",
                     "reading", "writing", "ended"}]
        /\ inbox' \subseteq 1 .. MaxDials /\ conn' \in 0 .. MaxDials /\ held' \in [Side -> 0 .. MaxDials]
    <3>1. 0 \in 0 .. MaxDials
      OBVIOUS
    <3>2. QED
      BY <1>1, <3>1 DEF TypeOK
  <2>3. tries' \in [Side -> Nat] /\ \A s \in Side : at'[s] = "dialing" => tries'[s] > 0
    BY <1>1, <1>3 DEF TypeOK
  <2>4. QED
    BY <1>1, <1>5, <1>6, <2>1, <2>2, <2>3 DEF TypeOK
<1>9. PlacesInv' /\ SocketsInv'
  BY <1>1, <1>2, <1>3, <1>4 DEF PlacesInv, SocketsInv
<1>10. RecordsInv' /\ StopMarksTheEnd'
  BY <1>1, <1>2, <1>3, <1>4, <1>5 DEF RecordsInv, StopMarksTheEnd
<1>11. SurvivesItsPeer'
  <2>1. SUFFICES ASSUME crashed', ~FirstDialFailed
                 PROVE  Ws /\ socket[1] = "gone"
    BY <1>1, <1>4 DEF SurvivesItsPeer
  <2>2. Ws /\ held["read"] \notin inbox
    BY <1>1, <2>1 DEF TypeOK
  <2>3. held["read"] = 1 /\ socket[1] \in {"open", "gone"}
    BY <1>1, <1>2, <2>1, <2>2 DEF FirstDialFailed, SocketsInv
  <2>4. QED
    BY <1>1, <2>2, <2>3 DEF Broken
<1>12. QED
  BY <1>7, <1>8, <1>9, <1>10, <1>11

\* The writer begins a write, ends one, or panics.
LEMMA WriteStep ==
  ASSUME Inv, ~crashed, StartWrite \/ WriteTaken \/ WriteFails \/ WriteUnknown
  PROVE  Inv'
<1> USE DEF Inv
<1>1. at["write"] \in {"head", "select", "decoded", "writing"}
  BY DEF StartWrite, WriteTaken, WriteFails, WriteUnknown, Selecting
<1>2. Waiting("write")
  BY <1>1 DEF Waiting, PlacesInv, TypeOK
<1>3. UNCHANGED <<request, pc, conn, socket, tries, published, inbox, failedReads, statusCh, status, timer>>
  BY DEF StartWrite, WriteTaken, WriteFails, WriteUnknown, Written, KeepMain, KeepDial, KeepRead
<1>4. CASE /\ crashed' = TRUE /\ UNCHANGED <<at, held, record, resumed>>
           /\ conn = 0 \/ (Tcp /\ request.sendMode = "other")
  BY <1>2, <1>3, <1>4, PanicStep DEF Waiting
<1>5. ASSUME NEW next \in {"head", "writing"}, NEW c \in 0 .. MaxDials,
             at' = [at EXCEPT !["write"] = next], held' = [held EXCEPT !["write"] = c], UNCHANGED crashed,
             \/ UNCHANGED <<record, resumed>>
             \/ Insert({"write"}, "going")
             \/ Insert({"write"}, "stop") /\ Tcp
      PROVE  Inv'
  <2>1. /\ statusCh' \in Seq(MessageType) /\ status' \in [Side -> {0} \cup MessageType]
        /\ timer' \in [Side -> {"armed", "fired", "taken"}] /\ inbox' \subseteq inbox
        /\ held' \in [Side -> 0 .. MaxDials] /\ held'["read"] = held["read"]
    BY <1>3, <1>5 DEF TypeOK
  <2>2. QED
    BY <1>2, <1>3, <1>5, <2>1, MoveStep
<1>6. CASE StartWrite
  <2>1. UNCHANGED <<record, resumed>> /\ conn \in 0 .. MaxDials
    BY <1>6 DEF StartWrite, KeepRecords, TypeOK
  <2>2. CASE conn = 0
    BY <1>4, <1>6, <2>1, <2>2 DEF StartWrite, Panic
  <2>3. CASE conn # 0
    BY <1>5, <1>6, <2>1, <2>3 DEF StartWrite, Goes
  <2>4. QED
    BY <2>2, <2>3
<1>7. CASE WriteTaken \/ WriteFails
  <2>1. 0 \in 0 .. MaxDials
    OBVIOUS
  <2>2. QED
    BY <1>5, <1>7, <2>1 DEF WriteTaken, WriteFails, Written, Goes
<1>8. CASE WriteUnknown
  BY <1>4, <1>8 DEF WriteUnknown, Panic, KeepRecords, KeepRead
<1>9. QED
  BY <1>6, <1>7, <1>8

LEMMA RunsStep ==
  ASSUME Inv, ~crashed, NEW s \in Side, Runs(s)
  PROVE  Inv'
<1> USE DEF Inv
<1>1. CASE Redial(s) \/ Attempt(s) \/ Attempted(s)
  BY <1>1, RedialStep
<1>2. CASE s = "read" /\ EndRead
  BY <1>2, EndReadStep
<1>3. CASE GiveUp(s) \/ TakeTimer(s) \/ Unconnect(s)
  <2>1. at[s] \in {"dialled", "select", "head", "decoded"}
    BY <1>3 DEF GiveUp, TakeTimer, Unconnect, Selecting
  <2>2. Waiting(s)
    BY <2>1 DEF Waiting, PlacesInv, TypeOK
  <2>3. /\ Insert({s}, "stop") /\ End(s)
        /\ UNCHANGED <<request, pc, published, inbox, held, tries, failedReads, statusCh, status, crashed>>
        /\ timer' = timer \/ timer' = [timer EXCEPT ![s] = "taken"]
    BY <1>3 DEF GiveUp, TakeTimer, Unconnect, KeepMain, KeepRead
  <2>4. /\ statusCh' \in Seq(MessageType) /\ status' \in [Side -> {0} \cup MessageType]
        /\ timer' \in [Side -> {"armed", "fired", "taken"}]
    BY <2>3 DEF TypeOK
  <2>5. QED
    BY <2>2, <2>3, <2>4, EndStep
<1>4. CASE Ready(s) \/ TakeStatus(s) \/ Ignore(s)
  <2>1. at[s] \in {"dialled", "select", "head", "decoded"}
    BY <1>4 DEF Ready, TakeStatus, Ignore, Selecting
  <2>2. Waiting(s)
    BY <2>1 DEF Waiting, PlacesInv, TypeOK
  <2>3. PICK next \in {"head", "select", "decoded"} : at' = [at EXCEPT ![s] = next]
    BY <1>4 DEF Ready, TakeStatus, Ignore, Goes
  <2>4. UNCHANGED <<request, pc, conn, socket, published, inbox, held, tries, failedReads, record, resumed, timer, crashed>>
    BY <1>4 DEF Ready, TakeStatus, Ignore, KeepRecords, KeepMain, KeepDial, KeepRead
  <2>5. statusCh' \in Seq(MessageType) /\ status' \in [Side -> {0} \cup MessageType]
    <3>1. CASE TakeStatus(s)
      <4>1. Head(statusCh) \in MessageType /\ Tail(statusCh) \in Seq(MessageType)
        BY <3>1 DEF TakeStatus, TypeOK
      <4>2. QED
        BY <3>1, <4>1 DEF TakeStatus, TypeOK
    <3>2. CASE UNCHANGED <<statusCh, status>>
      BY <3>2 DEF TypeOK
    <3>3. QED
      BY <1>4, <3>1, <3>2 DEF Ready, Ignore
  <2>6. inbox' \subseteq inbox /\ held' \in [Side -> 0 .. MaxDials] /\ timer' \in [Side -> {"armed", "fired", "taken"}]
    BY <2>4 DEF TypeOK
  <2>7. QED
    BY <2>2, <2>3, <2>4, <2>5, <2>6, MoveStep
<1>5. CASE s = "write" /\ Writer
  BY <1>5, WriteStep DEF Writer
<1>6. CASE s = "read" /\ StartRead
  <2>1. at["read"] \in {"head", "select"}
    BY <1>6 DEF StartRead, Selecting
  <2>2. Waiting("read")
    BY <2>1 DEF Waiting, PlacesInv, TypeOK
  <2>3. UNCHANGED <<request, pc, conn, socket, published, inbox, tries, failedReads, statusCh, status, timer, record, resumed>>
    BY <1>6 DEF StartRead, KeepMain, KeepDial, KeepRecords
  <2>4. CASE conn = 0
    <3>1. crashed' = TRUE /\ UNCHANGED <<at, held>>
      BY <1>6, <2>4 DEF StartRead, Panic
    <3>2. QED
      BY <2>2, <2>3, <2>4, <3>1, PanicStep DEF Waiting
  <2>5. CASE conn # 0
    <3>1. at' = [at EXCEPT !["read"] = "reading"] /\ held' = [held EXCEPT !["read"] = conn] /\ UNCHANGED crashed
      BY <1>6, <2>5 DEF StartRead, Goes
    <3>2. /\ statusCh' \in Seq(MessageType) /\ status' \in [Side -> {0} \cup MessageType]
          /\ timer' \in [Side -> {"armed", "fired", "taken"}] /\ inbox' \subseteq inbox /\ held' \in [Side -> 0 .. MaxDials]
      BY <2>3, <3>1 DEF TypeOK
    <3>3. held'["read"] = conn
      BY <3>1 DEF TypeOK
    <3>4. QED
      BY <2>2, <2>3, <3>1, <3>2, <3>3, MoveStep
  <2>6. QED
    BY <2>4, <2>5
<1>7. QED
  BY <1>1, <1>2, <1>3, <1>4, <1>5, <1>6 DEF Runs, Common, Reader

-----------------------------------------------------------------------------
(* The peer, the clock and the management service *)

LEMMA PeerStep ==
  ASSUME Inv, ~crashed, Peer
  PROVE  Inv'
<1> USE DEF Inv
<1>1. UNCHANGED <<request, pc, at, conn, held, tries, statusCh, published, status, timer, record, resumed, failedReads, crashed>>
  BY DEF Peer, KeepRecords
<1>2. PICK i \in 1 .. MaxDials :
        /\ socket[i] = "open"
        /\ \/ inbox' = inbox \cup {i} /\ UNCHANGED socket
           \/ socket' = [socket EXCEPT ![i] = "gone"] /\ UNCHANGED inbox
  BY DEF Peer
<1>3. /\ socket' \in [1 .. MaxDials -> {"unused", "open", "gone", "shut"}]
      /\ \A j \in 1 .. MaxDials : socket'[j] = socket[j] \/ (socket[j] = "open" /\ socket'[j] = "gone")
  BY <1>2 DEF TypeOK
<1>4. TypeOK'
  BY <1>1, <1>2, <1>3 DEF TypeOK
<1>5. (Ws' <=> Ws) /\ (Tcp' <=> Tcp) /\ (FirstDialFailed' <=> FirstDialFailed)
  BY <1>1, <1>3 DEF Ws, Tcp, FirstDialFailed
<1>6. PlacesInv' /\ SocketsInv' /\ RecordsInv'
  BY <1>1, <1>3, <1>5 DEF PlacesInv, SocketsInv, RecordsInv, TypeOK
<1>7. StopMarksTheEnd' /\ SurvivesItsPeer'
  BY <1>1, <1>5 DEF StopMarksTheEnd, SurvivesItsPeer
<1>8. QED
  BY <1>1, <1>4, <1>6, <1>7

\* What neither the request, its sides nor the peer does touches the timers and the messages.
LEMMA OutsideStep ==
  ASSUME Inv,
         UNCHANGED <<request, pc, at, conn, socket, inbox, held, tries, status, record, resumed, failedReads, crashed>>,
         statusCh' \in Seq(MessageType), published' \in 0 .. MaxMessages,
         timer' \in [Side -> {"armed", "fired", "taken"}]
  PROVE  Inv'
<1> USE DEF Inv
<1>1. TypeOK'
  BY DEF TypeOK
<1>2. PlacesInv' /\ SocketsInv'
  BY DEF PlacesInv, SocketsInv, Ws
<1>3. RecordsInv' /\ StopMarksTheEnd' /\ SurvivesItsPeer'
  BY DEF RecordsInv, StopMarksTheEnd, SurvivesItsPeer, FirstDialFailed, Ws, Tcp
<1>4. QED
  BY <1>1, <1>2, <1>3

LEMMA StepInv == Inv /\ [Next]_vars => Inv'
<1> SUFFICES ASSUME Inv, [Next]_vars PROVE Inv'
  OBVIOUS
<1>1. CASE ~crashed /\ (Main \/ Short)
  BY <1>1, MainStep
<1>2. CASE ~crashed /\ \E s \in Side : Runs(s)
  BY <1>2, RunsStep
<1>3. CASE \E s \in Side : Fire(s)
  <2>1. PICK s \in Side : Fire(s)
    BY <1>3
  <2>2. /\ UNCHANGED <<request, pc, at, conn, socket, inbox, held, tries, status, record, resumed, failedReads, crashed,
                       statusCh, published>>
        /\ timer' = [timer EXCEPT ![s] = "fired"]
    BY <2>1 DEF Fire, KeepRecords, KeepDial, KeepRead, KeepMain
  <2>3. /\ statusCh' \in Seq(MessageType) /\ published' \in 0 .. MaxMessages
        /\ timer' \in [Side -> {"armed", "fired", "taken"}]
    BY <2>2 DEF Inv, TypeOK
  <2>4. QED
    BY <2>2, <2>3, OutsideStep
<1>4. CASE ~crashed /\ Peer
  BY <1>4, PeerStep
<1>5. CASE Publish
  <2>1. /\ UNCHANGED <<request, pc, at, conn, socket, inbox, held, tries, status, record, resumed, failedReads, crashed, timer>>
        /\ published < MaxMessages /\ published' = published + 1
    BY <1>5 DEF Publish, KeepRecords, KeepDial, KeepRead
  <2>2. statusCh' \in Seq(MessageType)
    BY <1>5 DEF Publish, Inv, TypeOK
  <2>3. published' \in 0 .. MaxMessages /\ timer' \in [Side -> {"armed", "fired", "taken"}]
    BY <2>1 DEF Inv, TypeOK
  <2>4. QED
    BY <2>1, <2>2, <2>3, OutsideStep
<1>6. CASE UNCHANGED vars
  <2>1. /\ UNCHANGED <<request, pc, at, conn, socket, inbox, held, tries, status, record, resumed, failedReads, crashed,
                       statusCh, published, timer>>
    BY <1>6 DEF vars
  <2>2. QED
    BY <2>1, OutsideStep DEF Inv, TypeOK
<1>7. CASE ~crashed /\ WriteTaken
  BY <1>7, WriteStep
<1>8. QED
  BY <1>1, <1>2, <1>3, <1>4, <1>5, <1>6, <1>7 DEF Next

LEMMA SpecInv == Spec => []Inv
BY InitInv, StepInv, PTL DEF Spec

\* Every variable keeps its type: sockets are dialled within the bound, and the process is
\* down by the time the WebSocket library panics (request_tcp.go:16-452, request_ws.go:30-350).
THEOREM ConnectionTypes == Spec => []TypeOK
<1>1. Inv => TypeOK
  BY DEF Inv
<1>2. QED
  BY <1>1, SpecInv, PTL

\* A side that ended has told so and its record with IsStop is the last one, as is that of both
\* sides when the request returned, but for the exceptions StopMarksTheEnd names: whatever the
\* order of timers, messages and failing sockets (request_tcp.go:83-420, request_ws.go:132-400).
THEOREM ConnectionStopMarksTheEnd == Spec => []StopMarksTheEnd
<1>1. Inv => StopMarksTheEnd
  BY DEF Inv
<1>2. QED
  BY <1>1, SpecInv, PTL

\* A request that got its connection takes the process down only by an unknown send mode of
\* TCP, or by reading a WebSocket its peer left (request_tcp.go:209-215 and 363-396,
\* request_ws.go:324-331).
THEOREM ConnectionSurvivesItsPeer == Spec => []SurvivesItsPeer
<1>1. Inv => SurvivesItsPeer
  BY DEF Inv
<1>2. QED
  BY <1>1, SpecInv, PTL

-----------------------------------------------------------------------------
(* The sockets that nobody closes *)

\* the sockets still open that conn does not point to any more
Lost == {i \in 1 .. MaxDials : i # conn /\ socket[i] \in {"open", "gone"}}

\* To lose a socket a side overwrites the connection of the other.  With one attempt each,
\* it then has no connection itself and gives up, or both share one and nobody dials again.
RaceInv ==
  /\ \A s \in Side : at[s] = "dialing" => tries[s] = 1
  /\ \A s \in Side : at[s] = "attempted" => tries[s] = 0
  /\ \A i, j \in Lost : i = j
  /\ conn # 0 => \A s, t \in Side : at[s] = "dialing" /\ at[t] = "dialing" => s = t
  /\ Lost # {} => IF conn # 0 THEN \A s \in Side : at[s] # "dialing"
                              ELSE \E s \in Side : at[s] \in {"attempted", "dialled", "ended"}

\* Only the sides of a WebSocket without a first connection dial.
LeakInv ==
  /\ \A s \in Side : InLoop(s) => Ws /\ FirstDialFailed
  /\ ~(Ws /\ FirstDialFailed) => \A i \in 2 .. MaxDials : socket[i] = "unused"
  /\ pc = "returned" /\ conn # 0 => socket[conn] = "shut"
  /\ request.retryNum <= 1 => RaceInv

LEMMA InitLeak == Init => LeakInv
BY DEF Init, LeakInv, RaceInv, Lost, FirstDialFailed

\* A step that does not dial loses nothing: at most the peer leaves, or conn is closed.
LEMMA KeepsConn ==
  ASSUME Inv, LeakInv, UNCHANGED <<conn, request>>,
         \A i \in 1 .. MaxDials :
           \/ socket'[i] = socket[i]
           \/ socket[i] = "open" /\ socket'[i] = "gone"
           \/ i = conn /\ socket'[i] = "shut",
         \A s \in Side : InLoop(s)' => at'[s] = at[s] /\ tries'[s] = tries[s],
         conn = 0 => \A s \in Side : at[s] \in {"attempted", "dialled", "ended"}
                                       => at'[s] \in {"attempted", "dialled", "ended"},
         pc # "dial" => pc' # "dial",
         pc' = "returned" /\ conn # 0 => pc = "returned" \/ socket'[conn] = "shut"
  PROVE  LeakInv'
<1>1. conn \in 0 .. MaxDials /\ MaxDials \in Nat \ {0} /\ (conn # 0 => socket[conn] # "unused")
  BY DEF Inv, TypeOK, SocketsInv
<1>2. /\ Ws' <=> Ws
      /\ FirstDialFailed => FirstDialFailed'
  BY <1>1 DEF Ws, FirstDialFailed
<1>3. Lost' = Lost
  BY DEF Lost
<1>4. \A i \in 2 .. MaxDials : socket[i] = "unused" => socket'[i] = "unused"
  BY <1>1
<1>5. pc' = "returned" /\ conn # 0 => socket'[conn] = "shut"
  BY <1>1 DEF LeakInv
<1>6. QED
  BY <1>2, <1>3, <1>4, <1>5 DEF LeakInv, RaceInv

\* What the request does outside of its sides.
LEMMA MainLeak ==
  ASSUME Inv, LeakInv, Main \/ Short
  PROVE  LeakInv'
<1> USE DEF KeepRecords, KeepSides
<1>1. TypeOK /\ SocketsInv /\ PlacesInv
  BY DEF Inv
<1>2. CASE Connect
  <2>1. Dial /\ pc = "dial" /\ pc' = "ready" /\ UNCHANGED <<request, at, tries>>
    BY <1>2 DEF Connect
  <2>2. /\ conn' = 1 /\ socket'[1] = "open"
        /\ \A i \in 2 .. MaxDials : socket'[i] = socket[i]
    BY <1>1, <2>1, DialSockets
  <2>3. \A i \in 2 .. MaxDials : socket'[i] = "unused"
    BY <2>1, <2>2 DEF LeakInv, FirstDialFailed
  <2>4. Lost' = {}
    BY <2>2, <2>3 DEF Lost
  <2>5. \A s \in Side : at'[s] = "off"
    BY <1>1, <2>1 DEF PlacesInv
  <2>6. QED
    BY <2>1, <2>3, <2>4, <2>5 DEF LeakInv, RaceInv
<1>3. CASE NotConnected
  <2>1. UNCHANGED <<request, conn, at, tries, socket>> /\ conn = 0 /\ pc' \in {"ready", "returned"}
    BY <1>1, <1>3 DEF NotConnected, SocketsInv
  <2>2. QED
    BY <2>1, KeepsConn
<1>4. CASE StartSides
  <2>1. UNCHANGED <<request, conn, socket>> /\ pc = "ready" /\ pc' = "wait"
        /\ \A s \in Side : at[s] = "off" /\ at'[s] = "head"
    BY <1>1, <1>4 DEF StartSides, PlacesInv
  <2>2. QED
    BY <2>1, KeepsConn
<1>5. CASE (UnknownSendMode \/ UnknownConnectType \/ Join \/ Answer \/ Exchange) /\ Shut(conn)
  <2>1. UNCHANGED <<request, conn, at, tries>> /\ pc' \in {"returned", "answer"} \cup {pc}
    BY <1>5 DEF UnknownSendMode, UnknownConnectType, Join, Answer, Exchange
  <2>2. /\ \A i \in 1 .. MaxDials : socket'[i] = IF i = conn THEN "shut" ELSE socket[i]
        /\ conn # 0 => socket'[conn] = "shut"
    BY <1>1, <1>5, ShutSockets DEF TypeOK
  <2>3. QED
    BY <2>1, <2>2, KeepsConn
<1>6. CASE Exchange /\ UNCHANGED socket
  <2>1. Shut(conn) \/ (UNCHANGED <<request, conn, at, tries>> /\ pc' \in {"answer"} \cup {pc})
    BY <1>6 DEF Exchange
  <2>2. CASE Shut(conn)
    BY <1>5, <1>6, <2>2
  <2>3. CASE UNCHANGED <<request, conn, at, tries>> /\ pc' \in {"answer"} \cup {pc}
    BY <1>6, <2>3, KeepsConn
  <2>4. QED
    BY <2>1, <2>2, <2>3
<1>7. QED
  BY <1>2, <1>3, <1>4, <1>5, <1>6 DEF Main, Short, UnknownSendMode, UnknownConnectType, Join, Answer, Exchange

\* A side that sees no connection begins to dial: nothing is lost by that.
LEMMA RedialLeak ==
  ASSUME Inv, LeakInv, NEW s \in Side, Redial(s)
  PROVE  LeakInv'
<1>1. TypeOK /\ SocketsInv /\ PlacesInv
  BY DEF Inv
<1>2. /\ Ws /\ at[s] = "head" /\ conn = 0
      /\ at'[s] = (IF request.retryNum > 0 THEN "dialing" ELSE "dialled") /\ tries'[s] = request.retryNum
      /\ \A t \in Side \ {s} : at'[t] = at[t] /\ tries'[t] = tries[t]
      /\ UNCHANGED <<request, pc, conn, socket>>
  BY <1>1 DEF Redial, Dials, Goes, KeepMain, KeepDial, TypeOK
<1>3. pc = "wait" /\ socket[1] = "unused"
  BY <1>1, <1>2 DEF PlacesInv, SocketsInv, TypeOK
<1>4. (Ws /\ FirstDialFailed) /\ (Ws /\ FirstDialFailed)' /\ Lost' = Lost
  BY <1>2, <1>3 DEF Ws, FirstDialFailed, Lost
<1>5. request.retryNum <= 1 => RaceInv'
  <2>1. SUFFICES ASSUME request.retryNum <= 1, RaceInv
                 PROVE  RaceInv'
    BY DEF LeakInv
  <2>2. Lost' # {} => \E t \in Side : at'[t] \in {"attempted", "dialled", "ended"}
    BY <1>2, <1>4, <2>1 DEF RaceInv
  <2>3. request.retryNum > 0 => request.retryNum = 1
    BY <1>1, <2>1 DEF TypeOK, RequestRecord
  <2>4. \A t \in Side : at'[t] = "dialing" => tries'[t] = 1
    BY <1>2, <2>1, <2>3 DEF RaceInv
  <2>5. \A t \in Side : at'[t] = "attempted" => tries'[t] = 0
    BY <1>2, <2>1 DEF RaceInv
  <2>6. QED
    BY <1>2, <1>4, <2>1, <2>2, <2>4, <2>5 DEF RaceInv
<1>6. QED
  BY <1>2, <1>3, <1>4, <1>5 DEF LeakInv

\* An attempt may overwrite a connection, but with one attempt each only once.
LEMMA AttemptLeak ==
  ASSUME Inv, LeakInv, NEW s \in Side, Attempt(s)
  PROVE  LeakInv'
<1>1. TypeOK /\ SocketsInv /\ PlacesInv
  BY DEF Inv
<1>2. /\ at[s] = "dialing" /\ at'[s] = "attempted" /\ tries'[s] = tries[s] - 1
      /\ \A t \in Side \ {s} : at'[t] = at[t] /\ tries'[t] = tries[t]
      /\ Dial \/ (conn' = 0 /\ UNCHANGED socket)
      /\ UNCHANGED <<request, pc>>
      /\ tries[s] \in Nat /\ tries[s] > 0
  BY <1>1 DEF Attempt, Dials, Goes, KeepMain, TypeOK
<1>3. Ws /\ FirstDialFailed /\ pc = "wait" /\ Ws'
  BY <1>1, <1>2 DEF LeakInv, PlacesInv, Ws, TypeOK
<1>4. /\ FirstDialFailed'
      /\ conn' # 0 => conn' \in 1 .. MaxDials /\ socket[conn'] = "unused" /\ socket'[conn'] = "open"
      /\ \A i \in 1 .. MaxDials : i # conn' => socket'[i] = socket[i]
  <2>1. CASE Dial
    <3>1. socket[conn'] = "unused"
      BY <2>1 DEF Dial
    <3>2. QED
      BY <1>1, <1>2, <1>3, <2>1, <3>1, DialSockets DEF FirstDialFailed
  <2>2. CASE conn' = 0 /\ UNCHANGED socket
    BY <1>2, <1>3, <2>2 DEF FirstDialFailed
  <2>3. QED
    BY <1>2, <2>1, <2>2
<1>5. request.retryNum <= 1 => RaceInv'
  <2>1. SUFFICES ASSUME request.retryNum <= 1, RaceInv
                 PROVE  RaceInv'
    BY DEF LeakInv
  <2>2. tries'[s] = 0
    BY <1>2, <2>1 DEF RaceInv
  <2>3. /\ \A t \in Side : at'[t] = "dialing" => tries'[t] = 1
        /\ \A t \in Side : at'[t] = "attempted" => tries'[t] = 0
    BY <1>2, <2>1, <2>2 DEF RaceInv
  <2>4. \A t \in Side : conn # 0 => at'[t] # "dialing"
    BY <1>2, <2>1 DEF RaceInv
  <2>5. \A t, u \in Side : at'[t] = "dialing" /\ at'[u] = "dialing" => t = u
    BY <1>2
  <2>6. Lost' \subseteq Lost \cup {conn} /\ (conn = 0 => Lost' \subseteq Lost)
    BY <1>1, <1>4 DEF Lost, TypeOK
  <2>7. conn # 0 => Lost = {}
    BY <1>2, <2>1 DEF RaceInv
  <2>8. \A i, j \in Lost' : i = j
    BY <2>1, <2>6, <2>7 DEF RaceInv
  <2>9. Lost' # {} => IF conn' # 0 THEN \A t \in Side : at'[t] # "dialing"
                      ELSE \E t \in Side : at'[t] \in {"attempted", "dialled", "ended"}
    <3>1. CASE conn' = 0
      BY <1>2, <3>1
    <3>2. CASE conn' # 0 /\ conn # 0
      BY <2>4, <3>2
    <3>3. CASE conn' # 0 /\ conn = 0 /\ Lost' # {}
      <4>1. \E t \in Side : at[t] \in {"attempted", "dialled", "ended"}
        BY <2>1, <2>6, <3>3 DEF RaceInv
      <4>2. QED
        BY <1>2, <3>3, <4>1
    <3>4. QED
      BY <3>1, <3>2, <3>3
  <2>10. QED
    BY <2>3, <2>5, <2>8, <2>9 DEF RaceInv
<1>6. QED
  BY <1>2, <1>3, <1>4, <1>5 DEF LeakInv

\* With one attempt each, the loop is over after it.
LEMMA AttemptedLeak ==
  ASSUME Inv, LeakInv, NEW s \in Side, Attempted(s)
  PROVE  LeakInv'
<1>1. TypeOK
  BY DEF Inv
<1>2. /\ at[s] = "attempted" /\ UNCHANGED <<request, pc, conn, socket>>
      /\ \A t \in Side \ {s} : at'[t] = at[t] /\ tries'[t] = tries[t]
      /\ at'[s] = "dialled" \/ (at'[s] = "dialing" /\ tries[s] > 0)
  BY <1>1 DEF Attempted, Dials, Goes, KeepMain, KeepDial, TypeOK
<1>3. (FirstDialFailed' <=> FirstDialFailed) /\ (Ws' <=> Ws) /\ Lost' = Lost
  BY <1>2 DEF FirstDialFailed, Ws, Lost
<1>4. Ws /\ FirstDialFailed /\ pc # "returned"
  BY <1>2 DEF LeakInv, Inv, PlacesInv
<1>5. request.retryNum <= 1 => RaceInv'
  <2>1. SUFFICES ASSUME request.retryNum <= 1, RaceInv
                 PROVE  RaceInv'
    BY DEF LeakInv
  <2>2. at'[s] = "dialled"
    BY <1>2, <2>1 DEF RaceInv
  <2>3. QED
    BY <1>2, <1>3, <2>1, <2>2 DEF RaceInv
<1>6. QED
  BY <1>2, <1>3, <1>4, <1>5 DEF LeakInv

\* Without a connection, a side that has dialled only gives up.
LEMMA RunsLeak ==
  ASSUME Inv, LeakInv, NEW s \in Side, Runs(s) \/ WriteTaken, ~(Redial(s) \/ Attempt(s) \/ Attempted(s))
  PROVE  LeakInv'
<1>1. TypeOK /\ SocketsInv
  BY DEF Inv
<1>2. UNCHANGED <<request, pc, conn>>
  BY DEF Runs, Common, GiveUp, Ready, TakeStatus, Unconnect, Ignore, TakeTimer, Writer, Reader, StartWrite,
     WriteTaken, WriteFails, Written, WriteUnknown, StartRead, EndRead, KeepMain, KeepDial, End
<1>3. \A i \in 1 .. MaxDials : socket'[i] = socket[i] \/ (i = conn /\ socket'[i] = "shut")
  <2>1. CASE UNCHANGED socket
    BY <2>1
  <2>2. CASE Shut(conn)
    BY <1>1, <2>2, ShutSockets
  <2>3. QED
    BY <2>1, <2>2 DEF Runs, Common, GiveUp, Ready, TakeStatus, Unconnect, Ignore, TakeTimer, Writer, Reader,
       StartWrite, WriteTaken, WriteFails, Written, WriteUnknown, StartRead, EndRead, KeepDial, End
<1>4. /\ \/ UNCHANGED at
         \/ \E t \in Side, next \in {"head", "select", "decoded", "reading", "writing", "ended"} :
              /\ at' = [at EXCEPT ![t] = next]
              /\ at[t] \notin {"attempted", "ended"}
              /\ at[t] = "dialled" => conn # 0 \/ next = "ended"
      /\ UNCHANGED tries
  BY DEF Runs, Common, GiveUp, Ready, TakeStatus, Unconnect, Ignore, TakeTimer, Writer, Reader, StartWrite,
     WriteTaken, WriteFails, Written, WriteUnknown, StartRead, EndRead, Woken, Selecting, Goes, End, KeepRead
<1>5. \A t \in Side : InLoop(t)' => at'[t] = at[t] /\ tries'[t] = tries[t]
  BY <1>1, <1>4 DEF TypeOK
<1>6. conn = 0 => \A t \in Side : at[t] \in {"attempted", "dialled", "ended"}
                                     => at'[t] \in {"attempted", "dialled", "ended"}
  BY <1>1, <1>4 DEF TypeOK
<1>7. QED
  BY <1>2, <1>3, <1>5, <1>6, KeepsConn

LEMMA StepLeak ==
  ASSUME Inv, LeakInv, [Next]_vars
  PROVE  LeakInv'
<1>1. CASE Main \/ Short
  BY <1>1, MainLeak
<1>2. CASE WriteTaken \/ \E s \in Side : Runs(s)
  <2>1. PICK s \in Side : Runs(s) \/ WriteTaken
    BY <1>2
  <2>2. QED
    BY <2>1, RedialLeak, AttemptLeak, AttemptedLeak, RunsLeak
<1>3. CASE Peer
  <2>1. UNCHANGED <<request, pc, at, tries, conn>>
    BY <1>3 DEF Peer
  <2>2. \A i \in 1 .. MaxDials : socket'[i] = socket[i] \/ (socket[i] = "open" /\ socket'[i] = "gone")
    BY <1>3 DEF Peer, Inv, TypeOK
  <2>3. QED
    BY <2>1, <2>2, KeepsConn
<1>4. CASE Publish \/ (\E s \in Side : Fire(s)) \/ UNCHANGED vars
  <2>1. UNCHANGED <<request, pc, at, tries, conn, socket>>
    BY <1>4 DEF Publish, Fire, KeepMain, KeepDial, KeepRead, vars
  <2>2. QED
    BY <2>1, KeepsConn
<1>5. QED
  BY <1>1, <1>2, <1>3, <1>4 DEF Next

\* What is lost is all that may stay open.
LEMMA LeakBound ==
  ASSUME Inv, LeakInv
  PROVE  ClosesItsSockets
<1> DEFINE Open == {i \in 1 .. MaxDials : socket[i] \in {"open", "gone"}}
<1> SUFFICES ASSUME pc = "returned", Ws /\ FirstDialFailed => request.retryNum <= 1
             PROVE  Cardinality(Open) <= IF Ws /\ FirstDialFailed THEN 1 ELSE 0
  BY DEF ClosesItsSockets
<1>1. Open \subseteq Lost
  BY DEF LeakInv, Lost, Inv, TypeOK
<1>2. CASE ~(Ws /\ FirstDialFailed)
  <2>1. socket[1] \notin {"open", "gone"}
    <3>1. CASE FirstDialFailed
      BY <3>1 DEF FirstDialFailed
    <3>2. CASE ~FirstDialFailed
      BY <3>2 DEF FirstDialFailed, Inv, SocketsInv, LeakInv
    <3>3. QED
      BY <3>1, <3>2
  <2>2. \A i \in 2 .. MaxDials : socket[i] = "unused"
    BY <1>2 DEF LeakInv
  <2>3. \A i \in 1 .. MaxDials : i = 1 \/ i \in 2 .. MaxDials
    OBVIOUS
  <2>4. Open = {}
    BY <2>1, <2>2, <2>3
  <2>5. QED
    BY <1>2, <2>4, FS_EmptySet
<1>3. CASE Ws /\ FirstDialFailed
  <2>1. CASE Open = {}
    BY <1>3, <2>1, FS_EmptySet
  <2>2. CASE Open # {}
    <3>1. PICK i \in Open : TRUE
      BY <2>2
    <3>2. \A j, k \in Lost : j = k
      BY <1>3 DEF LeakInv, RaceInv
    <3>3. Open = {i}
      BY <1>1, <3>1, <3>2
    <3>4. Cardinality(Open) = 1
      BY <3>3, FS_Singleton
    <3>5. QED
      BY <1>3, <3>4
  <2>3. QED
    BY <2>1, <2>2
<1>4. QED
  BY <1>2, <1>3

\* Whatever the number of dials, of messages and of failures, a request that returned left no
\* socket open, or a single one if the sides of a WebSocket had to dial themselves and each did
\* so with one attempt; of sides that dial with more attempts it says nothing
\* (request_ws.go:161-180 and 287-306).
THEOREM ConnectionClosesItsSockets == Spec => []ClosesItsSockets
<1>1. Inv /\ LeakInv /\ [Next]_vars => LeakInv'
  BY StepLeak
<1>2. Inv /\ LeakInv => ClosesItsSockets
  BY LeakBound
<1>3. QED
  BY <1>1, <1>2, InitLeak, SpecInv, PTL DEF Spec
=============================================================================
