---------------------------- MODULE LongConnection ----------------------------
(***************************************************************************)
(* A TCP or WebSocket request.  A long connection is served by two         *)
(* goroutines, one that writes and one that reads, until its duration has  *)
(* passed or a message tells a side to stop; a short one writes and reads  *)
(* once.  Both sides share the subscription of status messages; those of a *)
(* WebSocket also share the variable conn, which each of them dials again  *)
(* when it is nil, and the struct a message is decoded into.  No read and   *)
(* no write has a deadline: each may last as long as the peer likes.        *)
(***************************************************************************)
EXTENDS Integers, Sequences, FiniteSets

CONSTANTS
  Requests,        \* the requests there may be
  MaxMessages,     \* bound: how many status messages arrive
  MaxDials,        \* bound: how many dials may succeed
  MaxFailedReads   \* how many reads of a failed connection the WebSocket library stands

Side == {"write", "read"}

\* unconnect, send a message; a message of another type is ignored, as the reader does with 2
MessageType == {1, 2}

\* the configuration as TcpConfig.Init leaves it: no negative number of attempts, durations that pass
RequestRecord ==
  [protocol : {"tcp", "ws"}, connectType : {"long", "short", "other"},
   sendMode : {"auto", "manual", "other"}, retryNum : Nat, debug : {"all", "stop"}]

ASSUME ConnectionAssumption ==
  /\ Requests \subseteq RequestRecord
  /\ {MaxMessages, MaxDials, MaxFailedReads} \subseteq Nat \ {0}

VARIABLES
  request,     \* TCPDetail, WebsocketDetail
  pc,          \* Send, Request: "dial", "ready", "wait", "answer", "returned"
  at,          \* where each side is
  conn,        \* the socket the variable points to, 0 for nil; a side of TCP has a copy that is never changed
  socket,      \* every dialled socket: "open", "gone" when the peer left, "shut" when we closed it
  inbox,       \* the sockets with a message to read
  held,        \* the socket each side reads from or writes to, 0 when it does not
  tries,       \* the attempts each side has left when it dials
  statusCh, published,
  status,      \* the message type each side decoded last; a WebSocket uses one struct for both
  timer,       \* readTimeAfter and writeTimeAfter: "armed", "fired", "taken"
  record,      \* whether the record a side inserted last has IsStop
  resumed,     \* history: the sides that inserted a record after one with IsStop
  failedReads, \* reads of a failed connection
  crashed      \* a panic in a goroutine without recover: the process is gone

vars == <<request, pc, at, conn, socket, inbox, held, tries, statusCh, published, status, timer, record,
          resumed, failedReads, crashed>>

Tcp == request.protocol = "tcp"
Ws  == request.protocol = "ws"

Cell(s) == IF Ws THEN "write" ELSE s

-----------------------------------------------------------------------------
(* Records, sockets, ends and panics                                       *)

Insert(sides, kind) ==
  /\ record' = [s \in Side |-> IF s \in sides THEN kind ELSE record[s]]
  /\ resumed' = resumed \cup {s \in sides : record[s] = "stop"}
KeepRecords == UNCHANGED <<record, resumed>>

Panic == crashed' = TRUE

Dial ==
  \E i \in 1 .. MaxDials :
    /\ socket[i] = "unused"
    /\ \A j \in 2 .. i - 1 : socket[j] # "unused"
    /\ i = 1 <=> pc = "dial"
    /\ socket' = [socket EXCEPT ![i] = "open"]
    /\ conn' = i

\* there is no connection, or it failed
Broken(c) == IF c = 0 THEN TRUE ELSE socket[c] # "open"

\* the deferred close of what a variable points to
Shut(c) == socket' = [i \in DOMAIN socket |-> IF i = c THEN "shut" ELSE socket[i]]

-----------------------------------------------------------------------------
(* Send and Request                                                        *)

KeepSides == UNCHANGED <<at, inbox, held, tries, statusCh, published, status, timer, failedReads>>

Connect ==
  /\ pc = "dial"
  /\ request.retryNum > 0
  /\ Dial
  /\ pc' = "ready"
  /\ KeepRecords /\ KeepSides /\ UNCHANGED <<request, crashed>>

\* Every attempt failed, or none was made.  TCP returns after a failure; without an attempt
\* it has no error to see.  WebSocket goes on in both cases.
NotConnected ==
  /\ pc = "dial"
  /\ IF Tcp
     THEN IF request.retryNum > 0 THEN pc' = "returned" /\ Insert(Side, "stop")
                                  ELSE pc' = "ready" /\ KeepRecords
     ELSE pc' = "ready" /\ IF request.debug = "stop" THEN KeepRecords ELSE Insert(Side, "stop")
  /\ KeepSides /\ UNCHANGED <<request, conn, socket, crashed>>

StartSides ==
  /\ pc = "ready"
  /\ request.connectType = "long"
  /\ Tcp \/ request.sendMode # "other"
  /\ pc' = "wait"
  /\ at' = [s \in Side |-> "head"]
  /\ KeepRecords
  /\ UNCHANGED <<request, conn, socket, inbox, held, tries, statusCh, published, status, timer, failedReads, crashed>>

\* the WebSocket returns before it starts the reader
UnknownSendMode ==
  /\ pc = "ready"
  /\ request.connectType = "long" /\ Ws /\ request.sendMode = "other"
  /\ pc' = "returned"
  /\ Insert({"write"}, "stop")
  /\ Shut(conn)
  /\ KeepSides /\ UNCHANGED <<request, conn, crashed>>

UnknownConnectType ==
  /\ pc = "ready"
  /\ request.connectType = "other"
  /\ pc' = "returned"
  /\ Shut(conn)
  /\ KeepRecords /\ KeepSides /\ UNCHANGED <<request, conn, crashed>>

\* Faulty variant: the deferred close is missing.
JoinUnclosed ==
  /\ pc = "wait"
  /\ \A s \in Side : at[s] = "ended"
  /\ pc' = "returned"
  /\ UNCHANGED socket
  /\ KeepRecords /\ KeepSides /\ UNCHANGED <<request, conn, crashed>>

\* wg.Wait(), then the deferred close
Join ==
  /\ pc = "wait"
  /\ \A s \in Side : at[s] = "ended"
  /\ pc' = "returned"
  /\ Shut(conn)
  /\ KeepRecords /\ KeepSides /\ UNCHANGED <<request, conn, crashed>>

\* a short connection writes, for as long as that takes
Exchange ==
  /\ pc = "ready"
  /\ request.connectType = "short"
  /\ \/ conn # 0 /\ pc' = "answer" /\ KeepRecords /\ UNCHANGED <<socket, crashed>>
     \/ /\ Ws /\ Broken(conn)
        /\ pc' = "returned"
        /\ Insert(Side, "stop") /\ Shut(conn) /\ UNCHANGED crashed
     \/ Tcp /\ conn = 0 /\ Panic /\ KeepRecords /\ UNCHANGED <<pc, socket>>
  /\ KeepSides /\ UNCHANGED <<request, conn>>

\* and reads; when that fails the WebSocket does not mark the record of what it wrote
Answer ==
  /\ pc = "answer"
  /\ conn \in inbox \/ Broken(conn)
  /\ pc' = "returned"
  /\ IF Tcp \/ conn \in inbox THEN Insert(Side, "stop")
     ELSE record' = [s \in Side |-> IF s = "read" THEN "stop" ELSE "going"] /\ UNCHANGED resumed
  /\ inbox' = inbox \ {conn}
  /\ Shut(conn)
  /\ UNCHANGED <<request, conn, at, held, tries, statusCh, published, status, timer, failedReads, crashed>>

Main  == Connect \/ NotConnected \/ StartSides \/ UnknownSendMode \/ UnknownConnectType \/ Join
Short == Exchange \/ Answer

-----------------------------------------------------------------------------
(* What both sides do                                                      *)

KeepMain == UNCHANGED <<request, pc, published>>
KeepDial == UNCHANGED <<conn, socket>>
KeepRead == UNCHANGED <<inbox, held, tries, failedReads>>
Goes(s, place) == at' = [at EXCEPT ![s] = place]

\* Faulty variant: a side that ends clears the variable.
EndWithNil(s) ==
  /\ Goes(s, "ended")
  /\ IF Tcp THEN Shut(conn) /\ conn' = 0 ELSE KeepDial

\* Faulty variant: a side that ends leaves its socket to the caller.
EndUnclosed(s) == Goes(s, "ended") /\ KeepDial

\* a side of TCP closes its copy of conn
End(s) ==
  /\ Goes(s, "ended")
  /\ UNCHANGED conn
  /\ IF Tcp THEN Shut(conn) ELSE UNCHANGED socket

\* What moves s while it dials: attempts are used up, nothing else of it changes.
Dials(s, place, left) ==
  /\ Goes(s, place)
  /\ tries' = [tries EXCEPT ![s] = left]
  /\ KeepRecords /\ KeepMain
  /\ UNCHANGED <<inbox, held, failedReads, statusCh, status, timer, crashed>>

\* a side of a WebSocket sees no connection: the loop over RetryNum begins
Redial(s) ==
  /\ Ws /\ at[s] = "head" /\ conn = 0
  /\ Dials(s, IF request.retryNum > 0 THEN "dialing" ELSE "dialled", request.retryNum)
  /\ KeepDial

\* the result of each attempt is assigned to conn, whatever it points to by now
Attempt(s) ==
  /\ at[s] = "dialing"
  /\ Dial \/ (conn' = 0 /\ UNCHANGED socket)
  /\ Dials(s, "attempted", tries[s] - 1)

\* the loop looks at conn, to which the other side may have assigned meanwhile
Attempted(s) ==
  /\ at[s] = "attempted"
  /\ IF conn = 0 /\ tries[s] > 0 THEN Dials(s, "dialing", tries[s]) ELSE Dials(s, "dialled", 0)
  /\ KeepDial

GiveUp(s) ==
  /\ at[s] = "dialled" /\ conn = 0
  /\ Insert({s}, "stop") /\ End(s)
  /\ KeepMain /\ KeepRead /\ UNCHANGED <<statusCh, status, timer, crashed>>

\* the select is reached
Selecting(s) == at[s] = "select" \/ (at[s] = "head" /\ Tcp)

Ready(s) ==
  /\ Ws
  /\ at[s] \in {"head", "dialled"} /\ conn # 0
  /\ Goes(s, "select")
  /\ KeepRecords /\ KeepMain /\ KeepDial /\ KeepRead /\ UNCHANGED <<statusCh, status, timer, crashed>>

TakeTimer(s) ==
  /\ Selecting(s)
  /\ timer[s] = "fired"
  /\ timer' = [timer EXCEPT ![s] = "taken"]
  /\ Insert({s}, "stop") /\ End(s)
  /\ KeepMain /\ KeepRead /\ UNCHANGED <<statusCh, status, crashed>>

\* json.Unmarshal into the struct
TakeStatus(s) ==
  /\ Selecting(s)
  /\ statusCh # <<>>
  /\ status' = [status EXCEPT ![Cell(s)] = Head(statusCh)]
  /\ statusCh' = Tail(statusCh)
  /\ Goes(s, "decoded")
  /\ KeepRecords /\ KeepMain /\ KeepDial /\ KeepRead /\ UNCHANGED <<timer, crashed>>

\* Faulty variant: the return after the record is missing.
StopWithoutReturn(s) ==
  /\ at[s] = "decoded"
  /\ status[Cell(s)] = 1
  /\ Insert({s}, "stop") /\ Goes(s, "head") /\ KeepDial
  /\ KeepMain /\ KeepRead /\ UNCHANGED <<statusCh, status, timer, crashed>>

\* Type is read again: in a WebSocket the other side may have decoded into it meanwhile
Unconnect(s) ==
  /\ at[s] = "decoded"
  /\ status[Cell(s)] = 1
  /\ Insert({s}, "stop") /\ End(s)
  /\ KeepMain /\ KeepRead /\ UNCHANGED <<statusCh, status, timer, crashed>>

Sends(s) == s = "write" /\ request.sendMode = "manual" /\ status[Cell(s)] = 2

Ignore(s) ==
  /\ at[s] = "decoded"
  /\ status[Cell(s)] # 1 /\ ~Sends(s)
  /\ Goes(s, "head")
  /\ KeepRecords /\ KeepMain /\ KeepDial /\ KeepRead /\ UNCHANGED <<statusCh, status, timer, crashed>>

-----------------------------------------------------------------------------
(* The writer and the reader                                               *)

\* Without a connection the write is a nil dereference: TCP then reads the error of a
\* ReConnection that made no attempt.
StartWrite ==
  /\ \/ Selecting("write") /\ request.sendMode = "auto"
     \/ at["write"] = "decoded" /\ Sends("write")
  /\ IF conn = 0 THEN Panic /\ UNCHANGED <<at, held>>
                 ELSE Goes("write", "writing") /\ held' = [held EXCEPT !["write"] = conn] /\ UNCHANGED crashed
  /\ KeepRecords /\ KeepMain /\ KeepDial /\ UNCHANGED <<inbox, tries, failedReads, statusCh, status, timer>>

\* the write returns
Written(kind) ==
  /\ Insert({"write"}, kind)
  /\ Goes("write", "head") /\ held' = [held EXCEPT !["write"] = 0]
  /\ KeepMain /\ KeepDial /\ UNCHANGED <<inbox, tries, failedReads, statusCh, status, timer, crashed>>

\* when the peer, or the buffer in front of it, has taken what is written
WriteTaken ==
  /\ at["write"] = "writing" /\ socket[held["write"]] # "shut"
  /\ Written("going")

\* or when the socket fails; TCP then marks its record IsStop and goes on
WriteFails ==
  /\ at["write"] = "writing" /\ Broken(held["write"])
  /\ Written(IF Tcp THEN "stop" ELSE "going")

\* TCP alone: the default case reads the text of an error that is nil
WriteUnknown ==
  /\ Tcp /\ at["write"] = "head" /\ request.sendMode = "other"
  /\ Panic
  /\ KeepRecords /\ KeepMain /\ KeepDial /\ KeepRead /\ UNCHANGED <<at, statusCh, status, timer>>

\* the default case of the reader's select
StartRead ==
  /\ Selecting("read")
  /\ timer["read"] # "fired" /\ statusCh = <<>>
  /\ IF conn = 0 THEN Panic /\ UNCHANGED <<at, held>>
                 ELSE Goes("read", "reading") /\ held' = [held EXCEPT !["read"] = conn] /\ UNCHANGED crashed
  /\ KeepRecords /\ KeepMain /\ KeepDial /\ UNCHANGED <<inbox, tries, failedReads, statusCh, status, timer>>

\* the reader is woken by a message or by the failure of its socket
Message == held["read"] \in inbox
Woken   == at["read"] = "reading" /\ (Message \/ Broken(held["read"]))
Failed  == failedReads' = IF Ws /\ ~Message THEN failedReads + 1 ELSE failedReads

\* Faulty variant: a failed read leaves the reader where it is.
EndReadBlocked ==
  /\ Woken
  /\ at' = [at EXCEPT !["read"] = IF Message THEN "head" ELSE "reading"]
  /\ inbox' = inbox \ {held["read"]}
  /\ Insert({"read"}, "going")
  /\ Failed
  /\ KeepMain /\ KeepDial /\ UNCHANGED <<held, tries, statusCh, status, timer, crashed>>

\* the WebSocket library panics when a failed connection is read again and again
EndRead ==
  /\ Woken
  /\ Goes("read", "head")
  /\ inbox' = inbox \ {held["read"]}
  /\ held' = [held EXCEPT !["read"] = 0]
  /\ Insert({"read"}, "going")
  /\ Failed
  /\ crashed' = (failedReads' = MaxFailedReads)
  /\ KeepMain /\ KeepDial /\ UNCHANGED <<tries, statusCh, status, timer>>

Writer == StartWrite \/ WriteFails \/ WriteUnknown
Reader == StartRead \/ EndRead

Common(s) ==
  Redial(s) \/ Attempt(s) \/ Attempted(s) \/ GiveUp(s) \/ Ready(s) \/ TakeStatus(s) \/ Unconnect(s) \/ Ignore(s)

Runs(s) == Common(s) \/ TakeTimer(s) \/ (s = "write" /\ Writer) \/ (s = "read" /\ Reader)

-----------------------------------------------------------------------------
(* The peer, the clock and the management service                          *)

Peer ==
  /\ \E i \in 1 .. MaxDials :
       /\ socket[i] = "open"
       /\ \/ i \notin inbox /\ inbox' = inbox \cup {i} /\ UNCHANGED socket
          \/ socket' = [socket EXCEPT ![i] = "gone"] /\ UNCHANGED inbox
  /\ KeepRecords
  /\ UNCHANGED <<request, pc, at, conn, held, tries, statusCh, published, status, timer, failedReads, crashed>>

Fire(s) ==
  /\ pc = "wait"
  /\ timer[s] = "armed"
  /\ timer' = [timer EXCEPT ![s] = "fired"]
  /\ KeepRecords /\ KeepDial /\ KeepRead /\ KeepMain /\ UNCHANGED <<at, statusCh, status, crashed>>

Publish ==
  /\ pc = "wait"
  /\ published < MaxMessages
  /\ \E t \in MessageType : statusCh' = Append(statusCh, t)
  /\ published' = published + 1
  /\ KeepRecords /\ KeepDial /\ KeepRead /\ UNCHANGED <<request, pc, at, status, timer, crashed>>

-----------------------------------------------------------------------------
Init ==
  /\ request \in Requests
  /\ pc = "dial"
  /\ at = [s \in Side |-> "off"]
  /\ conn = 0
  /\ socket = [i \in 1 .. MaxDials |-> "unused"]
  /\ inbox = {}
  /\ held = [s \in Side |-> 0] /\ tries = [s \in Side |-> 0]
  /\ statusCh = <<>> /\ published = 0
  /\ status = [s \in Side |-> 0]
  /\ timer = [s \in Side |-> "armed"]
  /\ record = [s \in Side |-> "none"]
  /\ resumed = {}
  /\ failedReads = 0
  /\ crashed = FALSE

Next == ~crashed /\ (Main \/ Short \/ (\E s \in Side : Runs(s) \/ Fire(s)) \/ WriteTaken \/ Peer \/ Publish)

Spec == Init /\ [][Next]_vars

\* Goroutines are scheduled, clocks run, and a select with several cases ready takes each of
\* them some time.  The peer owes nothing: it need not send, leave, or take what is written.
Fairness ==
  /\ WF_vars(~crashed /\ Main)
  /\ \A s \in Side : WF_vars(~crashed /\ Runs(s)) /\ WF_vars(~crashed /\ Fire(s)) /\ SF_vars(~crashed /\ TakeTimer(s))
FairSpec == Spec /\ Fairness

-----------------------------------------------------------------------------
(* Properties                                                              *)

FirstDialFailed == pc # "dial" /\ socket[1] = "unused"

TypeOK ==
  /\ request \in Requests
  /\ pc \in {"dial", "ready", "wait", "answer", "returned"}
  /\ at \in [Side -> {"off", "head", "dialing", "attempted", "dialled", "select", "decoded",
                  "reading", "writing", "ended"}]
  /\ conn \in 0 .. MaxDials /\ held \in [Side -> 0 .. MaxDials]
  /\ tries \in [Side -> Nat] /\ \A s \in Side : at[s] = "dialing" => tries[s] > 0
  /\ socket \in [1 .. MaxDials -> {"unused", "open", "gone", "shut"}]
  /\ inbox \subseteq 1 .. MaxDials
  /\ statusCh \in Seq(MessageType) /\ published \in 0 .. MaxMessages
  /\ status \in [Side -> {0} \cup MessageType]
  /\ timer \in [Side -> {"armed", "fired", "taken"}]
  /\ record \in [Side -> {"none", "going", "stop"}]
  /\ resumed \subseteq Side
  /\ failedReads \in 0 .. MaxFailedReads
  /\ crashed \in BOOLEAN

\* A side that ended has told so: its last record has IsStop.  So has the last record of both
\* sides when the request has returned, except for an unknown type of connection, for the
\* reader of a WebSocket with an unknown send mode, and for what a short WebSocket sent, whose
\* record is not marked when the read fails.  And a record with IsStop is the last one, except
\* of a TCP writer whose write failed and of a WebSocket that could not be dialled at first
\* (request_tcp.go:83-155 and 192-420, request_ws.go:132-400).
StopMarksTheEnd ==
  /\ \A s \in Side : at[s] = "ended" => record[s] = "stop"
  /\ pc = "returned" /\ request.connectType # "other" =>
       /\ record["read"] = "stop" \/ (Ws /\ request.connectType = "long" /\ request.sendMode = "other")
       /\ record["write"] = "stop" \/ (Ws /\ request.connectType = "short")
  /\ "read" \in resumed => Ws /\ FirstDialFailed
  /\ "write" \in resumed => Tcp \/ FirstDialFailed

\* Sockets are closed when the request returns, except one that the sides of a WebSocket
\* dialled at the same time, if each dials with one attempt.  With more attempts they may take
\* turns in overwriting the connection of the other: then nothing bounds what they leave open
\* (request_ws.go:161-180 and 287-306).
ClosesItsSockets ==
  pc = "returned" /\ (Ws /\ FirstDialFailed => request.retryNum <= 1) =>
    Cardinality({i \in 1 .. MaxDials : socket[i] \in {"open", "gone"}})
      <= IF Ws /\ FirstDialFailed THEN 1 ELSE 0

\* A request that got its connection never takes the process down, unless its peer leaves a
\* WebSocket, which is then read over and over, or the send mode of TCP is unknown
\* (request_tcp.go:209-215, 321-324 and 363-396, request_ws.go:324-331).
SurvivesItsPeer ==
  crashed => FirstDialFailed \/ (Tcp /\ request.sendMode = "other") \/ (Ws /\ socket[1] = "gone")

\* A long connection ends when its duration has passed, if its peer takes what is written and,
\* for a WebSocket, sends something or leaves.  A TCP reader that waits for a silent peer is
\* woken by the writer, which closes the socket under it; a WebSocket reader is woken by
\* nobody.  A peer that neither takes nor sends keeps both sides of either protocol where
\* they look at no timer (request_tcp.go:16-36 "连接持续时长", 219 and 237, request_ws.go:34, 198 and 324).
DurationEndsTheConnection ==
  /\ request.connectType = "long"
  /\ WF_vars(~crashed /\ WriteTaken)
  /\ Tcp \/ WF_vars(~crashed /\ Peer)
  => <>(pc = "returned" \/ crashed)
=============================================================================
