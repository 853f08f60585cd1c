---------------------------- MODULE MCConnection ----------------------------
(* The requests of the model-checking run of LongConnection. *)
EXTENDS LongConnection

\* With and without attempts to dial; where the sides of a WebSocket dial, one attempt each
\* under the manual send mode and two under the other.  DebugMode only matters to a
\* WebSocket that could not be dialled.
AnyRequest ==
  {r \in [protocol : {"tcp", "ws"}, connectType : {"long", "short", "other"},
          sendMode : {"auto", "manual", "other"}, retryNum : 0 .. 2, debug : {"all", "stop"}] :
     /\ r.debug = "stop" => r.protocol = "ws" /\ r.retryNum = 0
     /\ r.connectType # "long" => r.sendMode = "auto"
     /\ LET two == r.protocol = "ws" /\ r.connectType = "long" /\ r.sendMode = "auto"
        IN IF two THEN r.retryNum # 1 ELSE r.retryNum # 2}
=============================================================================
