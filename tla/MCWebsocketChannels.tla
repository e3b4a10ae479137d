------------------------- MODULE MCWebsocketChannels -------------------------
(***************************************************************************)
(* Small instances of WebsocketChannels, and what the documents say that   *)
(* they do not do.                                                         *)
(***************************************************************************)
EXTENDS WebsocketChannels

CONSTANTS c1, c2, h1, h2

OneChannel == [h \in Handlers |-> c1]

(* Three messages of one sender are the fewest in which a gap can show. *)
ThreeAndOne == [h \in Handlers |-> IF h = h1 THEN 3 ELSE 1]
OneEach == [h \in Handlers |-> 1]

(* README.md:185: the websocket_handler "deals with any errors that occur  *)
(* when communicating over the websocket".  When one client sends, handing *)
(* its message to a member whose connection has ended may end the process  *)
(* instead (websocket_handler.cc:79).                                      *)
SendingGoesOn ==
  [][\A s \in Handlers : connected[s] /\ Deliver(s) => status' = "up"]_vars
=============================================================================
