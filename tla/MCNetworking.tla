---------------------------- MODULE MCNetworking ----------------------------
(***************************************************************************)
(* Networking for TLC with HttpService as the handler of its servers.  The *)
(* messages are names: Block gives the data of each, and what the handler  *)
(* answers is the status that HttpClient makes of the block of the answer. *)
(***************************************************************************)
EXTENDS Networking, HttpService

Get(text) == <<[kind |-> "request", text |-> text], Empty>>
Block == [answers |-> Get(<<"/", "a">>), throws |-> Get(<<"/", "t">>), unknown |-> Get(<<"/", "u">>),
          pathless |-> Get(<<"s", ":", "h">>), response |-> Response(200), noise |-> <<Text(3)>>]
MCServlets == (<<"/", "a">> :> "answers") @@ (<<"/", "t">> :> "throws")
AnswerTo(m) == IF Apply(Block[m]) = Silent THEN Mute ELSE Status(Apply(Block[m]))

(* The table of the answers, and that HttpService gives them. *)
MCHandler == [answers |-> 200, throws |-> 500, unknown |-> 404,
              pathless |-> Mute, response |-> 400, noise |-> 400]
ASSUME HandlerAssumption == \A m \in DOMAIN Block : MCHandler[m] = AnswerTo(m)
MCServerOf == [c \in Clients |-> CHOOSE s \in Servers : TRUE]
MCOrder == SetToSeq(Publishers) \o SetToSeq(Servers) \o SetToSeq(Clients) \o SetToSeq(Subscribers)
=============================================================================
