---------------------------- MODULE HttpProtocol ----------------------------
(***************************************************************************)
(* coffee::http::protocol: HttpProtocolEncoder and HttpProtocolDecoder.    *)
(* A block of data is the sequence of the tokens that readToken finds in   *)
(* it.  The body of a message is the sequence of the sizes of its lines,   *)
(* the value of a header the sequence of the values it was set to.         *)
(***************************************************************************)
EXTENDS Url

NewLine == 2                       \* coffee_strlen(newLineCharacters)
Size(body) == FoldLeft(LAMBDA sum, n : sum + n, 0, body)
                  + (IF body = <<>> THEN 0 ELSE NewLine * (Len(body) - 1))

(* The tokens: kind "request" (with a text for its URL), "response",        *)
(* "header", "text" (neither a first line nor a header) and "empty".        *)
Empty == [kind |-> "empty"]
Text(n) == IF n = 0 THEN Empty ELSE [kind |-> "text", size |-> n]
BodyTokens(body) ==                \* what ends with a new line has no last token
    LET tokens == [k \in DOMAIN body |-> Text(body[k])]
    IN IF tokens # <<>> /\ Last(tokens) = Empty THEN Front(tokens) ELSE tokens

(* HttpMessage::setHeader and setCustomHeader, HttpHeader::setValue: one    *)
(* header of each name, to whose value the new one is appended.             *)
HasHeader(message, name) == \E k \in DOMAIN message.headers : message.headers[k].name = name
SetHeader(message, name, value) ==
    [message EXCEPT !.headers =
        IF HasHeader(message, name)
        THEN [k \in DOMAIN @ |-> IF @[k].name = name THEN [@[k] EXCEPT !.value = Append(@, value)] ELSE @[k]]
        ELSE Append(@, [name |-> name, value |-> <<value>>])]

(* HttpRequest::instantiate and HttpResponse::instantiate. *)
Message(first) == [first |-> first, headers |-> <<>>, body |-> <<>>]

(* HttpProtocolEncoder::apply: the message keeps the Content-Length that    *)
(* the encoder gives it, and one that it has is left as it is.              *)
WithoutLength(message) == message                              \* mutant
WithLength(message) ==
    IF message.body # <<>> /\ ~HasHeader(message, "Content-Length")
    THEN SetHeader(message, "Content-Length", Size(message.body)) ELSE message
FirstLine(first) ==
    IF first.kind = "request" THEN [kind |-> "request", text |-> EncodeUrl(first.url)] ELSE first
Lines(message) ==
    LET header(h) == [kind |-> "header", name |-> h.name, value |-> h.value]
    IN <<FirstLine(message.first)>> \o [k \in DOMAIN message.headers |-> header(message.headers[k])]
       \o <<Empty>> \o BodyTokens(message.body)
Encode(message) == Lines(WithLength(message))

-----------------------------------------------------------------------------
(* The states of the decoder, each with its process(). *)
Continue(d, state) == [d EXCEPT !.state = state]
Completed(d) == [d EXCEPT !.state = "Completed"]
Fails(d) == [d EXCEPT !.state = "Thrown"]

(* tryResponse and tryRequest, whose URL may throw. *)
Instantiated(d, first) == [Continue(d, "WaitingContentLength") EXCEPT !.result = Message(first)]
Requested(d, url) == IF url = Throws THEN Fails(d) ELSE Instantiated(d, [kind |-> "request", url |-> url])
WaitingMessage(d, token) ==
    CASE token.kind = "response" -> Instantiated(d, token)
      [] token.kind = "request" -> Requested(d, Parse(token.text))
      [] OTHER -> d

(* The values that were put together in a line are one value. *)
AddHeader(d, token) ==
    [d EXCEPT !.result = FoldLeft(LAMBDA m, v : SetHeader(m, token.name, v), @, token.value)]

IsLength(token) == token.kind = "header" /\ token.name = "Content-Length" /\ Len(token.value) = 1
WaitingContentLength(d, token) ==
    IF token = Empty THEN Completed(d)
    ELSE IF IsLength(token) /\ token.value[1] \in Nat
         THEN [Continue(AddHeader(d, token), "WaitingBody") EXCEPT !.expected = token.value[1]]
         ELSE AddHeader(d, token)

WaitingBody(d, token) ==
    IF token = Empty THEN Continue(d, "ReadBody") ELSE AddHeader(d, token)

TokenSize(token) == IF token = Empty THEN 0 ELSE token.size
ReadBody(d, token) ==
    IF TokenSize(token) # d.expected THEN Fails(d)
    ELSE Completed([d EXCEPT !.result.body = IF token = Empty THEN <<>> ELSE <<token.size>>])

Process(d, token) ==
    CASE d.state = "WaitingMessage" -> WaitingMessage(d, token)
      [] d.state = "WaitingContentLength" -> WaitingContentLength(d, token)
      [] d.state = "WaitingBody" -> WaitingBody(d, token)
      [] d.state = "ReadBody" -> ReadBody(d, token)
      [] OTHER -> d                          \* the loop has been left

(* HttpProtocolDecoder::apply: a message, or an exception. *)
NoMessage == [exception |-> TRUE]
Decoded(d) == IF d.state = "Thrown" THEN NoMessage ELSE d.result
Decode(block) ==
    Decoded(FoldLeft(Process, [state |-> "WaitingMessage", result |-> NoMessage, expected |-> 0], block))
=============================================================================
