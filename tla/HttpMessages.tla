---------------------------- MODULE HttpMessages ----------------------------
(***************************************************************************)
(* A message of coffee::http in the hands of its user, who sets headers    *)
(* and bodies and has it encoded, and its way to a decoder, on which its   *)
(* end may be cut off between two lines.                                   *)
(***************************************************************************)
EXTENDS HttpProtocol

CONSTANTS
    Urls, HeaderNames, Values, Bodies,
    MaxValues, EditedUrls     \* bounds: the values of a message, the requests that get some

VARIABLES
    url,           \* the components of the text that the request was made from
    message,       \* in the hands of its user
    sent,          \* as it was when it was encoded
    wire           \* what the decoder is given

vars == <<url, message, sent, wire>>

(* The documented form scheme:[//[user[:password]@]host[:port]][/path]      *)
(* [?query][#fragment] of the components of a URL.                          *)
Grammar(u) ==
    u.scheme \o <<":", "/", "/">>
    \o (IF u.user = <<>> THEN <<>> ELSE u.user \o After(<<":">>, u.password) \o <<"@">>)
    \o u.host \o After(<<":">>, u.port) \o u.path
    \o FlattenSeq([k \in DOMAIN u.query |->
           <<IF k = 1 THEN "?" ELSE "&">> \o u.query[k].first \o After(<<"=">>, u.query[k].second)])
    \o u.fragment

(* No delimiter stands before one that the parser looks for first. *)
Unambiguous(u) ==
    LET inQuery(c) == \E k \in DOMAIN u.query : c \in Range(u.query[k].first \o u.query[k].second)
    IN /\ u.user # <<>> => Len(u.user \o After(<<":">>, u.password)) >= 2
       /\ (inQuery("/") \/ "/" \in Range(u.fragment)) => u.path # <<>>
       /\ "?" \in Range(u.fragment) => u.query # <<>>

(* HttpRequest::instantiate of a text, which throws when its URL is not     *)
(* understood, or HttpResponse::instantiate.                                *)
RequestFor(parsed) == Message(IF parsed = Throws THEN [kind |-> "none"] ELSE [kind |-> "request", url |-> parsed])

NewRequest == url \in Urls /\ message = RequestFor(Parse(Grammar(url))) /\ sent = message /\ wire = <<>>

NewResponse ==
    /\ url = CHOOSE u \in Urls : TRUE
    /\ message = Message([kind |-> "response", status |-> 200]) /\ sent = message /\ wire = <<>>

Init == NewRequest \/ NewResponse

HeaderValues == FoldLeft(LAMBDA n, h : n + Len(h.value), 0, message.headers)

Edited == message.first.kind = "response" \/ (message.first.kind = "request" /\ url \in EditedUrls)

Set(name, value) ==
    /\ Edited /\ HeaderValues < MaxValues
    /\ message' = SetHeader(message, name, value)
    /\ UNCHANGED <<url, sent, wire>>

SetBody(body) ==                   \* setBody, clearBody
    /\ Edited /\ body # message.body
    /\ message' = [message EXCEPT !.body = body]
    /\ UNCHANGED <<url, sent, wire>>

Apply ==                           \* HttpProtocolEncoder::apply
    /\ message.first.kind # "none"
    /\ wire' = Encode(message)
    /\ message' = WithLength(message) /\ sent' = WithLength(message)
    /\ UNCHANGED url

CutOff == wire # <<>> /\ wire' = Front(wire) /\ UNCHANGED <<url, message, sent>>

Next ==
    \/ \E name \in HeaderNames, value \in Values : Set(name, value)
    \/ \E body \in Bodies : SetBody(body)
    \/ Apply \/ CutOff

Spec == Init /\ [][Next]_vars

TypeOK ==
    /\ DOMAIN message = {"first", "headers", "body"} /\ message.body \in Bodies
    /\ \A k \in DOMAIN message.headers : message.headers[k].value # <<>>
    /\ DOMAIN Decode(wire) \in {DOMAIN NoMessage, {"first", "headers", "body"}}

LengthFits ==
    \A k \in DOMAIN sent.headers :
        sent.headers[k].name = "Content-Length" =>
            sent.headers[k].value = <<Size(sent.body)>> \/ sent.body = <<>>

(* Whatever is set, in whatever order, sent again, or lost at the end: what *)
(* the decoder accepts has the first line that was sent, headers that were  *)
(* sent, in their order, and the body that was sent or none (a body of      *)
(* several lines with the length of its first one is cut after it).         *)
IsOfSent(got) ==
    got # NoMessage =>
        /\ (Unambiguous(url) \/ sent.first.kind = "response") => got.first = sent.first
        /\ IsPrefix(got.headers, sent.headers)
        /\ (LengthFits \/ Len(sent.body) <= 1) => got.body \in {<<>>, sent.body}
NothingAltered == IsOfSent(Decode(wire))

(* A message whose body is one line, and has the length its header says, is *)
(* decoded as it was encoded; with the length that an earlier body left, or *)
(* one that was set twice, it is not.                                       *)
WholeMessageIsDecoded ==
    (/\ wire = Encode(sent) /\ LengthFits /\ Len(sent.body) <= 1
     /\ Unambiguous(url) \/ sent.first.kind = "response") => Decode(wire) = sent

(* The same of every length, and the body of whatever is accepted.          *)
EncodedIsDecoded ==
    (wire = Encode(sent) /\ Len(sent.body) <= 1 /\ (Unambiguous(url) \/ sent.first.kind = "response"))
       => Decode(wire) = sent
BodyIsWhole == Decode(wire) # NoMessage => Decode(wire).body = sent.body

(* A URL of the documented form is read as it was written, and refused when *)
(* its port is not numeric, unless a delimiter stands before one that the   *)
(* parser looks for first, or the user and the password are shorter than    *)
(* the // before them.                                                      *)
IsRead ==
    message.first = IF url.port = <<>> \/ IsNumeric(url.port)
                    THEN [kind |-> "request", url |-> url] ELSE [kind |-> "none"]
UrlIsRead == (Unambiguous(url) /\ message.first.kind # "response") => IsRead
UrlOfTheGrammarIsRead == message.first.kind # "response" => IsRead
=============================================================================
