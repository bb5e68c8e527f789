---------------------------- MODULE HttpService ----------------------------
(***************************************************************************)
(* coffee::http::HttpService: what the handler of its servers sends for a  *)
(* block of data, and what HttpClient makes of the answer.                 *)
(***************************************************************************)
EXTENDS HttpProtocol

CONSTANTS
    Servlets,      \* m_servlets: "answers" or "throws" for each registered path
    Silent         \* nothing is sent: apply throws

(* findServlet: a path that was registered. *)
HasServlet(path) == path \in DOMAIN Servlets

(* HttpResponse::instantiate and its encoding. *)
Response(status) == Encode(Message([kind |-> "response", status |-> status]))

(* HttpRequestHandler::apply: getPath throws for a URL without one, inside  *)
(* of the try and once more in its catch, and nobody catches that.          *)
HasPath(request) == request.first.url.path # <<>>
Apply(block) ==
    LET message == Decode(block)
    IN IF message = NoMessage \/ message.first.kind = "response" THEN Response(400)
       ELSE IF ~HasPath(message) THEN Silent
       ELSE IF ~HasServlet(message.first.url.path) THEN Response(404)
       ELSE IF Servlets[message.first.url.path] = "throws" THEN Response(500)
       ELSE Response(200)

(* HttpClient::send of a request, given the block of its answer. *)
Status(block) ==
    LET message == Decode(block)
    IN IF message = NoMessage \/ message.first.kind # "response" THEN "throws" ELSE message.first.status
=============================================================================
