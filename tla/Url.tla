-------------------------------- MODULE Url --------------------------------
(***************************************************************************)
(* coffee::http::url: URLParser::build and URL::encode on texts that are   *)
(* sequences of characters.  A component that is not in the map of the     *)
(* code is the empty sequence here, which the map never holds.             *)
(***************************************************************************)
EXTENDS Naturals, Sequences, SequencesExt, FiniteSetsExt

CONSTANT Digits

(* std::string::find, with the length + 1 for npos. *)
Find(s, c, from) == Min({i \in from .. Len(s) : s[i] = c} \cup {Len(s) + 1})
From(s, i) == SubSeq(s, i, Len(s))

(* protocol::separate, split and isNumeric. *)
Separate(s, c) == [first |-> SubSeq(s, 1, Find(s, c, 1) - 1), second |-> From(s, Find(s, c, 1) + 1)]
Split(s, c) ==
    LET cut(pieces, x) == IF x = c THEN Append(pieces, <<>>)
                          ELSE [pieces EXCEPT ![Len(pieces)] = Append(@, x)]
    IN SelectSeq(FoldLeft(cut, <<<<>>>>, s), LAMBDA piece : piece # <<>>)
IsNumeric(s) == s # <<>> /\ Range(s) \subseteq Digits

(* extractToken: the end is the place of the first of the delimiters, in    *)
(* the order of the list, that is found at all.                             *)
ExtractToken(s, from, delims) ==
    LET found == {k \in DOMAIN delims : Find(s, delims[k], from) <= Len(s)}
    IN IF found = {} THEN Len(s) + 1 ELSE Find(s, delims[Min(found)], from)

NoUrl == [scheme |-> <<>>, user |-> <<>>, password |-> <<>>, host |-> <<>>, port |-> <<>>,
          path |-> <<>>, query |-> <<>>, fragment |-> <<>>]

(* readPath, readQuery and readFragment of s, whose authority ends before   *)
(* i.  A pair with an empty key is an error.                                *)
QueryToken(s, i) == IF i <= Len(s) /\ s[i] = "?" THEN ExtractToken(s, i + 1, <<"#">>) ELSE i
EndPathOfFragment(s, i) == ExtractToken(s, i, <<"#">>)          \* mutant
EndPath(s, i) == IF i > Len(s) THEN i ELSE ExtractToken(s, i, <<"?", "#">>)
QueryOf(pairs) == [k \in DOMAIN pairs |-> Separate(pairs[k], "=")]
RestAround(s, i, p, q) ==
    [path |-> SubSeq(s, i, p - 1), query |-> QueryOf(Split(SubSeq(s, p + 1, q - 1), "&")), fragment |-> From(s, q)]
RestBehind(s, i, p) == RestAround(s, i, p, QueryToken(s, p))
ReadRest(s, i) == RestBehind(s, i, EndPath(s, i))

(* readAuthority: the user is looked for in the token, from a position of   *)
(* the whole text.                                                          *)
Start(s) == LET at == {i \in 1 .. Len(s) - 1 : s[i] = "/" /\ s[i + 1] = "/"}
            IN IF at = {} THEN 1 ELSE Min(at) + 2
FindUser(token, start) == Find(token, "@", start)
Authority(user, endPoint, end) ==
    [user |-> user.first, password |-> user.second,
     host |-> endPoint.first, port |-> endPoint.second, end |-> end]
AuthorityOf(token, hasUser, end) ==
    Authority(Separate(IF hasUser THEN Separate(token, "@").first ELSE <<>>, ":"),
              Separate(IF hasUser THEN Separate(token, "@").second ELSE token, ":"), end)
AuthorityIn(token, start, end) == AuthorityOf(token, FindUser(token, start) <= Len(token), end)
AuthorityUpTo(s, start, end) == AuthorityIn(SubSeq(s, start, end - 1), start, end)
ReadAuthority(s) == AuthorityUpTo(s, Start(s), ExtractToken(s, Start(s), <<"/", "?", "#">>))

(* build: what the parser makes of a text, or an exception. *)
Throws == [exception |-> TRUE]
Keyed(query) == \A k \in DOMAIN query : query[k].first # <<>>
Local(rest) == IF Keyed(rest.query) THEN rest @@ NoUrl ELSE Throws
Remote(scheme, authority, rest) ==
    IF \/ scheme = <<>> \/ authority.host = <<>> \/ ~Keyed(rest.query)
       \/ authority.port # <<>> /\ ~IsNumeric(authority.port)
    THEN Throws
    ELSE rest @@ [scheme |-> scheme, user |-> authority.user, password |-> authority.password,
                  host |-> authority.host, port |-> authority.port] @@ NoUrl
RemoteOf(scheme, s, authority) == Remote(scheme, authority, ReadRest(s, authority.end))
RemoteIn(separation) == RemoteOf(separation.first, separation.second, ReadAuthority(separation.second))
Parse(text) ==
    IF text # <<>> /\ text[1] = "/" THEN Local(ReadRest(text, 1)) ELSE RemoteIn(Separate(text, ":"))

(* URL::encode. *)
After(separator, s) == IF s = <<>> THEN <<>> ELSE separator \o s
EncodeUrl(url) ==
    LET user == url.user \o After(<<":">>, url.password)
        pair(k) == (IF k = 1 THEN <<"?">> ELSE <<"&">>)
                       \o url.query[k].first \o After(<<"=">>, url.query[k].second)
    IN (IF url.scheme = <<>> THEN <<>> ELSE url.scheme \o <<":", "/", "/">>)
       \o (IF user = <<>> THEN <<>> ELSE user \o <<"@">>)
       \o url.host \o After(<<":">>, url.port) \o url.path
       \o FlattenSeq([k \in DOMAIN url.query |-> pair(k)])
       \o url.fragment
=============================================================================
