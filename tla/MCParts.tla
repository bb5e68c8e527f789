------------------------------- MODULE MCParts -------------------------------
(***************************************************************************)
(* The parts of the library that stand alone, each on instances of its     *)
(* own: the initial state chooses the part whose steps are taken.          *)
(***************************************************************************)
EXTENDS Logger, Subject, Backtracking, Classes, Columns, Documents, Average

CONSTANTS Digits, Urls, HeaderNames, Values, Bodies, MaxValues, EditedUrls

VARIABLES part, url, message, sent, wire

httpVars == <<url, message, sent, wire>>
partsVars ==
    <<part, logVars, subjectVars, solverVars, classVars, columnVars, documentVars, averageVars, httpVars>>

Http == INSTANCE HttpMessages

Parts == {"logger", "subject", "solver", "classes", "columns", "document", "average", "http"}

(* Two levels of the problem are judged as one likes, the last accepts or   *)
(* not by its value and that of the first.                                  *)
SomeVerdicts ==
    {[n \in Nodes |->
        CASE Len(n) < 2 -> {}
          [] Len(n) = 2 -> middle[n]
          [] OTHER -> last[<<n[1], n[3]>>]] :
      middle \in [[1 .. 2 -> 1 .. Width] -> SUBSET {"reject", "accept"}],
      last \in [(1 .. Width) \X (1 .. Width) -> {{}, {"accept"}}]}

(* Two of the observers have the same name. *)
NameOfObserver == [o \in {"one", "two", "other"} |-> IF o = "other" THEN "other" ELSE "same"]

(* A tree of two elements, and one with texts too. *)
SomeSources ==
    LET element(items) == [props |-> <<[name |-> "x", value |-> "symbols"]>>, items |-> items]
        bare(items) == [props |-> <<>>, items |-> items]
    IN {<<bare(<<NodeItem(2)>>), element(<<>>)>>,
        <<bare(<<TextItem("ascii"), NodeItem(2), TextItem("accents")>>), element(<<TextItem("accents")>>)>>}

(* Symbols begin in ASCII, and are cut off where Latin-1 has no more. *)
LatinOf == [text \in Texts |-> IF text = "symbols" THEN "ascii" ELSE text]

SomeValues == {-1, 0, 3, 4}

(* Users and passwords of no, one and two letters, and each delimiter in    *)
(* the query and in the fragment.                                           *)
MCUrls == {u \in
    [scheme : {<<"h">>}, user : {<<>>, <<"u">>, <<"u", "u">>}, password : {<<>>, <<"p">>},
     host : {<<"h">>}, port : {<<>>, <<"1">>, <<"x">>},
     path : {<<>>, <<"/">>, <<"/", "a">>},
     query : {<<>>, <<[first |-> <<"k">>, second |-> <<>>]>>,
              <<[first |-> <<"k">>, second |-> <<"/">>], [first |-> <<"l">>, second |-> <<"v">>]>>},
     fragment : {<<>>, <<"#", "f">>, <<"#", "?">>, <<"#", "/">>}] : u.password = <<>> \/ u.user # <<>>}
MCEditedUrls == {u \in MCUrls : Len(u.user) = 2 /\ Len(u.query) = 2 /\ u.fragment = <<"#", "?">> /\ u.port = <<"1">>
                               /\ u.password # <<>> /\ Len(u.path) = 2}
MCBodies == {<<>>, <<3>>, <<4>>, <<1, 1>>, <<3, 0>>}

PartsInit ==
    /\ part \in Parts
    /\ part # "logger" => level = Error
    /\ LoggerInit
    /\ part # "logger" => \A w \in TraceWriters : file[w] = <<>>
    /\ part # "solver" => verdict = [n \in Nodes |-> {}]
    /\ SolverInit
    /\ IF part = "http" THEN Http!Init ELSE Http!NewResponse
    /\ part # "columns" => schema = CHOOSE one \in Schemas : TRUE
    /\ SubjectInit /\ ClassesInit /\ ColumnsInit /\ DocumentInit /\ AverageInit

PartsNext ==
    \/ /\ part = "logger" /\ LoggerNext
       /\ UNCHANGED <<part, subjectVars, solverVars, classVars, columnVars, documentVars, averageVars, httpVars>>
    \/ /\ part = "subject" /\ SubjectNext
       /\ UNCHANGED <<part, logVars, solverVars, classVars, columnVars, documentVars, averageVars, httpVars>>
    \/ /\ part = "solver" /\ SolverNext
       /\ UNCHANGED <<part, logVars, subjectVars, classVars, columnVars, documentVars, averageVars, httpVars>>
    \/ /\ part = "classes" /\ ClassesNext
       /\ UNCHANGED <<part, logVars, subjectVars, solverVars, columnVars, documentVars, averageVars, httpVars>>
    \/ /\ part = "columns" /\ ColumnsNext
       /\ UNCHANGED <<part, logVars, subjectVars, solverVars, classVars, documentVars, averageVars, httpVars>>
    \/ /\ part = "document" /\ DocumentNext
       /\ UNCHANGED <<part, logVars, subjectVars, solverVars, classVars, columnVars, averageVars, httpVars>>
    \/ /\ part = "average" /\ AverageNext
       /\ UNCHANGED <<part, logVars, subjectVars, solverVars, classVars, columnVars, documentVars, httpVars>>
    \/ /\ part = "http" /\ Http!Next
       /\ UNCHANGED <<part, logVars, subjectVars, solverVars, classVars, columnVars, documentVars, averageVars>>

PartsSpec == PartsInit /\ [][PartsNext]_partsVars
-----------------------------------------------------------------------------
(* The writers of the logger keep their lines, in files that are bounded.   *)
LogsAreKept == LinesAreKept /\ SizeIsBounded

(* Objects share nothing, and have the columns of their class; the columns  *)
(* of a row that is fetched have what was stored.                           *)
DataAreSound == ObjectsAreIndependent /\ ColumnsAreTold /\ KeptValuesAreRead

(* What the decoder makes of a message, whole or cut off, is what was sent  *)
(* of it.                                                                   *)
MessagesAreKept ==
    part = "http" => Http!TypeOK /\ Http!NothingAltered /\ Http!WholeMessageIsDecoded

(* The message that is accepted has the body that was sent, also when its   *)
(* end is lost or its Content-Length is that of another.                    *)
BodyIsWhole == part = "http" => Http!BodyIsWhole
EncodedIsDecoded == part = "http" => Http!EncodedIsDecoded

(* A URL is read as it was written: when it is unambiguous, or whatever it  *)
(* is.                                                                      *)
UrlIsRead == part = "http" => Http!UrlIsRead
UrlOfTheGrammarIsRead == Http!UrlOfTheGrammarIsRead
=============================================================================
