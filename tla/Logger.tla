------------------------------- MODULE Logger -------------------------------
(***************************************************************************)
(* coffee::logger: the Logger, its level and its writers, which are        *)
(* CircularTraceWriter, BacktraceWriter and UnlimitedTraceWriter over a    *)
(* file system whose open and rename may fail.  A line is the number of    *)
(* its trace, of size one; 0 is a line that was in the file before.  The   *)
(* level 0 is Error and whatever is more severe.  One thread writes,       *)
(* another may set the level.                                              *)
(***************************************************************************)
EXTENDS Naturals, FiniteSets, Sequences, SequencesExt

CONSTANTS
    Circular, Backtrace, Unlimited,    \* the writers, by their type
    Levels,             \* 0 .. n
    Lowest,             \* BacktraceWriter::m_lowestLevel
    Length,             \* BacktraceWriter::m_backtrackingLength
    MaxSize,            \* CircularTraceWriter::m_maxKbSize
    CheckSizePeriod,
    MaxTraces, MaxCalls \* bounds: traces, calls of initialize, add and setLevel

Error == 0
ASSUME LoggerAssumption ==
    /\ Levels \subseteq Nat /\ Error \in Levels
    /\ Length \in Nat \ {0} /\ MaxSize \in Nat /\ CheckSizePeriod \in Nat \ {0}
TraceWriters == Circular \cup Backtrace \cup Unlimited

VARIABLES
    level, asked,       \* Logger::m_level, history: what setLevel was last called with
    writers, formatter, \* m_writers, whether there is an m_formatter
    stream,             \* the writers whose m_stream is not NullStream
    file, old,          \* what is in the file of each writer, and in its .old
    lineno, stored,     \* m_lineno, m_lines
    cerr,               \* what each writer has written there
    todo,               \* what is left of Logger::write: the writers, and the lines of each
    saved,              \* originalLevel
    calls,
    log,                \* history: level and writers of each trace
    failed              \* history: the writers whose file could not be opened or renamed

logVars == <<level, asked, writers, formatter, stream, file, old, lineno, stored,
             cerr, todo, saved, calls, log, failed>>

LoggerInit ==
    /\ level \in Levels /\ asked = level /\ saved = level
    /\ writers = <<>> /\ formatter = FALSE
    /\ stream = {} /\ failed = {}
    /\ \E before \in {0, MaxSize + 1} : file = [w \in TraceWriters |-> [i \in 1 .. before |-> 0]]
    /\ old = [w \in TraceWriters |-> <<>>]
    /\ lineno = [w \in TraceWriters |-> 0] /\ stored = [w \in TraceWriters |-> <<>>]
    /\ cerr = [w \in TraceWriters |-> <<>>]
    /\ todo = <<>> /\ calls = 0 /\ log = <<>>

-----------------------------------------------------------------------------
IsActive(l) == l <= Error \/ l <= level
WantsToProcess(w, l) ==
    CASE w \in Backtrace -> l <= Lowest
      [] w \notin Backtrace /\ w \in stream -> IsActive(l)
      [] OTHER -> l <= Error
LoggerWants(l) == formatter /\ \E w \in Range(writers) : WantsToProcess(w, l)

(* oversizedStream of content, and closeStream, renameFile and openStream:  *)
(* a file that cannot be renamed is emptied, and stays closed.              *)
Rotates(w, content) == w \notin Unlimited /\ Len(content) > MaxSize

Rotate(w, content) ==
    \/ /\ old' = [old EXCEPT ![w] = content] /\ file' = [file EXCEPT ![w] = <<>>]
       /\ \/ stream' = stream \cup {w} /\ UNCHANGED failed
          \/ stream' = stream \ {w} /\ failed' = failed \cup {w}
    \/ /\ file' = [file EXCEPT ![w] = <<>>] /\ UNCHANGED old
       /\ stream' = stream \ {w} /\ failed' = failed \cup {w}

(* Writer::initialize, which may throw. *)
NeverRotatesFirst(w) == FALSE                                  \* mutant
RotatesFirst(w) == Rotates(w, file[w])
OpenWriter(w) ==
    \/ /\ ~RotatesFirst(w)
       /\ stream' = stream \cup {w} /\ UNCHANGED <<file, old, failed>>
    \/ RotatesFirst(w) /\ Rotate(w, file[w])
    \/ failed' = failed \cup {w} /\ UNCHANGED <<stream, file, old>>

Idle == todo = <<>>
Called == calls < MaxCalls /\ calls' = calls + 1

(* Logger::initialize registers the writer before it is initialized, add    *)
(* only one whose initialization did not throw.  (None is added twice.)      *)
LoggerInitialize(w) ==
    /\ Idle /\ Called
    /\ writers' = <<w>> /\ formatter' = TRUE
    /\ OpenWriter(w)
    /\ UNCHANGED <<level, asked, lineno, stored, cerr, todo, saved, log>>

Add(w) ==
    /\ Idle /\ Called /\ formatter /\ w \notin Range(writers)
    /\ OpenWriter(w)
    /\ writers' = IF w \in stream' THEN Append(writers, w) ELSE writers
    /\ UNCHANGED <<level, asked, formatter, lineno, stored, cerr, todo, saved, log>>

SetLevel(l) ==
    /\ Called
    /\ level' = l /\ asked' = l
    /\ UNCHANGED <<writers, formatter, stream, file, old, lineno, stored, cerr, todo, saved, log, failed>>

(* Logger::write goes through the writers, whether they want the line or not. *)
EachWriter == [i \in DOMAIN writers |-> <<writers[i], "line">>]
NewTrace(l) == Append(log, [level |-> l, given |-> {}])

(* Application::signalUSR2: the next level, or after Debug the first again, *)
(* and a line of this level.  (The signal comes between two lines.)         *)
NextLevel == IF level + 1 \in Levels THEN level + 1 ELSE Error
WritesLevel(w) ==
    CASE w \in Backtrace -> NextLevel <= Lowest
      [] w \notin Backtrace /\ w \in stream -> TRUE
      [] OTHER -> NextLevel <= Error
SignalUSR2 ==
    /\ Idle /\ Called /\ Len(log) < MaxTraces
    /\ level' = NextLevel /\ asked' = NextLevel
    /\ IF formatter /\ \E w \in Range(writers) : WritesLevel(w)
       THEN todo' = EachWriter /\ log' = NewTrace(NextLevel)
       ELSE UNCHANGED <<todo, log>>
    /\ UNCHANGED <<writers, formatter, stream, file, old, lineno, stored, cerr, saved, failed>>

-----------------------------------------------------------------------------
Write(l) ==
    /\ Idle /\ Len(log) < MaxTraces /\ LoggerWants(l)
    /\ todo' = EachWriter /\ log' = NewTrace(l)
    /\ UNCHANGED <<level, asked, writers, formatter, stream, file, old, lineno, stored, cerr, saved, calls, failed>>

(* Each writer is asked in its turn, and the level may be another by then.  *)
Takes(w, phase) == ~Idle /\ Head(todo) = <<w, phase>>
IsGiven(w) == Takes(w, "line") /\ WantsToProcess(w, Last(log).level)
GivenTo(w) == [log EXCEPT ![Len(log)].given = @ \cup {w}]

PassOver(w) ==
    /\ Takes(w, "line") /\ ~WantsToProcess(w, Last(log).level)
    /\ todo' = Tail(todo)
    /\ UNCHANGED <<level, asked, writers, formatter, stream, file, old, lineno, stored, cerr, saved, calls, log, failed>>

(* BacktraceWriter::apply: an error writes the lines that are stored first, *)
(* with the level of the Logger set to the lowest one meanwhile.            *)
Kept(lines) == IF Len(lines) = Length THEN Tail(lines) ELSE lines
StoreLine(w) ==
    /\ w \in Backtrace /\ IsGiven(w) /\ Last(log).level > Error
    /\ stored' = [stored EXCEPT ![w] = Append(Kept(@), Len(log))]
    /\ todo' = Tail(todo) /\ log' = GivenTo(w)
    /\ UNCHANGED <<level, asked, writers, formatter, stream, file, old, lineno, cerr, saved, calls, failed>>

BacktraceBegins(w) ==
    /\ w \in Backtrace /\ IsGiven(w) /\ Last(log).level <= Error
    /\ saved' = level /\ level' = Lowest
    /\ todo' = <<<<w, "stored">>>> \o Tail(todo) /\ log' = GivenTo(w)
    /\ UNCHANGED <<asked, writers, formatter, stream, file, old, lineno, stored, cerr, calls, failed>>

BacktraceEnds(w) ==
    /\ Takes(w, "stored") /\ stored[w] = <<>>
    /\ level' = saved
    /\ todo' = <<<<w, "error">>>> \o Tail(todo)
    /\ UNCHANGED <<asked, writers, formatter, stream, file, old, lineno, stored, cerr, saved, calls, log, failed>>

(* CircularTraceWriter::apply (and that of UnlimitedTraceWriter, which      *)
(* never rotates) of a line that is stored, or of the line of the trace.    *)
WritesStored(w) == Takes(w, "stored") /\ stored[w] # <<>>
WritesTrace(w) == Takes(w, "error") \/ (w \notin Backtrace /\ IsGiven(w))
LineOf(w) == IF WritesStored(w) THEN Head(stored[w]) ELSE Len(log)

(* Without a stream only errors are written, and to cerr.                   *)
WriteLine(w, line) ==
    LET content == Append(file[w], line)
        isTimeToCheck == (lineno[w] + 1) % CheckSizePeriod = 0
    IN \/ /\ w \notin stream /\ log[line].level <= Error
          /\ cerr' = [cerr EXCEPT ![w] = Append(@, line)] /\ lineno' = [lineno EXCEPT ![w] = @ + 1]
          /\ UNCHANGED <<stream, file, old, failed>>
       \/ /\ w \notin stream /\ log[line].level > Error
          /\ UNCHANGED <<cerr, lineno, stream, file, old, failed>>
       \/ /\ w \in stream /\ lineno' = [lineno EXCEPT ![w] = @ + 1] /\ UNCHANGED cerr
          /\ IF isTimeToCheck /\ Rotates(w, content)
             THEN Rotate(w, content)
             ELSE file' = [file EXCEPT ![w] = content] /\ UNCHANGED <<stream, old, failed>>

ApplyLine(w) ==
    /\ WritesStored(w) \/ WritesTrace(w)
    /\ WriteLine(w, LineOf(w))
    /\ IF WritesStored(w)
       THEN stored' = [stored EXCEPT ![w] = Tail(@)] /\ UNCHANGED <<todo, log>>
       ELSE todo' = Tail(todo) /\ log' = GivenTo(w) /\ UNCHANGED stored
    /\ UNCHANGED <<level, asked, writers, formatter, saved, calls>>

LoggerNext ==
    \/ \E w \in TraceWriters :
          \/ LoggerInitialize(w) \/ Add(w)
          \/ PassOver(w) \/ StoreLine(w) \/ BacktraceBegins(w) \/ BacktraceEnds(w) \/ ApplyLine(w)
    \/ \E l \in Levels : SetLevel(l) \/ Write(l)
    \/ SignalUSR2

LoggerSpec == LoggerInit /\ [][LoggerNext]_logVars
-----------------------------------------------------------------------------
Content(w) == old[w] \o file[w]
Told(w) == Range(Content(w)) \ {0}

(* The lines a writer has to write: all it was given, or those that a       *)
(* BacktraceWriter stores and an error finds among the last ones.           *)
Given(w) == {i \in DOMAIN log : w \in log[i].given}
ErrorsOf(w) == {i \in Given(w) : log[i].level <= Error}
IsRecent(w, i, now) ==
    ErrorsOf(w) \cap (i .. now - 1) = {} /\ Cardinality(Given(w) \cap (i .. now - 1)) <= Length
IsDue(w, i) ==
    w \in Backtrace => i \in ErrorsOf(w) \/ \E e \in ErrorsOf(w) : i < e /\ IsRecent(w, i, e)
Due(w) == {i \in Given(w) : IsDue(w, i)}

(* Whatever is rotated, the file and the .old of a writer have its lines    *)
(* once and in order; while no file has failed it there is no gap in them:  *)
(* an error comes after exactly the last lines before it, as many as the    *)
(* writer keeps, none of them told twice.                                   *)
InOrder(lines) == \A i, j \in DOMAIN lines : (i < j /\ lines[i] > 0) => lines[i] < lines[j]
LinesAreKept ==
    \A w \in TraceWriters :
        /\ InOrder(Content(w))
        /\ (Idle /\ w \notin failed) =>
               /\ Told(w) = {} => Due(w) = {}
               /\ Told(w) = {i \in Due(w) : \E line \in Told(w) : line <= i}

(* A file never outgrows the size it is configured with by more than the    *)
(* lines between two checks, whatever it had before and whatever fails.     *)
SizeIsBounded ==
    \A w \in stream \ Unlimited : Len(file[w]) < MaxSize + CheckSizePeriod

(* setLevel: the level is the one that was asked for. *)
LevelIsKept == Idle => level = asked

(* CircularTraceWriter: a file that is full is renamed, and started again.  *)
StartedAgain == Idle => \A w \in Range(writers) : Told(w) # {} => w \in stream
=============================================================================
