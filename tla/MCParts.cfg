SPECIFICATION PartsSpec
CONSTANTS
    Circular = {c}
    Backtrace = {b}
    Unlimited = {u}
    Levels = {0, 1, 2}
    Lowest = 1
    Length = 2
    MaxSize = 1
    CheckSizePeriod = 2
    MaxTraces = 4
    MaxCalls = 2
    Subjects = {s1, s2}
    Observers = {"one", "two", "other"}
    NameOf <- NameOfObserver
    MaxNotify = 2
    MaxReentry = 3
    Verdicts <- SomeVerdicts
    Width = 2
    MaxDepth = 3
    MaxApply = 2
    Names = {"a", "b"}
    Types = {"Integer"}
    Nullable = {TRUE}
    Bits = 2
    MaxLen = 1
    MaxData = 4
    MaxKeys = 2
    MaxClasses = 1
    MaxObjects = 2
    MaxChanges = 1
    ColumnTypes = {"Integer", "Float", "String", "ShortBlock", "LongBlock", "Date", "TimeStamp", "MultiString"}
    MaxWidth = 1
    MaxStored = 2
    Sources <- SomeSources
    AttributeNames = {"x", "y"}
    Texts = {"ascii", "accents", "symbols"}
    Ascii = {"ascii"}
    Latin <- LatinOf
    Declared = {"none", "other"}
    NewTexts = {"ascii", "accents"}
    MaxParses = 2
    MaxEdits = 3
    MaxNodes = 3
    Half = 8
    Registrable <- SomeValues
    MaxOperations = 5
    Digits = {"1"}
    Urls <- MCUrls
    HeaderNames = {"Content-Length", "Via"}
    Values = {3, 4}
    Bodies <- MCBodies
    MaxValues = 2
    EditedUrls <- MCEditedUrls
CHECK_DEADLOCK FALSE
INVARIANTS
    LogsAreKept
    SubscribedOnce
    SolutionsAreFound
    DataAreSound
    TreeIsCompiled
    AverageOfPositives
    MessagesAreKept
    UrlIsRead
