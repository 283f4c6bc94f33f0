SPECIFICATION Spec
CONSTANTS
    Stream = {"chat", "message"}
    Native = {"chat"}
    Field = {"prompt", "completion"}
    Line <- MCLine
    MaxLines = 3
INVARIANTS TypeOK CompletedRowIsExact EndedStreamIsComplete
PROPERTIES ClearedRowStaysAway
