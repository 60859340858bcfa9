CONSTANTS
    Absent = Absent
    Unreadable = Unreadable
    Short = Short
    Unloadable = Unloadable
    Files <- MCFiles
    Commands <- MCCommands
    Answers <- MCAnswers
    MaxReplaced = 1
SPECIFICATION BatchSpec
INVARIANT BatchIsAccounted
INVARIANT ManifestCheckedFirst
INVARIANT FunctionsAreAccounted
\* The command ends.
CHECK_DEADLOCK FALSE
