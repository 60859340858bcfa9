CONSTANTS
    Absent = Absent
    Unreadable = Unreadable
    Short = Short
    Options <- MCOptions
    Answers <- MCAnswers
    MaxOthers = 1
SPECIFICATION Spec
INVARIANT ContactedWhenNeeded
INVARIANT SavedIsAnswered
INVARIANT ComparedWithPredecessor
\* The command ends.
CHECK_DEADLOCK FALSE
