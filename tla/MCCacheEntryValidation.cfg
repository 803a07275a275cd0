\* Two callers of one scope, two changes of the payload; four authentications are enough for all
\* that two callers, the memo and the retained one refer to.
CONSTANTS
    None = None
    Callers = {c1, c2}
    Attempts = 3
    MaxChanges = 2
    MaxLinks = 2
    MaxValidations = 4
SPECIFICATION Spec
INVARIANTS
    AnswersAreSound
    GivesUpOnlyUnderChurn
SYMMETRY Symmetry
CHECK_DEADLOCK FALSE
