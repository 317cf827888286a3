\* Learned words and usage counts, each around one failing write or restart.
SPECIFICATION AllSpec
CHECK_DEADLOCK FALSE
CONSTANTS
    Subject = {"a", "b"}
    Field = {"f", "g"}
    SubjectOf <- MCSubjectOf
    Word = {1, 2}
    Texts <- MCTexts
    Keyring = {"k"}
    NoKey = "none"
    Rules <- MCRules
    First <- MCFirst
    VisitLimit = 1
    WordLimit = 1
    SubjectLimit = 1
    Retention = 1
    MaxReport = 2
    MaxForget = 1
    MaxRev = 2
    MaxDay = 1
    MaxFault = 1
    Place = {1, 2}
    Consents <- MCConsents
    Given = {1, 2}
    Term = 1
    Week = 1
    DayLimit = 1
    NameLimit = 1
    MinShown = 2
    Lowest = 20
    Low = 40
    High = 70
    Earlier <- MCEarlier
    MaxEvent = 4
    MaxCommit = 1
    MaxLocalDay = 1
    MaxAsk = 1
    MaxFailure = 2
INVARIANTS LearnedSafe CountsKept
