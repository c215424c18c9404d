CONSTANTS
    Byte <- MCByte
    Dictionaries <- MCDictionaries
    Subjects <- MCSubjects
    LinearMax = 1
SPECIFICATION Spec
INVARIANTS
    TypeOK
    FastIsSlow
    MatchIsPattern
    LongestCoversFirst
