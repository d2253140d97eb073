CONSTANTS
    Character <- SmallCharacter
    Token <- SmallToken
    Tokens <- SmallTokens
    Spaces <- XmlSpaces
    Newline <- LineEnd
    NameChars <- XmlNameChars
    Lower <- WithoutCase
    NUL = "NUL"
SPECIFICATION XmlSpec
INVARIANTS XmlTypeOK CallbacksFollowDocument TreeIsRight
PROPERTIES Terminates
CHECK_DEADLOCK FALSE
