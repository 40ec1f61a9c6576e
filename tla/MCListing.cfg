\* Six keys, one of them empty and three in two folders; pages of one, two and three.
CONSTANTS
    KeyNames <- SomeKeys
    Volatile <- FewKeys
    PrefixNames <- SomePrefixes
    Delimiters <- SomeDelimiters
    Starts <- SomeStarts
    MaxKeys <- SomeMaxKeys
    PageLimit = 3
    None = None
SPECIFICATION Spec
INVARIANTS
    ListTypeOK
    PagesAreExact
    NothingIsMissed
PROPERTIES
    NothingIsRepeated
    PagerEnds
