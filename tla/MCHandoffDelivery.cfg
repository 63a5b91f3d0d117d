\* Three files, the last of which may be refused for ever.
CONSTANTS
    i1 = i1  i2 = i2  i3 = i3  a = a  b = b
    EventId = {i1, i2, i3}
    Content = {a, b}
    File = {1, 2, 3}
    EventsOf <- Files
    Edition = {1, 2}
    EditionsOf <- Editions
    Malformed <- Spoilt
    OtherPosts <- Competing
    LedgerLimit = 1
    MaxFiles = 2
    ArchiveFiles = 1
    MaxExports = 5
SPECIFICATION FairSpec
INVARIANTS NothingIsLost RecordedIsNotPosted
PROPERTIES FilesAreConsumed
