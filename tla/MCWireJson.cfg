SPECIFICATION WireSpec
CONSTANTS
    TopicNames <- SomeTopics
    MaxTopicLen = 2
    MaxRecords = 2
    Lz4From = 2
    TokenLimit = 2
    MaxFrame = 4
    Sizes = {0, 1, 2, 3}
    Packed = {2, 3}
    Contents <- SomeContents
    Refused <- LibraryRefuses
    Altered <- LibraryAlters
    Numbers = {1}
INVARIANTS BytesNotDeformed
CHECK_DEADLOCK TRUE
