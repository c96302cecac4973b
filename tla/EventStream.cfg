\* Two subscribers, one of which may stop reading, and one source of two events.
\* Nothing happens any more when every event is delivered.
SPECIFICATION FairSpec
INVARIANT TypeOK
PROPERTIES
    FeedSpec
    AttentiveClientsGetEvents
CHECK_DEADLOCK FALSE
CONSTANTS
    Client = {c1, c2}
    Attentive = {c1}
    Source = {s1}
    MaxEvents = 2
    Buffer = 1
