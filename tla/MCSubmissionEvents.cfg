SPECIFICATION FairSpec
CONSTANTS
    Slots <- EventSlots
    Sources <- EventSources
    Users = {"u"}
    Chats = {"chat", "room"}
    Texts = {"ask", "sql"}
    SqlTexts = {"sql"}
    ChannelOf <- MCChannelOf
    UserOf <- OneUserOf
    SourceOf <- MCSourceOf
    TextOf <- MCTextOf
    ChatOf <- MCChatOf
    ParentOf <- NoParents
    Principals <- Senders
    Ahead <- SameClocks
    Ttl = 1
    MaxNow = 0
    MaxAborts = 1
PROPERTIES
    EventsReachTheirTask
