SPECIFICATION Spec
CONSTANTS
    Slots <- MessageSlots
    Sources <- MessageSources
    Users = {"u"}
    Chats = {"chat", "room"}
    Texts = {"ask", "sql"}
    SqlTexts = {"sql"}
    ChannelOf <- MCChannelOf
    UserOf <- OneUserOf
    SourceOf <- MCSourceOf
    TextOf <- MCTextOf
    ChatOf <- MCChatOf
    ParentOf <- NoParents
    Principals <- AnyPrincipal
    Ahead <- SameClocks
    Ttl = 1
    MaxNow = 0
    MaxAborts = 1
INVARIANTS
    OneTaskOnePlace RedeliveryNeverConflicts AcceptedIsAnswerable
PROPERTIES
    SubmissionStoresAgree
