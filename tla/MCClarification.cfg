SPECIFICATION Spec
CONSTANTS
    Slots <- AnswerSlots
    Sources <- AnswerSources
    Users = {"u", "v"}
    Chats = {"chat", "room"}
    Texts = {"ask", "sql"}
    SqlTexts = {"sql"}
    ChannelOf <- AnswerChannelOf
    UserOf <- AnswerUserOf
    SourceOf <- AnswerSourceOf
    TextOf <- AnswerTextOf
    ChatOf <- AnswerChatOf
    ParentOf <- AnswerParentOf
    Principals <- Admins
    Ahead <- AnswerAhead
    Ttl = 1
    MaxNow = 1
    MaxAborts = 0
INVARIANTS
    SqlOutlivesAnswers
PROPERTIES
    AnswersAreSettled
