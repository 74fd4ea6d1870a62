------------------------ MODULE MCChannelSubmission ------------------------
(* Instances of ChannelSubmission for TLC.                                 *)
EXTENDS InMemorySubmission, TLC

\* Messages: two processes get the event of a private message, and a web
\* client of the same user reuses one key for a question and for SQL.  Events:
\* the private message twice and SQL from a group.
MessageSlots == {"p1", "p2", "w1", "w2"}
MessageSources == {"private", "web"}
EventSlots == {"p1", "p2", "g"}
EventSources == {"private", "group"}

AllSourceOf == "p1" :> "private" @@ "p2" :> "private" @@ "g" :> "group"
               @@ "w1" :> "web" @@ "w2" :> "web"
AllTextOf == "p1" :> "ask" @@ "p2" :> "ask" @@ "g" :> "sql"
             @@ "w1" :> "ask" @@ "w2" :> "sql"
AllChatOf == "p1" :> "chat" @@ "p2" :> "chat" @@ "g" :> "room"
             @@ "w1" :> NoChat @@ "w2" :> NoChat

MCChannelOf == [r \in Sources |-> r]
OneUserOf == [r \in Sources |-> "u"]
MCSourceOf == [s \in Slots |-> AllSourceOf[s]]
MCTextOf == [s \in Slots |-> AllTextOf[s]]
MCChatOf == [s \in Slots |-> AllChatOf[s]]
NoParents == [s \in Slots |-> NoTask]
AnyPrincipal == [permitted : BOOLEAN, admin : BOOLEAN]
Senders == [permitted : BOOLEAN, admin : {FALSE}]
Admins == [permitted : {TRUE}, admin : {TRUE}]
SameClocks == [s \in Slots |-> 0]

\* Answers: a SQL task asks for its target; one answer comes twice, through
\* processes whose clocks differ, a second answer and one of another user
\* compete with it, and the question is asked again and answered again.
AnswerSlots == {"q", "a1", "a2", "b", "x", "again"}
AnswerSources == {"q", "a", "b", "x", "again"}
AnswerChannelOf == [r \in AnswerSources |-> "web"]
AnswerUserOf == [r \in AnswerSources |-> IF r = "x" THEN "v" ELSE "u"]
AnswerSourceOf == ("q" :> "q" @@ "a1" :> "a" @@ "a2" :> "a" @@ "b" :> "b"
                   @@ "x" :> "x" @@ "again" :> "again")
AnswerTextOf == ("q" :> "sql" @@ "a1" :> "ask" @@ "a2" :> "ask" @@ "b" :> "ask"
                 @@ "x" :> "sql" @@ "again" :> "ask")
AnswerChatOf == [s \in AnswerSlots |-> NoChat]
AnswerParentOf ==
    [s \in AnswerSlots |->
        IF s = "q" THEN NoTask
        ELSE IF s = "again" THEN [source |-> "a", kind |-> "conversation"]
        ELSE [source |-> "q", kind |-> "sql_artifact"]]
AnswerAhead == [s \in AnswerSlots |-> IF s \in {"a2", "q"} THEN 1 ELSE 0]
=============================================================================
