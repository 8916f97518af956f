SPECIFICATION FairSpec
CONSTANTS
    q1 = q1
    q2 = q2
    c1 = c1
    c2 = c2
    NoMsg = NoMsg
    Queues <- OneQueue
    Receivers <- OneReceiver
    Serves <- Alone
    Messages = {m1, m2}
    Size = 4
INVARIANTS EventStandsForMessage
PROPERTIES ImplementsChannel MailMovesOn
