\* Every conversation of the messages, with at most four rounds by secrets.
SPECIFICATION Spec
CONSTANTS
    Nothing = Nothing
    Messages <- SomeMessages
    QuestionnaireAfter = 3
    MaxRound = 4
INVARIANTS
    ReviewIsComplete
    AsksWhatBlocks
PROPERTIES
    
    AnswersAreProgress
