SPECIFICATION FairSpec
CONSTANTS
  c1 = c1
  c2 = c2
  Clients <- TwoClients
  Size = 2
  Requests <- OneAsks
  Ends <- TwoAndOne
  MaxCuts = 1
  Room = 3
INVARIANTS TypeOK AnswersInOrder NoThreadIsLeft
PROPERTIES DestructorReturns AnswersCome
