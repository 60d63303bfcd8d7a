\* Up to three nodes, with any parents and a child list that need not agree.
CONSTANTS
  NoId = 0
  Scenes <- MCScenes
SPECIFICATION Spec
INVARIANTS GraphExact AnswersExact WaysUpAgree
PROPERTY Terminates
\* Once the query is answered nothing is left to do.
CHECK_DEADLOCK FALSE
