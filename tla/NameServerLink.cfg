SPECIFICATION FairSpec
CONSTANT MaxTrouble = 3
INVARIANTS
  TypeOK
  AnswersMatch
PROPERTY
  StaysRegistered
