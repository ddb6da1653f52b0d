\* Texts of the language, and texts one token away from one.
SPECIFICATION Spec
INVARIANTS
  ReadsBack
  NothingSkipped
  LostOnlyAfterAnError
  EveryTurnMoves
CHECK_DEADLOCK FALSE
