SPECIFICATION Spec
CONSTANT Faults = {"identity", "file", "log"}
INVARIANTS
  AnswersTheRecord
  ExecutorIsEarned
  AnswersAreAudited
