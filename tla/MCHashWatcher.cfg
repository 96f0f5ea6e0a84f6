SPECIFICATION FairHashSpec
CONSTANTS
  default = default extended = extended main = main ignored = ignored
  Package = {"web"}
  Input = {default, extended}
  DefaultInput = default
  File = {main, ignored}
  Covers <- MCCovers
  Client = {"c1"}
  Error = Error
  None = None
  MaxChanges = 2
  MaxUpsets = 1
INVARIANTS TableIsCurrent
PROPERTIES AnswersAreCurrent QueriesAreAnswered
CHECK_DEADLOCK FALSE
