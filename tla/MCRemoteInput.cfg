SPECIFICATION InputSpec
CHECK_DEADLOCK FALSE
CONSTANTS
  h1 = h1
  a1 = a1
  None = None
  Human = {h1}
  Agent = {a1}
  Key = {"KeyC"}
  ModKey = {"ControlLeft", "ShiftLeft", "ShiftRight"}
  AgentMods <- PlainAndShifted
  DomButton = {"left", "back"}
  MaxActs = 4
INVARIANTS
  InputInv
  NothingStuck
PROPERTIES
  HeldUntilOwnUp
