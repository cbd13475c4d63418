SPECIFICATION ToolSpec
CONSTANTS
  Number = {"number"}
  Text = {"color"}
  Value = {"a", "b"}
  Default <- Defaults
  Zero = "zero"
  Largest = "largest"
  Size = 4
INVARIANT FirstSourceWins
INVARIANT SavedIsWhole
CHECK_DEADLOCK FALSE
