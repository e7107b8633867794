SPECIFICATION TermSpec
CONSTANTS
  Capacity = 3
  Values = {"a", "backspace", "newline", "escape", "[", "A", "B", "C", "5", "~"}
  Zero = "a"
  None = "none"
  Chars = {"a"}
  LINE_BUF_SIZE = 2
  HISTORY_CAPACITY = 2
  BUFFER_WIDTH = 5
  MaxKeys = 8
  MaxRushed = 4
INVARIANTS TermTypeOK NoStrayBytes ScreenShowsLine
PROPERTIES IsFifo RecallsInOrder
