CONSTANTS
  SeqSpan = 4
  MaxOwed = 3
  Paces = {FALSE}
SPECIFICATION LinkSpec
INVARIANT CommandKept
