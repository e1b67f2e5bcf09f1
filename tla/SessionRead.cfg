SPECIFICATION Spec
CONSTANTS
  Chars <- MCChars
  Ctl = {"cr", "lf", "tab"}
  Tspecial = {"sp", "tab", ":", "slash"}
  NonAscii = {"hi"}
  DigitValue <- MCDigits
  MaxInt = 63
  Reads <- MCReads
  Completions <- MCCompletions
  BadRequestUri <- MCBad
INVARIANTS
  Verdict
  Faithful
  SecondPassRejects
PROPERTY Finishes
