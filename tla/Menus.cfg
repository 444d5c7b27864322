SPECIFICATION Spec
CONSTANTS
  Entries = {1, 9, 10, 11, 12, 25}
  Page = 10
  Warnings = {2}
  Digits = {0, 1, 2}
  MaxInput = 2
  Other = other
  NoChoice = none
  a = a  z = z
  Chars = {a, z}
  Checks <- MCChecks
  Width = 2
  MaxTyped = 4
  Lengths = {1, 3, 4, 5, 11}
  Height = 4
INVARIANTS TypeOK Window BoxShowsText AnswerIsTyped PageFull
PROPERTIES NoEntrySkipped NoLineSkipped
