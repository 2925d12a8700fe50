SPECIFICATION Spec
CONSTANTS
  script = script
  doc = doc
  ru = ru
  Workers = {w1, w2}
  Paths = {script, doc}
  Translated = {script, doc}
  Docs = {doc}
  Langs <- MCLangs
  NoLang = NoLang
  Length <- MCLength
  Packed <- MCPacked
  Grain = 1
  Width = 2
  None = None
  Start = 2
  MaxTime = 3
SYMMETRY Symmetry
CHECK_DEADLOCK FALSE
INVARIANTS RightLanguage ValidatorsTrue
