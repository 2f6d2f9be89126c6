SPECIFICATION Spec
CONSTANTS
  w1 = w1
  w2 = w2
  w3 = w3
  Open = Open
  Close = Close
  Comma = Comma
  Nul = Nul
  Torn = Torn
  Writers <- MCWriters
  ProcessOf <- MCProcessOf
  InitialResults <- MCInitialResults
  MaxResults = 4
  MaxPerSave = 2
  MaxFaults = 2
SYMMETRY ThreadSymmetry
INVARIANTS TypeOK ArrayOrDamage SavedOnce
PROPERTIES OnlyTheBracketGoes GrowsAtItsEnd
