\* A file in every layout, or with several sections and a mistake.
CONSTANTS
  Plain = {"a"}
  BufSize = 3
  Files <- AnyFile
  Paths = {"log"}
  BadPatterns <- Refused
SPECIFICATION StartupSpec
INVARIANTS TypeOK FlagsAgree ReadsWhatWasMeant OneLogfile ChainsInOrder
PROPERTIES Finishes
