SPECIFICATION Spec
CONSTANTS
  Namespaces = {storage, esp32_nat}
  Storage = storage
  Names = {lock}
  Half <- Halves
  LongHalf = 2
  Numbers <- Boundaries
  Texts <- SomeTexts
  Other = Other
  Absent = Absent
  Unknown = Unknown
INVARIANTS ToldIsStored PrintedCanBeSet
