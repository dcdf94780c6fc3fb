SPECIFICATION Spec
CONSTANTS
  Formats = {"12", "24"}
  Default = "24"
  Half = 3
INVARIANTS
  TypeOK
  Neighbours
  TrustedState
  ShownIsStored
PROPERTIES
  NeverUnconfigured
  ImplementsRegister
