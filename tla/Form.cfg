\* Three requests: a oneof and an enum, a nested list, a map.
SPECIFICATION Spec
CONSTANTS
  Fields <- MCFields
  Requests = {"Choices", "Nested", "Labels"}
  EnumNames <- MCEnumNames
  Number <- MCNumber
  Texts <- MCTexts
  Refs = {"{{r}}"}
  Unbound = "unbound"
  Typed = {"07", "{{r}}"}
  Envs = {"7", "unbound"}
  Height = 6
  MaxItems = 2
  MaxChanged = 4
INVARIANTS
  CursorIsOnTheForm
  LoadInvertsBuild
  RecallRestoresTheTemplate
