\* Two numbered entries of a map, one of them a reference, recalled.
SPECIFICATION Spec
CONSTANTS
  Fields <- MCFields
  Requests = {"Labels"}
  EnumNames <- MCEnumNames
  Number <- MCNumber
  Texts <- MCTexts
  Refs = {"{{r}}"}
  Unbound = "unbound"
  Typed = {"07", "{{r}}"}
  Envs = {"7"}
  Height = 12
  MaxItems = 2
  MaxChanged = 5
INVARIANT ReferencesComeBack
