SPECIFICATION Spec
CONSTANTS
  num_tokens = 5
  MaxLexemes = 7
  MaxMembers = 2
  Fields <- MCFields
  Copied <- MCCopied
  NameSize = 2
  Keys <- MCKeys
  Values <- MCValues
  DocKeys <- MCDocKeys
  DocValues <- MCDocValues
INVARIANTS TypeOK KeyHasValue ValuesAsSent BracketsMatch FieldsAsDocumented
