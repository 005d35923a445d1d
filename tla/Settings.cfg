SPECIFICATION Spec
CONSTANTS
  Call = {c1, c2}
  Field = {manual_presence, quiet_hours}
  Checked = manual_presence
  Value = {v0, v1}
  Default = v0
  Invalid = Invalid
  Keep = Keep
  None = None
INVARIANTS
  AnsweredTookEffect
  FailuresAreDue
PROPERTIES
  FieldsAreIndependent
CHECK_DEADLOCK FALSE
