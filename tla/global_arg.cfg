CONSTANTS
  Digits = {0, 3}
  Prefix = prefix
  Dash = dash
  MaxKeys = 5
SPECIFICATION Spec
INVARIANT TypeOK
PROPERTY GlobalDelivered
PROPERTY UniversalDelivered
