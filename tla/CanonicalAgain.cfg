SPECIFICATION Spec
CONSTANTS
  Precision = 4
  MinExponent <- SmallMinExponent
  MaxExponent = 7
  DecimalLow <- SmallDecimalLow
  DecimalHigh = 3
  GeneralLow <- SmallGeneralLow
  GeneralHigh = 1
  MaxCoefficient = 1999
  MaxFraction = 99
  MaxTen = 3
  MaxWireTen = 1
INVARIANTS
  Idempotent
CHECK_DEADLOCK FALSE
