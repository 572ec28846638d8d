\* The code's three retries; every initialisation may fail and restart the chip.
CONSTANTS
  MaximumRetry = 3
  Aborts = TRUE
SPECIFICATION DhcpSpec
INVARIANTS
  TypeOK
  NeverStranded
  GivesUpLate
  FailureIsReal
PROPERTIES
  GivingUpIsFinal
  BootCompletes
\* app_main ends, and nothing happens once the station has been given up.
CHECK_DEADLOCK FALSE
