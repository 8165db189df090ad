SPECIFICATION GenSpec
CONSTANT Inputs <- Scenarios
CONSTANT Refused <- Unsupported
CHECK_DEADLOCK FALSE
INVARIANTS GenTypeOK Wired LateFresh NobodyOverlooked Provisioned
PROPERTY AllLaunch
