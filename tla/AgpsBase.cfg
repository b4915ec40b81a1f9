SPECIFICATION FairSpec
CONSTANTS
  h1 = h1
  h2 = h2
  h3 = h3
  Handles <- ThreeHandles
  ModemTypes = {"SUPL", "WWAN_ANY", "SUPL_ES"}
  FrameworkTypes = {"SUPL"}
  PdnSettings = {FALSE}
  AgpsCapable = TRUE
  MAX_START_DATA_CALL_RETRIES = 4
INVARIANT ModemView
PROPERTIES ContractSpec EveryRequestAnswered WwanAnyWaits
