SPECIFICATION Spec
CONSTANTS
  h1 = h1
  h2 = h2
  h3 = h3
  Handles <- ThreeHandles
  ModemTypes = {"SUPL", "WWAN_ANY", "SUPL_ES"}
  FrameworkTypes = {"SUPL", "WWAN_ANY"}
  PdnSettings = {TRUE, FALSE}
  AgpsCapable = TRUE
  MAX_START_DATA_CALL_RETRIES = 4
SYMMETRY Symmetry
INVARIANTS TypeOK ListMatchesState OpenIsTracked NoRequestForgotten NoConnectionLeaked
