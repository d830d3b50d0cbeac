SPECIFICATION FairSpec
CONSTANTS
  NoNetwork = "no_network"
  Networks = {"no_ssid", "home", "refused", "long", "long_refused"}
  Nameless = {"no_ssid"}
  Refused = {"refused", "long_refused"}
  Oversized = {"long", "long_refused"}
  Zero = "zero"
  Identities = {"zero", "server"}
  MaxResets = 2
CHECK_DEADLOCK FALSE
INVARIANTS TypeOK CommandsSurvive IdentityKept NoChangeForgotten
PROPERTIES ConfigApplied StatusCorrected
