SPECIFICATION Spec
CONSTANTS
    p1 = p1
    p2 = p2
    Processes = {p1, p2}
    Places = {"bundle", "local"}
    Bundle = "bundle"
    Releases = {"r81", "r90"}
    Locals = {"local"}
    Locked = "r81"
    Described <- MCDescribed
    Printed <- MCPrinted
    Spoken <- MCSpoken
    Speaks = {"r81", "r90"}
    Supported = {"0.8.1"}
    Situations <- MCSituations
    Changing = {"bundle"}
    MaxChanges = 1
    MaxAcquires = 1
    None = None
INVARIANTS TrustedIsOneRelease AuthoritySpeaksSupported AuthorityIsVerified DoctorAgrees PassIsEarned
PROPERTY BundleOutlivesRefusals
CHECK_DEADLOCK FALSE
