SPECIFICATION SpecPick
CONSTANTS
  Scans = 2
  MaxShown = 4
  Airs <- MCAirs
  Home <- MCHome
  Passwords <- MCPasswords
  Browsers = {b1, b2}
SYMMETRY Symmetry
INVARIANTS UnseenIsOffered ForgottenInTime ListIsTrue UplinkAsPicked
PROPERTY DeletedOnlySeen
