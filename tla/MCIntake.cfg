CONSTANTS
  Request = {r1, r2}
  Declared = {"vsnr", "anschrift"}
  Witnessed = {"vsnr"}
  Open = {"bemerkung"}
  Odd = {"a.b"}
  Prose = {"text1", "text2"}
  Required = {"vsnr", "bemerkung"}
  Submission <- MCSubmission
  MaxPosts = 2
  MaxCrashes = 1
SPECIFICATION Spec
SYMMETRY RequestSymmetry
INVARIANTS TheCopyStandsForTheSubmission ReceivedIsSealed IdentityIsOfOneRecord
CHECK_DEADLOCK FALSE
