SPECIFICATION Spec
CONSTANTS
  Submissions = {s1}
  Handlers = {h1, h2, h3}
  MaxSaves = 3
  None = None
INVARIANTS OneReviewPerSubmission ScoresMatchReview StudentSeesWholeReview PublishedOnce
PROPERTIES PublishedStays RequestsEnd
