SPECIFICATION DiscussionSpec
CONSTANTS
  None = None
  Gone = Gone
  u1 = u1
  u2 = u2
  Users = {u1, u2}
  Moderators <- MCModerators
  Reporter = u1
  Comments = {c1, c2}
  Texts = {x1, x2}
  Requests = {r1, r2}
SYMMETRY Ids
INVARIANTS
  ActivitiesAreTrue
  LastNoticeIsTrue
  DeadlocksTakeBoth
PROPERTY ErasedForGood
