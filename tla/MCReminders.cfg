SPECIFICATION FairReminderSpec
CONSTANTS
  tea = tea
  post = post
  Texts = {tea, post}
  Periods = {0, 2, 3}
  Kept <- Files_Earlier
  MaxReminders = 3
  MaxChanges = 1
  MaxCrashes = 1
  MaxTime = 3
INVARIANTS
  ReminderInv
PROPERTIES
  DueIsAnnounced
