\* Two connections of one user with two sessions, two messages.
SPECIFICATION Spec
CONSTANTS
  u = u  c1 = c1  c2 = c2  t1 = t1  None = None
  Client = {c1, c2}
  SuperUser = {u}
  MaxSession = 2
  Wish <- Wishes
  Job <- Jobs
  BusEvent <- Events
  Trace = {t1}
  Text <- Texts
  Budget = 2
CHECK_DEADLOCK FALSE
INVARIANTS ListedUnderItsName DeadIsUnlisted AskAnsweredOnce ReplyIsShown
PROPERTY QueueIsServed
