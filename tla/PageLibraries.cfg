\* Each library on a small instance of its own.
CONSTANTS
  MaxShows = 3
  Pictures = 3
  MaxWaiting = 2
  MaxEvents = 5
  Entries = {1, 2, 3}
  Texts = {"", "a", "b"}
  Blank = ""
  Matches <- Found
  MaxAsked = 2
  Groups = {1, 2, 3}
  MaxObjects = 5
  Labels = {1, 2, 3, 4}
  MaxPanesWaiting = 3
  Toggles = {1, 2, 3}
  MenuOf <- Opens
  Items = 3
SPECIFICATION Spec
INVARIANT BindingsKept
INVARIANT PromisesKept
INVARIANT LoadersKept
INVARIANT MessagesKept
INVARIANT WidgetsKept
PROPERTY RowsFollowArray
CHECK_DEADLOCK FALSE
