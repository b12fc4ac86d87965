CONSTANTS
  d0 = d0
  d1 = d1
  d2 = d2
  Documents = {d1, d2}
  Limit = 2
  Drafts = {d0, d1, d2}
  DefaultWorld = d0
  EmptyWorld = d1
  MaxRevisions = 2
  MaxRequests = 2
  Ids = {1}
  Backends = {"local", "r2"}
  Tries = {1, 2}
  Chats = {c1, c2}
  MaxTurns = 2
  MaxWaiting = 2
SPECIFICATION EditorSpec
INVARIANTS EditorTypes PublishedIsWhole LandedIsConsumed OwnMessages ShownIsStored
PROPERTIES KeepsToTimeline Saves ListedBecomesWhole
