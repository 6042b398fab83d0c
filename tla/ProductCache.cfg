\* A listing and a page of the feed, room for one of them, two slots of each sort.
CONSTANTS
  Products = {p1}
  Lists = {feed}
  Requests = {r1, r2}
  Writers = {w1, w2}
  Kinds = {"update", "delete", "issueDelete", "profile"}
  MaxEntries = 1
  ListTtl = 1
  DetailTtl = 2
  MaxVersion = 2
  None = None
SPECIFICATION FairSpec
INVARIANTS Coherent FreshAnswer
PROPERTY StaleEnds
