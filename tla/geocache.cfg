\* Two requests at once for one text in two languages.
SPECIFICATION Spec
CONSTANTS
  Texts = {"rostov"}
  Languages = {"en", "ru"}
  Places = {"rostov-na-donu"}
  Malformed = {"nameless"}
  Requests = {r1, r2}
  TTL = 2
  MissTTL = 1
  Timeout = 1
  MaxTime = 5
  NoEntry = NoEntry
  Never = Never
SYMMETRY Symmetries
INVARIANT AnswersAreUpstreams
INVARIANT KnownPlacesAreFound
