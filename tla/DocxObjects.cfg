SPECIFICATION DocxSpec
CONSTANTS
  Large = {p, q}
  Small = {r}
  Data = {d}
  NoData = NoData
  Nothing = Nothing
  MaxElements = 4
INVARIANTS DocxTypes PicturesShownOnce FiguresFound
CHECK_DEADLOCK FALSE
