CONSTANTS
  ada = ada
  bo = bo
  old = old
  new = new
  price = price
  faq = faq
  phone = phone
  photo = photo
  None = None
  Admins <- TwoAdmins
  Texts <- TextsMC
  Tariffs = {price}
  Placeholders = {}
  Topics = {faq}
  Assets = {photo}
  MaxRows = 3
  Faults = {"crash", "db"}
SPECIFICATION CrewSpec
CHECK_DEADLOCK FALSE
SYMMETRY Symmetry
INVARIANT TypeOK
INVARIANT LiveIsValid
INVARIANT OnePublished
INVARIANT SingleDraftAlone
PROPERTY ImplementsPublication
PROPERTY HistoryIsKept
PROPERTY ReloadIsCurrentAlone
PROPERTY PublishRefusesFirstAlone
