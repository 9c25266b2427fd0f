CONSTANTS
  ada = ada
  bo = bo
  old = old
  new = new
  price = price
  faq = faq
  phone = phone
  photo = photo
  None = None
  Admins <- TwoAdmins
  Texts <- TextsMC
  Tariffs = {}
  Placeholders = {}
  Topics = {}
  Assets = {}
  MaxRows = 4
  Faults = {}
SPECIFICATION Spec
CHECK_DEADLOCK FALSE
INVARIANT LiveServesPublished
