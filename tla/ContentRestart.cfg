CONSTANTS
  ada = ada
  bo = bo
  old = old
  new = new
  price = price
  faq = faq
  phone = phone
  photo = photo
  None = None
  Admins <- OneAdmin
  Texts <- TextsMC
  Tariffs = {price}
  Placeholders = {}
  Topics = {faq}
  Assets = {}
  MaxRows = 3
  Faults = {"crash"}
SPECIFICATION Spec
CHECK_DEADLOCK FALSE
PROPERTY EditsWaitForPublish
