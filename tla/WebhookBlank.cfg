CONSTANTS
  h1 = h1
  h2 = h2
  m1 = m1
  m2 = m2
  echo = echo
  ann = ann
  i1 = i1
  i2 = i2
  plan = plan
  city = city
  stage = stage
  trial = trial
  lost = lost
  None = None
  Agent = Agent
  Stage = stage
  Words <- WordsMC
  Tariffs <- TariffsMC
  Placeholders <- PlaceholdersMC
  Catalogue <- CatalogueMC
  Answers <- AnswersBlank
  Handlers <- HandlersMC
  Msgs <- MsgsMC
  Event <- EventMC
  Contacts <- ContactsMC
  Convs <- ContactsMC
  Inboxes <- InboxesOne
  Keys <- KeysOne
  Labels <- LabelsNone
  Fallback = {i1}
  Managed = {i1}
  Faults = {}
SPECIFICATION Spec
PROPERTY KnownFieldStays
