CONSTANTS
  h1 = h1
  h2 = h2
  m1 = m1
  m2 = m2
  echo = echo
  ann = ann
  i1 = i1
  i2 = i2
  plan = plan
  city = city
  stage = stage
  trial = trial
  lost = lost
  None = None
  Agent = Agent
  Stage = stage
  Words <- WordsMC
  Tariffs <- TariffsMC
  Placeholders <- PlaceholdersMC
  Catalogue <- CatalogueMC
  Answers <- AnswersMany
  Handlers <- HandlersMC
  Msgs <- MsgsMC
  Event <- EventMC
  Contacts <- ContactsMC
  Convs <- ContactsMC
  Inboxes <- InboxesOne
  Keys <- KeysThree
  Labels <- LabelsTwo
  Fallback = {i1}
  Managed = {i1}
  Faults = {"db", "read", "llm"}
SPECIFICATION LockedFairSpec
INVARIANT AcceptedIsAnswered
INVARIANT OffersAreRendered
INVARIANT EscalationsOnlyNote
INVARIANT MapIsFree
PROPERTY PatchesDontClobber
PROPERTY LabelsKept
PROPERTY EveryDeliveryReturns
PROPERTY ImplementsWebhook
