SPECIFICATION Spec
CONSTANTS
  cpf = cpf
  phone = phone
  Kinds = {cpf, phone}
  Specific = {cpf}
  Blocks = 2
  OPFLists <- MCOPFLists
  RegexLists <- MCRegexLists
  NotLoaded = notloaded
  Unreadable = unreadable
INVARIANTS PairingIsStable RegexSideShowsThePipeline NewestReportStays AcknowledgedSettingsSurvive
CONSTRAINT EverydayOrQuiet
