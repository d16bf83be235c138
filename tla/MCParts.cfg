CONSTANTS
  Documents <- PartsDocuments
  Cited <- PartsCited
  MaxDispatches = 3
  MaxDocuments = 3
  Artifact = {a1, a2}
  OldFiles <- SmallFiles
  Insertions <- PartsInsertions
  SearchLimit = 3
  BudgetLines = 2
  MaxTokens = 3
  AssetInfo <- MCAssets
  Exports <- MCExports
  MaxAssetBytes = 4
  MaxBundleBytes = 8
  MaxImportDepth = 2
  MaxVersions = 3
  MaxMtime = 3
  MsPerSecond = 2
  MaxAssetSize = 2
SPECIFICATION PartsSpec
INVARIANTS
  PartsTypeOK
  CardsShownOnce
  FollowUpStaysOnItsCard
  GcSparesSessions
  VerdictsHold
  WalksAgree
  ExportAccounts
  CopyIsOfItsTag
CHECK_DEADLOCK FALSE
