CONSTANTS
  HashSize = 2
  SizeWidth = 2
  UserHashes <- Users
  AttrHashes <- Labels
  EntityHashes <- Enclaves
  Controls <- EnclavePolicies
  TestHashes <- OtherEnclaves
  TestLabels <- BenchmarkLabels
  MaxDepth = 4
  MaxNodes = 5
  AttributeLists = {"a", "b"}
  EntityLists = {"e", "f"}
  AttributeItems <- ListedAttributes
  EntityItems <- ListedEnclaves
  MaxParsed = 3
SPECIFICATION PoliciesSpec
INVARIANTS SizeIsExact PolicySurvives CutShortIsAnError RelatedSuffice
  SearchFinds ListSurvives
PROPERTIES ListsAreSets
