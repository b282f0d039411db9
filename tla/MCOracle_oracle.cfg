SPECIFICATION Spec
CONSTANTS
  Length = 3
  Cases <- AllCases
  Metric <- TrustedMetric
  Recipe <- TrustedRecipe
  Tags <- required_tags
  Convention <- Setting
  Implicit <- NoConvention
  Validated = {"spearman"}
INVARIANTS
  TablesAgree
  RankingsAgree
  TestsAgree
  ColumnsAgree
  CatalogAgrees
CHECK_DEADLOCK FALSE
