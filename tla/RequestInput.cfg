SPECIFICATION MCSpec
CONSTANTS
  small = small
  large = large
  Images = {small, large}
  Size <- MCSize
  MaxBatches = 3
  MaxTotalBytes = 3
  storage_error = storage_error
  storage_quota_exceeded = storage_quota_exceeded
  Names <- MCNames
  Namespaces <- MCNamespaces
  Search <- MCSearch
  ApplyPatch <- MCApplyPatch
  MaxTools = 2
  InputItems <- MCItems
  MaxInput = 3
CHECK_DEADLOCK FALSE
INVARIANTS StoreWithinQuota StoredIsThere RequestTranslated
PROPERTIES ReportsIntact BatchAnswered
