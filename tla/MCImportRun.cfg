CONSTANTS
  Nothing = Nothing
  BadKeys = {}
  EntityTypes <- MCEntityTypes
  Lower <- MCLower
  Sources <- MCSources
  Requests <- MCRequests
SPECIFICATION Spec
INVARIANTS StoreSound ExchangesBelong ExchangesFindTheirFlow PublishedIsComplete
PROPERTIES QuantityConserved
