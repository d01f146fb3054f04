SPECIFICATION Spec
CONSTANTS
  Entries <- MCEntries
  Values <- MCValues
  Null = "NULL"
  Operator <- MCOperator
  Increment <- MCIncrement
  Convert <- MCConvert
  Program <- MCProgram
  Addresses <- MCAddresses
  NoEntry = NoEntry
  uninitialized_zval = "uninitialized"
  pool_name <- MCPool
  Garbage = Garbage
  a1 = a1
  a2 = a2
  a3 = a3
  a4 = a4
INVARIANTS
  ZvalsTypeOK
  RefcountsExact
  OwnedIntact
  ReferencesShared
PROPERTY KeepsPHPsPromise
