\* Every catalog of three objects, and one DDL transaction of another session
\* between any two statements of the transfer.
CONSTANTS
  Objects <- MCObjects
  Names <- MCNames
  NameOf <- MCNameOf
  NoObject = NoObject
  Kinds <- MCKinds
  FirstOwners <- MCFirstOwners
  MaxActs = 1
SPECIFICATION TransferSpec
INVARIANTS CommitsThePlan ExtensionsUntouched TakenFromSource
\* the command stops when it has committed or failed
CHECK_DEADLOCK FALSE
