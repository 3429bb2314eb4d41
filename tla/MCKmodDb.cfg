SPECIFICATION Spec
CONSTANTS
  DepFiles <- MCDep
  BuiltinFiles <- MCBuiltin
  SoftdepFiles <- MCSoftdep
  WeakdepFiles <- MCWeakdep
  AliasFiles <- MCAlias
  Norm <- MCNorm
  None = None
INVARIANT Finds
CHECK_DEADLOCK FALSE
