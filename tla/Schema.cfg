SPECIFICATION Spec
INVARIANTS
  MigrationsAreSound
  DeletionIsComplete
