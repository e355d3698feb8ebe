\* Two packages, two commands, one action from outside, one error or death.
SPECIFICATION Spec
CONSTANTS
  app = app
  lib = lib
  Name = {app, lib}
  Version = {1, 2}
  Archived = {1}
  Deps <- MCDeps
  Replaces <- MCReplaces
  Provides <- MCProvides
  Virtual = Virtual
  Removing = Removing
  Named <- MCNamed
  Scripted <- MCScripted
  None = None
  Absent = Absent
  Edited = Edited
  MaxCommands = 2
  MaxOutside = 1
  MaxFaults = 1
INVARIANT SyncFinds
INVARIANT RemovedStaysRemoved
INVARIANT DependenciesRecorded
PROPERTY NativeKept
CHECK_DEADLOCK FALSE
