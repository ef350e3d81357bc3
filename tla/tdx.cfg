SPECIFICATION Spec

CONSTANTS
  Module = Module
  Ovmf = Ovmf
  Kernel = Kernel
  Config = Config
  Cmdline = Cmdline
  Var = Var
  Table = Table
  Loader = Loader
  Dump = Dump
  Literal8 = Literal8
  NoFile = NoFile
  Unset = Unset
  Stable202408 = Stable202408
  File <- MCFile
  Environments <- MCEnvironments
  CommandLines <- MCCommandLines
INVARIANTS
  PublishedMatchReference
  LogsSound
  OutputSound
PROPERTIES
  ImplementsRegisters
