SPECIFICATION Spec

CONSTANTS
  Ovmf = Ovmf
  Ragged = Ragged
  Empty = Empty
  Kernel = Kernel
  Initrd = Initrd
  Cmdline = Cmdline
  File <- MCFile
  NoFile = NoFile
  Size <- MCSize
  Environments <- MCEnvironments
  CommandLines <- MCCommandLines
  PageSize = 2
  Top = 2097152
  VmsaGpa = 4000000
  Garbage = Garbage
INVARIANTS
  PrintedIsReference
PROPERTIES
  ImplementsProcessor
