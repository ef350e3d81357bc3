SPECIFICATION FairSpec

CONSTANTS
  Fw = Fw
  Dump = Dump
  Tables = Tables
  Loader = Loader
  Var = Var
  Driver = Driver
  Loader2 = Loader2
  Kernel = Kernel
  Config = Config
  Gpt = Gpt
  Sbat = Sbat
  Grub = Grub
  Cmdline = Cmdline
  Initrd = Initrd
  Zeros = Zeros
  Leaf = Leaf
  Nested = Nested
  Top = Top
  Sub = Sub
  NoFile = NoFile
  Unset = Unset
  File <- MCFile
  Dir <- MCDir
  Children <- MCChildren
  FileSystems <- MCFileSystems
  CommandLines <- BootChainLines
  GrubLines = 2
  MaxPcrs = 12
  MemoryFails = FALSE
INVARIANTS
  LogsSound
  PublishedMatchReference
  OutputSound
PROPERTIES
  ImplementsRegisters
  Terminates
