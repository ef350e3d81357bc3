-------------------------------- MODULE TdHob --------------------------------
(***************************************************************************)
(* td_hob.c: the hand-off blocks (HOB) that QEMU passes to the firmware of *)
(* a trust domain, as calculate_rtmr0 builds and hashes them: a table and  *)
(* nine descriptors of memory, one behind the other in an array that is    *)
(* not initialised.  A block is known by its place in that array.          *)
(*                                                                         *)
(* Addresses of memory and their lengths count pages of 4096 bytes, all    *)
(* others bytes.                                                           *)
(***************************************************************************)
EXTENDS Integers, Sequences

HandoffSize == 56
DescriptorSize == 48

PhysicalStart == <<0, 2048, 2054, 2057, 2059, 2061, 2065, 2080, 1048576>>

\* [fault] The area of the page tables without its second half.
ResourceLengthHalf == <<2048, 3, 3, 2, 2, 4, 15, 522208, 524288>>

ResourceLength == <<2048, 6, 3, 2, 2, 4, 15, 522208, 524288>>

ResourceType ==
  <<"unaccepted", "system", "unaccepted", "system", "system", "unaccepted", "system", "unaccepted",
    "unaccepted">>

Resources == Len(PhysicalStart)

\* EfiEndOfHobList: the page and the place in it.
EndOfHobList == <<2057, 496>>

Handoff == [type |-> "handoff", length |-> HandoffSize, end |-> EndOfHobList]

Descriptor(n) ==
  [type |-> "resource", length |-> DescriptorSize, resource |-> ResourceType[n],
   start |-> PhysicalStart[n], pages |-> ResourceLength[n]]

\* get_td_hob_size: the length of the array and of what is hashed of it.
TdHobSize == HandoffSize + DescriptorSize * Resources

VARIABLES
  hobStep,   \* the next step
  dest,      \* the blocks written, by their place
  resource,  \* i, the descriptor written next
  offset     \* hob_offset, the place behind the last block, or where the walk is

hobVars == <<hobStep, dest, resource, offset>>

HobInit == hobStep = "create" /\ dest = <<>> /\ resource = 1 /\ offset = 0

Placed(block, at) == [p \in DOMAIN dest \cup {at} |-> IF p = at THEN block ELSE dest[p]]

\* The array has the size create_td_hob asks for.
CreateHandoff ==
  /\ hobStep = "create"
  /\ dest' = Placed(Handoff, 0) /\ offset' = HandoffSize
  /\ hobStep' = "add" /\ UNCHANGED resource

AddDescriptor ==
  /\ hobStep = "add" /\ resource <= Resources
  /\ dest' = Placed(Descriptor(resource), offset) /\ offset' = offset + DescriptorSize
  /\ resource' = resource + 1 /\ UNCHANGED hobStep

DescriptorsDone ==
  /\ hobStep = "add" /\ resource > Resources
  /\ hobStep' = "print" /\ offset' = 0 /\ UNCHANGED <<dest, resource>>

\* print_td_hob, whatever is printed: from block to block by their lengths.
PrintBlock ==
  /\ hobStep = "print" /\ offset < TdHobSize
  /\ offset' = offset + dest[offset].length
  /\ UNCHANGED <<hobStep, dest, resource>>

PrintDone ==
  hobStep = "print" /\ offset >= TdHobSize /\ hobStep' = "hash" /\ UNCHANGED <<dest, resource, offset>>

HobNext == CreateHandoff \/ AddDescriptor \/ DescriptorsDone \/ PrintBlock \/ PrintDone

HobSpec == HobInit /\ [][HobNext]_hobVars
=============================================================================
