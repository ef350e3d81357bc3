------------------------------ MODULE FirmwareMrs ------------------------------
(***************************************************************************)
(* The two handlers that measure a firmware image: calculate_mrtd calls    *)
(* measure_ovmf, calculate_rtmr0 creates and hashes the TD HOB and calls   *)
(* measure_cfv.                                                            *)
(***************************************************************************)
EXTENDS MrtdReference, TdHob

VARIABLE hashedHob  \* the blocks hash_buf was given, <<>> before

allVars == <<vars, hobVars, hashedHob>>

\* Of calculate_mrtd the HOB is no part.
HandlersInit ==
  /\ Init
  /\ IF job = "measure_cfv"
     THEN HobInit
     ELSE hobStep = "none" /\ dest = <<>> /\ resource = 1 /\ offset = 0
  /\ hashedHob = <<>>

CreateHob == HobNext /\ UNCHANGED <<vars, hashedHob>>

HashHob ==
  /\ hobStep = "hash" /\ hashedHob' = dest /\ hobStep' = "done"
  /\ UNCHANGED <<vars, dest, resource, offset>>

MeasureImage ==
  /\ hobStep \in {"none", "done"}
  /\ Locate \/ MeasureOvmf \/ MeasureCfv
  /\ UNCHANGED <<hobVars, hashedHob>>

HandlersNext ==
  CreateHob \/ HashHob \/ MeasureImage \/ (Terminated /\ UNCHANGED <<hobVars, hashedHob>>)

HandlersSpec == HandlersInit /\ [][HandlersNext]_allVars

\* The thread of the program keeps running.
FairHandlersSpec == HandlersSpec /\ WF_allVars(HandlersNext)

-----------------------------------------------------------------------------

BytesOf(blocks, p) == p .. p + blocks[p].length - 1

\* What is hashed of the uninitialised array has been written, once, and the
\* walk goes from block to block (td_hob.c:29, 94-110, 120-155, mrs.c:139-146).
HobIsWhole ==
  /\ hobStep = "print" /\ offset < TdHobSize => offset \in DOMAIN dest
  /\ hashedHob # <<>> =>
       /\ UNION {BytesOf(hashedHob, p) : p \in DOMAIN hashedHob} = 0 .. TdHobSize - 1
       /\ \A p, q \in DOMAIN hashedHob : p < q => p + hashedHob[p].length <= q

Descriptors == {hashedHob[p] : p \in {q \in DOMAIN hashedHob : hashedHob[q].type = "resource"}}

\* The descriptors tell memory without gaps or overlaps up to 2 GiB, and 2 GiB
\* from 4 GiB on; the list ends, with its closing block of eight bytes, where
\* the table says, in memory the firmware may use (td_hob.c:52, 62-92).
HobTilesMemory ==
  hashedHob # <<>> =>
    /\ \A r \in Descriptors :
         r.start \in {0, 1048576} \/ \E q \in Descriptors : q.start + q.pages = r.start
    /\ \A r \in Descriptors :
         r.start + r.pages \in {524288, 1572864} \/ \E q \in Descriptors : q.start = r.start + r.pages
    /\ \A r, q \in Descriptors : r # q => r.start + r.pages <= q.start \/ q.start + q.pages <= r.start
    /\ LET end == hashedHob[0].end
       IN  \E r \in Descriptors :
             /\ r.start = end[1] /\ r.resource = "system" /\ r.pages > 0
             /\ end[2] = TdHobSize + 8

\* The list that is hashed into RTMR0 is one a guest could be started with: all
\* of it is written, and it describes the memory without a hole
\* (td_hob.c:29-155).
HobSound == HobIsWhole /\ HobTilesMemory
=============================================================================
