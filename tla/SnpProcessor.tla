---------------------------- MODULE SnpProcessor ----------------------------
(***************************************************************************)
(* The secure processor that launches an SEV-SNP guest, as far as a launch *)
(* digest depends on it: a page of guest memory can be handed over only    *)
(* once, save areas come when the memory is complete, and the digest is    *)
(* that of all pages in the order of the calls.                            *)
(***************************************************************************)
EXTENDS Naturals, Sequences, SequencesExt

VARIABLES launch,   \* the pages measured so far
          digest    \* the launch digest, empty until the guest is finished

snpVars == <<launch, digest>>

Measured == {launch[k] : k \in DOMAIN launch}

SaveAreas == {p \in Measured : p.type = "vmsa"}

SnpInit == launch = <<>> /\ digest = <<>>

\* The page may be handed over now.
Accepts(p) == p.type = "vmsa" \/ (SaveAreas = {} /\ \A q \in Measured : q.gpa # p.gpa)

LaunchUpdate ==
  /\ digest = <<>> /\ digest' = digest
  /\ launch' # <<>> /\ Front(launch') = launch /\ Accepts(Last(launch'))

LaunchFinish ==
  /\ SaveAreas # {} /\ digest = <<>>
  /\ digest' = launch /\ launch' = launch

SnpNext == LaunchUpdate \/ LaunchFinish

SnpSpec == SnpInit /\ [][SnpNext]_snpVars
=============================================================================
