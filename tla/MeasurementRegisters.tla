------------------------ MODULE MeasurementRegisters ------------------------
(***************************************************************************)
(* What every calculator of the repository promises, whatever platform it  *)
(* computes the reference values of: a set of measurement registers (TPM   *)
(* PCRs, TDX MRs), each with an event journal.  A digest enters a register *)
(* only through the extend operation, no digest is extended that is not in *)
(* the journal, and a register may be published only when the journal      *)
(* accounts for all of it.                                                 *)
(*                                                                         *)
(* The hash is collision free: the value of a register is represented by   *)
(* the sequence of the digests extended into it since its reset.           *)
(***************************************************************************)
EXTENDS Naturals, Sequences, FiniteSets

CONSTANTS Register,   \* the indices of the registers
          Digest,     \* the digests that can be extended
          Unset       \* the value of a register nobody has reset yet

VARIABLES reg,        \* reg[r]: Unset or the digests extended into r
          journal,    \* journal[r]: the digests the event log lists for r
          published   \* the registers whose value has left the program

absVars == <<reg, journal, published>>

Times(d, s) == Cardinality({k \in DOMAIN s : s[k] = d})

Elements(s) == {s[k] : k \in DOMAIN s}

\* Every digest of s is in t, at least as often.
Accounts(t, s) == \A d \in Elements(s) : Times(d, s) <= Times(d, t)

\* s and t list the same digests, each as often, in any order.
Balanced(s, t) == Accounts(s, t) /\ Accounts(t, s)

AbsTypeOK ==
  /\ reg \in [Register -> Seq(Digest) \cup {Unset}]
  /\ journal \in [Register -> Seq(Digest)]
  /\ published \subseteq Register

AbsInit ==
  /\ reg = [r \in Register |-> Unset]
  /\ journal = [r \in Register |-> <<>>]
  /\ published = {}

Reset(r) ==
  /\ reg[r] = Unset
  /\ reg' = [reg EXCEPT ![r] = <<>>]
  /\ UNCHANGED <<journal, published>>

\* Journal the digests js and extend the digests es, in the order of each.
Advance(r, js, es) ==
  /\ reg[r] # Unset
  /\ r \notin published
  /\ Accounts(journal[r] \o js, reg[r] \o es)
  /\ journal' = [journal EXCEPT ![r] = @ \o js]
  /\ reg' = [reg EXCEPT ![r] = @ \o es]
  /\ UNCHANGED published

Publish(rs) ==
  /\ \A r \in rs : reg[r] # Unset /\ Balanced(reg[r], journal[r])
  /\ published' = published \cup rs
  /\ UNCHANGED <<reg, journal>>

\* The suffix a step added to s.
Added(s, t) == SubSeq(t, Len(s) + 1, Len(t))

\* The digests of an Advance are those by which the two sequences have grown.
AbsNext ==
  \/ \E r \in Register : Reset(r)
  \/ \E r \in Register :
       /\ reg[r] # Unset
       /\ Advance(r, Added(journal[r], journal'[r]), Added(reg[r], reg'[r]))
  \/ \E rs \in SUBSET Register : Publish(rs)

AbsSpec == AbsInit /\ [][AbsNext]_absVars
=============================================================================
