------------------------------ MODULE TdxModule ------------------------------
(***************************************************************************)
(* What the TDX module lets a host do while it builds a trust domain, and  *)
(* what of it enters MRTD: a page is added once, a chunk of a page is      *)
(* extended once and after its page was added, and nothing follows the     *)
(* finalisation.                                                           *)
(***************************************************************************)
EXTENDS Naturals, Sequences

CONSTANTS Chunk,      \* the addresses of the chunks of TDH.MR.EXTEND
          PageOf(_),  \* the page a chunk lies in
          Data        \* what a chunk can hold

VARIABLES transcript,  \* the calls that have entered the measurement
          final        \* TDH.MR.FINALIZE has been called

tdVars == <<transcript, final>>

Calls == {transcript[j] : j \in DOMAIN transcript}

Added == {call.at : call \in {c \in Calls : c.call = "add"}}
Extended == {call.at : call \in {c \in Calls : c.call = "extend"}}

TdInit == transcript = <<>> /\ final = FALSE

Record(call) == transcript' = Append(transcript, call) /\ UNCHANGED final

TdhMemPageAdd(p) ==
  /\ ~final /\ p \notin Added
  /\ Record([call |-> "add", at |-> p])

TdhMrExtend(c, data) ==
  /\ ~final /\ PageOf(c) \in Added /\ c \notin Extended
  /\ Record([call |-> "extend", at |-> c, data |-> data])

TdhMrFinalize == ~final /\ final' = TRUE /\ UNCHANGED transcript

TdNext ==
  \/ \E c \in Chunk : TdhMemPageAdd(PageOf(c))
  \/ \E c \in Chunk, data \in Data : TdhMrExtend(c, data)
  \/ TdhMrFinalize

TdSpec == TdInit /\ [][TdNext]_tdVars
=============================================================================
