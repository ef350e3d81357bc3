------------------------------- MODULE MCMrtd -------------------------------
(***************************************************************************)
(* Instances of FirmwareMrs for TLC: images of eight chunks with up to     *)
(* three sections, pages of two chunks.                                    *)
(***************************************************************************)
EXTENDS FirmwareMrs

Sec(off, raw, addr, mem, type, attributes) ==
  [off |-> off, raw |-> raw, addr |-> addr, mem |-> mem, type |-> type,
   extend |-> "extend" \in attributes, aug |-> "aug" \in attributes]

\* The sections of an OVMF image.
Bfv == Sec(0, 4, 16, 4, 0, {"extend"})
Cfv == Sec(4, 2, 20, 4, 1, {})
TempMem == Sec(0, 0, 8, 4, 3, {})
PermMem == Sec(0, 0, 0, 4, 4, {"aug"})
Params == Sec(5, 3, 0, 0, 8, {})

\* Faulty or unusual ones.
Unaligned == Sec(0, 2, 25, 2, 0, {"extend"})
OddSize == Sec(0, 2, 24, 3, 1, {})
TooSmall == Sec(0, 4, 24, 2, 0, {})
SmallInfo == Sec(0, 4, 24, 2, 7, {})
UnknownType == Sec(0, 2, 24, 2, 9, {})
BeyondImage == Sec(7, 1, 24, 2, 0, {"extend"})
FarBeyond == Sec(8, 6, 24, 6, 1, {})
Wrapping == Sec(12, 6, 24, 6, 1, {})
Overlapping == Sec(0, 2, 18, 2, 1, {"extend"})
Unadded == Sec(2, 2, 24, 2, 0, {"extend", "aug"})

Sound == {Bfv, Cfv, TempMem, PermMem}
Pool == Sound \cup {Params, Unaligned, OddSize, TooSmall, SmallInfo, UnknownType, BeyondImage,
                    FarBeyond, Wrapping, Overlapping, Unadded}

Metadata == [1 .. 1 -> Pool] \cup [1 .. 2 -> Pool] \cup [1 .. 3 -> Sound]

Plain(secs) ==
  [size |-> 8, footer |-> "plain", table |-> <<>>, descriptor |-> "valid",
   held |-> Len(secs), sections |-> secs]

Tables == {<<>>, <<"other">>, <<"metadata">>, <<"other", "metadata", "zero">>,
           <<"other", "zero", "metadata">>}

Variants(m) ==
  {m, [m EXCEPT !.footer = "tiny"], [m EXCEPT !.footer = "small"],
   [m EXCEPT !.descriptor = "invalid"], [m EXCEPT !.descriptor = "outside", !.held = 0],
   [m EXCEPT !.held = 1], [m EXCEPT !.held = 0]}
  \cup {[m EXCEPT !.footer = "table", !.table = t] : t \in Tables}

MCImages == {Plain(secs) : secs \in Metadata} \cup Variants(Plain(<<Bfv, Cfv>>))
            \cup {[Plain(<<Bfv, sec>>) EXCEPT !.held = 1] : sec \in Pool}
=============================================================================
