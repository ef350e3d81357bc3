------------------------------- MODULE MCOvmf -------------------------------
(***************************************************************************)
(* Images as the build makes them, with one or two files in front of the   *)
(* compressed one, and those with a field that does not fit.               *)
(***************************************************************************)
EXTENDS OvmfReference, TLC

F(type, size) == [type |-> type, size |-> size]
S(type, size) ==
  [type |-> type, size |-> size, lzma |-> TRUE, offset |-> 24, decoded |-> 344, probs |-> 28544, result |-> "ok"]

\* Files of 32 to 96 bytes behind a header of 72.
Img(files, sections) ==
  [size |-> 500, start |-> 100, length |-> 300, header |-> 72, signature |-> TRUE, pei |-> 80, dxe |-> 120,
   faults |-> {}, files |-> files, sections |-> sections]

Plain == Img(72 :> F("volume", 88), 96 :> S("guid", 64))
Behind == Img(72 :> F("other", 33) @@ 112 :> F("pad", 40) @@ 152 :> F("volume", 72), 176 :> S("guid", 48))
Second == Img(72 :> F("volume", 37) @@ 112 :> F("volume", 90),
              96 :> S("other", 13) @@ 136 :> S("other", 5) @@ 144 :> S("other", 4) @@ 148 :> S("guid", 54))
Twice == Img(72 :> F("volume", 128) @@ 200 :> F("volume", 64),
             96 :> S("other", 6) @@ 104 :> S("guid", 46) @@ 152 :> S("guid", 48) @@ 224 :> S("guid", 40))
ToTheEnd == [Behind EXCEPT !.length = 224]
WithoutAny == [Img(72 :> F("other", 40) @@ 112 :> F("volume", 32), 136 :> S("other", 8)) EXCEPT !.length = 144]
Built == {Plain, Behind, Second, Twice, ToTheEnd}

OddFiles(m) ==
  UNION {{[m EXCEPT !.files[p].size = n], [m EXCEPT !.files[p].type = "other"]}
           : p \in DOMAIN m.files, n \in {0, 1, 24, 27, 28, 36, 40, 64, 201, 65536}}
OddSections(m) ==
  UNION {{[m EXCEPT !.sections[q].size = n] : n \in {0, 3, 4, 20, 24, 36, 37, 60, 65, 65536}}
         \cup {[m EXCEPT !.sections[q].type = "other"], [m EXCEPT !.sections[q].lzma = FALSE]}
         \cup {[m EXCEPT !.sections[q].offset = n] : n \in {0, 40, 52, 65535}}
         \cup {[m EXCEPT !.sections[q].decoded = n] : n \in {0, 100, 150, 250, 343, 345, 5000, 70000}}
         \cup {[m EXCEPT !.sections[q].probs = n] : n \in {53120, 65536, 102272}}
         \cup {[m EXCEPT !.sections[q].result = x] : x \in {"early", "corrupt"}}
           : q \in DOMAIN m.sections}
OddImages(m) ==
  {[m EXCEPT !.size = n] : n \in {-1, 0, 39, 120, 140, 399, 400}}
    \cup {[m EXCEPT !.start = n] : n \in {0, 200, 201, 460, 500, 70000}}
    \cup {[m EXCEPT !.length = n] : n \in {0, 40, 50, 72, 80, 100, 152, 160, 400, 401, 70000}}
    \cup {[m EXCEPT !.header = n] : n \in {0, 65, 70, 80, 300, 65535}}
    \cup {[m EXCEPT !.signature = FALSE]}
    \cup {[m EXCEPT !.pei = n] : n \in {0, 79, 81, 200, 70000}}
    \cup {[m EXCEPT !.dxe = n] : n \in {0, 40, 119, 121, 70000}}
    \cup {[m EXCEPT !.faults = {x}] : x \in {"memory", "dump"}}

MCImages ==
  Built \cup {WithoutAny}
    \cup UNION {OddFiles(m) \cup OddSections(m) \cup OddImages(m) : m \in Built \cup {WithoutAny}}
    \cup UNION {OddSections(m) : m \in OddImages(Plain)}
=============================================================================
