-------------------------------- MODULE MCPe --------------------------------
(***************************************************************************)
(* Images as a linker makes them, in the variants the code tells apart,    *)
(* and those with one or two fields that do not fit, alone and as kernels  *)
(* with configuration files of up to three lines.                          *)
(***************************************************************************)
EXTENDS KernelImage

Sec(va, vsize, ptr, raw) == [va |-> va, vsize |-> vsize, ptr |-> ptr, raw |-> raw]
Dir(va, n) == [va |-> va, size |-> n]

Opt(format, dirs) == (IF format = "PE32" THEN 96 ELSE 112) + 8 * dirs

\* Headers of 600 bytes and up to 96 bytes of sections.
Base(format, dirs, sections) ==
  [load |-> "good", size |-> 696, pe |-> 64, format |-> format, machine |-> TRUE, dirs |-> dirs,
   optSize |-> Opt(format, dirs), imageSize |-> 2000, headers |-> 600, security |-> Dir(0, 0),
   debug |-> Dir(0, 0), reloc |-> Dir(0, 0), sections |-> sections, low |-> sections,
   stripped |-> 100, base |-> 300, faults |-> {}]

Orders == {<<>>, <<Sec(1000, 64, 600, 64), Sec(1100, 32, 664, 32)>>,
           <<Sec(1100, 32, 664, 32), Sec(1000, 64, 600, 64)>>,
           <<Sec(1000, 64, 600, 64), Sec(1064, 80, 0, 0), Sec(1200, 40, 664, 32)>>,
           <<Sec(1200, 8, 688, 8), Sec(1000, 64, 600, 64), Sec(1100, 24, 664, 24)>>}

Good ==
  {Base(f, d, ss) : f \in {"PE32", "PE32+"}, d \in {0, 4, 5, 7, 16}, ss \in Orders}

\* Without sections, and nothing behind the headers.
Bare == {[Base(f, d, <<>>) EXCEPT !.size = 600] : f \in {"PE32", "PE32+"}, d \in {0, 7}}

Signed == {[g EXCEPT !.size = 720, !.security = Dir(696, 24)] : g \in Good}
Debugged == {[g EXCEPT !.debug = Dir(1004, n)] : g \in Good, n \in {28, 56, 57}}
Odd(g) ==
  {[g EXCEPT !.size = n] : n \in {0, 63, 327, 328, 599, 600, 690, 705}}
    \cup {[g EXCEPT !.pe = n] : n \in {0, 8, 300, 500, Max32}}
    \cup {[g EXCEPT !.format = f] : f \in {"TE", "other"}} \cup {[g EXCEPT !.machine = FALSE]}
    \cup {[g EXCEPT !.dirs = n] : n \in {3, 17, Max32}}
    \cup {[g EXCEPT !.optSize = n] : n \in {0, 96, 152, 250}}
    \cup {[g EXCEPT !.imageSize = n] : n \in {0, 300, 600, 601}}
    \cup {[g EXCEPT !.headers = n] : n \in {0, 240, 300, 340, 610, 720, Max32}}
    \cup {[g EXCEPT !.security = d] : d \in {Dir(0, 24), Dir(690, 24), Dir(Max32, 2), Dir(Max32 - 5, 3), Dir(100, 500)}}
    \cup {[g EXCEPT !.debug = d] : d \in {Dir(1030, 56), Dir(1000, Max32), Dir(1064, 28), Dir(2, 28)}}
    \cup {[g EXCEPT !.faults = {f}] : f \in {"memory", "digest"}}
    \cup {[g EXCEPT !.load = l] : l \in {"missing", "short"}}

\* A section with fields of any sort, in front of a good one.
OddSections ==
  {Sec(va, 40, ptr, raw) : va \in {0, 599, 700, Max32}, ptr \in {0, 100, 599, 620, 660, 700, Max32},
                           raw \in {0, 20, 60, 97, 500, Max32}}

Shifted == {Base(f, 7, <<Sec(1000, 64, 632, 64), s>>) : f \in {"PE32", "PE32+"}, s \in OddSections}

TeBase ==
  [Base("TE", 0, <<Sec(400, 64, 400, 64), Sec(500, 40, 470, 32)>>) EXCEPT !.pe = 0, !.size = 500]
TeImages ==
  {TeBase, [TeBase EXCEPT !.sections = <<>>, !.low = <<>>]}
    \cup {[TeBase EXCEPT !.sections = s, !.low = s] : s \in {<<Sec(30, 64, 20, 8)>>}}
    \cup {[TeBase EXCEPT !.debug = Dir(va, n)] : va \in {0, 410, 510}, n \in {28, 56}}
    \cup {[TeBase EXCEPT !.stripped = n] : n \in {0, 40, 41, 300}}
    \cup {[TeBase EXCEPT !.base = n] : n \in {100, Max32}} \cup {[TeBase EXCEPT !.reloc = Dir(0, 8)]}
    \cup {[TeBase EXCEPT !.sections = <<Sec(400, 64, 400, 64), Sec(440, 40, 60, 0)>>, !.debug = Dir(450, 28)]}

Few == {Base(f, d, <<Sec(1100, 32, 664, 32), Sec(1000, 64, 600, 64)>>) : f \in {"PE32", "PE32+"}, d \in {0, 5, 7}}

\* About as large as the setup header.
Small == {[s EXCEPT !.size = n] : s \in Few, n \in {540, 559, 560}}

\* Files beyond the numbers of a UINT32: one like the others, and one whose
\* section table lies where a UINT32 cannot tell.
Large ==
  {[g EXCEPT !.size = Max32 + 300] : g \in Few}
    \cup {[Base("PE32", 16, <<s>>) EXCEPT !.pe = pe, !.size = Max32 + 600, !.low = <<l>>, !.headers = h,
                                         !.imageSize = Max32] :
             s, l \in {Sec(0, 0, 0, 0), Sec(65500, 32, 65480, 32), Sec(65500, 32, Max32, Max32)},
             pe \in {65000, 65300, 65400, 65500}, h \in {300, 65470, 65530}}

\* The fields of the setup header are in the optional header, in the section
\* table or in the headers that tell what is where.
KernelAt(f, d, pe, h) ==
  LET ss == <<Sec(1100, 32, h + 64, 32), Sec(1000, 64, h, 64)>>
  IN  [Base(f, d, ss) EXCEPT !.pe = pe, !.headers = h, !.size = h + 96, !.imageSize = 1200]

Reaching ==
  {KernelAt(f, d, pe, 600) : f \in {"PE32", "PE32+"}, d \in {5, 7}, pe \in {288, 300, 340}}
    \cup {KernelAt(f, d, pe, 800) : f \in {"PE32", "PE32+"}, d \in {5, 7}, pe \in {400, 432, 446, 470, 510}}

\* The certificates begin in front of the fields of the setup header.
Overlaid == {[Base(f, 5, <<>>) EXCEPT !.headers = 300, !.size = 600, !.security = Dir(300, 300)] : f \in {"PE32", "PE32+"}}

MCImages ==
  Good \cup Bare \cup Signed \cup Debugged \cup UNION {Odd(g) : g \in Few \cup {s \in Signed : s.dirs = 7}}
    \cup Shifted \cup TeImages \cup Small \cup Overlaid \cup Large \cup Reaching

-----------------------------------------------------------------------------

Ln(var, val) == [var |-> var, val |-> val, lead |-> FALSE]

\* Numbers that fit, that do not, and that are beyond a long.
Lines ==
  {Ln("type_of_loader", 1), Ln("loadflags", 19), Ln("setup_move_size", 262), Ln("ramdisk_image", 13),
   Ln("ramdisk_image", 70000), Ln("cmd_line_ptr", -3), Ln("cmd_line_ptr", 200000000), Ln("heap_end_ptr", 2),
   Ln("none", 0), Ln("unknown", 1)}
    \cup {[var |-> v, val |-> 1, lead |-> TRUE] : v \in {"none", "unknown", "code32_start"}}

Plain == <<Ln("type_of_loader", 1), Ln("bootsect_kludge", 7)>>

\* The bytes of a section header at 516, of va 1000, raw 64 and ptr 600.
Header ==
  <<Ln("type_of_loader", 8), Ln("loadflags", 14), Ln("setup_move_size", 3), Ln("code32_start", 64),
    Ln("ramdisk_image", 600)>>

MCFiles ==
  {None, Absent, <<>>, Plain} \cup {<<a>> : a \in Lines} \cup {<<a, b>> : a, b \in Lines}
    \cup {<<Ln("ramdisk_size", 9), a, Ln("ramdisk_size", 2)>> : a \in Lines}

MCKernels ==
  {[image |-> m, file |-> None] : m \in MCImages}
    \cup {[image |-> m, file |-> Plain] : m \in MCImages}
    \cup {[image |-> m, file |-> l] : l \in MCFiles,
            m \in {s \in Few : s.dirs = 7}}
    \cup {[image |-> m, file |-> l] : m \in Small, l \in {<<>>, Absent}}
    \cup {[image |-> m, file |-> l] :
            m \in Reaching, l \in {<<>>, Header} \cup {<<a>> : a \in Lines} \cup {Header \o <<a>> : a \in Lines}}
=============================================================================
