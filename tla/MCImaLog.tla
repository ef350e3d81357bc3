------------------------------ MODULE MCImaLog ------------------------------
(***************************************************************************)
(* Lists of up to three records of every template, growing lists, and      *)
(* copies that are cut off anywhere.                                       *)
(***************************************************************************)
EXTENDS ImaLog

Rec(t, v) == [template |-> t, violation |-> v]

Records == {Rec(t, FALSE) : t \in RecordTemplate} \cup {Rec("ima-ng", TRUE)}

Good == {Rec("ima-ng", FALSE), Rec("ima-modsig", FALSE)}

Lists ==
  {<<>>} \cup {<<a>> : a \in Records} \cup {<<a, b>> : a \in Records, b \in Records}
    \cup {<<a, b, c>> : a \in Good, b \in Records, c \in Records}

Whole(rs) == [records |-> rs, size |-> Parts * Len(rs)]

At(p, f) == [x \in ListPath |-> IF x = p THEN f ELSE Absent]

Copies == [args : {<<[opt |-> "measurements"]>>},
           files : {At("copy", [records |-> rs, size |-> n]) : rs \in Lists, n \in 0 .. 3 * Parts},
           later : {<<>>}, faults : {{}}]

ShortCopies == [args : {<<[opt |-> "measurements"]>>},
                files : {At("copy", Whole(rs)) : rs \in Lists},
                later : {<<>>}, faults : {{"memory"}}]

Live == [args : {<<>>, <<[opt |-> "verbose"]>>},
         files : {At("runtime measurements", Whole(rs)) : rs \in {s \in Lists : Len(s) <= 2}},
         later : {<<>>} \cup {<<a, b>> : a \in Good, b \in Records},
         faults : {{"again"}, {"again", "read"}}]

Options == [args : {<<[opt |-> "unknown"]>>, <<[opt |-> "verbose"], [opt |-> "measurements"]>>},
            files : {At("copy", Absent), At("copy", Whole(<<Rec("ima-sig", FALSE)>>))},
            later : {<<>>}, faults : {Fault}]

MCScenarios ==
  {s \in Copies \cup ShortCopies \cup Live \cup Options :
     \A p \in ListPath : s.files[p] # Absent => s.files[p].size <= Parts * Len(s.files[p].records)}
=============================================================================
