-------------------------------- MODULE MCIma --------------------------------
(***************************************************************************)
(* A tree of two levels with a file that is found in two directories, with *)
(* at most one fault, and command lines of both programs.                  *)
(***************************************************************************)
EXTENDS ImaReference, TLC

CONSTANTS Init0, Shared, Leaf, Nested, Usr, Lib, Etc

MCFile == {Init0, Shared, Leaf, Nested}
MCDir == {Usr, Lib, Etc}

\* Etc holds a link to Shared, Usr the directory Lib.
MCChildren == (Usr :> {Lib, Shared}) @@ (Lib :> {Nested, Leaf}) @@ (Etc :> {Shared, Lib})

MCPiece == {"/mnt", "/root", "fs", "/init", "/lib", "/a", "/b"}

\* A prefix may end in the middle of a name.
MCPath ==
  (Init0 :> <<"/init">>) @@ (Shared :> <<"/mnt", "/root", "fs", "/a">>)
    @@ (Leaf :> <<"/mnt", "/root", "/lib", "/b">>) @@ (Nested :> <<"/mnt", "/root", "/lib", "/a">>)

Healthy == [n \in MCFile \cup MCDir |-> "ok"]

MCEnvironments ==
  [fs : {Healthy}, short : BOOLEAN]
    \cup [fs : {[Healthy EXCEPT ![n] = s] : n \in MCFile \cup MCDir, s \in FileState}, short : {FALSE}]

Arg(o, v) == <<[opt |-> o, val |-> v]>>
Opt(o, v) == {<<>>, Arg(o, v)}

\* One choice of each of the sets of a sequence, concatenated.
Combine(sets) ==
  LET C[k \in 0 .. Len(sets)] ==
        IF k = 0 THEN {<<>>} ELSE {c \o x : c \in C[k - 1], x \in sets[k]}
  IN  C[Len(sets)]

Prefix == <<"/mnt", "/root">>

EntryLines ==
  Combine(<<Opt("boot_aggregate", "sha256"),
            {Arg("path", Usr), Arg("path", Lib), Arg("path", Init0) \o Arg("path", Etc)},
            {<<>>, Arg("strip", Prefix), Arg("strip", Prefix \o <<"/lib">>)},
            {<<>>, Arg("imatemplate", "ima-ng"), Arg("imatemplate", "ima")}>>)
    \cup {Arg("path", Usr) \o Arg("path", Lib)}

OtherLines ==
  Combine(<<{<<>>, Arg("path", Init0), Arg("path", Root)},
            {Arg("format", "text"), Arg("format", "xml"), Arg("tpmpcr", 11), Arg("tpmpcr", Unset),
             Arg("verbose", Unset), Arg("unknown", Unset)},
            {<<>>, Arg("boot_aggregate", "sha256"), Arg("boot_aggregate", "other length"),
             Arg("boot_aggregate", "no hex") \o Arg("boot_aggregate", "sha256")}>>)

MCCommandLines == EntryLines \cup OtherLines

-----------------------------------------------------------------------------

MCDigest ==
  Template \X ({<<"boot">>} \cup ({"content", "part"} \X MCFile)) \X Seq(MCPiece \cup {"boot_aggregate"})

Tok(s, f) == [shape |-> s, digest |-> <<"ima-ng", <<"content", f>>, Path[f]>>]
In(ts) == <<[opt |-> "in", val |-> ts]>>
Alone(o) == <<[opt |-> o, val |-> NoDigest]>>

MCExtendLines ==
  Combine(<<{<<>>, In(<<>>), In(<<Tok("sha256", Leaf)>>), In(<<Tok("sha256", Leaf), Tok("shorter", Init0)>>),
             In(<<Tok("refused", Leaf), Tok("sha256", Leaf)>>)},
            {<<>>, Alone("help"), Alone("unknown"), In(<<Tok("single", Leaf)>>),
             In(<<Tok("sha256", Init0), Tok("refused", Init0)>>),
             In(<<Tok("sha256", Init0), Tok("sha256", Leaf)>>)}>>)
=============================================================================
