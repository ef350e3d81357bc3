------------------------------- MODULE MCLzma -------------------------------
(***************************************************************************)
(* Streams of up to four symbols, and their truncations.                   *)
(***************************************************************************)
EXTENDS LzmaReference

Sym(kind, arg, len) == [kind |-> kind, arg |-> arg, len |-> len, bytes |-> 0, late |-> FALSE, zero |-> FALSE]

Kinds ==
  {Sym("literal", 2, 0), Sym("short rep", 0, 0), Sym("rep", 1, 2), Sym("match", 0, 3),
   Sym("match", 1, 4), Sym("match", 3, 2)}

Mark == Sym("end mark", 0, 0)
Texts ==
  LET start == Sym("literal", 1, 0)
  IN  {<<start, a, b>> : a \in Kinds, b \in Kinds \cup {Mark}}
        \cup {<<start, Sym("literal", 2, 0), a, b>> : a \in Kinds, b \in Kinds \cup {Mark}}
        \cup {<<a, Mark>> : a \in Kinds \cup {start}}
        \cup {<<Mark>>}

\* The bytes of the symbols of a text: many for all, or for every other one.
Costs == {[odd |-> 1, even |-> 1, late |-> FALSE], [odd |-> 0, even |-> 3, late |-> TRUE],
          [odd |-> 2, even |-> 0, late |-> FALSE], [odd |-> 3, even |-> 1, late |-> TRUE]}

Costed(ss, c, zero) ==
  [i \in DOMAIN ss |->
     LET n == IF i % 2 = 1 THEN c.odd ELSE c.even
     IN  [ss[i] EXCEPT !.bytes = n, !.late = c.late /\ n > 0, !.zero = zero /\ i = Len(ss)]]

Base == [first |-> TRUE, zero |-> FALSE, props |-> TRUE, dicSize |-> 4, outSize |-> 0,
         symbols |-> <<>>, size |-> 0, user |-> "one call", memory |-> TRUE]

TextLength(ss) ==
  FoldLeft(LAMBDA n, s : n + (IF s.kind = "end mark" THEN 0 ELSE IF s.len = 0 THEN 1 ELSE s.len), 0, ss)

Sizes(ss) == {n \in {BytesOf(ss) - 2, BytesOf(ss), BytesOf(ss) + 1} : n >= 0}

OneCall ==
  UNION {{[Base EXCEPT !.symbols = ss, !.outSize = o, !.size = n, !.dicSize = d] :
            o \in {k \in {TextLength(ss) - 1, TextLength(ss), TextLength(ss) + 1} : k >= 0},
            n \in Sizes(ss), d \in {1, 3}} :
           ss \in {Costed(t, c, z) : t \in Texts, c \in Costs, z \in BOOLEAN}}

Few == {<<Sym("literal", 1, 0), Sym("literal", 2, 0), Sym("match", 1, 4), Sym("rep", 1, 2)>>,
        <<Sym("literal", 1, 0), Sym("literal", 2, 0), Sym("match", 1, 2), Sym("match", 3, 3)>>,
        <<Sym("literal", 1, 0), Sym("match", 0, 3), Sym("literal", 2, 0), Mark>>,
        <<Sym("literal", 1, 0), Sym("match", 0, 4), Sym("literal", 2, 0), Sym("match", 2, 2)>>}

Buffered ==
  UNION {{[Base EXCEPT !.symbols = ss, !.outSize = TextLength(ss), !.size = BytesOf(ss), !.dicSize = d,
                       !.user = "buffer"] : d \in {2, 3, 4}} :
           ss \in {Costed(t, c, TRUE) : t \in Few, c \in Costs}}

Odd ==
  {[Base EXCEPT !.size = n, !.user = u, !.first = f, !.props = q, !.memory = m, !.zero = z, !.outSize = o] :
     n \in {0, 1, 3}, u \in {"one call", "buffer"}, f \in BOOLEAN, q \in BOOLEAN, m \in BOOLEAN, z \in BOOLEAN,
     o \in {0, 1}}

MCStreams == OneCall \cup Buffered \cup Odd
=============================================================================
