---------------------------- MODULE MCFrameDecode ---------------------------
(***************************************************************************)
(* Instances of FrameDecode for TLC: the six frames that protocol.py shows  *)
(* as examples, each cut to every length and with every field replaced by   *)
(* every shape in Probes; and short pushes of whole and broken entries.     *)
(***************************************************************************)
EXTENDS FrameDecode, TLC

Number(whole, frac)  == [kind |-> "number", signed |-> FALSE, whole |-> whole, frac |-> frac]
Whole(whole)         == Number(whole, 0)
Signs(whole)         == [Whole(whole) EXCEPT !.signed = TRUE]
Other(kind)          == [Whole(0) EXCEPT !.kind = kind]

Energy == <<Whole(6), Other("time"), Number(2, 3), Number(4, 1), Number(4, 1), Number(9, 1), Whole(12)>>
Pv == <<Number(3, 1), Number(2, 1), Whole(5), Number(5, 1), Whole(5), Whole(1), Number(3, 1), Whole(3), Whole(5)>>
Load == <<Number(3, 1), Number(2, 1), Whole(5), Whole(5), Whole(3), Whole(3), Whole(5), Number(3, 1), Whole(5)>>
Grid == <<Number(3, 1), Number(2, 1), Whole(3), Whole(3), Whole(2), Whole(2), Signs(5), Whole(1), Whole(5), Other("word")>>
Battery == <<Whole(2), Number(3, 1), Whole(3), Whole(3), Whole(5), Whole(3), Whole(12), Whole(8)>>
Temperature == <<Whole(3), Whole(3), Whole(3), Whole(3), Whole(3), Whole(3), Whole(3), Whole(12)>>
Examples == {Energy, Pv, Load, Grid, Battery, Temperature}

\* One shape on each side of every regular expression.
Probes ==
  {Whole(1), Whole(2), Whole(3), Whole(6), Whole(8), Number(2, 1), Number(3, 1), Number(4, 1),
   Number(3, 2), Signs(5), Other("time"), Other("special"), Other("word")}

Cut(f)  == {SubSeq(f, 1, n) : n \in 0..Len(f)}
Long(f) == {f, Append(f, Whole(8)), Append(f, Whole(3))}
Odd(f)  == {f} \cup {[f EXCEPT ![i] = x] : i \in 1..Len(f), x \in Probes}

Text(f) == [kind |-> "text", fields |-> f]
Bad(kind) == [kind |-> kind, fields |-> <<>>]

\* Pushes of one frame, of any shape in the neighbourhood of the examples.
Shapes ==
  {<<Text(f)>> :
     f \in UNION {UNION {Odd(g) : g \in Cut(e) \cup Long(e)} : e \in Examples}
           \cup Odd([Append(Pv, Whole(3)) EXCEPT ![7] = Signs(5)])}

\* Pushes of up to three entries.
Entries ==
  {Text(Pv), Text([Pv EXCEPT ![2] = Other("word")]), Text([Load EXCEPT ![5] = Other("word")]),
   Text(Load), Text(<<Other("word")>>), Bad("alien"), Bad("empty"), Bad("garbled")}
Mixed == UNION {[1..n -> Entries] : n \in 0..3}

Probed == Shapes \cup Mixed
=============================================================================
