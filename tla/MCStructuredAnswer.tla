------------------------- MODULE MCStructuredAnswer -------------------------
(* Answers for TLC: sound and low ones, ones with a field missing or       *)
(* spoiled, ones with a criterion that is not checked, and ones that are   *)
(* no JSON, among them scores that scraping changes.                       *)
EXTENDS StructuredAnswer, TLC

CONSTANTS u1, u2, u3, t1, t2, d1, d2, f1, f2

Of(is, n, first) == [is |-> is, n |-> n, first |-> first]
Number(n) == Of("number", Points(n), Points(n))
Spoiled(is) == Of(is, 0, Null)
All(n) == [f \in Checked |-> Number(n)]
Fluency(v) == [All(90) EXCEPT !["fluency"] = v]
With(v) == [f \in Checked \cup {"terminology_consistency"} |-> IF f \in Checked THEN Number(90) ELSE v]
Text(before, whole, fields) == [before |-> before, whole |-> whole, fields |-> fields]

SomeAnswers ==
  {Text("nothing", TRUE, All(90)), Text("fence", TRUE, All(40)),
   Text("words", TRUE, Fluency(Of("quoted", 804, 804))),
   Text("nothing", TRUE, Fluency(Spoiled("bare"))),
   Text("nothing", TRUE, Fluency(Spoiled("words"))),
   Text("nothing", TRUE, Fluency(Spoiled("quotednan"))),
   Text("nothing", TRUE, Restrict(All(90), {"adequacy", "fluency"})),
   Text("nothing", TRUE, With(Number(100))), Text("nothing", TRUE, With(Spoiled("words"))),
   Text("nothing", TRUE, Fluency(Of("colon", Points(100), Points(3)))),
   Text("brackets", TRUE, Fluency(Of("quoted", -876, -876))),
   Text("nothing", FALSE, Fluency(Spoiled("nan"))),
   Text("words", TRUE, <<>>)}

UnitSymmetry == Permutations({u1, u2, u3})
=============================================================================
