---------------------------- MODULE ShieldedText ----------------------------
(***************************************************************************)
(* Texts as the shields of the two channels see them: a sequence of        *)
(* pieces, each a word or a protected element in one of the forms it has   *)
(* on its way through the language model and back.                         *)
(*                                                                         *)
(* An element is named by its kind and its id, a number.  The repair of    *)
(* the XLIFF channel looks for one key as a substring of the text, where   *)
(* the key of another may hold it: 1 begins 10.                            *)
(***************************************************************************)
EXTENDS Naturals, FiniteSets, Sequences, SequencesExt

Name(kind, id) == [kind |-> kind, id |-> id]
Piece(is, name) == [is |-> is, name |-> name, wide |-> FALSE]

Raw(k) == Piece("raw", k)          \* the element itself
Mark(k) == Piece("mark", k)        \* the marker or placeholder of its key
Bare(k) == Piece("bare", k)        \* the key as plain text
Alt(k) == Piece("alt", k)          \* {{OLXTAGbx1}}, a form some models answer
Escaped(k) == Piece("escaped", k)  \* &lt;bx .../&gt;
Naked(k) == Piece("naked", k)      \* inline code without its backticks
Bent(k) == Piece("bent", k)        \* an image reference with a damaged path
Word(w) == Piece("word", Name(w, 0))
Notice(w) == Piece("notice", Name(w, 0))

Held(text, p) == Contains(text, p)
Count(text, p) == Cardinality({i \in DOMAIN text : text[i] = p})
NamesIn(text, form) == {text[i].name : i \in {j \in DOMAIN text : text[j].is = form}}
Kinds(text) == {text[i].name.kind : i \in {j \in DOMAIN text : text[j].is = "word"}}

(* Every piece of text replaced by what Turn makes of it.                  *)
Turned(text, Turn(_)) == FlattenSeq([i \in DOMAIN text |-> Turn(text[i])])

(* What stands at some places of s, in its order.                          *)
Chosen(s, places) == FlattenSeq([i \in DOMAIN s |-> IF i \in places THEN <<s[i]>> ELSE <<>>])

(* part is a stretch of text.                                              *)
Occurs(part, text) ==
  \E i \in 0 .. Len(text) : i + Len(part) <= Len(text) /\ SubSeq(text, i + 1, i + Len(part)) = part

(* new put in behind piece i of text.                                      *)
PutBehind(text, i, new) == SubSeq(text, 1, i) \o new \o SubSeq(text, i + 1, Len(text))

(* Where the last piece of some form is, 0 when there is none.             *)
LastOf(text, form) == SelectLastInSeq(text, LAMBDA p : p.is = form)

(* The key of k, "x_1", is a substring of the key of j: "bx_1" and "x_10"  *)
(* hold it.                                                                *)
Beginnings[n \in Nat] == IF n < 10 THEN {n} ELSE {n} \cup Beginnings[n \div 10]
KindHolds == {<<"x", "bx">>, <<"x", "ex">>, <<"code", "inline_code">>}
InsideKey(k, j) ==
  /\ k.kind = j.kind \/ <<k.kind, j.kind>> \in KindHolds
  /\ k.id \in Beginnings[j.id]

(* Names of the raw elements of text in the order the shields number them: *)
(* kind after kind, the last occurrence of a kind first.                   *)
OfKind(text, kind) ==
  LET raws == Chosen(text, {i \in DOMAIN text : text[i].is = "raw" /\ text[i].name.kind = kind})
  IN Reverse([i \in DOMAIN raws |-> raws[i].name])
KeyOrder(text, kinds) == FlattenSeq([i \in DOMAIN kinds |-> OfKind(text, kinds[i])])

(* level1_regex_clean of both channels: an echoed instruction at the head  *)
(* of the answer goes.                                                     *)
WithoutInstruction(text) ==
  IF text # <<>> /\ Head(text) = Word("instruction") THEN Tail(text) ELSE text
=============================================================================
