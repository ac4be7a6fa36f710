----------------------------- MODULE XliffTags -----------------------------
(***************************************************************************)
(* The inline tags of one XLIFF unit (ol_buses/xliff_shield.py,            *)
(* ol_xliff/parser.py, ol_xliff/pipeline.py and its repair levels 1 and 4, *)
(* the escape of ol_buses/xliff_bus.py), as functions on texts.            *)
(***************************************************************************)
EXTENDS ShieldedText

XKinds == <<"x", "bx", "ex">>

(* extract_inline_elements: the tags of the source replaced by their       *)
(* placeholders, and the keys of the shield_map in its order; a tag that   *)
(* comes twice has one key.                                                *)
XShielded(source) == [i \in DOMAIN source |-> [source[i] EXCEPT !.is = IF @ = "raw" THEN "mark" ELSE @]]
XKeys(source) ==
  LET all == KeyOrder(source, XKinds)
  IN Chosen(all, {i \in DOMAIN all : \A j \in 1 .. i - 1 : all[j] # all[i]})

(* restore_tags: placeholders of known keys become the tags, in either     *)
(* form; escaped tags at the end of the answer go, whoever wrote them.     *)
TrailingEscapes(text) ==
  {i \in DOMAIN text : \A j \in i .. Len(text) : text[j].is = "escaped"}
XRestored(text, keys) ==
  LET back == [i \in DOMAIN text |->
                 IF text[i].is \in {"mark", "alt"} /\ Contains(keys, text[i].name)
                 THEN Raw(text[i].name) ELSE text[i]]
  IN SubSeq(back, 1, Len(back) - Cardinality(TrailingEscapes(back)))

(* Level 1: tags of known keys become placeholders again.                  *)
XCleaned(text, keys) ==
  WithoutInstruction(
    [i \in DOMAIN text |->
       IF text[i].is = "raw" /\ Contains(keys, text[i].name) THEN Mark(text[i].name) ELSE text[i]])

(* placeholder_id in text, the test for a key whose placeholder and whose  *)
(* tag are both missing.                                                   *)
KeySeen(k, text) ==
  \E i \in DOMAIN text : text[i].is \in {"mark", "bare"} /\ InsideKey(k, text[i].name)

(* is_complete, not strict.                                                *)
XComplete(text, keys) ==
  \A i \in DOMAIN keys :
    Held(text, Mark(keys[i])) \/ Held(text, Raw(keys[i])) \/ KeySeen(keys[i], text)

(* What level 4 is asked to put back, in the order of the shield_map, and  *)
(* what it puts back: halves of a pair by number, begin before end, unless *)
(* the tag is there; then the rest.                                        *)
XMissing(text, keys) == Chosen(keys, {i \in DOMAIN keys : ~ Held(text, Mark(keys[i]))})

Half(k) == k.kind \in {"bx", "ex"}
HalfBefore(a, b) ==
  a.id < b.id \/ (a.id = b.id /\ a.kind = "bx" /\ b.kind = "ex")
Sorted(halves) ==
  [i \in 1 .. Cardinality(halves) |->
     CHOOSE k \in halves : Cardinality({j \in halves : HalfBefore(j, k)}) = i - 1]

XInserted(text, missing) ==
  LET halves == {k \in ToSet(missing) : Half(k) /\ ~ Held(text, Raw(k))}
  IN Sorted(halves) \o Chosen(missing, {i \in DOMAIN missing : ~ Half(missing[i])})

(* Mutation of XFallback: only the first of the missing tags is put back.  *)
XFallback_First(text, inserted) ==
  IF inserted = <<>> THEN text ELSE text \o <<Raw(Head(inserted))>>

(* level4_safe_fallback: behind the last tag, else behind the last         *)
(* placeholder, else at the end.                                           *)
XFallback(text, inserted) ==
  LET new == [i \in DOMAIN inserted |-> Raw(inserted[i])]
      tag == LastOf(text, "raw")
      place == LastOf(text, "mark")
  IN PutBehind(text, IF tag > 0 THEN tag ELSE IF place > 0 THEN place ELSE Len(text), new)

(* Mutation of XWritten: what the repair left is written as it is.         *)
XWritten_AsRepaired(text, keys) == text

(* write_target_back: the placeholders that level 1 made become tags, and  *)
(* the markup that is not one of the three kinds of tags is escaped.       *)
XWritten(text, keys) == XRestored(text, keys)
=============================================================================
