------------------------------ MODULE MdShield ------------------------------
(***************************************************************************)
(* The shield of the Markdown channel (ol_md/shield.py), its repair        *)
(* (ol_md/pipeline.py) and the punctuation pass over what is written       *)
(* (ol_post/punctuation.py), as functions on texts.                        *)
(*                                                                         *)
(* A document gives its elements in a row, each followed by the elements   *)
(* inside it; inside tells how many those are.                             *)
(***************************************************************************)
EXTENDS ShieldedText

MdKinds == <<"code", "inline_code", "math", "link", "image", "html_block", "autolink">>

FrontMatter == Notice("frontmatter")
Warning(w) == Notice(w)

(* shield_markdown, one element: its stretch of the text, the markers of   *)
(* elements inside it included, becomes the value of its key.  The value   *)
(* of inline code is what stands between the backticks.  An element inside *)
(* one that is shielded already is no longer there to be shielded.         *)
Shielding(inside, acc, k) ==
  IF ~ Held(acc.text, Raw(k)) THEN acc
  ELSE LET i == SelectInSeq(acc.text, LAMBDA p : p = Raw(k))
           last == i + inside[k]
           stretch == SubSeq(acc.text, i, last)
       IN [text  |-> SubSeq(acc.text, 1, i - 1) \o <<Mark(k)>>
                       \o SubSeq(acc.text, last + 1, Len(acc.text)),
           keys  |-> Append(acc.keys, k),
           value |-> [acc.value EXCEPT ![k] =
                        IF k.kind = "inline_code" THEN <<Naked(k)>> ELSE stretch]]

MdShielded(source, inside) ==
  LET order == KeyOrder(source, MdKinds)
      after[n \in 0 .. Len(order)] ==
        IF n = 0 THEN [text |-> source, keys |-> <<>>, value |-> [k \in DOMAIN inside |-> <<>>]]
        ELSE Shielding(inside, after[n - 1], order[n])
  IN after[Len(order)]

(* Mutation of Unshielding: every occurrence of the marker is replaced.    *)
Unshielding_All(shield, acc, k) ==
  IF ~ Held(acc.text, Mark(k)) THEN [acc EXCEPT !.missing = Append(@, k)]
  ELSE [acc EXCEPT !.text =
          Turned(@, LAMBDA p : IF p = Mark(k) THEN shield.value[k] ELSE <<p>>)]

(* unshield_markdown, one key: its first marker is replaced by its value   *)
(* and the others go.                                                      *)
Unshielding(shield, acc, k) ==
  IF ~ Held(acc.text, Mark(k)) THEN [acc EXCEPT !.missing = Append(@, k)]
  ELSE [acc EXCEPT !.text = FlattenSeq([i \in DOMAIN @ |->
          IF @[i] # Mark(k) THEN <<@[i]>>
          ELSE IF \A j \in 1 .. i - 1 : @[j] # Mark(k) THEN shield.value[k] ELSE <<>>])]

(* restore_image_ref_integrity: references in order; one with the path of  *)
(* an original uses it up, a damaged one is replaced by an original of its *)
(* name that is not used up, which the first reference with that name is.  *)
Healed(shield, text) ==
  LET refers(i, k) == text[i].is \in {"raw", "bent"} /\ text[i].name = k
  IN [i \in DOMAIN text |->
        LET k == text[i].name
        IN IF /\ k \in ToSet(shield.keys) /\ k.kind = "image" /\ refers(i, k)
              /\ \A j \in 1 .. i - 1 : ~ refers(j, k)
           THEN Raw(k) ELSE text[i]]

Values(shield, keys) == FlattenSeq([i \in DOMAIN keys |-> shield.value[keys[i]]])

(* Markers that are missing are made up for at the end, under a warning.   *)
Unshielded(shield, text) ==
  LET after[n \in 0 .. Len(shield.keys)] ==
        IF n = 0 THEN [text |-> text, missing |-> <<>>]
        ELSE Unshielding(shield, after[n - 1], shield.keys[n])
      done == after[Len(shield.keys)]
      rest == IF done.missing = <<>> THEN <<>>
              ELSE <<Warning("missing_shields")>> \o Values(shield, done.missing)
  IN Healed(shield, done.text \o rest)

(* Mutation of MdComplete: only the key counts, as before T13-02.          *)
MdComplete_KeyOnly(shield, text) ==
  \A i \in DOMAIN shield.keys : Held(text, Bare(shield.keys[i]))

(* is_complete, not strict: the value, the key or the marker is there.     *)
MdComplete(shield, text) ==
  \A i \in DOMAIN shield.keys :
    LET k == shield.keys[i]
    IN Occurs(shield.value[k], text) \/ Held(text, Bare(k)) \/ Held(text, Mark(k))

(* Level 4 is given the keys of which neither key nor value is there.      *)
MdMissing(shield, text) ==
  SelectSeq(shield.keys, LAMBDA k : ~ Held(text, Bare(k)) /\ ~ Occurs(shield.value[k], text))

(* level4_safe_fallback: behind the last surviving marker, else at the     *)
(* end.                                                                    *)
MdFallback(shield, text, missing) ==
  LET place == LastOf(text, "mark")
  IN PutBehind(text, IF place > 0 THEN place ELSE Len(text), Values(shield, missing))
       \o <<Warning("Tag_auto_appended")>>

(* The frontmatter is put in front of a text that has none.                *)
Fronted(text) == IF text # <<>> /\ Head(text) = FrontMatter THEN text ELSE <<FrontMatter>> \o text

(* normalize: for a Chinese or Japanese target the ASCII punctuation of    *)
(* all but the frontmatter and the fenced code becomes full-width.         *)
Punctuated(text, language) ==
  IF language \notin {"zh", "ja"} THEN text
  ELSE [i \in DOMAIN text |->
          [text[i] EXCEPT !.wide =
             text[i] # FrontMatter /\ ~ (text[i].is = "raw" /\ text[i].name.kind = "code")]]

(* normalize_to_english, as Gate 5 applies it to either side.              *)
Folded(text) == [i \in DOMAIN text |-> [text[i] EXCEPT !.wide = FALSE]]
=============================================================================
