---------------------------- MODULE QualityGates ----------------------------
(***************************************************************************)
(* The quality gates of ol_lqa/quality_gates.py and the terminology audit  *)
(* of ol_terminology/verifier.py, as functions on a source and a target.   *)
(* A word is of a kind the gates tell apart: "src" is in the source        *)
(* language and its script (Chinese, or English when the target is         *)
(* Chinese), "own" in the target language; "term" is a glossary term, in   *)
(* the source language, and "rendering" its translation; "protocol" is a   *)
(* delimiter of the prompt, "glued" an invented concatenation, "foreign" a *)
(* date, number or spelling of another locale.                             *)
(***************************************************************************)
EXTENDS MdShield

Vocabulary == {"src", "own", "term", "rendering", "protocol", "glued", "foreign"}
SourceScript == {"src", "term"}

(* Gate 1, check_inline_tag_counts: tags are counted as markup; a          *)
(* placeholder is no markup.                                               *)
TagCount(text, kind) ==
  Cardinality({i \in DOMAIN text : text[i].is = "raw" /\ text[i].name.kind = kind})
TagsDiffer(source, target) ==
  \E kind \in {"x", "bx", "ex"} : TagCount(source, kind) # TagCount(target, kind)

(* Gate 2, a term in both forms, and gate 2b, verify_translation: a term   *)
(* of the source whose rendering the target does not hold (mismatches and  *)
(* absent).                                                                *)
TermsMixed(target) == {"term", "rendering"} \subseteq Kinds(target)
TermMissed(source, target) == "term" \in Kinds(source) /\ "rendering" \notin Kinds(target)

(* Gate 3, check_length_ratio, between 0.5 and 3.                          *)
LengthOff(source, target) ==
  Len(source) > 0 /\ (2 * Len(target) < Len(source) \/ Len(target) > 3 * Len(source))

(* Gate 5, check_source_copy: both sides without frontmatter and with      *)
(* their punctuation folded; a source without a character of its           *)
(* language's script is no copy.                                           *)
Canonical(text) ==
  Folded(IF text # <<>> /\ Head(text) = FrontMatter THEN Tail(text) ELSE text)
Copied(source, target) ==
  Canonical(source) = Canonical(target) /\ Kinds(source) \cap SourceScript # {}

(* Gate 6, check_source_script_fragments, of Chinese in a target that is   *)
(* neither Chinese nor Japanese, gates 7, 8 and 4.                         *)
Fragment(source, target, language) ==
  /\ language \notin {"zh", "ja"}
  /\ Kinds(source) \cap SourceScript # {} /\ Kinds(target) \cap SourceScript # {}
Protocol(target) == "protocol" \in Kinds(target)
Invented(source, target) == "glued" \in Kinds(target) \ Kinds(source)
Unlocalised(target) == "foreign" \in Kinds(target)

(* run_quality_gates, every gate enabled.                                  *)
Gates(source, target, language) ==
  LET say(holds, code) == IF holds THEN {Notice(code)} ELSE {}
  IN UNION {say(TagsDiffer(source, target), "INLINE_TAG_MISMATCH"),
            say(TermsMixed(target), "TERMINOLOGY_INCONSISTENCY"),
            say(TermMissed(source, target), "TERM_ABSENT"),
            say(LengthOff(source, target), "LENGTH_RATIO"),
            say(Unlocalised(target), "LOCALE"),
            say(Copied(source, target), "SOURCE_COPY"),
            say(Fragment(source, target, language), "SOURCE_SCRIPT_FRAGMENT"),
            say(Protocol(target), "PROTOCOL_ARTIFACT"),
            say(Invented(source, target), "INVENTED_TOKEN")}
=============================================================================
