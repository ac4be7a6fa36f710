----------------------------- MODULE TextRepair -----------------------------
(***************************************************************************)
(* One text on its way through shield, language model, restoration,        *)
(* repair, quality gates and the file, in either channel: an XLIFF unit    *)
(* (_translate_unit_concurrent, write_target_back), or a Markdown text of  *)
(* the command line translated as one unit (_translate_md_async; the       *)
(* paragraph and MCP paths restore and repair in the same order, but do    *)
(* not close a text with the notice of Closing).                           *)
(***************************************************************************)
EXTENDS XliffTags, QualityGates

CONSTANT Jobs  \* [channel, source, inside, language], language the target's

(* The tags of an XLIFF unit are of three kinds, each with a number.       *)
XPieces(names) ==
  [is : {"raw", "mark", "alt", "bare", "escaped"}, name : names, wide : {FALSE}]
    \cup {Word(w) : w \in Vocabulary \cup {"instruction"}}
(* A Markdown text is words and elements, of the names inside gives an     *)
(* extent to; each element has a name of its own.  There is one element at *)
(* least: without a shield nothing is restored or repaired.                *)
ASSUME TextAssumption ==
  \A j \in Jobs :
    IF j.channel = "xliff"
    THEN /\ j.source \in Seq(XPieces([kind : ToSet(XKinds), id : Nat]))
         /\ \A i \in DOMAIN j.source : j.source[i].is \in {"raw", "word"}
                                       /\ j.source[i] # Word("instruction")
    ELSE /\ DOMAIN j.inside \subseteq [kind : ToSet(MdKinds), id : Nat] /\ DOMAIN j.inside # {}
         /\ j.source \in Seq({Raw(k) : k \in DOMAIN j.inside} \cup {Word(w) : w \in Vocabulary})
         /\ \A k \in DOMAIN j.inside : Count(j.source, Raw(k)) = 1

VARIABLES
  job,
  stage,
  shield,  \* the text sent, the keys of its shield_map and their values
  reply,   \* what the model answered
  text,
  told     \* the warnings that go with the text

rvars == <<job, stage, shield, reply, text, told>>

Xliff == job.channel = "xliff"
Keys == ToSet(shield.keys)
Unshared == [text |-> <<>>, keys |-> <<>>, value |-> <<>>]
Stages == {"new", "asked", "replied", "restored", "cleaned", "aligned", "repaired",
           "written", "gated", "done"}

RepairInit ==
  /\ job \in Jobs
  /\ stage = "new"
  /\ shield = Unshared
  /\ reply = <<>>
  /\ text = <<>>
  /\ told = {}

Step(from, to) == stage = from /\ stage' = to
Keep(vs) == UNCHANGED <<job, vs>>

XShield ==
  [text  |-> XShielded(job.source), keys |-> XKeys(job.source),
   value |-> [k \in ToSet(XKeys(job.source)) |-> <<Raw(k)>>]]

Shield ==
  /\ Step("new", "asked")
  /\ shield' = IF Xliff
               THEN XShield
               ELSE MdShielded(job.source, job.inside)
  /\ Keep(<<reply, text, told>>)

(* What a model makes of one piece of the text it was sent: it keeps it,   *)
(* drops it, says it twice, says it in another form.                       *)
Edits(p) ==
  LET When(holds, piece) == IF holds THEN {<<piece>>} ELSE {}
  IN IF p.is # "mark"
     THEN {<<>>, <<p>>, <<Word("own")>>, <<Word("protocol")>>}
            \cup When(p = Word("term"), Word("rendering"))
     ELSE {<<>>, <<p>>, <<p, p>>, <<Bare(p.name)>>}
            \cup When(Xliff, Alt(p.name)) \cup When(Xliff, Raw(p.name))
            \cup When(p.name.kind = "image", Bent(p.name))

Replies ==
  LET edits == UNION {Edits(shield.text[i]) : i \in DOMAIN shield.text}
      edited == {e \in [DOMAIN shield.text -> edits] :
                   \A i \in DOMAIN e : e[i] \in Edits(shield.text[i])}
      tails == {<<>>} \cup {<<Escaped(shield.keys[i])>> : i \in IF Xliff THEN DOMAIN shield.keys \cap {1} ELSE {}}
      heads == {<<>>, <<Word("instruction")>>}
  IN UNION {{h \o FlattenSeq(e) \o t, h \o Reverse(FlattenSeq(e)) \o t} :
              e \in edited, h \in heads, t \in tails}

Reply ==
  /\ Step("asked", "replied")
  /\ \E answer \in Replies : reply' = answer /\ text' = answer
  /\ Keep(<<shield, told>>)

(* restore_tags, or unshield_markdown: restoration comes before repair.    *)
RestoredFrom(now) == IF Xliff THEN XRestored(now, shield.keys) ELSE Unshielded(shield, now)

Restore ==
  /\ Step("replied", "restored")
  /\ text' = RestoredFrom(text)
  /\ told' = told \cup {n \in ToSet(text') : n.is = "notice"}
  /\ Keep(<<shield, reply>>)

Complete(now) == IF Xliff THEN XComplete(now, shield.keys) ELSE MdComplete(shield, now)
Next4(now, otherwise) == IF Complete(now) THEN "repaired" ELSE otherwise

Clean ==
  /\ stage = "restored"
  /\ text' = IF Xliff THEN XCleaned(text, shield.keys) ELSE WithoutInstruction(text)
  /\ stage' = Next4(text', "cleaned")
  /\ Keep(<<shield, reply, told>>)

(* span_aligner, where it is installed, may project the placeholders of    *)
(* the source that the text has lost.                                      *)
Projections(now) ==
  {now, now \o Chosen(shield.text, {i \in DOMAIN shield.text :
                                     shield.text[i].is = "mark" /\ ~ Held(now, shield.text[i])})}

Align ==
  /\ stage = "cleaned"
  /\ text' \in Projections(text)
  /\ stage' = Next4(text', "aligned")
  /\ Keep(<<shield, reply, told>>)

(* Level 3 is off: no caller passes a restorer.                            *)
FallBack ==
  /\ Step("aligned", "repaired")
  /\ IF Xliff
     THEN LET new == XInserted(text, XMissing(text, shield.keys))
          IN /\ text' = XFallback(text, new)
             /\ told' = told \cup {Piece("appended", k) : k \in ToSet(new)}
     ELSE /\ text' = MdFallback(shield, text, MdMissing(shield, text))
          /\ told' = told \cup {Warning("Tag_auto_appended")}
  /\ Keep(<<shield, reply>>)

(* Mutation of Closing: the text is compared with what was sent.           *)
Closing_AsSent(now) ==
  IF Copied(shield.text, now) THEN <<Notice("UNTRANSLATED_UNITS")>> ELSE <<>>

(* A Markdown text that is its source counts as untranslated, and says so  *)
(* in its last line.                                                       *)
Closing(now) ==
  IF Copied(job.source, now) THEN <<Notice("UNTRANSLATED_UNITS")>> ELSE <<>>

(* A Markdown text is written and then compared with its source; a unit of *)
(* an XLIFF document is compared, placeholders against placeholders, and   *)
(* then written.                                                           *)
Write ==
  /\ IF Xliff THEN Step("gated", "done") ELSE Step("repaired", "written")
  /\ text' = IF Xliff THEN XWritten(text, shield.keys)
             ELSE Punctuated(Fronted(text), job.language) \o Closing(text)
  /\ told' = told \cup IF Xliff THEN {} ELSE ToSet(Closing(text))
  /\ Keep(<<shield, reply>>)

Gate ==
  /\ IF Xliff THEN Step("repaired", "gated") ELSE Step("written", "done")
  /\ told' = told \cup Gates(IF Xliff THEN shield.text ELSE job.source, text, job.language)
  /\ Keep(<<shield, reply, text>>)

RepairNext == Shield \/ Reply \/ Restore \/ Clean \/ Align \/ FallBack \/ Write \/ Gate
RepairSpec == RepairInit /\ [][RepairNext]_rvars
-----------------------------------------------------------------------------
Done == stage = "done"

(* An answer that holds every element once, as a placeholder or, in XLIFF, *)
(* as the tag itself, and nothing that is no part of a translation.        *)
Forms == IF Xliff THEN {"mark", "alt", "raw"} ELSE {"mark"}
Faithful ==
  /\ \A k \in Keys : Cardinality({i \in DOMAIN reply : reply[i].name = k}) = 1
  /\ \A i \in DOMAIN reply : reply[i].is \in Forms \cup {"word"} /\ reply[i] # Word("instruction")

(* No element lies inside another.                                         *)
Flat == Xliff \/ \A k \in DOMAIN job.inside : job.inside[k] = 0

(* The notice a Markdown text may end in.                                  *)
Notices == IF Notice("UNTRANSLATED_UNITS") \in told THEN <<Notice("UNTRANSLATED_UNITS")>> ELSE <<>>

(* A faithful answer is not touched: what ships is the answer with its     *)
(* placeholders replaced, and no repair is reported.  Each level of the    *)
(* repair is one more chance to add what is there already (T13-02, #244).  *)
FaithfulShips ==
  Done /\ Faithful /\ Flat =>
    LET expected == Turned(reply, LAMBDA p : IF p.name \in Keys THEN shield.value[p.name] ELSE <<p>>)
    IN /\ Folded(text) = IF Xliff THEN expected ELSE <<FrontMatter>> \o expected \o Notices
       /\ ~ \E n \in told : n.is = "appended" \/ n = Warning("missing_shields")

(* A tag of the source that the written target lacks is one the cascade    *)
(* took for another's: its key is part of a key that the answer holds.     *)
(* Whatever else the model did to the tags, level 4 made up for it.        *)
LostOnlyInShadow ==
  Done /\ Xliff =>
    \A k \in Keys :
      \/ Held(text, Raw(k))
      \/ \E j \in Keys : InsideKey(k, j) /\ (Held(text, Bare(j)) \/ (j # k /\ Held(text, Raw(j))))

(* No placeholder of a known tag reaches the file, although level 1 turns  *)
(* tags back into placeholders after they were restored.                   *)
NoPlaceholderShips ==
  Done /\ Xliff =>
    \A i \in DOMAIN text : text[i].is \in {"mark", "alt"} => text[i].name \notin Keys

(* In a document without nesting each protected element ships exactly      *)
(* once, whatever the model did to its marker: lost, repeated or moved     *)
(* (the images and captions that came twice, T13-02).  An image reference  *)
(* the model wrote out itself comes in addition to what its marker gives.  *)
ShieldedOnce ==
  Done /\ ~ Xliff /\ Flat /\ NamesIn(reply, "bent") = {} =>
    \A k \in Keys : Count(Folded(text), shield.value[k][1]) = 1

(* A text that the model gave back as it was sent is told to be its        *)
(* source: of an XLIFF unit gate 5 says so, which sees placeholders on     *)
(* either side; a Markdown text says so itself in the notice it ends in,   *)
(* which is why gate 5, that compares what was written, no longer does.    *)
EchoIsTold ==
  Done /\ Flat /\ reply = shield.text /\ Kinds(job.source) \cap SourceScript # {}
       /\ (\A k \in Keys : k.kind # "inline_code")
  => IF Xliff THEN Notice("SOURCE_COPY") \in told
     ELSE Notice("UNTRANSLATED_UNITS") \in told \cap ToSet(text)
-----------------------------------------------------------------------------
(* The inductive invariant of an XLIFF unit.  A tag is present for the     *)
(* repair when it is, or seems to be, in the text;                         *)
Present(k) == Held(text, Mark(k)) \/ Held(text, Raw(k)) \/ KeySeen(k, text)

(* an answer with all its tags goes straight to the gates;                 *)
InForm(answer, form) ==
  [i \in DOMAIN answer |-> IF answer[i].name \in Keys THEN Piece(form, answer[i].name) ELSE answer[i]]
Clear ==
  /\ \A k \in Keys : \E i \in DOMAIN reply : reply[i].name = k
  /\ \A i \in DOMAIN reply : reply[i].is \in Forms \cup {"word"} /\ reply[i] # Word("instruction")
Unrepaired ==
  /\ stage \notin {"cleaned", "aligned"}
  /\ stage \in {"restored", "done"} => text = InForm(reply, "raw")
  /\ stage \in {"repaired", "gated"} => text = InForm(reply, "mark")
  /\ \A n \in told : n.is # "appended" /\ n # Warning("missing_shields")

(* and what the gates saw of one that is the source.                       *)
EchoSeen ==
  reply = shield.text /\ Kinds(job.source) \cap SourceScript # {} => Notice("SOURCE_COPY") \in told

RepairInv ==
  /\ job \in Jobs /\ stage \in Stages
  /\ Xliff =>
       /\ stage # "new" => shield = XShield
       /\ {reply, text} \subseteq Seq(XPieces(Keys))
       /\ stage \in {"new", "asked"} => reply = <<>>
       /\ stage \in {"new", "asked", "replied"} => text = reply /\ told = {}
       /\ stage \in {"repaired", "gated"} => \A k \in Keys : Present(k)
       /\ Clear => Unrepaired
       /\ stage \in {"gated", "done"} => EchoSeen
       /\ NoPlaceholderShips /\ LostOnlyInShadow

(* The inductive invariant of a Markdown text without nesting.  The answer *)
(* is words, markers, keys and damaged references; as long as it has none  *)
(* of the last, the text is at each stage what the rebuilding makes of the *)
(* answer, which no level of the repair changes.                           *)
MdPieces(names) ==
  {Mark(k) : k \in names} \cup {Bare(k) : k \in names} \cup {Bent(k) : k \in names}
    \cup {Word(w) : w \in Vocabulary \cup {"instruction"}}
Rebuilt == Unshielded(shield, reply)
Closed == Closing(WithoutInstruction(Rebuilt))
Printed == Punctuated(Fronted(WithoutInstruction(Rebuilt)), job.language) \o Closed
Reported == {n \in ToSet(Rebuilt) : n.is = "notice"}

MdInv ==
  /\ job \in Jobs
  /\ ~ Xliff /\ Flat =>
       /\ stage # "new" => shield = MdShielded(job.source, job.inside)
       /\ stage \in {"new", "asked"} => reply = <<>>
       /\ reply \in Seq(MdPieces(Keys))
       /\ stage \in {"new", "asked", "replied"} => text = reply /\ told = {}
       /\ stage \notin {"new", "asked", "replied"} /\ NamesIn(reply, "bent") = {} =>
            /\ stage \in {"restored", "repaired", "written", "done"}
            /\ stage = "restored" => text = Rebuilt
            /\ stage = "repaired" => text = WithoutInstruction(Rebuilt)
            /\ stage \in {"written", "done"} => text = Printed
            /\ told = Reported \cup (IF stage \in {"written", "done"} THEN ToSet(Closed) ELSE {})
                             \cup IF Done THEN Gates(job.source, text, job.language) ELSE {}
=============================================================================
