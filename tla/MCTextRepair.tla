---------------------------- MODULE MCTextRepair ----------------------------
(* Texts for TLC: tags whose keys hold one another, elements of several    *)
(* kinds, one inside another.                                              *)
EXTENDS TextRepair, TLC

x1 == Name("x", 1)
x10 == Name("x", 10)
bx1 == Name("bx", 1)
ex1 == Name("ex", 1)
img1 == Name("image", 1)
img2 == Name("image", 2)
link1 == Name("link", 1)
code1 == Name("code", 1)
inline1 == Name("inline_code", 1)
html1 == Name("html_block", 1)

Unit(source) == [channel |-> "xliff", source |-> source, inside |-> <<>>, language |-> "fr"]
Md(source, inside, language) ==
  [channel |-> "md", source |-> source, inside |-> inside, language |-> language]

Units ==
  {Unit(<<Raw(bx1), Word("src"), Raw(ex1), Raw(x1)>>),
   Unit(<<Raw(x10), Word("term"), Raw(x1)>>),
   Unit(<<Raw(x1), Word("src"), Raw(x1)>>)}
Texts ==
  {Md(<<Word("src"), Raw(img1), Raw(link1), Raw(img2)>>, img1 :> 0 @@ img2 :> 0 @@ link1 :> 0, "fr"),
   Md(<<Raw(code1), Word("term"), Raw(link1)>>, code1 :> 0 @@ link1 :> 0, "zh"),
   Md(<<Raw(html1), Raw(inline1), Word("src")>>, html1 :> 1 @@ inline1 :> 0, "zh"),
   Md(<<Raw(inline1), Word("src")>>, inline1 :> 0, "fr")}
AllJobs == Units \cup Texts
=============================================================================
