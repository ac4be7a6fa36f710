----------------------------- MODULE MCMcpServer -----------------------------
(* Instances of McpServer for TLC. *)
EXTENDS McpServer

CONSTANTS c1, c2

Req(tool, async, gates, polish, front, reads, writes) ==
  [tool |-> tool, async |-> async, gates |-> gates, polish |-> polish,
   keep_temp |-> FALSE, add_frontmatter |-> front, reads |-> reads, writes |-> writes]

(* Two XLIFF requests that write one path, texts with and without gates    *)
(* and frontmatter, a document written over its source (output_format is   *)
(* the source's).                                                          *)
SomeRequests ==
  {Req("md", TRUE, TRUE, TRUE, TRUE, "", ""), Req("md", FALSE, FALSE, TRUE, FALSE, "", ""),
   Req("xliff", TRUE, TRUE, FALSE, FALSE, "in", "out"),
   Req("xliff", FALSE, TRUE, TRUE, FALSE, "in", "out"),
   Req("file", FALSE, TRUE, FALSE, FALSE, "doc", "doc")}
=============================================================================
