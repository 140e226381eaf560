----------------------------- MODULE MCDiscover -----------------------------
(* A tree for Discover: an object root with a file, a directory with a file *)
(* and a link, that is a binary root too, and an installed binary.          *)
EXTENDS Discover

Dir(readable)        == [type |-> "dir", readable |-> readable, content |-> "none", to |-> NoPath]
File(readable, what) == [type |-> "file", readable |-> readable, content |-> what, to |-> NoPath]
Link(p)              == [type |-> "link", readable |-> TRUE, content |-> "none", to |-> p]
Absent  == [type |-> "absent", readable |-> TRUE, content |-> "none", to |-> NoPath]
Special == [type |-> "special", readable |-> TRUE, content |-> "none", to |-> NoPath]

MCPaths == {"build", "a.o", "lib", "x", "link", "fifo", "httpd"}
MCParent ==
    [p \in MCPaths |-> CASE p \in {"build", "httpd"} -> NoPath
                         [] p = "x"                  -> "lib"
                         [] OTHER                    -> "build"]
MCSuffix == [p \in MCPaths |-> IF p = "a.o" THEN "object" ELSE "none"]
MCOptions ==
    "build" :> {Dir(TRUE)} @@ "fifo" :> {Special}
      @@ "a.o" :> {Absent, File(TRUE, "relocatable"), File(TRUE, "linked"), File(FALSE, "linked")}
      @@ "lib" :> {Dir(TRUE), Dir(FALSE)}
      @@ "x" :> {Absent, File(TRUE, "archive"), File(TRUE, "linked"), File(TRUE, "other")}
      @@ "link" :> {Absent, Link("a.o"), Link("build"), Link("x")}
      @@ "httpd" :> {Absent, Dir(TRUE), File(TRUE, "linked"), File(TRUE, "other"), Link("x")}
MCTrees ==
    {"build" :> Dir(TRUE) @@ "fifo" :> Special @@ "a.o" :> a @@ "lib" :> lib
       @@ "x" :> x @@ "link" :> link @@ "httpd" :> httpd :
       a \in MCOptions["a.o"], lib \in MCOptions["lib"], x \in MCOptions["x"],
       link \in MCOptions["link"], httpd \in MCOptions["httpd"]}
MCRoots ==
    <<[path |-> "build", kind |-> "object"], [path |-> "lib", kind |-> "object"],
      [path |-> "httpd", kind |-> "binary"], [path |-> "build", kind |-> "binary"]>>
=============================================================================
