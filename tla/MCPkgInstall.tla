----------------------------- MODULE MCPkgInstall -----------------------------
(* PkgInstall for TLC: two requests for the same URL; an archive of two packages, *)
(* and a package beside it, whose hash, for the worst, is that of the URL.       *)
EXTENDS PkgInstall

CONSTANTS r1, r2, e1, e2, p1

MCRequests == {r1, r2}
MCEntries == {e1, e2}
MCPackages == {p1}
MCRefusals == {r2, e2, p1}
MCErrors == {r1, e1, p1}
MCHash == [i \in MCRequests \cup MCEntries \cup MCPackages |->
             CASE i = e1 -> "entry1" [] i = e2 -> "entry2" [] OTHER -> "url"]
=============================================================================
