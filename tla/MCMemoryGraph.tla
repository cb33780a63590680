---------------------------- MODULE MCMemoryGraph ----------------------------
(***************************************************************************)
(* Small instances of MemoryGraph for TLC.                                 *)
(***************************************************************************)
EXTENDS MemoryGraph

\* Three names, one of them in two spellings, and a spelling that trims to "".
TagSpellings == {"go", " Go ", "db", "ci", "   "}
TagNorm == [s \in TagSpellings |->
               CASE s \in {"go", " Go "} -> "go"
                 [] s = "   " -> ""
                 [] OTHER -> s]

\* One place of the code, pinned to two commits.
TwoPins == [at : {"main.go"}, pin : {"a", "b"}]

OneSpelling == {"go"}
OneNorm == [s \in OneSpelling |-> s]

TwoSpellings == {"go", "db"}
TwoNorm == [s \in TwoSpellings |-> s]
=============================================================================
