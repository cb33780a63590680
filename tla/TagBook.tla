------------------------------ MODULE TagBook ------------------------------
(***************************************************************************)
(* What the tag tools promise, without nodes, edges or transactions: there *)
(* is a set of known tag names, and each memory carries some of them.      *)
(* Each step is one call of a tool, and the tool decides what it may do.   *)
(***************************************************************************)
CONSTANTS Mems, Names, Tools

VARIABLES
    known,  \* the names in use
    has,    \* the names each memory carries; none if there is no memory
    tool    \* the tool that was called last

book == <<known, has>>

BookInit == known = {} /\ has = [m \in Mems |-> {}] /\ tool = "none"

\* A memory appears with its tags, and unknown names become known.
Tag(m, T) ==
    /\ tool' = "add_memory"
    /\ has[m] = {}
    /\ known' = known \cup T
    /\ has' = [has EXCEPT ![m] = T]

\* A memory goes; its tags stay known, and the other memories keep theirs.
Forget(m) ==
    /\ tool' = "delete_memory"
    /\ has' = [has EXCEPT ![m] = {}]
    /\ UNCHANGED known

\* A name goes, the memories stay.
Drop(a) ==
    /\ tool' = "delete_tag"
    /\ a \in known
    /\ known' = known \ {a}
    /\ has' = [m \in Mems |-> has[m] \ {a}]

\* Whoever carried a carries b from now on, and nobody loses anything else:
\* a rename needs a new name, a merge an old one.
Relabel(a, b) ==
    /\ tool' = IF b \in known THEN "merge_tags" ELSE "update_tag"
    /\ a \in known
    /\ known' = (known \ {a}) \cup {b}
    /\ has' = [m \in Mems |-> IF a \in has[m] THEN (has[m] \ {a}) \cup {b}
                              ELSE has[m]]

\* Any call may be refused or fail, and other tools touch no tag.
Nothing == tool' \in Tools /\ UNCHANGED book

BookNext ==
    \/ \E m \in Mems, T \in SUBSET Names : Tag(m, T)
    \/ \E m \in Mems : Forget(m)
    \/ \E a \in Names : Drop(a)
    \/ \E a, b \in Names : a # b /\ Relabel(a, b)
    \/ Nothing

BookSpec == BookInit /\ [][BookNext]_<<book, tool>>
=============================================================================
