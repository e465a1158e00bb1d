-------------------------------- MODULE Path --------------------------------
(***************************************************************************)
(* How minix3_namei(), fs/minix3.c, takes a path apart.  A path is a       *)
(* sequence of names and separators; two names are never side by side.     *)
(***************************************************************************)
EXTENDS Naturals, SequencesExt

SEP == "/"

(* The first separator after the first character; _component_set() never   *)
(* looks at the first character itself.                                    *)
Separators(p) == {j \in 2..Len(p) : p[j] = SEP}
FirstSep(p)   == CHOOSE j \in Separators(p) : \A i \in Separators(p) : j <= i

(* A separator at the end of the path stays with the last component.       *)
IsLastComponent(p) == Separators(p) = {} \/ FirstSep(p) = Len(p)

(* _component_set(): the first component of p, and what comes after it.    *)
component(p) == IF IsLastComponent(p) THEN p ELSE SubSeq(p, 1, FirstSep(p) - 1)
rest(p)      == IF IsLastComponent(p) THEN << >> ELSE SubSeq(p, FirstSep(p) + 1, Len(p))

_component_is_valid(c) == c[1] # SEP

_component_matches_str(c, name) == c = <<name>>

(* The name that is looked for: without the separator at its end.          *)
NameOf(c) == c[1]

(* The path after the '/' at its start, if there is one.                   *)
FromRoot(p) == IF p[1] = SEP THEN Tail(p) ELSE p
=============================================================================
