--------------------------- MODULE MCHttpSession ---------------------------
(***************************************************************************)
(* HttpClient for TLC.  Names are built from labels around the cases that  *)
(* hostmatch tells apart: no wildcard, a wildcard alone, before, after and *)
(* inside a label, two of them, one in the wrong label, an                 *)
(* internationalised label, too few labels, other case, a 0 inside.        *)
(***************************************************************************)
EXTENDS HttpClient

a == 97
b == 98
upperA == 65
dot == 46
star == 42

Tail2 == <<dot, a, dot, b>>
Labels == { <<a>>, <<star>>, <<a, star>>, <<star, b>>, <<a, star, b>>, <<star, star>>,
            <<120, 110, 45, 45, star>> }
Patterns == {l \o Tail2 : l \in Labels}
              \cup { <<star, dot, a>>, <<a, dot, star, dot, b>>, <<star>>, <<>>,
                     <<a, 0>> \o Tail2, <<upperA>> \o Tail2, <<star, dot, upperA, dot, b>> }

MCHosts == {l \o Tail2 : l \in { <<>>, <<a>>, <<b>>, <<a, b>>, <<upperA, a, b>>, <<a, dot, b>>,
                                 <<120, 110, 45, 45, a>> }}
             \cup { <<b, dot, a>>, <<a>>, <<star>> \o Tail2 }

SanEntries == [dns : {TRUE}, name : Patterns] \cup [dns : {FALSE}, name : {<<a>> \o Tail2}]
Sans == {<<>>} \cup {<<e>> : e \in SanEntries} \cup {<<d, e>> : d, e \in SanEntries}
MCCerts ==
  [san : {<<>>}, cn : {<<>>} \cup {<<p>> : p \in Patterns}]
    \cup [san : {<<s>> : s \in Sans}, cn : {<< <<a>> \o Tail2 >>}]
=============================================================================
