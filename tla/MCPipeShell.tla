------------------------------ MODULE MCPipeShell ------------------------------
(* Instances of PipeShell: a session begins with any line of up to MaxLen  *)
(* characters, with its newline or without, or one of the Longer ones: two *)
(* bars of which one is quoted, three commands, and more than there are    *)
(* rows.  It goes on with a few that run, pipe, and run in the background. *)
EXTENDS PipeShell

CONSTANT MaxLen

NL == <<"n">>
Longer ==
  {<<"'", "|", "'", "|", "x">>, <<"x", "|", "\\", "|">>,
   <<"x", "|", "x">> \o NL, <<"x", "|", "x", "|", "x", "|", "x">>}
MCFirstLines ==
  {l \o NL : l \in UNION {[1..k -> Chars] : k \in 0..MaxLen}}
  \cup UNION {[1..k -> Chars] : k \in 1..(MaxLen - 1)}
  \cup {l \o NL : l \in Longer}

MCTyped ==
  {<<"x">> \o NL, <<"x", " ", "&">> \o NL, <<"x", "|", "x">> \o NL}
===============================================================================
