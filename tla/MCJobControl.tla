----------------------------- MODULE MCJobControl -----------------------------
(* Instances of JobControl: what a user types.                             *)
EXTENDS JobControl

Line(name) == [name |-> name, percent |-> FALSE, n |-> 0]
Job(name, n) == [name |-> name, percent |-> TRUE, n |-> n]
Bare(name, n) == [name |-> name, percent |-> FALSE, n |-> n]

Runs == {Line("run"), Line("run &")}
MCTyped == Runs \cup {Line("pipeline"), Line("quit"), Bare("bg", 1), Bare("bg", 2),
                      Job("bg", 1), Job("fg", 1), Job("fg", 2), Job("kill", 1),
                      Job("kill", 0), Bare("kill", 1)}
===============================================================================
