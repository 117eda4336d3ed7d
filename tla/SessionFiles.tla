---------------------------- MODULE SessionFiles ----------------------------
(***************************************************************************)
(* phase13/journal.py, phase13/recovery.py, phase14/recovery.py and        *)
(* phase19/checkpoint.py: the append-only journal and the checkpoint of a  *)
(* paper session, and what a recovery makes of the two.  Fills of a        *)
(* session are numbered in the order they are made, and cash and positions *)
(* are those of the fills the checkpoint names.  A journal line half       *)
(* written by a process that died does not parse, and neither does a       *)
(* checkpoint that was being rewritten in place.                           *)
(***************************************************************************)
EXTENDS Integers

CONSTANT MaxFills

Journals == [fills : SUBSET (1 .. MaxFills), killed : BOOLEAN, torn : BOOLEAN]

Checkpoints ==
    [file : {"missing", "torn", "whole"}, fills : 0 .. MaxFills, killed : BOOLEAN]

NewJournal == [fills |-> {}, killed |-> FALSE, torn |-> FALSE]

NoCheckpoint == [file |-> "missing", fills |-> 0, killed |-> FALSE]

TornCheckpoint == [NoCheckpoint EXCEPT !.file = "torn"]

(* The fills of the two files are compared only when each has one.          *)
FillsMatch(j, c) ==
    j.fills # {} /\ c.fills > 0 => j.fills = 1 .. c.fills

(* Variant: a checkpoint that does not parse is read as an empty one.       *)
TrustedWhenTorn(j, c) == ~ j.torn /\ c.file # "missing" /\ FillsMatch(j, c)

Trusted(j, c) ==
    /\ ~ j.torn
    /\ c.file = "whole"
    /\ FillsMatch(j, c)

AllowsNewOrders(j, c) ==
    /\ Trusted(j, c)
    /\ ~ c.killed
    /\ ~ j.killed
=============================================================================
