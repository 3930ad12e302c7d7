---------------------------- MODULE ConfigFiles -----------------------------
(***************************************************************************)
(* What a configuration file may say, for TLC: it does not parse, or it    *)
(* has global settings and any of some entries for any of the names.       *)
(***************************************************************************)
EXTENDS ConfigReader

\* Everything is said; the last minutes and seconds do not exist.
Rich(complete, numbers) ==
    [canDump |-> "YES", switch |-> "NO", templates |-> "own", header |-> 1,
     until |-> [y |-> 2030, mon |-> 12, d |-> 31, time |-> [h |-> 23, m |-> 75, s |-> 75]],
     instances |-> numbers, complete |-> complete]

\* Nothing is said but the instances.
Bare(numbers) ==
    [canDump |-> Absent, switch |-> Absent, templates |-> Absent, header |-> Absent,
     until |-> Absent, instances |-> numbers, complete |-> TRUE]

Entries == {Rich(TRUE, {1, 2}), Rich(FALSE, {1}), Bare({}), Bare({2})}
Globals == {[canDumpStatus |-> Absent, templates |-> Absent],
            [canDumpStatus |-> "YES", templates |-> "common"]}

ConfigurationFiles ==
    [parses : {TRUE}, global : Globals, apps : UNION {[S -> Entries] : S \in SUBSET Names}]
        \union {[parses |-> FALSE]}
=============================================================================
