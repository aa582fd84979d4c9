---------------------------- MODULE MCTestRunner ----------------------------
(***************************************************************************)
(* Instances of TestRunner: two suites, an example and a Python example for*)
(* two workers, under valgrind.                                            *)
(***************************************************************************)
EXTENDS TestRunner

Test(kind) ==
    [kind |-> kind, asked |-> FALSE, noValgrind |-> FALSE, disabled |-> FALSE]

MCWork ==
    <<Test("TestSuite"), Test("TestSuite"), Test("Example"), Test("PyExample")>>

MCOutcome ==
    {[code |-> 0, leak |-> l, xml |-> TRUE] : l \in BOOLEAN}
    \cup {[code |-> 1, leak |-> FALSE, xml |-> x] : x \in BOOLEAN}
    \cup {[code |-> 139, leak |-> FALSE, xml |-> FALSE]}
=============================================================================
