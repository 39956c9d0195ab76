------------------------------ MODULE MCPortal --------------------------------
(* Requests and results with which TLC runs Portal.                        *)
EXTENDS Portal

CONSTANTS q1, r1, f1

Result(passed, failed) == [passed |-> passed, failed |-> failed, total |-> passed + failed]

SomeResults == {Result(3, 0), Result(2, 1)}
Placeholder == Result(0, 0)

=============================================================================
