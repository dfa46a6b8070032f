------------------------------ MODULE MCLogger ------------------------------
(* Model checking of Logger: two loggers, each with its StdoutLogAppender, and *)
(* a file and a stream that both may use.                                      *)
EXTENDS Logger, TLC

MCStdout   == [l \in Logger |-> IF l = Root THEN "stdout1" ELSE "stdout2"]
MCAppender == {"stdout1", "stdout2", "file", "stream"}
MCWritten  == {<<"%", "m", "x">>}
Symmetry   == Permutations(Thread)
=============================================================================
