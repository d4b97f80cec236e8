---------------------------- MODULE MCFnBlocks ------------------------------
EXTENDS FnBlocks

\* The application registers a function under the name of a library.
MCAppOps == {[name |-> "x", home |-> "app"]}

Size(a, b) == [i_width |-> a, i_height |-> a, o_width |-> b, o_height |-> b]

\* Two pictures, no picture, one with no input, and one that leaves a value out.
MCParams == {Size(1, 2), Size(3, 1), Size(0, 0), Size(0, 1),
             [Size(1, 2) EXCEPT !.i_width = MISSING]}
=============================================================================
