---------------------------- MODULE MCDevices -------------------------------
EXTENDS Devices

MCModules == <<"chain", "ptu", "conv">>

Blocks(chain, conv) ==
    [m \in Counted |-> IF m = "chain" THEN chain ELSE IF m = "conv" THEN conv ELSE {0}]

\* A gap between two lanes; fewer lanes, and a module whose first is missing.
MCLayouts == {Blocks({0, 1}, {0, 2}), Blocks({0}, {1})}

\* Three names, one more than the table has entries, and one card twice: the
\* rest of a list is a list, and one of one name is what fpga_dev_init() does.
MCNameLists == {<<c, d, c>> : c, d \in Cards} \ {<<c, c, c>> : c \in Cards}

Symmetry == Permutations(Procs) \union Permutations(Cards)
=============================================================================
