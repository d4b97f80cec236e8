------------------------------- MODULE DmaFifo -------------------------------
(***************************************************************************)
(* What fpga_enqueue() and fpga_dequeue() promise to their callers         *)
(* (lib/libfpga/include/libdma.h): a bounded queue of DMA commands.  A     *)
(* command is accepted at the tail, the FPGA completes commands in the     *)
(* order of acceptance, and "the results of commands are obtained in order *)
(* from the top", each by exactly one caller.                              *)
(***************************************************************************)
EXTENDS Naturals, Sequences

CONSTANTS Consumers,  \* the callers of fpga_dequeue()
          Commands,   \* what a descriptor can carry
          NoCommand,  \* a caller that holds no result
          Capacity    \* the number of descriptors of the ring

VARIABLES pending,    \* accepted commands whose result nobody has taken
          completed,  \* how many commands at the top of pending are completed
          out         \* the result each caller of fpga_dequeue() holds

vars == <<pending, completed, out>>

Init ==
    /\ pending = << >>
    /\ completed = 0
    /\ out = [c \in Consumers |-> NoCommand]

\* fpga_enqueue() gets a descriptor for command m.
Accept(m) ==
    /\ Len(pending) < Capacity
    /\ pending' = Append(pending, m)
    /\ UNCHANGED <<completed, out>>

\* The FPGA finishes the oldest command it has not finished.
Complete ==
    /\ completed < Len(pending)
    /\ completed' = completed + 1
    /\ UNCHANGED <<pending, out>>

\* fpga_dequeue() gets the oldest completed command.
Take(c) ==
    /\ completed > 0
    /\ out[c] = NoCommand
    /\ out' = [out EXCEPT ![c] = Head(pending)]
    /\ pending' = Tail(pending)
    /\ completed' = completed - 1

\* fpga_dequeue() returns the result to its caller.
Return(c) ==
    /\ out[c] # NoCommand
    /\ out' = [out EXCEPT ![c] = NoCommand]
    /\ UNCHANGED <<pending, completed>>

Next ==
    \/ \E m \in Commands : Accept(m)
    \/ Complete
    \/ \E c \in Consumers : Take(c) \/ Return(c)

Spec == Init /\ [][Next]_vars

(***************************************************************************)
(* An accepted command is completed.  With callers that keep calling       *)
(* fpga_dequeue(), a completed command does not stay in the queue while    *)
(* some caller could take it, and a caller that has taken one returns it.  *)
(***************************************************************************)
Fairness ==
    /\ WF_vars(Complete)
    /\ WF_vars(\E c \in Consumers : Take(c))
    /\ \A c \in Consumers : WF_vars(Return(c))

FairSpec == Spec /\ Fairness
=============================================================================
