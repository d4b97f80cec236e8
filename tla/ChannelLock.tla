----------------------------- MODULE ChannelLock -----------------------------
(***************************************************************************)
(* What the driver promises about DMA channels (driver/lldma): a channel   *)
(* has at most one owner, an open file of the device; a file owns at most  *)
(* one channel ("1 fd can allocate only 1 DMA channel", liblldma.c); and   *)
(* only the owner gives a channel back.                                    *)
(***************************************************************************)
CONSTANTS Files,     \* the files of the device that can be open
          Channels,  \* its DMA channels
          NoFile     \* the owner of a free channel

VARIABLE owner

Init == owner = [ch \in Channels |-> NoFile]

Acquire(f, ch) ==
    /\ owner[ch] = NoFile
    /\ \A d \in Channels : owner[d] # f
    /\ owner' = [owner EXCEPT ![ch] = f]

Release(f, ch) ==
    /\ owner[ch] = f
    /\ owner' = [owner EXCEPT ![ch] = NoFile]

Next == \E f \in Files, ch \in Channels : Acquire(f, ch) \/ Release(f, ch)

Spec == Init /\ [][Next]_owner
=============================================================================
