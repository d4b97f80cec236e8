----------------------------- MODULE FaultBank ------------------------------
(***************************************************************************)
(* What the error calls of the library promise their caller: every         *)
(* register is a set of named flags.  Setting a mask, a force or an        *)
(* injection replaces the flags of that register and of no other; the      *)
(* hardware adds reported faults; a get returns the flags as they are; a   *)
(* clear takes back the faults the caller has read, and nothing else.      *)
(***************************************************************************)
EXTENDS Naturals

CONSTANTS Keys,        \* the registers, as a caller names them
          FlagsOf(_)   \* the flags of a register

VARIABLES key,         \* the register the caller works on
          content,     \* the set of <<register, flag>> that are up
          asked,       \* the last flags the caller set
          snap         \* the faults the caller has read and not yet cleared

vars == <<key, content, asked, snap>>

Own == {c \in content : c[1] = key}

Init == /\ key \in Keys
        /\ content = {}
        /\ asked = {}
        /\ snap = {}

Set == /\ asked' \subseteq FlagsOf(key)
       /\ content' = (content \ Own) \cup ({key} \X asked')
       /\ UNCHANGED <<key, snap>>

Raise == /\ content \subseteq content'
         /\ \A c \in content' \ content : c[1] = key
         /\ UNCHANGED <<key, asked, snap>>

Get == /\ snap' = {c[2] : c \in Own}
       /\ UNCHANGED <<key, content, asked>>

Clear == /\ content' = content \ ({key} \X snap)
         /\ snap' = {}
         /\ UNCHANGED <<key, asked>>

Next == Set \/ Raise \/ Get \/ Clear

Spec == Init /\ [][Next]_vars
=============================================================================
