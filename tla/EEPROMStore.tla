---------------------------- MODULE EEPROMStore ----------------------------
(***************************************************************************)
(* What services/inc/eeprom_emulation.h promises: an array of bytes.  A    *)
(* put() of any number of bytes is "atomic (all or nothing) even if a      *)
(* reset occurs during the write", and without a reset it is never         *)
(* dropped.  clear() destroys the data; if it is interrupted anything may  *)
(* be left.                                                                *)
(***************************************************************************)
EXTENDS Integers

CONSTANTS
    Cells,   \* the indexes of the bytes
    Data,    \* the values of a byte
    Erased   \* the value of a byte that was never written

VARIABLES
    mem,     \* the contents
    request, \* the operation that is running
    losses   \* number of times power was lost

vars == <<mem, request, losses>>

Idle == [kind |-> "idle", update |-> <<>>]
Clearing == [kind |-> "clear", update |-> <<>>]
Putting(u) == [kind |-> "put", update |-> u]

Contents == [Cells -> Data]

(* The contents m with the bytes of update u replaced.                     *)
With(m, u) == [c \in Cells |-> IF c \in DOMAIN u THEN u[c] ELSE m[c]]

Put(u) == request = Idle /\ request' = Putting(u) /\ UNCHANGED <<mem, losses>>

PutDone ==
    /\ request.kind = "put"
    /\ mem' = With(mem, request.update)
    /\ request' = Idle
    /\ UNCHANGED losses

Clear == request = Idle /\ request' = Clearing /\ UNCHANGED <<mem, losses>>

(* The data goes away piece by piece.                                      *)
Destroy == request = Clearing /\ mem' \in Contents /\ UNCHANGED <<request, losses>>

ClearDone ==
    /\ request = Clearing
    /\ mem' = [c \in Cells |-> Erased]
    /\ request' = Idle
    /\ UNCHANGED losses

(* The device restarts; it formats the pages again if it finds neither.    *)
PowerLoss ==
    /\ losses' = losses + 1
    /\ \/ request = Idle /\ UNCHANGED <<mem, request>>
       \/ /\ request.kind = "put"
          /\ mem' \in {mem, With(mem, request.update)}
          /\ request' = Idle
       \/ /\ request = Clearing
          /\ mem' \in Contents
          /\ request' \in {Idle, Clearing}

Init == mem \in Contents /\ request = Clearing /\ losses = 0

Next ==
    \/ \E c, d \in Cells : \E u \in [c..d -> Data] : Put(u)
    \/ PutDone
    \/ Clear \/ Destroy \/ ClearDone
    \/ PowerLoss

Spec == Init /\ [][Next]_vars
=============================================================================
