---------------------------- MODULE DCDRegister ----------------------------
(***************************************************************************)
(* What services/inc/dcd.h promises its callers: one record of fields that *)
(* a write changes atomically.  A write that fails, or that a power loss   *)
(* interrupts, took effect completely or not at all, and a write that      *)
(* returns success took effect.                                            *)
(*                                                                         *)
(* Two things are promised to nobody: what is stored after erase() was     *)
(* interrupted, and what the other fields hold after a write to a store    *)
(* that could not be initialized.                                          *)
(***************************************************************************)
CONSTANTS
    Fields,   \* parts of the application data that are written together
    Values,   \* what an application writes
    Blank,    \* erased flash
    Garbage,  \* flash whose erasure or programming was interrupted
    NoValue   \* no sector is valid

VARIABLES
    value,      \* the data that read() would return
    op,         \* the operation that is running
    committed,  \* has it taken effect?
    result      \* what the last operation returned

vars == <<value, op, committed, result>>

Contents == [Fields -> Values \cup {Blank, Garbage}]

Op(k, f, d) == [kind |-> k, field |-> f, data |-> d]
NoOp == Op("none", NoValue, NoValue)
ReadOp == Op("read", NoValue, NoValue)
EraseOp == Op("erase", NoValue, NoValue)
WriteOp(f, d) == Op("write", f, d)

Start(o) ==
    /\ op = NoOp
    /\ op' = o
    /\ committed' = FALSE
    /\ UNCHANGED <<value, result>>

(* A store without any valid sector is initialized on first use.           *)
Format ==
    /\ op.kind \in {"read", "write"}
    /\ value = NoValue
    /\ value' = [f \in Fields |-> Blank]
    /\ UNCHANGED <<op, committed, result>>

(* The write takes effect.                                                 *)
Commit ==
    /\ op.kind = "write" /\ ~committed
    /\ value' \in Contents
    /\ value'[op.field] = op.data
    /\ value # NoValue => \A f \in Fields \ {op.field} : value'[f] = value[f]
    /\ committed' = TRUE
    /\ UNCHANGED <<op, result>>

(* While erase() runs the data may be anything.                            *)
EraseSome ==
    /\ op.kind = "erase" /\ ~committed
    /\ value' \in Contents \cup {NoValue}
    /\ UNCHANGED <<op, committed, result>>

EraseAll ==
    /\ op.kind = "erase" /\ ~committed
    /\ value' = NoValue
    /\ committed' = TRUE
    /\ UNCHANGED <<op, result>>

(* Only an operation that took effect returns success.                     *)
Succeed ==
    /\ op.kind \in {"write", "erase"} => committed
    /\ op # NoOp
    /\ op' = NoOp
    /\ committed' = FALSE
    /\ result' = "ok"
    /\ UNCHANGED value

(* An error or a power loss, before or after the operation took effect.    *)
Fail ==
    /\ op # NoOp
    /\ op' = NoOp
    /\ committed' = FALSE
    /\ result' \in {"error", "crash"}
    /\ IF op.kind = "erase" THEN value' \in Contents \cup {NoValue} ELSE UNCHANGED value

Init ==
    /\ value \in Contents \cup {NoValue}
    /\ op = NoOp
    /\ committed = FALSE
    /\ result = "none"

Next ==
    \/ Start(ReadOp)
    \/ Start(EraseOp)
    \/ \E f \in Fields, d \in Values : Start(WriteOp(f, d))
    \/ Format
    \/ Commit
    \/ EraseSome
    \/ EraseAll
    \/ Succeed
    \/ Fail

Spec == Init /\ [][Next]_vars
=============================================================================
