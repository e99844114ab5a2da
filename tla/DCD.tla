-------------------------------- MODULE DCD --------------------------------
(***************************************************************************)
(* The device configuration data of services/inc/dcd.h: rewritable storage *)
(* emulated with two flash sectors.  A write copies the current sector,    *)
(* changed, to the other one, seals that one and then marks the old one.   *)
(*                                                                         *)
(* The class keeps nothing in RAM, so all of its state is in the flash and *)
(* in the locals of the method that is running.  Every store.write() and   *)
(* store.eraseSector() is a step, which may instead fail half way: either  *)
(* the store reports an error and the method returns, or power is lost.    *)
(* dct_hal.cpp runs each method under dct_lock(), so none overlap.         *)
(*                                                                         *)
(* The application data is a record of fields.  The CRC of a sector is the *)
(* pair of what it covers, so that it matches nothing else.                *)
(***************************************************************************)
EXTENDS Integers

CONSTANTS
    NumFields,  \* number of fields of the application data
    Values,     \* what the application writes
    Blank,      \* erased flash
    Garbage,    \* flash whose erasure or programming was interrupted
    None        \* Sector_Unknown, nullptr, no CRC, no argument

ASSUME DCDAssumption ==
    /\ NumFields \in Nat \ {0}
    /\ Blank \notin Values /\ Garbage \notin Values /\ Blank # Garbage
    /\ None \notin Values \cup {Blank, Garbage, 0, 1}
    /\ None \notin (1..NumFields)

Fields == 1..NumFields
Contents == [Fields -> Values \cup {Blank, Garbage}]
ASSUME NoneAssumption == None \notin Contents \cup (Contents \X (0..3))

Sector == {0, 1}

(* Header::seal.  "other" is any word that is none of the four constants,  *)
(* or a wrong watermark.                                                   *)
Seals == {"init", "valid", "invalid_v2", "cleared", "other"}

(* A sector: Header::seal, the application data, Footer::isValid(), the    *)
(* counter and the CRC of the footer.                                      *)
SectorState ==
    [seal : Seals, data : Contents, footer : BOOLEAN, counter : 0..3,
     crc : (Contents \X (0..3)) \cup {None}]

BlankData == [f \in Fields |-> Blank]
GarbageData == [f \in Fields |-> Garbage]

(* store.eraseSector(): every bit is 1.                                    *)
Erased == [seal |-> "init", data |-> BlankData, footer |-> FALSE, counter |-> 3, crc |-> None]

VARIABLES
    sec,     \* the two sectors in flash
    pc,      \* the flash operation that is next
    op,      \* the method that is running and its arguments
    source,  \* the sector _writeSector() copies, None for nullptr
    target,  \* the sector _writeSector() writes
    result,  \* what the last method returned
    before   \* ghost: the data before the last write, None once that failed

vars == <<sec, pc, op, source, target, result, before>>

Op(k, f, d) == [kind |-> k, field |-> f, data |-> d]
NoOp == Op("none", None, None)

alternateSectorTo(x) == IF x = 0 THEN 1 ELSE 0

(* Header::isValid().                                                      *)
isValid(s) == s.seal \in {"valid", "invalid_v2"}

computeCRC(s) == <<s.data, s.counter>>

isCRCValid(s) == s.footer /\ s.crc = computeCRC(s)

findValidSector(s) == IF isValid(s[0]) THEN 0 ELSE IF isValid(s[1]) THEN 1 ELSE None

(* Mutant: the earlier one.                                                *)
LeastRecent(s, x, y) == IF (s[x].counter + 1) % 4 = s[y].counter THEN x ELSE y

(* _currentSector(): the later of two sectors, by their 2-bit counters.    *)
MostRecent(s, x, y) == IF (s[x].counter + 1) % 4 = s[y].counter THEN y ELSE x

evaluateSectors(s, primary, secondary) ==
    LET p == isCRCValid(s[primary])
        q == isCRCValid(s[secondary])
    IN  CASE s[secondary].seal = "valid" ->
                 IF p /\ q THEN MostRecent(s, primary, secondary)
                 ELSE IF p THEN primary
                 ELSE IF q THEN secondary ELSE 1
          [] s[secondary].seal = "invalid_v2" -> IF p THEN primary ELSE secondary
          [] OTHER -> primary

currentSector(s) ==
    IF findValidSector(s) = None THEN None
    ELSE evaluateSectors(s, findValidSector(s), alternateSectorTo(findValidSector(s)))

-----------------------------------------------------------------------------
(* currentValidSector() and _writeSector(): without a valid sector,        *)
(* sector 1 is initialized first, from nullptr.                            *)
Begin(o) ==
    /\ op = NoOp
    /\ op' = o
    /\ pc' = "erase"
    /\ source' = currentSector(sec)
    /\ target' = IF currentSector(sec) = None THEN 1 ELSE alternateSectorTo(currentSector(sec))
    /\ UNCHANGED <<sec, result>>

(* read() changes the flash only to initialize it.                         *)
read ==
    /\ currentSector(sec) = None
    /\ Begin(Op("read", None, None))
    /\ before' = None

write(f, d) ==
    /\ Begin(Op("write", f, d))
    /\ before' = IF currentSector(sec) = None THEN None ELSE sec[currentSector(sec)].data

(* DCD::erase(): sector 0, then sector 1.                                  *)
erase ==
    /\ op = NoOp
    /\ op' = Op("erase", None, None)
    /\ pc' = "erase"
    /\ source' = None
    /\ target' = 0
    /\ before' = None
    /\ UNCHANGED <<sec, result>>

(* initialize() has returned, with or without an error that nobody looks   *)
(* at: read() is done, write() goes on with sector 1 as the current one.   *)
Initialized(data) ==
    /\ IF op.kind = "read"
       THEN pc' = "return" /\ UNCHANGED <<source, target, before>>
       ELSE /\ pc' = "erase"
            /\ source' = 1
            /\ target' = 0
            /\ before' = data
    /\ UNCHANGED <<op, result>>

(* _writeSector() goes on with its next flash operation.                   *)
Goto(p) == pc' = p /\ UNCHANGED <<op, source, target, result, before>>

EraseSector ==
    /\ pc = "erase"
    /\ sec' = [sec EXCEPT ![target] = Erased]
    /\ IF op.kind = "erase"
       THEN /\ target' = 1
            /\ pc' = IF target = 0 THEN "erase" ELSE "return"
            /\ UNCHANGED <<op, source, result, before>>
       ELSE Goto(IF source = None THEN "footer" ELSE "before")

(* The fields each of the three store.write() calls for the data covers.   *)
Part(p) ==
    CASE p = "before" -> {f \in Fields : f < op.field}
      [] p = "data" -> {op.field}
      [] p = "after" -> {f \in Fields : f > op.field}

WriteData ==
    /\ pc \in {"before", "data", "after"}
    /\ sec' = [sec EXCEPT ![target].data =
                  [f \in Fields |-> IF f \notin Part(pc) THEN @[f]
                                    ELSE IF pc = "data" THEN op.data
                                    ELSE sec[source].data[f]]]
    /\ Goto(IF pc = "before" THEN "data" ELSE IF pc = "data" THEN "after" ELSE "footer")

(* Mutant: the counter is not reduced to its two bits.                     *)
CounterNotMasked ==
    IF source # None /\ sec[source].footer THEN sec[source].counter + 1 ELSE 0

(* Mutant: the footer is copied with its counter.                          *)
CounterKept ==
    IF source # None /\ sec[source].footer THEN sec[source].counter ELSE 0

NextCounter ==
    IF source # None /\ sec[source].footer THEN (sec[source].counter + 1) % 4 ELSE 0

(* _write_v2_footer().                                                     *)
WriteFooter ==
    /\ pc = "footer"
    /\ sec' = [sec EXCEPT ![target] = [@ EXCEPT !.footer = TRUE, !.counter = NextCounter]]
    /\ Goto("crc")

WriteCRC ==
    /\ pc = "crc"
    /\ sec' = [sec EXCEPT ![target].crc = computeCRC(sec[target])]
    /\ Goto("header")

(* Header::makeValid().                                                    *)
WriteHeader ==
    /\ pc = "header"
    /\ sec' = [sec EXCEPT ![target].seal = "valid"]
    /\ IF source = None THEN Initialized(BlankData) ELSE Goto("invalidate")

(* Mutant: the old sector is cleared, as v1 code did.                      *)
ClearedAsV1(seal) == "cleared"

(* Header::makeInvalid() over whatever the header holds: programming flash *)
(* only clears bits.                                                       *)
Invalidated(seal) ==
    IF seal \in {"init", "valid", "invalid_v2"} THEN "invalid_v2"
    ELSE IF seal = "cleared" THEN "cleared" ELSE "other"

Invalidate ==
    /\ pc = "invalidate"
    /\ sec' = [sec EXCEPT ![source].seal = Invalidated(@)]
    /\ Goto("return")

Finish(r) ==
    /\ op' = NoOp
    /\ pc' = "idle"
    /\ source' = None
    /\ target' = 0
    /\ result' = r
    /\ before' = IF r = "ok" THEN before ELSE None

Return ==
    /\ pc = "return"
    /\ Finish("ok")
    /\ UNCHANGED sec

(* What an interrupted flash operation may leave behind.  An interrupted   *)
(* erasure may have destroyed the data and yet not reached the header.     *)
Interrupted ==
    LET s == sec[target]
    IN  CASE pc = "erase" ->
                 {[sec EXCEPT ![target] = [s EXCEPT !.seal = x, !.data = d]] :
                      x \in {s.seal, "other", "init"}, d \in {s.data, GarbageData}}
          [] pc \in {"before", "data", "after"} ->
                 {sec, [sec EXCEPT ![target].data =
                           [f \in Fields |-> IF f \in Part(pc) THEN Garbage ELSE @[f]]]}
          [] pc = "footer" -> {sec, [sec EXCEPT ![target].counter = NextCounter]}
          [] pc = "header" -> {sec, [sec EXCEPT ![target].seal = "other"]}
          [] pc = "invalidate" -> {sec, [sec EXCEPT ![source].seal = "other"]}
          [] OTHER -> {sec}

(* External: the power fails.                                              *)
Crash ==
    /\ op # NoOp
    /\ sec' \in Interrupted
    /\ Finish("crash")

(* External: the store reports an error, and the method returns it, unless *)
(* it comes from initialize().                                             *)
FlashError ==
    /\ pc \notin {"idle", "return"}
    /\ sec' \in Interrupted
    /\ IF source = None /\ op.kind # "erase" THEN Initialized(None) ELSE Finish("error")

-----------------------------------------------------------------------------
(* The flash of a new device; flash without any header; a device whose     *)
(* sector x was last written by v1 code, which leaves no footer or copies  *)
(* one whose CRC is stale.                                                 *)
V1Current(d, copied) ==
    [seal |-> "valid", data |-> d, footer |-> copied, counter |-> IF copied THEN 0 ELSE 3, crc |-> None]
V1Cleared == [Erased EXCEPT !.seal = "cleared", !.data = GarbageData]
WrittenByV1(x) ==
    {[y \in Sector |-> IF y = x THEN V1Current(d, copied) ELSE V1Cleared] :
        d \in [Fields -> Values], copied \in BOOLEAN}

Init ==
    /\ sec \in {[x \in Sector |-> Erased],
                [x \in Sector |-> [Erased EXCEPT !.seal = "other", !.data = GarbageData]]}
               \cup WrittenByV1(0) \cup WrittenByV1(1)
    /\ pc = "idle"
    /\ op = NoOp
    /\ source = None
    /\ target = 0
    /\ result = "none"
    /\ before = None

Next ==
    \/ read
    \/ \E f \in Fields, d \in Values : write(f, d)
    \/ erase
    \/ EraseSector
    \/ WriteData
    \/ WriteFooter
    \/ WriteCRC
    \/ WriteHeader
    \/ Invalidate
    \/ Return
    \/ Crash
    \/ FlashError

Spec == Init /\ [][Next]_vars

-----------------------------------------------------------------------------
TypeOK ==
    /\ sec \in [Sector -> SectorState]
    /\ pc \in {"idle", "erase", "before", "data", "after", "footer", "crc", "header",
               "invalidate", "return"}
    /\ op \in {NoOp, Op("read", None, None), Op("erase", None, None)}
                  \cup {Op("write", f, d) : f \in Fields, d \in Values}
    /\ source \in Sector \cup {None}
    /\ target \in Sector
    /\ result \in {"none", "ok", "error", "crash"}
    /\ before \in Contents \cup {None}

(* The data read() returns.                                                *)
CurrentData(s) == IF currentSector(s) = None THEN None ELSE s[currentSector(s)].data

Committed == op.kind # "read" /\ pc \in {"invalidate", "return"}

Register ==
    INSTANCE DCDRegister WITH NoValue <- None, value <- CurrentData(sec), committed <- Committed

(* The store behaves as the register its callers take it for: whatever     *)
(* step a power loss or a flash error interrupts, read() finds the data    *)
(* before the write or after it, complete, and a write that returned       *)
(* success is never undone.                                                *)
IsARegister == Register!Spec

InSequence(s) ==
    isValid(s[0]) /\ isValid(s[1]) /\ isCRCValid(s[0]) /\ isCRCValid(s[1])
        => \/ (s[0].counter + 1) % 4 = s[1].counter
           \/ (s[1].counter + 1) % 4 = s[0].counter

(* _currentSector() never has to guess: two sectors that both pass their   *)
(* CRC were written one after the other, and their 2-bit counters say in   *)
(* which order.                                                            *)
CountersInSequence == InSequence(sec)

(* dcd.h: "When the CRC is invalid, the alternative sector is used if it   *)
(* has SEAL_VALID or SEAL_INVALID_V2": should the new sector fail its CRC  *)
(* after a successful write, read() returns the data from before it.       *)
LostSectorFallsBack ==
    pc = "idle" /\ before # None =>
        LET x == currentSector(sec)
            y == alternateSectorTo(x)
        IN  /\ currentSector([sec EXCEPT ![x].crc = None]) = y
            /\ sec[y].data = before

(* That, provided the sector it falls back to passes its CRC.              *)
BackupIsUsed ==
    LET x == currentSector(sec)
    IN  pc = "idle" /\ before # None /\ isCRCValid(sec[alternateSectorTo(x)])
            => LostSectorFallsBack
=============================================================================
