----------------------------- MODULE DCDProofs -----------------------------
(***************************************************************************)
(* DCD implements DCDRegister for every number of fields and every set of  *)
(* values.  Three facts about currentSector() carry the proof: it ignores  *)
(* whatever becomes of the sector it did not choose, as long as that one   *)
(* does not become more valid (OtherIgnored); a sealed sector with a good  *)
(* CRC and the next counter wins (NewerWins); and it chooses nothing only  *)
(* if no header is valid (CurrentSectorType).  Flow, Written and Backup    *)
(* say what the flash and the locals hold at each flash operation.         *)
(***************************************************************************)
EXTENDS DCD, TLAPS

Writing == {"before", "data", "after", "footer", "crc", "header"}

Flow ==
    /\ (pc = "idle") <=> (op.kind = "none")
    /\ op.kind = "erase" =>
           /\ pc \in {"erase", "return"} /\ source = None
           /\ pc = "erase" /\ target = 1 => ~isValid(sec[0])
           /\ pc = "return" => currentSector(sec) = None
    /\ op.kind = "read" => pc \in {"erase", "footer", "crc", "header", "return"} /\ source = None
    /\ op.kind \in {"read", "write"} /\ source = None /\ pc # "return" =>
           /\ pc \in {"erase", "footer", "crc", "header"}
           /\ target = 1
           /\ currentSector(sec) = None
    /\ source # None =>
           /\ op.kind = "write"
           /\ target = alternateSectorTo(source)
           /\ pc \notin {"invalidate", "return"} => currentSector(sec) \in {source, None}
    /\ op.kind = "write" /\ pc = "return" => source # None

(* The data _writeSector() writes.                                         *)
Copied ==
    IF source = None THEN BlankData
    ELSE [f \in Fields |-> IF f = op.field THEN op.data ELSE sec[source].data[f]]

Written ==
    /\ pc \in Writing => sec[target].seal = "init"
    /\ pc \in Writing \ {"header"} => sec[target].crc = None
    /\ pc \in {"crc", "header", "invalidate"} =>
           sec[target].footer /\ sec[target].counter = NextCounter
    /\ pc \in {"header", "invalidate"} => sec[target].crc = computeCRC(sec[target])
    /\ pc \in {"before", "data", "after", "invalidate"} => source # None
    /\ pc = "invalidate" => sec[target].seal = "valid"
    /\ pc \in {"footer", "crc", "header", "invalidate"} => sec[target].data = Copied
    /\ pc = "data" => \A f \in Fields : f < op.field => sec[target].data[f] = Copied[f]
    /\ pc = "after" => \A f \in Fields : f <= op.field => sec[target].data[f] = Copied[f]

(* A CRC that matches neither its sector nor a sector about to be erased   *)
(* does not exist.                                                         *)
Honest ==
    \A x \in Sector :
        sec[x].crc # None => sec[x].crc = computeCRC(sec[x]) \/ sec[x].data = GarbageData

(* Sector x holds the last write, the other one the data from before it.   *)
BackedUp(x) ==
    LET y == alternateSectorTo(x)
    IN  /\ sec[x].seal = "valid" /\ isCRCValid(sec[x])
        /\ sec[y].seal = "invalid_v2" /\ sec[y].data = before
        /\ sec[y].footer => sec[x].counter = (sec[y].counter + 1) % 4

Backup ==
    /\ before # None /\ pc \notin {"idle", "return"} =>
           source # None /\ before = sec[source].data /\ isValid(sec[source])
    /\ before # None /\ pc \in {"idle", "return"} => \E x \in Sector : BackedUp(x)

Inv == TypeOK /\ Flow /\ Written /\ Honest /\ Backup

-----------------------------------------------------------------------------
(* currentSector() returns a sector with a valid header if there is one.   *)
LEMMA CurrentSectorType ==
    ASSUME NEW s \in [Sector -> SectorState]
    PROVE  /\ currentSector(s) \in Sector \cup {None}
           /\ currentSector(s) = None <=> ~isValid(s[0]) /\ ~isValid(s[1])
           /\ currentSector(s) # None => isValid(s[currentSector(s)])
<1>0. None # 0 /\ None # 1
    BY DCDAssumption
<1>1. CASE isValid(s[0])
    BY <1>0, <1>1 DEF Sector, currentSector, findValidSector, evaluateSectors, alternateSectorTo,
                      MostRecent, isValid
<1>2. CASE ~isValid(s[0]) /\ isValid(s[1])
    BY <1>0, <1>2 DEF Sector, currentSector, findValidSector, evaluateSectors, alternateSectorTo,
                      MostRecent, isValid
<1>3. CASE ~isValid(s[0]) /\ ~isValid(s[1])
    BY <1>0, <1>3 DEF Sector, currentSector, findValidSector
<1> QED
    BY <1>1, <1>2, <1>3

(* The choice does not change when the sector that was not chosen is       *)
(* damaged or erased.                                                      *)
LEMMA OtherIgnored ==
    ASSUME NEW s \in [Sector -> SectorState], NEW t \in [Sector -> SectorState],
           NEW x \in Sector, NEW y \in Sector, y = alternateSectorTo(x),
           currentSector(s) = x, t[x] = s[x],
           \/ ~isValid(t[y])
           \/ /\ t[y].seal = s[y].seal
              /\ t[y].counter = s[y].counter
              /\ isCRCValid(t[y]) => isCRCValid(s[y])
    PROVE  currentSector(t) = x
<1>0. None # 0 /\ None # 1
    BY DCDAssumption
<1>1. CASE x = 0
    <2>1. y = 1
        BY <1>1 DEF alternateSectorTo
    <2>2. isValid(s[0]) /\ isValid(t[0])
        BY <1>0, <1>1, CurrentSectorType
    <2> QED
        BY <1>0, <1>1, <2>1, <2>2 DEF currentSector, findValidSector, evaluateSectors,
            alternateSectorTo, MostRecent, isValid
<1>2. CASE x = 1
    <2>1. y = 0
        BY <1>2 DEF alternateSectorTo
    <2>2. isValid(s[1]) /\ isValid(t[1])
        BY <1>0, <1>2, CurrentSectorType
    <2>3. CASE ~isValid(t[0])
        BY <1>0, <1>2, <2>1, <2>2, <2>3 DEF currentSector, findValidSector, evaluateSectors,
            alternateSectorTo, isValid
    <2>4. CASE isValid(t[0])
        <3>1. isValid(s[0]) /\ t[0].counter = s[0].counter /\ (isCRCValid(t[0]) => isCRCValid(s[0]))
            BY <2>1, <2>4 DEF isValid
        <3> QED
            BY <1>0, <1>2, <2>2, <2>4, <3>1 DEF currentSector, findValidSector, evaluateSectors,
                alternateSectorTo, MostRecent, isValid
    <2> QED
        BY <2>3, <2>4
<1> QED
    BY <1>1, <1>2 DEF Sector

(* A sealed sector that passes its CRC is chosen, if its counter follows   *)
(* that of the other one or the other one fails its CRC.                   *)
LEMMA NewerWins ==
    ASSUME NEW t \in [Sector -> SectorState],
           NEW x \in Sector, NEW y \in Sector, y = alternateSectorTo(x),
           t[y].seal = "valid", isCRCValid(t[y]),
           isCRCValid(t[x]) => t[y].counter = (t[x].counter + 1) % 4
    PROVE  currentSector(t) = y
<1>0. None # 0 /\ None # 1 /\ t[x].counter \in 0..3 /\ t[y].counter \in 0..3
    BY DCDAssumption DEF SectorState
<1>1. CASE x = 0
    <2>1. y = 1
        BY <1>1 DEF alternateSectorTo
    <2> QED
        BY <1>0, <1>1, <2>1 DEF currentSector, findValidSector, evaluateSectors,
            alternateSectorTo, MostRecent, isValid
<1>2. CASE x = 1
    <2>1. y = 0
        BY <1>2 DEF alternateSectorTo
    <2>2. isCRCValid(t[x]) => (t[y].counter + 1) % 4 # t[x].counter
        BY <1>0
    <2> QED
        BY <1>0, <1>2, <2>1, <2>2 DEF currentSector, findValidSector, evaluateSectors,
            alternateSectorTo, MostRecent, isValid
<1> QED
    BY <1>1, <1>2 DEF Sector

-----------------------------------------------------------------------------
(* The operations and their arguments.                                     *)
LEMMA Ops ==
    ASSUME TypeOK
    PROVE  /\ op.kind \in {"none", "read", "erase", "write"}
           /\ op.kind = "none" <=> op = NoOp
           /\ op.kind = "write" => op.field \in Fields /\ op.data \in Values
BY DEF TypeOK, Op, NoOp

LEMMA ErasedType == Erased \in SectorState /\ GarbageData \in Contents /\ BlankData \in Contents
BY DEF Erased, SectorState, Seals, GarbageData, BlankData, Contents

LEMMA CopiedType ==
    ASSUME TypeOK, op.kind = "write" \/ source = None
    PROVE  Copied \in Contents /\ NextCounter \in 0..3
<1>1. Copied \in Contents
    BY Ops, ErasedType DEF TypeOK, Copied, Contents, SectorState
<1>2. NextCounter \in 0..3
    BY DEF TypeOK, NextCounter, SectorState
<1> QED
    BY <1>1, <1>2

LEMMA PartType ==
    ASSUME TypeOK, op.kind = "write", pc \in {"before", "data", "after"}
    PROVE  Part(pc) \subseteq Fields
BY Ops DEF Part

(* A sector that is damaged or erased leaves the counters in sequence.     *)
LEMMA SequenceKept ==
    ASSUME NEW s \in [Sector -> SectorState], NEW t \in [Sector -> SectorState],
           NEW x \in Sector, t[alternateSectorTo(x)] = s[alternateSectorTo(x)], InSequence(s),
           \/ ~isValid(t[x])
           \/ /\ t[x].seal = s[x].seal
              /\ t[x].counter = s[x].counter
              /\ isCRCValid(t[x]) => isCRCValid(s[x])
    PROVE  InSequence(t)
BY DEF InSequence, Sector, alternateSectorTo, isValid

(* One step changes one sector.                                            *)
LEMMA OneSector ==
    ASSUME NEW s \in [Sector -> SectorState], NEW x \in Sector, NEW n \in SectorState,
           NEW t, t = [s EXCEPT ![x] = n]
    PROVE  /\ t \in [Sector -> SectorState]
           /\ t[x] = n
           /\ t[alternateSectorTo(x)] = s[alternateSectorTo(x)]
           /\ alternateSectorTo(x) \in Sector /\ alternateSectorTo(x) # x
           /\ alternateSectorTo(alternateSectorTo(x)) = x
BY DEF Sector, alternateSectorTo

(* A step that follows the specification of the register.                  *)
Refines == Register!Next \/ UNCHANGED Register!vars

LEMMA DataStays ==
    ASSUME NEW s, NEW t, NEW x \in Sector, t[x] = s[x],
           currentSector(s) = x, currentSector(t) = x
    PROVE  CurrentData(t) = CurrentData(s)
BY DEF CurrentData

LEMMA DataType ==
    ASSUME NEW s \in [Sector -> SectorState]
    PROVE  /\ CurrentData(s) \in Contents \cup {None}
           /\ CurrentData(s) = None <=> currentSector(s) = None
<1>1. CASE currentSector(s) = None
    BY <1>1 DEF CurrentData
<1>2. CASE currentSector(s) # None
    <2>1. currentSector(s) \in Sector
        BY <1>2, CurrentSectorType
    <2>2. s[currentSector(s)].data \in Contents
        BY <2>1 DEF SectorState
    <2> QED
        BY <1>2, <2>2, NoneAssumption DEF CurrentData
<1> QED
    BY <1>1, <1>2

(* Begin(): the running method works on the sector that is not current.    *)
LEMMA BeginStep ==
    ASSUME Inv, NEW o, Begin(o), o.kind \in {"read", "write"},
           o.kind = "read" => currentSector(sec) = None,
           o \in {Op("read", None, None)} \cup {Op("write", f, d) : f \in Fields, d \in Values},
           before' = CurrentData(sec)
    PROVE  Inv' /\ Register!Start(o)
<1>0. /\ op = NoOp /\ op' = o /\ pc' = "erase" /\ source' = currentSector(sec)
      /\ target' = (IF currentSector(sec) = None THEN 1 ELSE alternateSectorTo(currentSector(sec)))
      /\ sec' = sec /\ result' = result /\ op.kind = "none" /\ pc = "idle"
    BY Ops DEF Begin, Inv, Flow
<1>1. /\ currentSector(sec) \in Sector \cup {None}
      /\ currentSector(sec) # None => isValid(sec[currentSector(sec)])
      /\ CurrentData(sec) \in Contents \cup {None}
      /\ CurrentData(sec) = None <=> currentSector(sec) = None
    BY CurrentSectorType, DataType DEF Inv, TypeOK
<1>2. TypeOK'
    BY <1>0, <1>1 DEF Inv, TypeOK, Sector, alternateSectorTo
<1>3. Flow'
    BY <1>0, <1>1 DEF Flow
<1>4. Written' /\ Honest'
    BY <1>0 DEF Inv, Written, Honest, Writing
<1>5. Backup'
    BY <1>0, <1>1 DEF Backup, CurrentData
<1>6. Register!Start(o)
    BY <1>0 DEF Register!Start, Register!NoOp, Register!Op, NoOp, Op, Committed
<1> QED
    BY <1>2, <1>3, <1>4, <1>5, <1>6 DEF Inv

LEMMA ReadStep ==
    ASSUME Inv, read
    PROVE  Inv' /\ Refines
<1> DEFINE o == Op("read", None, None)
<1>1. Begin(o) /\ o.kind = "read" /\ currentSector(sec) = None /\ before' = CurrentData(sec)
    BY DEF read, CurrentData, Inv, TypeOK, Op
<1>2. Inv' /\ Register!Start(o)
    BY <1>1, BeginStep
<1>3. o = Register!ReadOp
    BY DEF Op, Register!ReadOp, Register!Op
<1> QED
    BY <1>2, <1>3 DEF Refines, Register!Next

LEMMA WriteStep ==
    ASSUME Inv, NEW f \in Fields, NEW d \in Values, write(f, d)
    PROVE  Inv' /\ Refines
<1> DEFINE o == Op("write", f, d)
<1>1. Begin(o) /\ o.kind = "write" /\ before' = CurrentData(sec)
    BY DEF write, CurrentData, Op
<1>2. Inv' /\ Register!Start(o)
    BY <1>1, BeginStep
<1>3. o = Register!WriteOp(f, d)
    BY DEF Op, Register!WriteOp, Register!Op
<1> QED
    BY <1>2, <1>3 DEF Refines, Register!Next

LEMMA EraseStep ==
    ASSUME Inv, erase
    PROVE  Inv' /\ Refines
<1>0. /\ op = NoOp /\ op' = Op("erase", None, None) /\ pc' = "erase" /\ source' = None /\ target' = 0
      /\ sec' = sec /\ result' = result /\ before' = None
      /\ op.kind = "none" /\ pc = "idle" /\ op'.kind = "erase"
    BY Ops DEF erase, Inv, Flow, Op
<1>1. TypeOK'
    BY <1>0 DEF Inv, TypeOK, Sector
<1>2. Flow'
    BY <1>0 DEF Flow
<1>3. Written' /\ Honest' /\ Backup'
    BY <1>0 DEF Inv, Written, Honest, Writing, Backup
<1>4. Register!Start(Register!EraseOp)
    BY <1>0 DEF Register!Start, Register!EraseOp, Register!NoOp, Register!Op, NoOp, Op, Committed
<1> QED
    BY <1>1, <1>2, <1>3, <1>4 DEF Inv, Refines, Register!Next

-----------------------------------------------------------------------------
(* Nothing that happens to the target before it is sealed changes what     *)
(* read() returns.                                                         *)
LEMMA TargetIgnored ==
    ASSUME Inv, op.kind \in {"read", "write"}, pc \notin {"invalidate", "return"},
           NEW t \in [Sector -> SectorState],
           t[alternateSectorTo(target)] = sec[alternateSectorTo(target)],
           \/ ~isValid(t[target])
           \/ /\ t[target].seal = sec[target].seal
              /\ t[target].counter = sec[target].counter
              /\ isCRCValid(t[target]) => isCRCValid(sec[target])
    PROVE  currentSector(t) = currentSector(sec) /\ CurrentData(t) = CurrentData(sec)
<1>0. sec \in [Sector -> SectorState] /\ target \in Sector /\ source \in Sector \cup {None}
      /\ None \notin Sector
    BY DCDAssumption DEF Inv, TypeOK, Sector
<1>1. CASE currentSector(sec) = None
    <2>1. ~isValid(sec[0]) /\ ~isValid(sec[1])
        BY <1>0, <1>1, CurrentSectorType
    <2>2. ~isValid(t[0]) /\ ~isValid(t[1])
        BY <1>0, <2>1 DEF isValid, alternateSectorTo, Sector
    <2>3. currentSector(t) = None
        BY <2>2, CurrentSectorType
    <2> QED
        BY <1>1, <2>3 DEF CurrentData
<1>2. CASE currentSector(sec) # None
    <2>1. source # None /\ currentSector(sec) = source /\ target = alternateSectorTo(source)
        BY <1>2 DEF Inv, Flow
    <2>2. source \in Sector /\ alternateSectorTo(target) = source
        BY <1>0, <2>1 DEF Sector, alternateSectorTo
    <2>3. currentSector(t) = source
        BY <1>0, <2>1, <2>2, OtherIgnored
    <2> QED
        BY <2>1, <2>2, <2>3, DataStays
<1> QED
    BY <1>1, <1>2

(* Stuttering steps of the register.                                       *)
LEMMA Stutters ==
    ASSUME UNCHANGED <<op, result>>, CurrentData(sec') = CurrentData(sec), Committed' <=> Committed
    PROVE  Refines
BY DEF Refines, Register!vars, Committed

(* _writeSector() erases its target.                                       *)
LEMMA EraseSectorStep ==
    ASSUME Inv, EraseSector
    PROVE  Inv' /\ Refines
<1>0. /\ TypeOK /\ Flow /\ Written /\ Honest /\ Backup
      /\ pc = "erase" /\ sec' = [sec EXCEPT ![target] = Erased]
      /\ target \in Sector /\ sec \in [Sector -> SectorState] /\ Erased \in SectorState
    BY ErasedType DEF Inv, EraseSector, TypeOK
<1>1. /\ sec' \in [Sector -> SectorState] /\ sec'[target] = Erased
      /\ sec'[alternateSectorTo(target)] = sec[alternateSectorTo(target)]
      /\ alternateSectorTo(target) \in Sector /\ alternateSectorTo(target) # target
    BY <1>0, OneSector
<1>2. ~isValid(Erased) /\ Erased.seal = "init" /\ Erased.crc = None /\ Erased.data = BlankData
    BY DEF isValid, Erased
<1>3. Honest'
    <2> SUFFICES ASSUME NEW x \in Sector, sec'[x].crc # None
                 PROVE  sec'[x].crc = computeCRC(sec'[x]) \/ sec'[x].data = GarbageData
        BY DEF Honest
    <2>1. x = alternateSectorTo(target)
        BY <1>0, <1>1, <1>2 DEF Sector, alternateSectorTo
    <2> QED
        BY <1>0, <1>1, <2>1 DEF Honest
<1>4. CASE op.kind = "erase"
    <2>0. /\ target' = 1 /\ pc' = (IF target = 0 THEN "erase" ELSE "return")
          /\ UNCHANGED <<op, source, result, before>> /\ source = None
        BY <1>0, <1>4 DEF EraseSector, Flow
    <2>1. before = None
        BY <1>0, <2>0 DEF Backup
    <2>2. TypeOK'
        BY <1>0, <1>1, <2>0 DEF TypeOK, Sector
    <2>3. target = 1 => currentSector(sec') = None
        <3>1. ASSUME target = 1 PROVE ~isValid(sec'[0]) /\ ~isValid(sec'[1])
            BY <1>0, <1>1, <1>2, <1>4, <3>1 DEF Flow, alternateSectorTo
        <3> QED
            BY <1>1, <3>1, CurrentSectorType
    <2>4. Flow'
        <3>1. target = 0 => ~isValid(sec'[0])
            BY <1>1, <1>2
        <3> QED
            BY <1>0, <1>4, <2>0, <2>3, <3>1 DEF Flow, Sector
    <2>5. Written' /\ Backup'
        BY <2>0, <2>1 DEF Written, Writing, Backup
    <2>6. Refines
        <3>1. CurrentData(sec') \in Contents \cup {None}
            BY <1>1, DataType
        <3>2. CASE target = 0
            <4>1. Register!EraseSome
                BY <1>0, <1>4, <2>0, <3>1, <3>2 DEF Register!EraseSome, Register!Contents, Contents, Committed
            <4> QED
                BY <4>1 DEF Refines, Register!Next
        <3>3. CASE target = 1
            <4>1. Register!EraseAll
                BY <1>0, <1>4, <2>0, <2>3, <3>3 DEF Register!EraseAll, Committed, CurrentData
            <4> QED
                BY <4>1 DEF Refines, Register!Next
        <3> QED
            BY <1>0, <3>2, <3>3 DEF Sector
    <2> QED
        BY <1>3, <2>2, <2>4, <2>5, <2>6 DEF Inv
<1>5. CASE op.kind # "erase"
    <2>0. /\ UNCHANGED <<op, source, target, result, before>>
          /\ pc' = (IF source = None THEN "footer" ELSE "before")
          /\ op.kind \in {"read", "write"}
        BY <1>0, <1>5, Ops DEF EraseSector, Goto, Flow
    <2>1. TypeOK'
        BY <1>0, <1>1, <2>0 DEF TypeOK
    <2>2. currentSector(sec') = currentSector(sec) /\ CurrentData(sec') = CurrentData(sec)
        BY <1>0, <1>1, <1>2, <2>0, TargetIgnored
    <2>3. Flow'
        BY <1>0, <2>0, <2>2 DEF Flow
    <2>4. Written'
        <3>1. source = None => Copied' = BlankData
            BY <2>0 DEF Copied
        <3> QED
            BY <1>1, <1>2, <2>0, <3>1 DEF Written, Writing
    <2>5. Backup'
        <3>1. source # None => alternateSectorTo(target) = source
            BY <1>0 DEF TypeOK, Flow, Sector, alternateSectorTo
        <3> QED
            BY <1>0, <1>1, <2>0, <3>1 DEF Backup
    <2>6. Refines
        BY <1>0, <2>0, <2>2, Stutters DEF Committed
    <2> QED
        BY <1>3, <2>1, <2>3, <2>4, <2>5, <2>6 DEF Inv
<1> QED
    BY <1>4, <1>5

(* The flash operations between the erasure and the seal.                  *)
LEMMA WritingStep ==
    ASSUME Inv, pc \in Writing \ {"header"}, NEW n \in SectorState,
           sec' = [sec EXCEPT ![target] = n],
           n.seal = "init", n.crc = None \/ n.crc = computeCRC(n),
           NEW q \in {"data", "after", "footer", "crc", "header"}, Goto(q),
           source = None => q \in {"crc", "header"}
    PROVE  /\ TypeOK' /\ Flow' /\ Honest' /\ Backup' /\ Refines
           /\ sec'[target] = n
           /\ source # None => sec'[source] = sec[source]
           /\ NextCounter' = NextCounter /\ Copied' = Copied
<1>0. /\ TypeOK /\ Flow /\ Written /\ Honest /\ Backup
      /\ pc' = q /\ UNCHANGED <<op, source, target, result, before>>
      /\ target \in Sector /\ sec \in [Sector -> SectorState]
      /\ op.kind \in {"read", "write"}
    BY Ops DEF Inv, TypeOK, Goto, Flow, Writing
<1>1. /\ sec' \in [Sector -> SectorState] /\ sec'[target] = n
      /\ sec'[alternateSectorTo(target)] = sec[alternateSectorTo(target)]
      /\ alternateSectorTo(target) \in Sector /\ alternateSectorTo(target) # target
    BY <1>0, OneSector
<1>2. currentSector(sec') = currentSector(sec) /\ CurrentData(sec') = CurrentData(sec)
    <2>1. ~isValid(sec'[target])
        BY <1>1 DEF isValid
    <2>2. pc \notin {"invalidate", "return"}
        BY DEF Writing
    <2> QED
        BY <1>0, <1>1, <2>1, <2>2, TargetIgnored
<1>3. source # None => alternateSectorTo(target) = source
    BY <1>0 DEF TypeOK, Flow, Sector, alternateSectorTo
<1>4. TypeOK'
    BY <1>0, <1>1 DEF TypeOK
<1>5. Flow'
    BY <1>0, <1>2 DEF Flow, Writing
<1>6. Honest'
    <2> SUFFICES ASSUME NEW x \in Sector, sec'[x].crc # None
                 PROVE  sec'[x].crc = computeCRC(sec'[x]) \/ sec'[x].data = GarbageData
        BY DEF Honest
    <2>1. CASE x = target
        BY <1>1, <2>1
    <2>2. CASE x = alternateSectorTo(target)
        BY <1>0, <1>1, <2>2 DEF Honest
    <2> QED
        BY <1>0, <2>1, <2>2 DEF Sector, alternateSectorTo
<1>7. Backup'
    BY <1>0, <1>1, <1>3 DEF Backup, Writing
<1>8. Refines
    <2>1. Committed' <=> Committed
        BY <1>0 DEF Committed, Writing
    <2> QED
        BY <1>0, <1>2, <2>1, Stutters
<1>9. NextCounter' = NextCounter /\ Copied' = Copied
    BY <1>0, <1>1, <1>3 DEF NextCounter, Copied
<1> QED
    BY <1>1, <1>3, <1>4, <1>5, <1>6, <1>7, <1>8, <1>9

LEMMA WriteDataStep ==
    ASSUME Inv, WriteData
    PROVE  Inv' /\ Refines
<1>0. /\ TypeOK /\ Flow /\ Written /\ pc \in {"before", "data", "after"}
      /\ source # None /\ source \in Sector /\ op.kind = "write" /\ op.field \in Fields /\ op.data \in Values
      /\ target \in Sector /\ sec \in [Sector -> SectorState]
    BY Ops DEF Inv, WriteData, TypeOK, Flow, Written
<1> DEFINE D == [f \in Fields |-> IF f \notin Part(pc) THEN sec[target].data[f]
                                  ELSE IF pc = "data" THEN op.data ELSE sec[source].data[f]]
           n == [sec[target] EXCEPT !.data = D]
           q == IF pc = "before" THEN "data" ELSE IF pc = "data" THEN "after" ELSE "footer"
<1>1. D \in Contents
    <2>1. sec[target].data \in Contents /\ sec[source].data \in Contents
        BY <1>0 DEF SectorState
    <2> QED
        BY <1>0, <2>1 DEF Contents
<1>2. n \in SectorState /\ n.seal = "init" /\ n.crc = None /\ n.data = D
    BY <1>0, <1>1 DEF SectorState, Written, Writing
<1>3. sec' = [sec EXCEPT ![target] = n] /\ Goto(q)
    BY DEF WriteData
<1>4. /\ TypeOK' /\ Flow' /\ Honest' /\ Backup' /\ Refines
      /\ sec'[target] = n /\ Copied' = Copied
    <2>1. pc \in Writing \ {"header"} /\ q \in {"data", "after", "footer", "crc", "header"}
        BY <1>0 DEF Writing
    <2> HIDE DEF n, q
    <2> QED
        BY <1>0, <1>2, <1>3, <2>1, WritingStep
<1>5. \A f \in Fields :
          Copied[f] = (IF f = op.field THEN op.data ELSE sec[source].data[f])
    BY <1>0 DEF Copied
<1>6. pc' = q /\ op' = op /\ source' = source /\ target' = target
    BY <1>3 DEF Goto
<1>7. ASSUME pc = "before", NEW f \in Fields, f < op.field PROVE D[f] = Copied[f]
    <2>1. op.field \in Nat /\ f \in Nat /\ f # op.field /\ f \in Part(pc)
        BY <1>0, <1>7, DCDAssumption DEF Fields, Part
    <2> QED
        BY <1>5, <1>7, <2>1
<1>8. ASSUME pc = "data", NEW f \in Fields, f <= op.field PROVE D[f] = Copied[f]
    <2>1. CASE f = op.field
        <3>1. f \in Part(pc)
            BY <1>8, <2>1 DEF Part
        <3> QED
            BY <1>5, <1>8, <2>1, <3>1
    <2>2. CASE f # op.field
        <3>1. f \notin Part(pc) /\ f < op.field
            BY <1>0, <1>8, <2>2, DCDAssumption DEF Fields, Part
        <3> QED
            BY <1>0, <1>8, <3>1 DEF Written
    <2> QED
        BY <2>1, <2>2
<1>9. ASSUME pc = "after", NEW f \in Fields PROVE D[f] = Copied[f]
    <2>1. CASE f <= op.field
        <3>1. f \notin Part(pc)
            BY <1>0, <1>9, <2>1, DCDAssumption DEF Fields, Part
        <3> QED
            BY <1>0, <1>9, <2>1, <3>1 DEF Written
    <2>2. CASE ~(f <= op.field)
        <3>1. f \in Part(pc) /\ f # op.field
            BY <1>0, <1>9, <2>2, DCDAssumption DEF Fields, Part
        <3> QED
            BY <1>5, <1>9, <3>1
    <2> QED
        BY <2>1, <2>2
<1>10. pc = "after" => D = Copied
    <2> SUFFICES ASSUME pc = "after" PROVE D = Copied
        OBVIOUS
    <2>1. Copied = [f \in Fields |-> IF f = op.field THEN op.data ELSE sec[source].data[f]]
        BY <1>0 DEF Copied
    <2>2. \A f \in Fields : D[f] = Copied[f]
        BY <1>9
    <2> QED
        BY <2>1, <2>2
<1> HIDE DEF D
<1>11. Written'
    <2>1. sec'[target'].data = D /\ sec'[target'].seal = "init" /\ sec'[target'].crc = None
        BY <1>2, <1>4, <1>6
    <2> QED
        BY <1>0, <1>4, <1>6, <1>7, <1>8, <1>10, <2>1 DEF Written, Writing
<1> QED
    BY <1>4, <1>11 DEF Inv

LEMMA WriteFooterStep ==
    ASSUME Inv, WriteFooter
    PROVE  Inv' /\ Refines
<1> DEFINE n == [sec[target] EXCEPT !.footer = TRUE, !.counter = NextCounter]
<1>0. /\ TypeOK /\ Flow /\ Written /\ pc = "footer" /\ Goto("crc")
      /\ op.kind = "write" \/ source = None
      /\ target \in Sector /\ sec \in [Sector -> SectorState]
      /\ sec' = [sec EXCEPT ![target] = n]
    BY DEF Inv, WriteFooter, TypeOK, Flow, Written
<1>1. NextCounter \in 0..3
    BY <1>0, CopiedType
<1>2. /\ n \in SectorState /\ n.seal = "init" /\ n.crc = None /\ n.data = Copied
      /\ n.footer /\ n.counter = NextCounter
    BY <1>0, <1>1 DEF SectorState, Written, Writing
<1>3. /\ TypeOK' /\ Flow' /\ Honest' /\ Backup' /\ Refines
      /\ sec'[target] = n /\ NextCounter' = NextCounter /\ Copied' = Copied
    <2>1. pc \in Writing \ {"header"}
        BY <1>0 DEF Writing
    <2> HIDE DEF n
    <2> QED
        BY <1>0, <1>2, <2>1, WritingStep
<1>4. Written'
    <2>1. pc' = "crc" /\ target' = target
        BY <1>0 DEF Goto
    <2> HIDE DEF n
    <2> QED
        BY <1>2, <1>3, <2>1 DEF Written, Writing
<1> QED
    BY <1>3, <1>4 DEF Inv

LEMMA WriteCRCStep ==
    ASSUME Inv, WriteCRC
    PROVE  Inv' /\ Refines
<1> DEFINE n == [sec[target] EXCEPT !.crc = computeCRC(sec[target])]
<1>0. /\ TypeOK /\ Flow /\ Written /\ pc = "crc" /\ Goto("header")
      /\ target \in Sector /\ sec \in [Sector -> SectorState]
      /\ sec' = [sec EXCEPT ![target] = n]
    BY DEF Inv, WriteCRC, TypeOK
<1>1. computeCRC(sec[target]) \in Contents \X (0..3)
    BY <1>0 DEF computeCRC, SectorState
<1>2. /\ n \in SectorState /\ n.seal = "init" /\ n.crc = computeCRC(n) /\ n.data = Copied
      /\ n.footer /\ n.counter = NextCounter
    BY <1>0, <1>1 DEF SectorState, Written, Writing, computeCRC
<1>3. /\ TypeOK' /\ Flow' /\ Honest' /\ Backup' /\ Refines
      /\ sec'[target] = n /\ NextCounter' = NextCounter /\ Copied' = Copied
    <2>1. pc \in Writing \ {"header"}
        BY <1>0 DEF Writing
    <2> HIDE DEF n
    <2> QED
        BY <1>0, <1>2, <2>1, WritingStep
<1>4. Written'
    <2>1. pc' = "header" /\ target' = target
        BY <1>0 DEF Goto
    <2>2. sec'[target'].crc = computeCRC(sec'[target'])
        BY <1>2, <1>3, <2>1
    <2> HIDE DEF n
    <2> QED
        BY <1>2, <1>3, <2>1, <2>2 DEF Written, Writing
<1> QED
    BY <1>3, <1>4 DEF Inv

(* The seal: the target becomes the current sector.                        *)
LEMMA WriteHeaderStep ==
    ASSUME Inv, WriteHeader
    PROVE  Inv' /\ Refines
<1> DEFINE n == [sec[target] EXCEPT !.seal = "valid"]
<1>0. /\ TypeOK /\ Flow /\ Written /\ Honest /\ Backup /\ pc = "header"
      /\ target \in Sector /\ sec \in [Sector -> SectorState] /\ source \in Sector \cup {None}
      /\ sec' = [sec EXCEPT ![target] = n] /\ op.kind \in {"read", "write"}
    BY Ops DEF Inv, WriteHeader, TypeOK, Flow
<1>1. /\ n \in SectorState /\ n.seal = "valid" /\ n.crc = computeCRC(n) /\ n.data = Copied
      /\ n.footer /\ n.counter = NextCounter /\ isCRCValid(n)
    BY <1>0 DEF SectorState, Seals, Written, computeCRC, isCRCValid
<1> HIDE DEF n
<1>2. /\ sec' \in [Sector -> SectorState] /\ sec'[target] = n
      /\ sec'[alternateSectorTo(target)] = sec[alternateSectorTo(target)]
      /\ alternateSectorTo(target) \in Sector /\ alternateSectorTo(target) # target
      /\ alternateSectorTo(alternateSectorTo(target)) = target
    BY <1>0, <1>1, OneSector
<1>3. Honest'
    <2> SUFFICES ASSUME NEW x \in Sector, sec'[x].crc # None
                 PROVE  sec'[x].crc = computeCRC(sec'[x]) \/ sec'[x].data = GarbageData
        BY DEF Honest
    <2>1. CASE x = target
        BY <1>1, <1>2, <2>1
    <2>2. CASE x = alternateSectorTo(target)
        BY <1>0, <1>2, <2>2 DEF Honest
    <2> QED
        BY <1>0, <2>1, <2>2 DEF Sector, alternateSectorTo
<1>4. CASE source = None
    <2>0. /\ target = 1 /\ ~isValid(sec[0]) /\ currentSector(sec) = None /\ before = None
        BY <1>0, <1>4, CurrentSectorType DEF Flow, Backup
    <2>1. currentSector(sec') = 1
        <3>1. ~isValid(sec'[0]) /\ isValid(sec'[1])
            BY <1>1, <1>2, <2>0 DEF isValid, alternateSectorTo
        <3> QED
            BY <1>2, <3>1, CurrentSectorType DEF Sector
    <2>2. CurrentData(sec') = BlankData /\ CurrentData(sec) = None
        BY <1>1, <1>2, <1>4, <2>0, <2>1, DCDAssumption DEF CurrentData, Copied
    <2>3. Initialized(BlankData)
        BY <1>4 DEF WriteHeader
    <2>4. Refines
        <3>1. op' = op /\ result' = result /\ ~Committed' /\ ~Committed
            BY <1>0, <2>3 DEF Initialized, Committed
        <3>2. Register!Format
            <4>1. Committed' = Committed
                BY <3>1 DEF Committed
            <4> QED
                BY <1>0, <2>2, <3>1, <4>1 DEF Register!Format, BlankData
        <3> QED
            BY <3>2 DEF Refines, Register!Next
    <2>5. CASE op.kind = "read"
        <3>0. pc' = "return" /\ UNCHANGED <<op, source, target, result, before>>
            BY <2>3, <2>5 DEF Initialized
        <3>1. TypeOK'
            BY <1>0, <1>2, <3>0 DEF TypeOK
        <3>2. Flow' /\ Written' /\ Backup'
            BY <1>4, <2>0, <2>5, <3>0 DEF Flow, Written, Writing, Backup
        <3> QED
            BY <1>3, <2>4, <3>1, <3>2 DEF Inv
    <2>6. CASE op.kind = "write"
        <3>0. /\ pc' = "erase" /\ source' = 1 /\ target' = 0 /\ before' = BlankData
              /\ op' = op /\ result' = result
            BY <2>3, <2>6 DEF Initialized
        <3>1. TypeOK'
            BY <1>0, <1>2, <3>0, ErasedType DEF TypeOK, Sector
        <3>2. Flow'
            BY <2>1, <2>6, <3>0, DCDAssumption DEF Flow, alternateSectorTo
        <3>3. Written'
            BY <3>0 DEF Written, Writing
        <3>4. Backup'
            <4>1. sec'[1].data = BlankData /\ isValid(sec'[1])
                BY <1>1, <1>2, <1>4, <2>0 DEF Copied, isValid
            <4> QED
                BY <3>0, <4>1, DCDAssumption DEF Backup
        <3> QED
            BY <1>3, <2>4, <3>1, <3>2, <3>3, <3>4 DEF Inv
    <2> QED
        BY <1>0, <2>5, <2>6
<1>5. CASE source # None
    <2>0. /\ pc' = "invalidate" /\ UNCHANGED <<op, source, target, result, before>>
          /\ source \in Sector /\ alternateSectorTo(target) = source /\ target = alternateSectorTo(source)
          /\ op.kind = "write" /\ currentSector(sec) \in {source, None} /\ op.field \in Fields
        BY <1>0, <1>5, Ops DEF WriteHeader, Goto, Flow, Sector, alternateSectorTo
    <2>1. sec'[source] = sec[source]
        BY <1>2, <2>0
    <2>2. isCRCValid(sec'[source]) => n.counter = (sec'[source].counter + 1) % 4
        BY <1>1, <1>5, <2>1 DEF isCRCValid, NextCounter
    <2>3. currentSector(sec') = target
        BY <1>0, <1>1, <1>2, <2>0, <2>2, NewerWins
    <2>4. TypeOK'
        BY <1>0, <1>2, <2>0 DEF TypeOK
    <2>5. Flow'
        BY <1>5, <2>0 DEF Flow
    <2>6. NextCounter' = NextCounter /\ Copied' = Copied
        BY <2>0, <2>1 DEF NextCounter, Copied
    <2>7. Written'
        <3>1. sec'[target'].crc = computeCRC(sec'[target'])
            BY <1>1, <1>2, <2>0
        <3> QED
            BY <1>1, <1>2, <1>5, <2>0, <2>6, <3>1 DEF Written, Writing
    <2>8. Backup'
        BY <1>0, <2>0, <2>1 DEF Backup
    <2>9. Refines
        <3>1. CurrentData(sec') = Copied
            BY <1>0, <1>1, <1>2, <2>3, DCDAssumption DEF CurrentData, Sector
        <3>2. Copied \in Contents
            BY <1>0, <2>0, CopiedType
        <3>3. Copied[op.field] = op.data
            BY <1>5, <2>0 DEF Copied
        <3>4. CurrentData(sec) # None => \A f \in Fields \ {op.field} : Copied[f] = CurrentData(sec)[f]
            <4>1. CurrentData(sec) # None => CurrentData(sec) = sec[source].data
                BY <2>0 DEF CurrentData
            <4> QED
                BY <1>5, <4>1 DEF Copied
        <3>5. ~Committed /\ Committed' /\ op' = op /\ result' = result
            BY <1>0, <2>0 DEF Committed
        <3>6. Register!Commit
            BY <2>0, <3>1, <3>2, <3>3, <3>4, <3>5 DEF Register!Commit, Register!Contents, Contents
        <3> QED
            BY <3>6 DEF Refines, Register!Next
    <2> QED
        BY <1>3, <2>4, <2>5, <2>7, <2>8, <2>9 DEF Inv
<1> QED
    BY <1>4, <1>5

(* The old sector is marked: the target stays current.                     *)
LEMMA InvalidateStep ==
    ASSUME Inv, Invalidate
    PROVE  Inv' /\ Refines
<1> DEFINE n == [sec[source] EXCEPT !.seal = Invalidated(sec[source].seal)]
<1>0. /\ TypeOK /\ Flow /\ Written /\ Honest /\ Backup /\ pc = "invalidate"
      /\ target \in Sector /\ sec \in [Sector -> SectorState] /\ source \in Sector /\ source # None
      /\ sec' = [sec EXCEPT ![source] = n] /\ target = alternateSectorTo(source)
      /\ pc' = "return" /\ UNCHANGED <<op, source, target, result, before>>
      /\ op.kind = "write"
    BY DEF Inv, Invalidate, Goto, TypeOK, Flow, Written
<1>1. /\ n \in SectorState /\ n.crc = sec[source].crc /\ n.data = sec[source].data
      /\ n.footer = sec[source].footer /\ n.counter = sec[source].counter
      /\ isValid(sec[source]) => n.seal = "invalid_v2"
    BY <1>0 DEF SectorState, Seals, Invalidated, isValid
<1> HIDE DEF n
<1>2. /\ sec' \in [Sector -> SectorState] /\ sec'[source] = n /\ sec'[target] = sec[target]
      /\ alternateSectorTo(target) = source /\ target # source
    BY <1>0, <1>1, OneSector
<1>3. sec[target].seal = "valid" /\ isCRCValid(sec[target]) /\ sec[target].counter = NextCounter
    BY <1>0 DEF Written, isCRCValid
<1>4. n.footer => sec[target].counter = (n.counter + 1) % 4
    BY <1>0, <1>1, <1>3 DEF NextCounter
<1>5. currentSector(sec) = target /\ currentSector(sec') = target
    <2>1. isCRCValid(sec[source]) => sec[target].counter = (sec[source].counter + 1) % 4
        BY <1>1, <1>4 DEF isCRCValid
    <2>2. isCRCValid(sec'[source]) => sec'[target].counter = (sec'[source].counter + 1) % 4
        BY <1>2, <1>4 DEF isCRCValid
    <2>3. currentSector(sec) = target
        BY <1>0, <1>3, <2>1, NewerWins
    <2>4. currentSector(sec') = target
        BY <1>0, <1>2, <1>3, <2>2, NewerWins
    <2> QED
        BY <2>3, <2>4
<1>6. TypeOK'
    BY <1>0, <1>2 DEF TypeOK
<1>7. Flow' /\ Written'
    BY <1>0 DEF Flow, Written, Writing
<1>8. Honest'
    <2> SUFFICES ASSUME NEW x \in Sector, sec'[x].crc # None
                 PROVE  sec'[x].crc = computeCRC(sec'[x]) \/ sec'[x].data = GarbageData
        BY DEF Honest
    <2>1. CASE x = target
        BY <1>0, <1>2, <2>1 DEF Honest
    <2>2. CASE x = source
        <3>1. computeCRC(n) = computeCRC(sec[source])
            BY <1>1 DEF computeCRC
        <3> QED
            BY <1>0, <1>1, <1>2, <2>2, <3>1 DEF Honest
    <2> QED
        BY <1>0, <1>2, <2>1, <2>2 DEF Sector
<1>9. Backup'
    <2>1. before # None => before = sec[source].data /\ isValid(sec[source])
        BY <1>0 DEF Backup
    <2>2. before # None => BackedUp(target)'
        BY <1>0, <1>1, <1>2, <1>3, <1>4, <2>1 DEF BackedUp
    <2>3. before' # None => \E x \in Sector : BackedUp(x)'
        BY <1>0, <2>2
    <2> QED
        BY <1>0, <2>3 DEF Backup
<1>10. Refines
    <2>1. CurrentData(sec') = CurrentData(sec)
        BY <1>0, <1>2, <1>5, DataStays
    <2>2. Committed' <=> Committed
        BY <1>0 DEF Committed
    <2> QED
        BY <1>0, <2>1, <2>2, Stutters
<1> QED
    BY <1>6, <1>7, <1>8, <1>9, <1>10 DEF Inv

(* The end of a method.                                                    *)
LEMMA FinishStep ==
    ASSUME Inv, op # NoOp, NEW r \in {"ok", "error", "crash"}, Finish(r),
           sec' \in [Sector -> SectorState], Honest',
           r = "ok" => pc = "return" /\ sec' = sec,
           IF op.kind = "erase" THEN r # "ok" \/ pc = "return" ELSE CurrentData(sec') = CurrentData(sec)
    PROVE  Inv' /\ Refines
<1>0. /\ TypeOK /\ Flow /\ Written /\ Honest /\ Backup
      /\ op' = NoOp /\ pc' = "idle" /\ source' = None /\ target' = 0 /\ result' = r
      /\ before' = (IF r = "ok" THEN before ELSE None) /\ op'.kind = "none" /\ op.kind # "none"
    BY Ops DEF Inv, Finish, NoOp, Op
<1>1. TypeOK'
    BY <1>0, DCDAssumption DEF TypeOK, Sector
<1>2. Flow' /\ Written'
    BY <1>0 DEF Flow, Written, Writing
<1>3. Backup'
    <2>1. CASE r = "ok"
        <3>1. before # None => \E x \in Sector : BackedUp(x)
            BY <1>0, <2>1 DEF Backup
        <3>2. sec' = sec /\ before' = before
            BY <1>0, <2>1
        <3>3. \A x \in Sector : BackedUp(x) => BackedUp(x)'
            BY <3>2 DEF BackedUp
        <3> QED
            BY <1>0, <3>1, <3>2, <3>3 DEF Backup
    <2>2. CASE r # "ok"
        BY <1>0, <2>2 DEF Backup
    <2> QED
        BY <2>1, <2>2
<1>4. Refines
    <2>0. Committed' = FALSE /\ CurrentData(sec') \in Contents \cup {None}
        BY <1>0, DataType DEF Committed
    <2>1. op # Register!NoOp /\ op' = Register!NoOp
        BY <1>0 DEF Register!NoOp, Register!Op, NoOp, Op
    <2>2. CASE r = "ok"
        <3>1. op.kind \in {"write", "erase"} => Committed
            BY <2>2 DEF Committed
        <3>2. Register!Succeed
            BY <1>0, <2>0, <2>1, <2>2, <3>1 DEF Register!Succeed
        <3> QED
            BY <3>2 DEF Refines, Register!Next
    <2>3. CASE r # "ok"
        <3>1. Register!Fail
            BY <1>0, <2>0, <2>1, <2>3 DEF Register!Fail, Register!Contents, Contents
        <3> QED
            BY <3>1 DEF Refines, Register!Next
    <2> QED
        BY <2>2, <2>3
<1> QED
    BY <1>1, <1>2, <1>3, <1>4 DEF Inv

LEMMA ReturnStep ==
    ASSUME Inv, Return
    PROVE  Inv' /\ Refines
<1>1. Finish("ok") /\ sec' = sec /\ pc = "return" /\ op # NoOp
    <2>1. NoOp.kind = "none"
        BY DEF NoOp, Op
    <2> QED
        BY <2>1 DEF Return, Inv, Flow
<1>2. sec' \in [Sector -> SectorState] /\ Honest' /\ CurrentData(sec') = CurrentData(sec)
    BY <1>1 DEF Inv, TypeOK, Honest
<1> QED
    BY <1>1, <1>2, FinishStep

-----------------------------------------------------------------------------
(* Whatever an interrupted flash operation leaves behind, read() returns   *)
(* what it returned before, unless DCD::erase() was interrupted.           *)
LEMMA InterruptedStep ==
    ASSUME Inv, op # NoOp, NEW t \in Interrupted
    PROVE  /\ t \in [Sector -> SectorState]
           /\ \A x \in Sector :
                  t[x].crc # None => t[x].crc = computeCRC(t[x]) \/ t[x].data = GarbageData
           /\ op.kind # "erase" => CurrentData(t) = CurrentData(sec)
           /\ op.kind \in {"read", "write"} /\ source = None /\ pc # "return" => currentSector(t) = None
           /\ InSequence(sec) => InSequence(t)
<1>0. /\ TypeOK /\ Flow /\ Written /\ Honest /\ Backup /\ op.kind \in {"read", "write", "erase"}
      /\ target \in Sector /\ sec \in [Sector -> SectorState] /\ sec[target] \in SectorState
      /\ GarbageData \in Contents /\ source \in Sector \cup {None}
    BY Ops, ErasedType DEF Inv, TypeOK
<1>1. CASE t = sec
    BY <1>0, <1>1 DEF Flow, Honest
<1>2. ASSUME pc \notin {"invalidate", "return"}, NEW n \in SectorState, t = [sec EXCEPT ![target] = n],
             n.crc # None => n.crc = computeCRC(n) \/ n.data = GarbageData,
             \/ ~isValid(n)
             \/ /\ n.seal = sec[target].seal
                /\ n.counter = sec[target].counter
                /\ isCRCValid(n) => isCRCValid(sec[target])
      PROVE  /\ t \in [Sector -> SectorState]
             /\ \A x \in Sector :
                    t[x].crc # None => t[x].crc = computeCRC(t[x]) \/ t[x].data = GarbageData
             /\ op.kind # "erase" => CurrentData(t) = CurrentData(sec)
             /\ op.kind \in {"read", "write"} /\ source = None => currentSector(t) = None
             /\ InSequence(sec) => InSequence(t)
    <2>1. /\ t \in [Sector -> SectorState] /\ t[target] = n
          /\ t[alternateSectorTo(target)] = sec[alternateSectorTo(target)]
        BY <1>0, <1>2, OneSector
    <2>2. ASSUME NEW x \in Sector, t[x].crc # None
          PROVE  t[x].crc = computeCRC(t[x]) \/ t[x].data = GarbageData
        <3>1. CASE x = target
            BY <1>2, <2>1, <2>2, <3>1
        <3>2. CASE x = alternateSectorTo(target)
            BY <1>0, <2>1, <2>2, <3>2 DEF Honest
        <3> QED
            BY <1>0, <3>1, <3>2 DEF Sector, alternateSectorTo
    <2>3. op.kind # "erase" => currentSector(t) = currentSector(sec) /\ CurrentData(t) = CurrentData(sec)
        BY <1>0, <1>2, <2>1, TargetIgnored
    <2>4. op.kind \in {"read", "write"} /\ source = None => currentSector(sec) = None
        BY <1>0, <1>2 DEF Flow
    <2>5. InSequence(sec) => InSequence(t)
        BY <1>0, <1>2, <2>1, SequenceKept
    <2> QED
        BY <1>0, <2>1, <2>2, <2>3, <2>4, <2>5
<1>3. CASE pc = "erase"
    <2>1. PICK x \in {sec[target].seal, "other", "init"}, d \in {sec[target].data, GarbageData} :
              t = [sec EXCEPT ![target] = [sec[target] EXCEPT !.seal = x, !.data = d]]
        BY <1>3 DEF Interrupted
    <2> DEFINE n == [sec[target] EXCEPT !.seal = x, !.data = d]
    <2>2. /\ n \in SectorState /\ n.seal = x /\ n.data = d /\ n.crc = sec[target].crc
          /\ n.counter = sec[target].counter /\ n.footer = sec[target].footer
        BY <1>0, <2>1 DEF SectorState, Seals
    <2>3. t = [sec EXCEPT ![target] = n]
        BY <2>1
    <2> HIDE DEF n
    <2>4. sec[target].crc # None => sec[target].crc = computeCRC(sec[target]) \/ sec[target].data = GarbageData
        BY <1>0 DEF Honest
    <2>5. n.crc # None => n.crc = computeCRC(n) \/ n.data = GarbageData
        <3>1. CASE d = GarbageData
            BY <2>2, <3>1
        <3>2. CASE d = sec[target].data
            BY <2>2, <2>4, <3>2 DEF computeCRC
        <3> QED
            BY <3>1, <3>2
    <2>6. isCRCValid(n) => isCRCValid(sec[target])
        <3>1. CASE d = sec[target].data
            BY <2>2, <3>1 DEF computeCRC, isCRCValid
        <3>2. CASE d = GarbageData
            <4>1. ASSUME isCRCValid(n) PROVE isCRCValid(sec[target])
                <5>1. n.footer /\ n.crc = <<GarbageData, n.counter>>
                    BY <2>2, <3>2, <4>1 DEF isCRCValid, computeCRC
                <5>2. n.crc # None
                    <6>1. n.crc \in Contents \X (0..3)
                        BY <1>0, <2>2, <5>1 DEF SectorState
                    <6> QED
                        BY <6>1, NoneAssumption
                <5> QED
                    BY <2>2, <2>4, <5>1, <5>2 DEF isCRCValid, computeCRC
            <4> QED
                BY <4>1
        <3> QED
            BY <3>1, <3>2
    <2>7. \/ ~isValid(n)
          \/ n.seal = sec[target].seal
        BY <2>1, <2>2 DEF isValid
    <2> QED
        BY <1>2, <1>3, <2>2, <2>3, <2>5, <2>6, <2>7
<1>4. CASE pc \in {"before", "data", "after"} /\ t # sec
    <2> DEFINE D == [f \in Fields |-> IF f \in Part(pc) THEN Garbage ELSE sec[target].data[f]]
               n == [sec[target] EXCEPT !.data = D]
    <2>1. t = [sec EXCEPT ![target] = n]
        BY <1>4 DEF Interrupted
    <2>2. D \in Contents
        BY <1>0 DEF Contents, SectorState
    <2>3. n \in SectorState /\ n.seal = "init" /\ n.crc = None
        BY <1>0, <1>4, <2>2 DEF SectorState, Written, Writing
    <2>4. ~isValid(n)
        BY <2>3 DEF isValid
    <2> HIDE DEF n
    <2> QED
        BY <1>2, <1>4, <2>1, <2>3, <2>4
<1>5. CASE pc = "footer" /\ t # sec
    <2> DEFINE n == [sec[target] EXCEPT !.counter = NextCounter]
    <2>1. t = [sec EXCEPT ![target] = n]
        BY <1>5 DEF Interrupted
    <2>2. NextCounter \in 0..3
        BY <1>0, <1>5, CopiedType DEF Flow
    <2>3. n \in SectorState /\ n.seal = "init" /\ n.crc = None
        BY <1>0, <1>5, <2>2 DEF SectorState, Written, Writing
    <2>4. ~isValid(n)
        BY <2>3 DEF isValid
    <2> HIDE DEF n
    <2> QED
        BY <1>2, <1>5, <2>1, <2>3, <2>4
<1>6. CASE pc = "header" /\ t # sec
    <2> DEFINE n == [sec[target] EXCEPT !.seal = "other"]
    <2>1. t = [sec EXCEPT ![target] = n]
        BY <1>6 DEF Interrupted
    <2>2. n \in SectorState /\ n.seal = "other" /\ n.crc = computeCRC(n)
        BY <1>0, <1>6 DEF SectorState, Seals, Written, Writing, computeCRC
    <2>3. ~isValid(n)
        BY <2>2 DEF isValid
    <2> HIDE DEF n
    <2> QED
        BY <1>2, <1>6, <2>1, <2>2, <2>3
<1>7. CASE pc = "invalidate" /\ t # sec
    <2> DEFINE n == [sec[source] EXCEPT !.seal = "other"]
    <2>0. /\ source # None /\ source \in Sector /\ target = alternateSectorTo(source) /\ op.kind = "write"
        BY <1>0, <1>7 DEF Flow, Written
    <2>1. t = [sec EXCEPT ![source] = n]
        BY <1>7 DEF Interrupted
    <2>2. /\ n \in SectorState /\ n.crc = sec[source].crc /\ n.data = sec[source].data
          /\ n.footer = sec[source].footer /\ n.counter = sec[source].counter
        BY <1>0, <2>0 DEF SectorState, Seals
    <2> HIDE DEF n
    <2>3. /\ t \in [Sector -> SectorState] /\ t[source] = n /\ t[target] = sec[target] /\ target # source
        BY <1>0, <2>0, <2>1, <2>2, OneSector
    <2>4. sec[target].seal = "valid" /\ isCRCValid(sec[target]) /\ sec[target].counter = NextCounter
        BY <1>0, <1>7 DEF Written, isCRCValid
    <2>5. currentSector(sec) = target /\ currentSector(t) = target
        <3>1. isCRCValid(sec[source]) => sec[target].counter = (sec[source].counter + 1) % 4
            BY <2>0, <2>4 DEF isCRCValid, NextCounter
        <3>2. isCRCValid(t[source]) => t[target].counter = (t[source].counter + 1) % 4
            BY <2>0, <2>2, <2>3, <2>4 DEF isCRCValid, NextCounter
        <3>3. currentSector(sec) = target
            BY <1>0, <2>0, <2>4, <3>1, NewerWins
        <3>4. currentSector(t) = target
            BY <1>0, <2>0, <2>3, <2>4, <3>2, NewerWins
        <3> QED
            BY <3>3, <3>4
    <2>6. CurrentData(t) = CurrentData(sec)
        BY <1>0, <2>3, <2>5, DataStays
    <2>7. ASSUME NEW x \in Sector, t[x].crc # None
          PROVE  t[x].crc = computeCRC(t[x]) \/ t[x].data = GarbageData
        <3>1. CASE x = target
            BY <1>0, <2>3, <2>7, <3>1 DEF Honest
        <3>2. CASE x = source
            <4>1. computeCRC(n) = computeCRC(sec[source])
                BY <2>2 DEF computeCRC
            <4> QED
                BY <1>0, <2>0, <2>2, <2>3, <2>7, <3>2, <4>1 DEF Honest
        <3> QED
            BY <1>0, <2>0, <2>3, <3>1, <3>2 DEF Sector
    <2>8. InSequence(t)
        <3>1. isCRCValid(t[source]) => t[target].counter = (t[source].counter + 1) % 4
            BY <2>0, <2>2, <2>3, <2>4 DEF isCRCValid, NextCounter
        <3> QED
            BY <1>0, <2>0, <2>3, <3>1 DEF InSequence, Sector, alternateSectorTo
    <2> QED
        BY <2>0, <2>3, <2>6, <2>7, <2>8
<1> QED
    <2>1. pc \in {"crc", "return", "idle"} => t = sec
        BY DEF Interrupted
    <2> QED
        BY <1>0, <1>1, <1>3, <1>4, <1>5, <1>6, <1>7, <2>1 DEF TypeOK

LEMMA CrashStep ==
    ASSUME Inv, Crash
    PROVE  Inv' /\ Refines
<1>1. op # NoOp /\ sec' \in Interrupted /\ Finish("crash")
    BY DEF Crash
<1>2. PICK t \in Interrupted : t = sec'
    BY <1>1
<1>3. /\ sec' \in [Sector -> SectorState] /\ Honest'
      /\ op.kind # "erase" => CurrentData(sec') = CurrentData(sec)
    BY <1>1, <1>2, InterruptedStep DEF Honest
<1> QED
    BY <1>1, <1>3, FinishStep

LEMMA FlashErrorStep ==
    ASSUME Inv, FlashError
    PROVE  Inv' /\ Refines
<1>0. /\ TypeOK /\ Flow /\ Written /\ Honest /\ Backup
      /\ pc \notin {"idle", "return"} /\ sec' \in Interrupted /\ op # NoOp
      /\ op.kind \in {"read", "write", "erase"}
    <2>1. NoOp.kind = "none"
        BY DEF NoOp, Op
    <2> QED
        BY <2>1, Ops DEF FlashError, Inv, Flow
<1>1. PICK t \in Interrupted : t = sec'
    BY <1>0
<1>2. /\ sec' \in [Sector -> SectorState] /\ Honest'
      /\ op.kind # "erase" => CurrentData(sec') = CurrentData(sec)
      /\ op.kind # "erase" /\ source = None => currentSector(sec') = None
    BY <1>0, <1>1, InterruptedStep DEF Honest
<1>3. CASE ~(source = None /\ op.kind # "erase")
    <2>1. Finish("error")
        BY <1>3 DEF FlashError
    <2> QED
        BY <1>0, <1>2, <2>1, FinishStep
<1>4. CASE source = None /\ op.kind # "erase"
    <2>0. Initialized(None) /\ before = None /\ currentSector(sec') = None
        BY <1>0, <1>2, <1>4 DEF FlashError, Backup
    <2>1. Refines
        <3>1. op' = op /\ result' = result
            BY <2>0 DEF Initialized
        <3>2. Committed' <=> Committed
            BY <1>0, <1>4, <2>0 DEF Initialized, Committed, Flow
        <3> QED
            BY <1>2, <1>4, <3>1, <3>2, Stutters
    <2>2. CASE op.kind = "read"
        <3>0. pc' = "return" /\ UNCHANGED <<op, source, target, result, before>>
            BY <2>0, <2>2 DEF Initialized
        <3>1. TypeOK'
            BY <1>0, <1>2, <3>0 DEF TypeOK
        <3>2. Flow' /\ Written' /\ Backup'
            BY <1>4, <2>0, <2>2, <3>0 DEF Flow, Written, Writing, Backup
        <3> QED
            BY <1>2, <2>1, <3>1, <3>2 DEF Inv
    <2>3. CASE op.kind = "write"
        <3>0. /\ pc' = "erase" /\ source' = 1 /\ target' = 0 /\ before' = None
              /\ op' = op /\ result' = result
            BY <2>0, <2>3 DEF Initialized
        <3>1. TypeOK'
            BY <1>0, <1>2, <3>0 DEF TypeOK, Sector
        <3>2. Flow'
            BY <2>0, <2>3, <3>0, DCDAssumption DEF Flow, alternateSectorTo
        <3>3. Written' /\ Backup'
            BY <3>0 DEF Written, Writing, Backup
        <3> QED
            BY <1>2, <2>1, <3>1, <3>2, <3>3 DEF Inv
    <2> QED
        BY <1>0, <1>4, <2>2, <2>3
<1> QED
    BY <1>3, <1>4

-----------------------------------------------------------------------------
LEMMA InvInit == Init => Inv /\ CountersInSequence /\ Register!Init
<1> SUFFICES ASSUME Init PROVE Inv /\ CountersInSequence /\ Register!Init
    OBVIOUS
<1>0. /\ pc = "idle" /\ op = NoOp /\ source = None /\ target = 0 /\ result = "none"
      /\ before = None /\ op.kind = "none"
    BY DEF Init, NoOp, Op
<1>1. /\ sec \in [Sector -> SectorState]
      /\ \A x \in Sector : sec[x].crc = None
    <2>1. CASE sec = [x \in Sector |-> Erased]
        BY <2>1, ErasedType DEF Erased
    <2>2. CASE sec = [x \in Sector |-> [Erased EXCEPT !.seal = "other", !.data = GarbageData]]
        BY <2>2, ErasedType DEF Erased, SectorState, Seals
    <2>3. ASSUME NEW z \in Sector, sec \in WrittenByV1(z)
          PROVE  /\ sec \in [Sector -> SectorState]
                 /\ \A x \in Sector : sec[x].crc = None
        <3>1. PICK d \in [Fields -> Values], copied \in BOOLEAN :
                  sec = [y \in Sector |-> IF y = z THEN V1Current(d, copied) ELSE V1Cleared]
            BY <2>3 DEF WrittenByV1
        <3>2. d \in Contents
            BY DEF Contents
        <3>3. V1Current(d, copied) \in SectorState /\ V1Current(d, copied).crc = None
            BY <3>2 DEF V1Current, SectorState, Seals
        <3>4. V1Cleared \in SectorState /\ V1Cleared.crc = None
            BY ErasedType DEF V1Cleared, Erased, SectorState, Seals
        <3> QED
            BY <3>1, <3>3, <3>4
    <2> QED
        BY <2>1, <2>2, <2>3 DEF Init, Sector
<1>2. TypeOK
    BY <1>0, <1>1 DEF TypeOK, Sector
<1>3. Flow /\ Written /\ Honest /\ Backup
    BY <1>0, <1>1 DEF Flow, Written, Writing, Honest, Backup
<1>4. CountersInSequence
    <2>1. \A x \in Sector : ~isCRCValid(sec[x])
        <3> SUFFICES ASSUME NEW x \in Sector, sec[x].crc = computeCRC(sec[x]) PROVE FALSE
            BY DEF isCRCValid
        <3>1. computeCRC(sec[x]) \in Contents \X (0..3)
            BY <1>1 DEF computeCRC, SectorState
        <3> QED
            BY <1>1, <3>1, NoneAssumption
    <2> QED
        BY <2>1 DEF CountersInSequence, InSequence, Sector
<1>5. Register!Init
    <2>1. CurrentData(sec) \in Contents \cup {None}
        BY <1>1, DataType
    <2>2. Committed = FALSE
        BY <1>0 DEF Committed
    <2> QED
        BY <1>0, <2>1, <2>2 DEF Register!Init, Register!Contents, Contents, Register!NoOp, Register!Op, NoOp, Op
<1> QED
    BY <1>2, <1>3, <1>4, <1>5 DEF Inv

LEMMA InvStep == Inv /\ [Next]_vars => Inv' /\ Refines
<1> SUFFICES ASSUME Inv, [Next]_vars PROVE Inv' /\ Refines
    OBVIOUS
<1>1. CASE UNCHANGED vars
    <2>1. UNCHANGED <<sec, pc, op, source, target, result, before>>
        BY <1>1 DEF vars
    <2>2. Inv'
        <3>1. TypeOK' /\ Flow' /\ Honest'
            BY <2>1 DEF Inv, TypeOK, Flow, Honest
        <3>2. Written'
            BY <2>1 DEF Inv, Written, NextCounter, Copied
        <3>3. Backup'
            <4>1. \A x \in Sector : BackedUp(x) => BackedUp(x)'
                BY <2>1 DEF BackedUp
            <4> QED
                BY <2>1, <4>1 DEF Inv, Backup
        <3> QED
            BY <3>1, <3>2, <3>3 DEF Inv
    <2>3. Refines
        BY <2>1, Stutters DEF Committed
    <2> QED
        BY <2>2, <2>3
<1> QED
    BY <1>1, ReadStep, WriteStep, EraseStep, EraseSectorStep, WriteDataStep, WriteFooterStep, WriteCRCStep,
       WriteHeaderStep, InvalidateStep, ReturnStep, CrashStep, FlashErrorStep DEF Next

(* Type correctness of the flash and of the locals of dcd.h.               *)
THEOREM TypeCorrect == Spec => []TypeOK
<1>1. Inv => TypeOK
    BY DEF Inv
<1> QED
    BY <1>1, InvInit, InvStep, PTL DEF Spec

(* dcd.h implements an atomic register under power loss and flash errors.  *)
THEOREM DCDIsARegister == Spec => IsARegister
<1>1. Init => Register!Init
    BY InvInit
<1>2. Inv /\ [Next]_vars => [Register!Next]_(Register!vars)
    BY InvStep DEF Refines
<1> QED
    BY <1>1, <1>2, InvInit, InvStep, PTL DEF Spec, IsARegister, Register!Spec

-----------------------------------------------------------------------------
(* A target that is not sealed leaves the counters in sequence.            *)
LEMMA UnsealedSequence ==
    ASSUME Inv, InSequence(sec), NEW n \in SectorState, n.seal = "init", sec' = [sec EXCEPT ![target] = n]
    PROVE  InSequence(sec')
<1>1. sec \in [Sector -> SectorState] /\ target \in Sector
    BY DEF Inv, TypeOK
<1>2. /\ sec' \in [Sector -> SectorState] /\ sec'[target] = n
      /\ sec'[alternateSectorTo(target)] = sec[alternateSectorTo(target)]
    BY <1>1, OneSector
<1>3. ~isValid(sec'[target])
    BY <1>2 DEF isValid
<1>4. PICK t : t = sec'
    OBVIOUS
<1>5. InSequence(t)
    BY <1>1, <1>2, <1>3, <1>4, SequenceKept
<1> QED
    BY <1>4, <1>5

LEMMA SequenceStep == Inv /\ CountersInSequence /\ [Next]_vars => CountersInSequence'
<1> SUFFICES ASSUME Inv, InSequence(sec), [Next]_vars PROVE InSequence(sec')
    BY DEF CountersInSequence
<1>0. /\ TypeOK /\ Flow /\ Written /\ sec \in [Sector -> SectorState] /\ target \in Sector
      /\ sec[target] \in SectorState
    BY DEF Inv, TypeOK
<1>1. CASE sec' = sec
    BY <1>1
<1>2. CASE EraseSector
    <2>1. Erased \in SectorState /\ Erased.seal = "init" /\ sec' = [sec EXCEPT ![target] = Erased]
        BY <1>2, ErasedType DEF EraseSector, Erased
    <2> QED
        BY <2>1, UnsealedSequence
<1>3. CASE WriteData \/ WriteFooter \/ WriteCRC
    <2>1. sec[target].seal = "init"
        BY <1>0, <1>3 DEF WriteData, WriteFooter, WriteCRC, Written, Writing
    <2>2. ~isValid(sec'[target])
        <3>1. CASE WriteData
            BY <1>0, <2>1, <3>1 DEF WriteData, isValid, SectorState
        <3>2. CASE WriteFooter
            BY <1>0, <2>1, <3>2 DEF WriteFooter, isValid, SectorState
        <3>3. CASE WriteCRC
            BY <1>0, <2>1, <3>3 DEF WriteCRC, isValid, SectorState
        <3> QED
            BY <1>3, <3>1, <3>2, <3>3
    <2> QED
        BY <1>0, <2>2 DEF InSequence, Sector
<1>4. CASE WriteHeader \/ Invalidate
    <2>1. CASE WriteHeader /\ source = None
        <3>1. ~isValid(sec[0]) /\ target = 1
            BY <1>0, <2>1, CurrentSectorType, Ops DEF WriteHeader, Flow
        <3>2. sec'[0] = sec[0]
            BY <1>0, <2>1, <3>1 DEF WriteHeader, Sector
        <3> QED
            BY <3>1, <3>2 DEF InSequence
    <2>2. CASE (WriteHeader /\ source # None) \/ Invalidate
        <3>1. /\ source # None /\ source \in Sector /\ target = alternateSectorTo(source)
              /\ sec[target].counter = NextCounter
            BY <1>0, <2>2 DEF WriteHeader, Invalidate, Flow, Written, TypeOK
        <3>2. \A x \in Sector : sec'[x].footer = sec[x].footer /\ sec'[x].counter = sec[x].counter
            BY <1>0, <2>2, <3>1 DEF WriteHeader, Invalidate, SectorState
        <3>3. isCRCValid(sec'[source]) => sec'[target].counter = (sec'[source].counter + 1) % 4
            BY <1>0, <3>1, <3>2 DEF isCRCValid, NextCounter
        <3> QED
            BY <1>0, <3>1, <3>3 DEF InSequence, Sector, alternateSectorTo
    <2> QED
        BY <1>4, <2>1, <2>2
<1>5. CASE Crash \/ FlashError
    <2>1. sec' \in Interrupted /\ op # NoOp
        <3>1. NoOp.kind = "none"
            BY DEF NoOp, Op
        <3> QED
            BY <1>0, <1>5, <3>1 DEF Crash, FlashError, Flow
    <2>2. PICK t \in Interrupted : t = sec'
        BY <2>1
    <2>3. InSequence(t)
        BY <2>1, <2>2, InterruptedStep
    <2> QED
        BY <2>2, <2>3
<1>6. CASE read \/ erase \/ Return \/ UNCHANGED vars \/ \E f \in Fields, d \in Values : write(f, d)
    BY <1>1, <1>6 DEF read, write, erase, Begin, Return, vars
<1> QED
    BY <1>2, <1>3, <1>4, <1>5, <1>6 DEF Next

(* The 2-bit counters of dcd.h always order two sectors that both pass     *)
(* their CRC, through any number of writes and interruptions.              *)
THEOREM CountersOrderSectors == Spec => []CountersInSequence
BY InvInit, InvStep, SequenceStep, PTL DEF Spec

LEMMA BackupUsed == Inv => BackupIsUsed
<1> SUFFICES ASSUME Inv, pc = "idle", before # None, isCRCValid(sec[alternateSectorTo(currentSector(sec))])
             PROVE  LostSectorFallsBack
    BY DEF BackupIsUsed
<1>0. sec \in [Sector -> SectorState] /\ None \notin Sector
    BY DCDAssumption DEF Inv, TypeOK, Sector
<1>1. PICK x \in Sector : BackedUp(x)
    BY DEF Inv, Backup
<1>2. PICK y \in Sector : y = alternateSectorTo(x) /\ x = alternateSectorTo(y) /\ y # x
    BY DEF Sector, alternateSectorTo
<1>3. /\ sec[x].seal = "valid" /\ isCRCValid(sec[x]) /\ sec[y].seal = "invalid_v2" /\ sec[y].data = before
      /\ isCRCValid(sec[y]) => sec[x].counter = (sec[y].counter + 1) % 4
    BY <1>1, <1>2 DEF BackedUp, isCRCValid
<1>4. currentSector(sec) = x
    BY <1>0, <1>2, <1>3, NewerWins
<1>5. isCRCValid(sec[y])
    BY <1>2, <1>4
<1> DEFINE t == [sec EXCEPT ![x].crc = None]
<1>6. /\ t[y] = sec[y] /\ t[x].seal = "valid" /\ t[x].crc = None
      /\ t[x].data = sec[x].data /\ t[x].counter = sec[x].counter
    BY <1>0, <1>2, <1>3 DEF SectorState
<1>7. ~isCRCValid(t[x])
    <2>1. computeCRC(t[x]) \in Contents \X (0..3)
        BY <1>0, <1>6 DEF computeCRC, SectorState
    <2> QED
        BY <1>6, <2>1, NoneAssumption DEF isCRCValid
<1> HIDE DEF t
<1>8. currentSector(t) = y
    <2>0. t[y].seal = "invalid_v2" /\ isCRCValid(t[y])
        BY <1>3, <1>5, <1>6
    <2>1. CASE x = 0 /\ y = 1
        BY <1>0, <1>6, <1>7, <2>0, <2>1 DEF currentSector, findValidSector, evaluateSectors,
            alternateSectorTo, isValid, Sector
    <2>2. CASE x = 1 /\ y = 0
        BY <1>0, <1>6, <1>7, <2>0, <2>2 DEF currentSector, findValidSector, evaluateSectors,
            alternateSectorTo, isValid, Sector
    <2> QED
        BY <1>2, <2>1, <2>2 DEF Sector
<1> USE DEF t
<1> QED
    BY <1>2, <1>3, <1>4, <1>8 DEF LostSectorFallsBack

(* After a successful write of dcd.h the old sector is a usable backup,    *)
(* once it has a CRC at all.                                               *)
THEOREM OldSectorIsBackup == Spec => []BackupIsUsed
BY InvInit, InvStep, BackupUsed, PTL DEF Spec
=============================================================================
