-------------------------- MODULE EEPROMEmulation --------------------------
(***************************************************************************)
(* EEPROMEmulation of services/inc/eeprom_emulation.h: an array of bytes   *)
(* kept as a log of records in one of two flash pages.  put() appends      *)
(* records, last one first; when the page is full or a write fails it      *)
(* copies the latest records to the other page and makes that the active   *)
(* one.                                                                    *)
(*                                                                         *)
(* Every store.write() and store.eraseSector() is a step.  What a method   *)
(* is going to write depends on what the flash holds when it is called, so *)
(* a call turns into the plan of its writes.  At every write power may be  *)
(* lost, which leaves the word half programmed or the page half erased; a  *)
(* word that was left like that is marginal and may fail to verify when it *)
(* is written again, because bits written as 1 become 0.  The status of a  *)
(* record has none to lose: it is valid, with a wrong index or wrong data. *)
(* Taken for granted: a record, which the device programs as one word, is  *)
(* not valid when that was cut short (a store that writes byte by byte can *)
(* leave a valid one with half an index, and put() is then not atomic); a  *)
(* status that is erased in part reads as it was, erased, or as none of    *)
(* the four, and as none of them when it does not verify; and as long as   *)
(* it reads as it was, the next status can be written over it.             *)
(***************************************************************************)
EXTENDS Integers, Sequences, FiniteSets

CONSTANTS
    Capacity,     \* capacity(): the number of bytes
    Slots,        \* the number of records that fit in page 1 and in page 2
    Values,       \* the values of a byte, without 0xFF
    Erased,       \* 0xFF
    Marginal,     \* may the record that makes a put() visible come out wrong?
    MaxLosses     \* bound: number of times power is lost

Page == {1, 2}

ASSUME EEPROMAssumption ==
    /\ Capacity \in Nat \ {0}
    /\ Slots \in [Page -> Nat]
    /\ \A p \in Page : Capacity < Slots[p]
    /\ Erased \notin Values
    /\ Marginal \in BOOLEAN
    /\ MaxLosses \in Nat

Cells == 1..Capacity
Data == Values \cup {Erased}

(* The index of a record that is not valid does not matter: 0.             *)
Record == [kind : {"empty", "valid", "invalid"}, index : 0..Capacity, data : Data]
Empty == [kind |-> "empty", index |-> 0, data |-> Erased]
Invalid == [Empty EXCEPT !.kind = "invalid"]
Valid(c, d) == [kind |-> "valid", index |-> c, data |-> d]

Statuses == {"ERASED", "COPY", "ACTIVE", "INACTIVE", "other"}

(* A flash operation: eraseSector(), or write() of the page's status       *)
(* (slot 0) or of a record.                                                *)
Erase(p) == [kind |-> "erase", page |-> p, slot |-> 0, status |-> "ERASED", record |-> Empty]
WriteStatus(p, s) == [kind |-> "status", page |-> p, slot |-> 0, status |-> s, record |-> Empty]
WriteRecord(p, i, r) == [kind |-> "record", page |-> p, slot |-> i, status |-> "ERASED", record |-> r]

VARIABLES
    page,    \* the two pages in flash; weak: words that may fail to verify
    active,  \* activePage, 0 for NoPage; alternatePage is the other one
    mode,    \* the method that runs: "idle", "put", "swap", "clear", "erase"
    tries,   \* swapPagesAndWrite(): the loop counter
    update,  \* put(): the new values
    plan,    \* the flash operations that are still to be done
    losses   \* number of times power was lost, for the bound

vars == <<page, active, mode, tries, update, plan, losses>>

Other(p) == IF p = 1 THEN 2 ELSE 1

ErasedPage(p) ==
    [status |-> "ERASED", rec |-> [i \in 1..Slots[p] |-> Empty], weak |-> {}]

-----------------------------------------------------------------------------
(* forEachValidRecord(): the records before the first one that is not      *)
(* valid.                                                                  *)
Visible(pg) ==
    {i \in DOMAIN pg.rec : \A j \in 1..i : pg.rec[j].kind = "valid"}

Copies(pg, c) == {i \in Visible(pg) : pg.rec[i].index = c}

(* readRange(), one byte: the last of them counts.                         *)
Read(pg, c) ==
    IF Copies(pg, c) = {} THEN Erased
    ELSE pg.rec[CHOOSE i \in Copies(pg, c) : \A j \in Copies(pg, c) : j <= i].data

(* get() of everything; without an active page there is nothing to read.   *)
Contents(f, a) == [c \in Cells |-> IF a = 0 THEN Erased ELSE Read(f[a], c)]

(* readRangeAndFindEmpty(): the first slot that is not valid, if any.      *)
EmptySlot(pg) == Cardinality(Visible(pg)) + 1
HasInvalidRecords(pg) ==
    EmptySlot(pg) \in DOMAIN pg.rec /\ pg.rec[EmptySlot(pg)].kind = "invalid"

(* updateActivePage().                                                     *)
UpdateActivePage(f) ==
    IF f[1].status = "ACTIVE" THEN 1 ELSE IF f[2].status = "ACTIVE" THEN 2 ELSE 0

VerifyPage(pg) ==
    pg.status = "ERASED" /\ \A i \in DOMAIN pg.rec : pg.rec[i].kind = "empty"

(* The members of a set of numbers in ascending order.                     *)
Ascending(S) ==
    [r \in 1..Cardinality(S) |-> CHOOSE c \in S : Cardinality({d \in S : d <= c}) = r]

Changed(pg, u) == {c \in DOMAIN u : Read(pg, c) # u[c]}

(* writeRangeChanged(): room for n records, and an empty one behind them   *)
(* unless the page ends there.                                             *)
Fits(pg, n) ==
    /\ EmptySlot(pg) + n - 1 \in DOMAIN pg.rec
    /\ EmptySlot(pg) + n \in DOMAIN pg.rec => pg.rec[EmptySlot(pg) + n].kind = "empty"

(* Mutant: the records are written in the order of their slots.            *)
WriteForwards(p, u) ==
    LET pg == page[p]
        cs == Ascending(Changed(pg, u))
    IN  [r \in 1..Len(cs) |-> WriteRecord(p, EmptySlot(pg) + r - 1, Valid(cs[r], u[cs[r]]))]

(* writeRangeChanged(): backwards, from the last slot to the first.        *)
WriteRangeChanged(p, u) ==
    LET pg == page[p]
        cs == Ascending(Changed(pg, u))
    IN  [r \in 1..Len(cs) |->
            WriteRecord(p, EmptySlot(pg) + Len(cs) - r, Valid(cs[r], u[cs[r]]))]

(* copyAllRecordsToPageExcept() and writeRangeDirect(): the latest value   *)
(* of every index that is not replaced, then the new values; none that is  *)
(* 0xFF.                                                                   *)
CopyAndWrite(pg, p, u) ==
    LET old == Ascending({c \in Cells \ DOMAIN u : Read(pg, c) # Erased})
        new == Ascending({c \in DOMAIN u : u[c] # Erased})
        rs == [i \in 1..Len(old) |-> Valid(old[i], Read(pg, old[i]))]
              \o [i \in 1..Len(new) |-> Valid(new[i], u[new[i]])]
    IN  [i \in 1..Len(rs) |-> WriteRecord(Other(p), i, rs[i])]

(* swapPagesAndWrite(), one round of its loop, when page p holds pg.       *)
SwapPagesAndWrite(pg, p, u, erase) ==
    (IF erase THEN <<Erase(Other(p))>> ELSE <<>>)
    \o <<WriteStatus(Other(p), "COPY")>>
    \o CopyAndWrite(pg, p, u)
    \o <<WriteStatus(Other(p), "ACTIVE"), WriteStatus(p, "INACTIVE")>>

ClearPlan == <<Erase(1), Erase(2), WriteStatus(1, "ACTIVE")>>
-----------------------------------------------------------------------------
(* writeRange(): nothing to do unless a value changes; records that cannot *)
(* be appended are written with a page swap.                               *)
Put(u) ==
    LET pg == page[active]
        append == ~HasInvalidRecords(pg) /\ Fits(pg, Cardinality(Changed(pg, u)))
    IN  /\ mode = "idle"
        /\ HasInvalidRecords(pg) \/ Changed(pg, u) # {}
        /\ update' = u
        /\ tries' = 0
        /\ IF append
           THEN mode' = "put" /\ plan' = WriteRangeChanged(active, u)
           ELSE /\ mode' = "swap"
                /\ plan' = SwapPagesAndWrite(pg, active, u, ~VerifyPage(page[Other(active)]))
        /\ UNCHANGED <<page, active, losses>>

Clear ==
    /\ mode = "idle"
    /\ mode' = "clear"
    /\ plan' = ClearPlan
    /\ UNCHANGED <<page, active, tries, update, losses>>

(* performPendingErase().                                                  *)
PerformPendingErase ==
    /\ mode = "idle"
    /\ page[Other(active)].status # "ERASED"
    /\ mode' = "erase"
    /\ plan' = <<Erase(Other(active))>>
    /\ UNCHANGED <<page, active, tries, update, losses>>

-----------------------------------------------------------------------------
(* store.write() and store.eraseSector(): page pg after operation o.       *)
Done(pg, o) ==
    CASE o.kind = "erase" -> ErasedPage(o.page)
      [] o.kind = "status" -> [pg EXCEPT !.status = o.status, !.weak = @ \ {0}]
      [] o.kind = "record" -> [pg EXCEPT !.rec[o.slot] = o.record, !.weak = @ \ {o.slot}]

(* Programming can only clear bits: whether a record that is written over  *)
(* another one verifies depends on the bits of the two.                    *)
Overwrites(pg, o) ==
    /\ o.kind = "record"
    /\ pg.rec[o.slot].kind # "empty"
    /\ pg.rec[o.slot] # o.record

(* What record r can read as when it was programmed and bits of it came    *)
(* out 0: its index is no larger, and data that is not 0xFF stays so.      *)
Misread(r) ==
    {Valid(c, d) : c \in 1..r.index, d \in Values \cup {r.data}} \ {r}

(* page pg after operation o failed to verify; a record may also not be    *)
(* programmed to the end.                                                  *)
Failed(pg, o) ==
    IF o.kind = "status" THEN {[pg EXCEPT !.status = "other"]}
    ELSE {[pg EXCEPT !.rec[o.slot] = r] : r \in Misread(o.record) \cup {Invalid}}

(* What is left of pg when power is lost during operation o.               *)
Torn(pg, o) ==
    CASE o.kind = "erase" ->
             {[status |-> s, rec |-> r,
               weak |-> IF s \in {"ERASED", "other"} THEN 0..Slots[o.page] ELSE 1..Slots[o.page]] :
                 s \in {pg.status, "ERASED", "other"},
                 r \in {pg.rec, ErasedPage(o.page).rec, [i \in DOMAIN pg.rec |-> Invalid]}}
      [] o.kind = "status" -> {pg, [pg EXCEPT !.status = "other"], [pg EXCEPT !.status = o.status]}
      [] o.kind = "record" ->
             {Done(pg, o)}
               \cup {[pg EXCEPT !.rec[o.slot] = r, !.weak = @ \cup {o.slot}] :
                        r \in {pg.rec[o.slot], Invalid}}

(* The method goes on, or returns: updateActivePage() after a swap and     *)
(* after clear().                                                          *)
Continue(f) ==
    IF Tail(plan) # <<>>
    THEN UNCHANGED <<active, mode>>
    ELSE /\ mode' = "idle"
         /\ active' = IF mode \in {"swap", "clear"} THEN UpdateActivePage(f) ELSE active

Flash(o, pg) == page' = [page EXCEPT ![o.page] = pg]

(* The next flash operation succeeds.                                      *)
Write ==
    /\ mode # "idle"
    /\ LET o == Head(plan)
       IN  Flash(o, Done(page[o.page], o))
    /\ plan' = Tail(plan)
    /\ Continue(page')
    /\ UNCHANGED <<tries, update, losses>>

(* It does not verify: put() goes on with a page swap, and a page swap is  *)
(* tried a second time, with the other page erased.                        *)
WriteFails ==
    /\ mode \in {"put", "swap"}
    /\ LET o == Head(plan)
       IN  /\ o.kind # "erase"
           /\ Overwrites(page[o.page], o) \/ o.slot \in page[o.page].weak
           /\ \E pg \in Failed(page[o.page], o) :
                  /\ mode = "put" /\ Visible(pg) # Visible(page[active]) => Marginal
                  /\ Flash(o, pg)
    /\ CASE mode = "put" ->
                /\ mode' = "swap"
                /\ plan' = SwapPagesAndWrite(page'[active], active, update,
                                             ~VerifyPage(page[Other(active)]))
                /\ UNCHANGED tries
         [] mode = "swap" /\ tries = 0 ->
                /\ tries' = 1
                /\ plan' = SwapPagesAndWrite(page'[active], active, update, TRUE)
                /\ UNCHANGED mode
         [] OTHER -> mode' = "idle" /\ plan' = <<>> /\ UNCHANGED tries
    /\ UNCHANGED <<active, update, losses>>

(* Power is lost, during the next flash operation if there is one, and the *)
(* device restarts: init().                                                *)
PowerLoss ==
    /\ losses < MaxLosses
    /\ losses' = losses + 1
    /\ IF mode = "idle" THEN UNCHANGED page
       ELSE LET o == Head(plan)
            IN  \E pg \in Torn(page[o.page], o) : Flash(o, pg)
    /\ active' = UpdateActivePage(page')
    /\ mode' = IF active' = 0 THEN "clear" ELSE "idle"
    /\ plan' = IF active' = 0 THEN ClearPlan ELSE <<>>
    /\ tries' = 0
    /\ update' = <<>>

-----------------------------------------------------------------------------
(* A new device: init() on blank flash.                                    *)
Init ==
    /\ page = [p \in Page |-> ErasedPage(p)]
    /\ active = 0
    /\ mode = "clear"
    /\ plan = ClearPlan
    /\ tries = 0
    /\ update = <<>>
    /\ losses = 0

Next ==
    \/ \E c, d \in Cells : c <= d /\ \E u \in [c..d -> Data] : Put(u)
    \/ Clear
    \/ PerformPendingErase
    \/ Write
    \/ WriteFails
    \/ PowerLoss

Spec == Init /\ [][Next]_vars
-----------------------------------------------------------------------------
(* The pages, and a plan whose records lie within their pages.             *)
TypeOK ==
    /\ DOMAIN page = Page
    /\ \A p \in Page :
           page[p] \in [status : Statuses, rec : [1..Slots[p] -> Record], weak : SUBSET (0..Slots[p])]
    /\ active \in {0, 1, 2}
    /\ mode \in {"idle", "put", "swap", "clear", "erase"}
    /\ tries \in {0, 1}
    /\ \A i \in DOMAIN plan : plan[i].slot \in 0..Slots[plan[i].page]
    /\ (plan = <<>>) = (mode = "idle")
    /\ losses \in 0..MaxLosses

(* The request a method works on, as the promise sees it.                  *)
Request ==
    CASE mode \in {"put", "swap"} -> [kind |-> "put", update |-> update]
      [] mode = "clear" -> [kind |-> "clear", update |-> <<>>]
      [] OTHER -> [kind |-> "idle", update |-> <<>>]

(* eeprom_emulation.h: "either all bytes written will be read back or none *)
(* will be read back, even in the presence of power failure/controller     *)
(* reset", and no put() is dropped: the emulation implements EEPROMStore.  *)
Store == INSTANCE EEPROMStore WITH mem <- Contents(page, active), request <- Request

StoreSpec == Store!Spec
=============================================================================
