----------------------- MODULE EEPROMEmulationProofs -----------------------
(***************************************************************************)
(* The emulation implements the array of bytes of EEPROMStore: a put() is  *)
(* all or nothing whatever power does, and none is dropped.                *)
(*                                                                         *)
(* The invariant says what a plan still has to write and what the flash    *)
(* holds of it already.  An appending put() has filled the slots behind    *)
(* the first free one, which hides them until the last write; a page swap  *)
(* has filled the other page, which its status hides, and its second round *)
(* cannot fail, for the page has just been erased.                         *)
(***************************************************************************)
EXTENDS EEPROMEmulation, FiniteSetTheorems, SequenceTheorems, WellFoundedInduction, TLAPS

(* The states of a page of N records.                                      *)
PageState(N) == [status : Statuses, rec : [1..N -> Record], weak : SUBSET (0..N)]

(* The status of the active page cannot fail to be written over.           *)
PagesOK ==
    /\ DOMAIN page = Page
    /\ \A p \in Page : page[p] \in PageState(Slots[p])
    /\ \A p \in Page : page[p].status = "ACTIVE" => 0 \notin page[p].weak

(* The types of the other variables.                                       *)
VariablesOK ==
    /\ active \in {0, 1, 2}
    /\ mode \in {"idle", "put", "swap", "clear", "erase"}
    /\ tries \in {0, 1}
    /\ losses \in 0..MaxLosses

(* The contents, and the contents that put() is to leave.                  *)
Mem == Contents(page, active)
Goal == Store!With(Mem, update)

(* put() replaces the bytes from c to d.                                   *)
UpdateOK ==
    mode \in {"put", "swap"} => \E c, d \in Cells : update \in [c..d -> Data]

(* The page that is read is the one a restart finds, until the last write  *)
(* of a page swap.                                                         *)
Found == active \in Page /\ page[active].status = "ACTIVE"
Chosen == Found /\ (active = 2 => page[1].status # "ACTIVE")

(* Between two calls.                                                      *)
IdleOK == mode = "idle" => Chosen /\ plan = <<>>

(* performPendingErase() erases the page that is not read.                 *)
EraseOK == mode = "erase" => Chosen /\ plan = <<Erase(Other(active))>>

(* clear() erases one page, then the other, then makes page 1 active.      *)
ClearOK ==
    mode = "clear" =>
        \/ plan = ClearPlan
        \/ plan = <<Erase(2), WriteStatus(1, "ACTIVE")>> /\ page[1] = ErasedPage(1)
        \/ /\ plan = <<WriteStatus(1, "ACTIVE")>>
           /\ page[1] = ErasedPage(1) /\ page[2] = ErasedPage(2)

(* The records of a page end before slot e.                                *)
Free(pg, e) == Visible(pg) = 1..(e - 1)

(* put() appends the n indexes cs from slot e on; the first l of them are  *)
(* left to write, the last first.                                          *)
PutPlan(p, u, cs, e, l) ==
    [j \in 1..l |-> WriteRecord(p, e + l - j, Valid(cs[l + 1 - j], u[cs[l + 1 - j]]))]

(* The records that are written already, and the free ones around them.    *)
Appending(pg, N, u, n, cs, e, l) ==
    /\ e + n - 1 <= N
    /\ Free(pg, e)
    /\ e + n <= N => pg.rec[e + n].kind # "valid"
    /\ \A s \in (l + 1)..n : pg.rec[e + s - 1] = Valid(cs[s], u[cs[s]])
    /\ \A c \in DOMAIN u : Read(pg, c) # u[c] => \E s \in 1..n : cs[s] = c

(* An appending put().                                                     *)
PutOK ==
    mode = "put" =>
        /\ Chosen
        /\ tries = 0
        /\ \E n \in 1..Capacity : \E cs \in [1..n -> DOMAIN update] :
           \E e \in 1..Slots[active] : \E l \in 1..n :
               /\ plan = PutPlan(active, update, cs, e, l)
               /\ Appending(page[active], Slots[active], update, n, cs, e, l)

(* swapPagesAndWrite() copies contents m, whose k indexes are cs; i is the *)
(* next of its operations.                                                 *)
Lists(cs, k, m) ==
    /\ \A j \in 1..k : m[cs[j]] # Erased
    /\ \A c \in Cells : m[c] # Erased => \E j \in 1..k : cs[j] = c

(* Operation number x of a swap, and those from number i on.               *)
SwapOp(p, m, cs, k, x) ==
    IF x = 1 THEN Erase(Other(p))
    ELSE IF x = 2 THEN WriteStatus(Other(p), "COPY")
    ELSE IF x <= k + 2 THEN WriteRecord(Other(p), x - 2, Valid(cs[x - 2], m[cs[x - 2]]))
    ELSE IF x = k + 3 THEN WriteStatus(Other(p), "ACTIVE")
    ELSE WriteStatus(p, "INACTIVE")

SwapPlan(p, m, cs, k, i) == [j \in 1..(k + 5 - i) |-> SwapOp(p, m, cs, k, i + j - 1)]

(* What the other page holds of the copy before operation i.               *)
Copied(pg, m, cs, k, i) ==
    /\ i >= 2 =>
           \A j \in DOMAIN pg.rec :
               IF j <= k /\ j + 2 < i THEN pg.rec[j] = Valid(cs[j], m[cs[j]])
               ELSE pg.rec[j].kind = "empty"
    /\ i >= 3 => 0 \notin pg.weak
    /\ i = k + 4 => pg.status = "ACTIVE"

(* A page swap: in its second round no word of the other page is weak.     *)
SwapOK ==
    mode = "swap" =>
        /\ Found
        /\ \E k \in 0..Capacity : \E cs \in [1..k -> Cells] : \E i \in 1..(k + 4) :
               /\ Lists(cs, k, Goal)
               /\ plan = SwapPlan(active, Goal, cs, k, i)
               /\ Copied(page[Other(active)], Goal, cs, k, i)
               /\ i < k + 4 => Chosen
               /\ tries = 1 /\ i >= 2 => page[Other(active)].weak = {}

(* The inductive invariant.                                                *)
Inv ==
    /\ PagesOK /\ VariablesOK /\ UpdateOK
    /\ IdleOK /\ EraseOK /\ ClearOK /\ PutOK /\ SwapOK
-----------------------------------------------------------------------------
(* A set of numbers that is not empty has a least member.                  *)
LEMMA LeastMember ==
    ASSUME NEW T \in SUBSET Nat, T # {}
    PROVE  \E x \in T : \A y \in T : x <= y
<1>1. PICK x \in T : \A y \in T : ~ (<<y, x>> \in OpToRel(<, Nat))
    BY WFMin, NatLessThanWellFounded
<1>2. \A y \in T : ~ (y < x)
    BY <1>1 DEF OpToRel
<1> QED
    BY <1>2

(* And a greatest one if it is bounded.                                    *)
LEMMA GreatestMember ==
    ASSUME NEW n \in Nat, NEW T \in SUBSET (0..n), T # {}
    PROVE  \E x \in T : \A y \in T : y <= x
<1> DEFINE U == {n - x : x \in T}
<1>1. U \in SUBSET Nat /\ U # {}
    <2>1. \A x \in T : x \in 0..n /\ n - x \in Nat
        OBVIOUS
    <2>2. U \subseteq Nat
        BY <2>1
    <2>3. PICK x \in T : TRUE
        OBVIOUS
    <2>4. n - x \in U
        BY <2>3
    <2> QED
        BY <2>2, <2>4
<1>2. PICK z \in U : \A y \in U : z <= y
    BY <1>1, LeastMember
<1>3. PICK x \in T : z = n - x
    OBVIOUS
<1>4. ASSUME NEW y \in T PROVE y <= x
    <2>1. n - y \in U
        OBVIOUS
    <2>2. z <= n - y
        BY <1>2, <2>1
    <2> QED
        BY <1>3, <2>2
<1> QED
    BY <1>4

(* The records that are read are a prefix of the page.                     *)
LEMMA VisibleIs ==
    ASSUME NEW N \in Nat, NEW pg, DOMAIN pg.rec = 1..N, NEW k \in 0..N,
           \A i \in 1..k : pg.rec[i].kind = "valid",
           k < N => pg.rec[k + 1].kind # "valid"
    PROVE  Visible(pg) = 1..k /\ EmptySlot(pg) = k + 1
<1>1. ASSUME NEW i \in 1..N, \A j \in 1..i : pg.rec[j].kind = "valid"
      PROVE  i <= k
    <2>1. SUFFICES ASSUME i > k PROVE FALSE
        OBVIOUS
    <2>2. k + 1 \in 1..i /\ k < N
        BY <2>1
    <2> QED
        BY <1>1, <2>2
<1>2. Visible(pg) = 1..k
    <2>1. ASSUME NEW i \in Visible(pg) PROVE i \in 1..k
        BY <1>1 DEF Visible
    <2>2. ASSUME NEW i \in 1..k PROVE i \in Visible(pg)
        <3>1. \A j \in 1..i : j \in 1..k
            OBVIOUS
        <3> QED
            BY <3>1 DEF Visible
    <2> QED
        BY <2>1, <2>2
<1>3. Cardinality(1..k) = k
    BY FS_Interval
<1> QED
    BY <1>2, <1>3 DEF EmptySlot

(* There is always a first slot that is not valid, or the page is full.    *)
LEMMA VisibleInterval ==
    ASSUME NEW N \in Nat, NEW pg, DOMAIN pg.rec = 1..N
    PROVE  \E k \in 0..N :
               /\ Visible(pg) = 1..k
               /\ EmptySlot(pg) = k + 1
               /\ \A i \in 1..k : pg.rec[i].kind = "valid"
               /\ k < N => pg.rec[k + 1].kind # "valid"
<1> DEFINE T == {k \in 0..N : k < N => pg.rec[k + 1].kind # "valid"}
<1>1. T \in SUBSET Nat /\ N \in T
    OBVIOUS
<1>2. PICK k \in T : \A y \in T : k <= y
    <2>1. T # {}
        BY <1>1
    <2> HIDE DEF T
    <2> QED
        BY <1>1, <2>1, LeastMember
<1>3. \A i \in 1..k : pg.rec[i].kind = "valid"
    <2>1. SUFFICES ASSUME NEW i \in 1..k, pg.rec[i].kind # "valid" PROVE FALSE
        OBVIOUS
    <2>2. i - 1 \in 0..N /\ (i - 1) + 1 = i
        OBVIOUS
    <2>3. i - 1 \in T
        BY <2>1, <2>2
    <2> QED
        BY <1>2, <2>3
<1>4. k \in 0..N /\ (k < N => pg.rec[k + 1].kind # "valid")
    OBVIOUS
<1> HIDE DEF T
<1>5. Visible(pg) = 1..k /\ EmptySlot(pg) = k + 1
    BY <1>3, <1>4, VisibleIs
<1> QED
    BY <1>3, <1>4, <1>5

(* readRange(): the last copy of an index counts.                          *)
LEMMA ReadIs ==
    ASSUME NEW N \in Nat, NEW pg, DOMAIN pg.rec = 1..N, NEW c,
           NEW i \in Copies(pg, c), \A j \in Copies(pg, c) : j <= i
    PROVE  Read(pg, c) = pg.rec[i].data
<1>1. Copies(pg, c) \subseteq 1..N
    BY DEF Copies, Visible
<1> DEFINE x == CHOOSE x \in Copies(pg, c) : \A j \in Copies(pg, c) : j <= x
<1>2. x \in Copies(pg, c) /\ \A j \in Copies(pg, c) : j <= x
    OBVIOUS
<1>3. x = i
    BY <1>1, <1>2
<1> QED
    BY <1>3 DEF Read

(* An index that has a copy has a last one.                                *)
LEMMA ReadLast ==
    ASSUME NEW N \in Nat, NEW pg, DOMAIN pg.rec = 1..N, NEW c, Copies(pg, c) # {}
    PROVE  \E i \in Copies(pg, c) :
               /\ \A j \in Copies(pg, c) : j <= i
               /\ Read(pg, c) = pg.rec[i].data
<1>1. Copies(pg, c) \in SUBSET (0..N)
    BY DEF Copies, Visible
<1>2. PICK i \in Copies(pg, c) : \A j \in Copies(pg, c) : j <= i
    BY <1>1, GreatestMember
<1> QED
    BY <1>2, ReadIs

(* What is read is a byte.                                                 *)
LEMMA ReadType ==
    ASSUME NEW N \in Nat, NEW pg, pg.rec \in [1..N -> Record], NEW c
    PROVE  Read(pg, c) \in Data
<1>1. CASE Copies(pg, c) = {}
    BY <1>1 DEF Read, Data
<1>2. CASE Copies(pg, c) # {}
    <2>1. PICK i \in Copies(pg, c) : Read(pg, c) = pg.rec[i].data
        BY <1>2, ReadLast
    <2>2. i \in 1..N
        BY DEF Copies, Visible
    <2> QED
        BY <2>1, <2>2 DEF Record
<1> QED
    BY <1>1, <1>2

(* Pages with the same records up to the first free slot read the same.    *)
LEMMA SameRead ==
    ASSUME NEW N \in Nat, NEW pg, NEW new, DOMAIN pg.rec = 1..N, DOMAIN new.rec = 1..N,
           Visible(new) = Visible(pg), \A i \in Visible(pg) : new.rec[i] = pg.rec[i], NEW c
    PROVE  Read(new, c) = Read(pg, c)
<1>1. Copies(new, c) = Copies(pg, c)
    BY DEF Copies
<1>2. CASE Copies(pg, c) = {}
    BY <1>1, <1>2 DEF Read
<1>3. CASE Copies(pg, c) # {}
    <2>1. PICK i \in Copies(pg, c) : (\A j \in Copies(pg, c) : j <= i) /\ Read(pg, c) = pg.rec[i].data
        BY <1>3, ReadLast
    <2>2. Read(new, c) = new.rec[i].data
        BY <1>1, <2>1, ReadIs
    <2>3. i \in Visible(pg)
        BY DEF Copies
    <2> QED
        BY <2>1, <2>2, <2>3
<1> QED
    BY <1>2, <1>3

(* Ascending() lists the members of a finite set of numbers, each once.    *)
LEMMA AscendingLists ==
    ASSUME NEW n \in Nat, NEW S \in SUBSET (1..n)
    PROVE  /\ Cardinality(S) \in 0..n
           /\ S # {} => Cardinality(S) # 0
           /\ Ascending(S) \in [1..Cardinality(S) -> S]
           /\ \A c \in S : \E r \in 1..Cardinality(S) : Ascending(S)[r] = c
<1> DEFINE k == Cardinality(S)
           Below(c) == {d \in S : d <= c}
           rank == [c \in S |-> Cardinality(Below(c))]
<1>1. IsFiniteSet(1..n) /\ Cardinality(1..n) = n
    BY FS_Interval
<1>2. IsFiniteSet(S) /\ k <= n /\ k \in Nat /\ (S # {} => k # 0)
    <2>1. IsFiniteSet(S) /\ k <= n
        BY <1>1, FS_Subset
    <2>2. k \in Nat
        BY <2>1, FS_CardinalityType
    <2> QED
        BY <2>1, <2>2, FS_EmptySet
<1>3. ASSUME NEW c \in S
      PROVE  IsFiniteSet(Below(c)) /\ Cardinality(Below(c)) \in 1..k
    <2>1. Below(c) \in SUBSET S /\ c \in Below(c)
        OBVIOUS
    <2> HIDE DEF Below
    <2>2. IsFiniteSet(Below(c)) /\ Cardinality(Below(c)) <= k
        BY <1>2, <2>1, FS_Subset
    <2>3. Cardinality(Below(c)) \in Nat /\ Cardinality(Below(c)) # 0
        BY <2>1, <2>2, FS_CardinalityType, FS_EmptySet
    <2> QED
        BY <1>2, <2>2, <2>3
<1>4. ASSUME NEW c \in S, NEW d \in S, c < d
      PROVE  Cardinality(Below(c)) # Cardinality(Below(d))
    <2>0. \A x \in S : x \in Int
        OBVIOUS
    <2>1. Below(c) \in SUBSET Below(d) /\ d \in Below(d) /\ d \notin Below(c)
        <3>1. \A x \in S : x <= c => x <= d
            BY <1>4, <2>0
        <3>2. d <= d /\ ~ (d <= c)
            BY <1>4, <2>0
        <3> QED
            BY <3>1, <3>2
    <2>2. IsFiniteSet(Below(d))
        BY <1>3
    <2> HIDE DEF Below
    <2> QED
        BY <2>1, <2>2, FS_Subset
<1>5. ASSUME NEW c \in S, NEW d \in S, rank[c] = rank[d]
      PROVE  c = d
    <2>1. Cardinality(Below(c)) = Cardinality(Below(d))
        BY <1>5
    <2>2. ~ (c < d) /\ ~ (d < c)
        BY <1>4, <2>1
    <2> QED
        BY <2>2
<1>6. rank \in [S -> 1..k]
    BY <1>3
<1>7. ASSUME NEW r \in 1..k PROVE \E c \in S : rank[c] = r
    <2>1. SUFFICES ASSUME \A c \in S : rank[c] # r PROVE FALSE
        OBVIOUS
    <2> DEFINE T == (1..k) \ {r}
    <2>2. IsFiniteSet(1..k) /\ Cardinality(1..k) = k
        BY <1>2, FS_Interval
    <2>3. IsFiniteSet(T) /\ Cardinality(T) = k - 1
        BY <2>2, FS_RemoveElement
    <2> HIDE DEF rank, k
    <2>4. rank \in [S -> T]
        BY <1>6, <2>1
    <2>5. Cardinality(T) < Cardinality(S)
        BY <1>2, <2>3 DEF k
    <2> HIDE DEF T
    <2>6. \E x, y \in S : x # y /\ rank[x] = rank[y]
        BY <1>2, <2>3, <2>4, <2>5, FS_PigeonHole
    <2> QED
        BY <1>5, <2>6
<1>8. ASSUME NEW r \in 1..k PROVE Ascending(S)[r] \in S /\ rank[Ascending(S)[r]] = r
    <2>1. \E c \in S : Cardinality({d \in S : d <= c}) = r
        BY <1>7
    <2>2. Ascending(S)[r] = CHOOSE c \in S : Cardinality({d \in S : d <= c}) = r
        BY DEF Ascending
    <2>3. Ascending(S)[r] \in S /\ Cardinality({d \in S : d <= Ascending(S)[r]}) = r
        BY <2>1, <2>2
    <2> QED
        BY <2>3
<1>9. Ascending(S) \in [1..k -> S]
    <2>1. Ascending(S) = [r \in 1..k |-> Ascending(S)[r]]
        BY DEF Ascending
    <2> QED
        BY <1>8, <2>1
<1>10. ASSUME NEW c \in S PROVE \E r \in 1..k : Ascending(S)[r] = c
    <2>1. rank[c] \in 1..k
        BY <1>6
    <2>2. Ascending(S)[rank[c]] \in S /\ rank[Ascending(S)[rank[c]]] = rank[c]
        BY <1>8, <2>1
    <2>3. Ascending(S)[rank[c]] = c
        BY <1>5, <2>2
    <2> QED
        BY <2>1, <2>3
<1> QED
    BY <1>2, <1>9, <1>10

(* The fields of a record.                                                 *)
LEMMA ValidFields ==
    \A c, d : Valid(c, d).kind = "valid" /\ Valid(c, d).index = c /\ Valid(c, d).data = d
BY DEF Valid

(* The records of a page with r in slot i.                                 *)
SetRec(rec, i, r) == [rec EXCEPT ![i] = r]

(* Only slot i changes.                                                    *)
LEMMA SetRecIs ==
    ASSUME NEW N \in Nat, NEW rec, DOMAIN rec = 1..N, NEW i \in 1..N, NEW r
    PROVE  /\ DOMAIN SetRec(rec, i, r) = 1..N /\ SetRec(rec, i, r)[i] = r
           /\ \A j \in 1..N : j # i => SetRec(rec, i, r)[j] = rec[j]
BY DEF SetRec

(* Types that the provers need not open.                                   *)
UpdateType(u) == \A c \in DOMAIN u : c \in Cells /\ u[c] \in Data
Indexes(cs, n, S) == cs \in [1..n -> S]
DataType(m) == \A c \in Cells : m[c] \in Data

(* The last write of an appending put() makes all its records count.       *)
LastAppended(N, pg, new, u, n, cs, e) ==
    /\ N \in Nat /\ DOMAIN pg.rec = 1..N
    /\ n \in Nat \ {0} /\ Indexes(cs, n, DOMAIN u) /\ e \in 1..N
    /\ Appending(pg, N, u, n, cs, e, 1)
    /\ new.rec = SetRec(pg.rec, e, Valid(cs[1], u[cs[1]]))

(* readRange() after that write: the new values where there are any.       *)
LEMMA ReadAfterAppend ==
    ASSUME NEW N, NEW pg, NEW new, NEW u, NEW n, NEW cs, NEW e,
           LastAppended(N, pg, new, u, n, cs, e), NEW c
    PROVE  Read(new, c) = IF c \in DOMAIN u THEN u[c] ELSE Read(pg, c)
<1> SUFFICES ASSUME N \in Nat, DOMAIN pg.rec = 1..N, n \in Nat \ {0}, Indexes(cs, n, DOMAIN u),
                    e \in 1..N, Appending(pg, N, u, n, cs, e, 1),
                    new.rec = SetRec(pg.rec, e, Valid(cs[1], u[cs[1]]))
             PROVE  Read(new, c) = IF c \in DOMAIN u THEN u[c] ELSE Read(pg, c)
    BY DEF LastAppended
<1>0. /\ DOMAIN new.rec = 1..N /\ new.rec[e] = Valid(cs[1], u[cs[1]])
      /\ \A i \in 1..N : i # e => new.rec[i] = pg.rec[i]
    BY SetRecIs
<1>1. /\ e + n - 1 <= N
      /\ Visible(pg) = 1..(e - 1)
      /\ e + n <= N => pg.rec[e + n].kind # "valid"
      /\ \A s \in 2..n : pg.rec[e + s - 1] = Valid(cs[s], u[cs[s]])
      /\ c \in DOMAIN u => (Read(pg, c) # u[c] => \E s \in 1..n : cs[s] = c)
    BY DEF Appending, Free
<1>2. \A s \in 1..n : new.rec[e + s - 1] = Valid(cs[s], u[cs[s]])
    <2>1. ASSUME NEW s \in 1..n PROVE new.rec[e + s - 1] = Valid(cs[s], u[cs[s]])
        <3>1. CASE s = 1
            BY <1>0, <3>1
        <3>2. CASE s # 1
            <4>1. s \in 2..n /\ e + s - 1 # e /\ e + s - 1 \in 1..N
                BY <1>1, <3>2
            <4> QED
                BY <1>0, <1>1, <4>1
        <3> QED
            BY <3>1, <3>2
    <2> QED
        BY <2>1
<1>3. \A i \in 1..(e - 1) : pg.rec[i].kind = "valid" /\ new.rec[i] = pg.rec[i]
    <2>1. \A i \in 1..(e - 1) : i \in 1..N /\ i # e
        OBVIOUS
    <2>2. \A i \in 1..(e - 1) : i \in Visible(pg) /\ i \in 1..i
        BY <1>1
    <2>3. \A i \in Visible(pg) : \A j \in 1..i : pg.rec[j].kind = "valid"
        BY DEF Visible
    <2> QED
        BY <1>0, <2>1, <2>2, <2>3
<1> DEFINE k == e + n - 1
<1>4. k \in 0..N /\ k + 1 = e + n
    BY <1>1
<1>5. ASSUME NEW i \in e..k PROVE i = e + (i - e + 1) - 1 /\ i - e + 1 \in 1..n
    OBVIOUS
<1>6. \A i \in e..k : new.rec[i] = Valid(cs[i - e + 1], u[cs[i - e + 1]])
    BY <1>2, <1>5
<1>7. \A i \in 1..k : new.rec[i].kind = "valid"
    <2>1. \A i \in 1..k : i \in 1..(e - 1) \/ i \in e..k
        OBVIOUS
    <2> QED
        BY <1>3, <1>6, <2>1, ValidFields
<1>8. k < N => new.rec[k + 1].kind # "valid"
    <2>1. SUFFICES ASSUME k < N PROVE new.rec[k + 1].kind # "valid"
        OBVIOUS
    <2>2. e + n \in 1..N /\ e + n # e /\ e + n <= N
        BY <1>4, <2>1
    <2>3. new.rec[e + n] = pg.rec[e + n]
        BY <1>0, <2>2
    <2>4. new.rec[e + n].kind # "valid"
        BY <1>1, <2>2, <2>3
    <2> QED
        BY <1>4, <2>4
<1> HIDE DEF k
<1>9. Visible(new) = 1..k
    BY <1>0, <1>4, <1>7, <1>8, VisibleIs
<1>10. e - 1 \in Nat /\ e \in Nat /\ k \in Nat /\ e <= k
    BY <1>4 DEF k
<1>11. CASE \E s \in 1..n : cs[s] = c
    <2>1. PICK s \in 1..n : cs[s] = c
        BY <1>11
    <2>2. e + s - 1 \in 1..k /\ new.rec[e + s - 1].index = c
        BY <1>2, <2>1, ValidFields DEF k
    <2>3. e + s - 1 \in Copies(new, c)
        BY <1>9, <2>2 DEF Copies
    <2>4. PICK i \in Copies(new, c) : (\A j \in Copies(new, c) : j <= i) /\ Read(new, c) = new.rec[i].data
        BY <1>0, <2>3, ReadLast
    <2>5. i \in 1..k /\ e + s - 1 <= i /\ new.rec[i].index = c
        BY <1>9, <2>3, <2>4 DEF Copies
    <2>6. i \in e..k
        BY <1>10, <2>5
    <2>7. new.rec[i] = Valid(cs[i - e + 1], u[cs[i - e + 1]])
        BY <1>6, <2>6
    <2>8. c = cs[i - e + 1] /\ new.rec[i].data = u[c]
        BY <2>5, <2>7, ValidFields
    <2>9. c \in DOMAIN u
        BY <2>1 DEF Indexes
    <2> QED
        BY <2>4, <2>8, <2>9
<1>12. CASE ~ \E s \in 1..n : cs[s] = c
    <2>1. \A i \in e..k : new.rec[i].index # c
        BY <1>5, <1>6, <1>12, ValidFields
    <2>2. Copies(new, c) = Copies(pg, c)
        <3>1. \A i \in 1..k : i \in 1..(e - 1) \/ i \in e..k
            BY <1>10
        <3>2. \A i \in 1..(e - 1) : i \in 1..k
            BY <1>10
        <3> QED
            BY <1>1, <1>3, <1>9, <2>1, <3>1, <3>2 DEF Copies
    <2>3. Read(new, c) = Read(pg, c)
        <3>1. CASE Copies(pg, c) = {}
            BY <2>2, <3>1 DEF Read
        <3>2. CASE Copies(pg, c) # {}
            <4>1. PICK i \in Copies(pg, c) : (\A j \in Copies(pg, c) : j <= i) /\ Read(pg, c) = pg.rec[i].data
                BY <3>2, ReadLast
            <4>2. Read(new, c) = new.rec[i].data
                BY <1>0, <2>2, <4>1, ReadIs
            <4>3. i \in 1..(e - 1)
                BY <1>1 DEF Copies
            <4> QED
                BY <1>3, <4>1, <4>2, <4>3
        <3> QED
            BY <3>1, <3>2
    <2> QED
        BY <1>1, <1>12, <2>3
<1> QED
    BY <1>11, <1>12

(* A page that holds the records of contents m reads as m.                 *)
LEMMA ReadAfterCopy ==
    ASSUME NEW N \in Nat, NEW pg, DOMAIN pg.rec = 1..N, NEW k \in Nat, k <= N,
           NEW cs \in [1..k -> Cells], NEW m, Lists(cs, k, m),
           \A j \in 1..N : IF j <= k THEN pg.rec[j] = Valid(cs[j], m[cs[j]])
                           ELSE pg.rec[j].kind = "empty",
           NEW c \in Cells
    PROVE  Read(pg, c) = m[c]
<1>1. Visible(pg) = 1..k
    <2>1. \A i \in 1..k : i \in 1..N /\ i <= k
        OBVIOUS
    <2>2. \A i \in 1..k : pg.rec[i].kind = "valid"
        BY <2>1, ValidFields
    <2>3. k < N => pg.rec[k + 1].kind # "valid"
        <3>1. SUFFICES ASSUME k < N PROVE pg.rec[k + 1].kind # "valid"
            OBVIOUS
        <3>2. k + 1 \in 1..N /\ ~ (k + 1 <= k)
            BY <3>1
        <3> QED
            BY <3>2
    <2> QED
        BY <2>2, <2>3, VisibleIs
<1>2. \A j \in 1..k : pg.rec[j] = Valid(cs[j], m[cs[j]])
    <2>1. \A i \in 1..k : i \in 1..N /\ i <= k
        OBVIOUS
    <2> QED
        BY <2>1
<1>3. CASE m[c] = Erased
    <2>1. \A j \in 1..k : pg.rec[j].index # c
        BY <1>2, <1>3, ValidFields DEF Lists
    <2>2. Copies(pg, c) = {}
        BY <1>1, <2>1 DEF Copies
    <2> QED
        BY <1>3, <2>2 DEF Read
<1>4. CASE m[c] # Erased
    <2>1. PICK j \in 1..k : cs[j] = c
        BY <1>4 DEF Lists
    <2>2. j \in Copies(pg, c)
        BY <1>1, <1>2, <2>1, ValidFields DEF Copies
    <2>3. PICK i \in Copies(pg, c) : Read(pg, c) = pg.rec[i].data
        BY <2>2, ReadLast
    <2>4. i \in 1..k /\ pg.rec[i].index = c
        BY <1>1 DEF Copies
    <2> QED
        BY <1>2, <2>3, <2>4, ValidFields
<1> QED
    BY <1>3, <1>4

-----------------------------------------------------------------------------
(* Sequences that are given as functions.                                  *)
LEMMA HeadTail ==
    ASSUME NEW S, NEW s \in Seq(S), NEW n \in Nat \ {0}, Len(s) = n
    PROVE  /\ s # <<>> /\ Head(s) = s[1]
           /\ Tail(s) \in [1..(n - 1) -> S]
           /\ \A j \in 1..(n - 1) : Tail(s)[j] = s[j + 1]
           /\ Tail(s) = <<>> <=> n = 1
<1>2. s # <<>>
    BY EmptySeq
<1>3. Head(s) = s[1] /\ Tail(s) \in Seq(S) /\ Len(Tail(s)) = n - 1
      /\ \A j \in 1..(n - 1) : Tail(s)[j] = s[j + 1]
    BY <1>2, HeadTailProperties
<1>4. Tail(s) \in [1..(n - 1) -> S]
    BY <1>3, LenProperties
<1>5. Tail(s) = <<>> <=> n = 1
    <2>1. CASE Tail(s) = <<>>
        <3>1. Len(<<>>) = 0
            BY EmptySeq
        <3> QED
            BY <1>3, <2>1, <3>1
    <2>2. CASE Tail(s) # <<>>
        <3>1. Len(Tail(s)) # 0
            BY <1>3, <2>2, EmptySeq
        <3> QED
            BY <1>3, <2>2, <3>1
    <2> QED
        BY <2>1, <2>2
<1> QED
    BY <1>2, <1>3, <1>4, <1>5

(* The flash operations.                                                   *)
Operation ==
    [kind : {"erase", "status", "record"}, page : Page, slot : Nat, status : Statuses, record : Record]

(* The record of a byte.                                                   *)
LEMMA ValidType ==
    ASSUME NEW c \in Cells, NEW d \in Data
    PROVE  Valid(c, d) \in Record
BY EEPROMAssumption DEF Valid, Record, Cells

(* The records that hold no byte.                                          *)
LEMMA EmptyType == Empty \in Record /\ Invalid \in Record /\ Empty.kind = "empty" /\ Invalid.kind = "invalid"
BY EEPROMAssumption DEF Empty, Invalid, Record, Data

(* The fields of eraseSector().                                            *)
LEMMA EraseOperation ==
    ASSUME NEW p
    PROVE  /\ Erase(p).kind = "erase" /\ Erase(p).page = p /\ Erase(p).slot = 0
           /\ p \in Page => Erase(p) \in Operation
BY EmptyType DEF Erase, Operation, Statuses

(* The fields of a write of a status.                                      *)
LEMMA StatusOperation ==
    ASSUME NEW p, NEW s
    PROVE  /\ WriteStatus(p, s).kind = "status" /\ WriteStatus(p, s).page = p
           /\ WriteStatus(p, s).slot = 0 /\ WriteStatus(p, s).status = s
           /\ p \in Page /\ s \in Statuses => WriteStatus(p, s) \in Operation
BY EmptyType DEF WriteStatus, Operation

(* The fields of a write of a record.                                      *)
LEMMA RecordOperation ==
    ASSUME NEW p, NEW i, NEW r
    PROVE  /\ WriteRecord(p, i, r).kind = "record" /\ WriteRecord(p, i, r).page = p
           /\ WriteRecord(p, i, r).slot = i /\ WriteRecord(p, i, r).record = r
           /\ p \in Page /\ i \in Nat /\ r \in Record => WriteRecord(p, i, r) \in Operation
BY DEF WriteRecord, Operation, Statuses

(* alternatePage.                                                          *)
LEMMA OtherPage ==
    ASSUME NEW p \in Page
    PROVE  Other(p) \in Page /\ Other(p) # p /\ Other(Other(p)) = p /\ Page = {p, Other(p)}
BY DEF Other, Page

(* What an operation leaves of a page.                                     *)
LEMMA ErasedPageIs ==
    ASSUME NEW p \in Page
    PROVE  /\ ErasedPage(p) \in PageState(Slots[p])
           /\ ErasedPage(p).status = "ERASED" /\ ErasedPage(p).weak = {}
           /\ \A i \in 1..Slots[p] : ErasedPage(p).rec[i].kind = "empty"
BY EmptyType DEF ErasedPage, PageState, Statuses

(* eraseSector() succeeds.                                                 *)
LEMMA EraseDone ==
    ASSUME NEW pg, NEW o, o.kind = "erase"
    PROVE  Done(pg, o) = ErasedPage(o.page)
BY DEF Done

(* A status is written: its word is no longer weak.                        *)
LEMMA StatusDone ==
    ASSUME NEW N \in Nat, NEW pg \in PageState(N), NEW o, o.kind = "status", o.status \in Statuses
    PROVE  /\ Done(pg, o) \in PageState(N) /\ Done(pg, o).status = o.status
           /\ Done(pg, o).rec = pg.rec /\ 0 \notin Done(pg, o).weak
           /\ pg.weak = {} => Done(pg, o).weak = {}
<1>1. Done(pg, o) = [pg EXCEPT !.status = o.status, !.weak = @ \ {0}]
    BY DEF Done
<1> QED
    BY <1>1 DEF PageState

(* A page with another record in slot i.                                   *)
WordSet(N) == SUBSET (0..N)

Replace(pg, i, r, w) == [pg EXCEPT !.rec[i] = r, !.weak = w]

(* The type and the fields of that page.                                   *)
LEMMA Replaced ==
    ASSUME NEW N \in Nat, NEW pg \in PageState(N), NEW i \in 1..N, NEW r \in Record,
           NEW w \in WordSet(N)
    PROVE  /\ Replace(pg, i, r, w) \in PageState(N) /\ Replace(pg, i, r, w).status = pg.status
           /\ Replace(pg, i, r, w).rec = SetRec(pg.rec, i, r) /\ Replace(pg, i, r, w).weak = w
<1> DEFINE new == Replace(pg, i, r, w)
<1>0. new = [pg EXCEPT !.rec[i] = r, !.weak = w]
    BY DEF Replace
<1> HIDE DEF new
<1>1. pg.rec \in [1..N -> Record] /\ pg.status \in Statuses
    BY DEF PageState
<1>2. new.status = pg.status /\ new.rec = SetRec(pg.rec, i, r) /\ new.weak = w
    BY <1>0 DEF PageState, SetRec
<1>3. new \in PageState(N)
    BY <1>0, <1>1 DEF PageState, WordSet
<1> QED
    BY <1>2, <1>3 DEF new

(* A record is written.                                                    *)
LEMMA RecordDone ==
    ASSUME NEW N \in Nat, NEW pg \in PageState(N), NEW i \in 1..N, NEW r \in Record,
           NEW o, o.kind = "record", o.slot = i, o.record = r
    PROVE  /\ Done(pg, o) \in PageState(N) /\ Done(pg, o).status = pg.status
           /\ Done(pg, o).rec = SetRec(pg.rec, i, r)
           /\ 0 \notin pg.weak => 0 \notin Done(pg, o).weak
           /\ pg.weak = {} => Done(pg, o).weak = {}
<1> DEFINE w == pg.weak \ {i}
           new == Done(pg, o)
<1>1. new = Replace(pg, i, r, w)
    BY DEF Done, PageState, Replace
<1>2. w \in WordSet(N)
    BY DEF PageState, WordSet
<1>3. (0 \notin pg.weak => 0 \notin w) /\ (pg.weak = {} => w = {})
    OBVIOUS
<1> HIDE DEF w, new
<1>4. /\ new \in PageState(N) /\ new.status = pg.status
      /\ new.rec = SetRec(pg.rec, i, r) /\ new.weak = w
    BY <1>1, <1>2, Replaced
<1>5. /\ new \in PageState(N) /\ new.status = pg.status /\ new.rec = SetRec(pg.rec, i, r)
      /\ (0 \notin pg.weak => 0 \notin new.weak) /\ (pg.weak = {} => new.weak = {})
    BY <1>3, <1>4
<1> QED
    BY <1>5 DEF new

(* Power is lost while a status is written.                                *)
LEMMA StatusTorn ==
    ASSUME NEW N \in Nat, NEW pg \in PageState(N), NEW o, o.kind = "status", o.status \in Statuses,
           NEW new \in Torn(pg, o)
    PROVE  /\ new \in PageState(N) /\ new.rec = pg.rec /\ new.weak = pg.weak
           /\ new.status \in {pg.status, "other", o.status}
<1>1. new \in {pg, [pg EXCEPT !.status = "other"], [pg EXCEPT !.status = o.status]}
    BY DEF Torn
<1> QED
    BY <1>1 DEF PageState, Statuses

(* Power is lost while a record is written.                                *)
LEMMA RecordTorn ==
    ASSUME NEW N \in Nat, NEW pg \in PageState(N), NEW i \in 1..N, NEW r \in Record,
           NEW o, o.kind = "record", o.slot = i, o.record = r, NEW new \in Torn(pg, o)
    PROVE  /\ new \in PageState(N) /\ new.status = pg.status
           /\ \E q \in {r, pg.rec[i], Invalid} : new.rec = SetRec(pg.rec, i, q)
           /\ 0 \notin pg.weak => 0 \notin new.weak
<1>0. pg.rec \in [1..N -> Record] /\ pg.weak \in SUBSET (0..N)
    BY DEF PageState
<1>1. CASE new = Done(pg, o)
    <2>1. /\ new \in PageState(N) /\ new.status = pg.status /\ new.rec = SetRec(pg.rec, i, r)
          /\ 0 \notin pg.weak => 0 \notin new.weak
          /\ pg.weak = {} => new.weak = {}
        BY <1>1, RecordDone
    <2> QED
        BY <2>1
<1>2. ASSUME NEW q \in {pg.rec[i], Invalid},
             new = [pg EXCEPT !.rec[i] = q, !.weak = @ \cup {i}]
      PROVE  /\ new \in PageState(N) /\ new.status = pg.status
             /\ \E z \in {r, pg.rec[i], Invalid} : new.rec = SetRec(pg.rec, i, z)
             /\ 0 \notin pg.weak => 0 \notin new.weak
    <2> DEFINE w == pg.weak \cup {i}
    <2>1. q \in Record
        BY <1>0, EmptyType
    <2>2. w \in WordSet(N) /\ (0 \notin pg.weak => 0 \notin w)
        BY <1>0 DEF WordSet
    <2>3. new = Replace(pg, i, q, w)
        BY <1>2 DEF PageState, Replace
    <2> HIDE DEF w
    <2>4. /\ new \in PageState(N) /\ new.status = pg.status
          /\ new.rec = SetRec(pg.rec, i, q) /\ new.weak = w
        BY <2>1, <2>2, <2>3, Replaced
    <2> QED
        BY <2>2, <2>4
<1>3. Torn(pg, o) =
          {Done(pg, o)} \cup {[pg EXCEPT !.rec[i] = q, !.weak = @ \cup {i}] : q \in {pg.rec[i], Invalid}}
    BY DEF Torn
<1> QED
    BY <1>1, <1>2, <1>3

(* Power is lost during eraseSector().                                     *)
LEMMA EraseTorn ==
    ASSUME NEW p \in Page, NEW pg, pg \in PageState(Slots[p]), NEW o, o.kind = "erase", o.page = p,
           NEW new \in Torn(pg, o)
    PROVE  /\ new \in PageState(Slots[p]) /\ new.status \in {pg.status, "ERASED", "other"}
           /\ new.status = "ACTIVE" => 0 \notin new.weak
<1> DEFINE W(s) == IF s \in {"ERASED", "other"} THEN 0..Slots[p] ELSE 1..Slots[p]
<1>0. Slots[p] \in Nat
    BY EEPROMAssumption
<1>1. PICK s \in {pg.status, "ERASED", "other"},
           r \in {pg.rec, ErasedPage(p).rec, [i \in DOMAIN pg.rec |-> Invalid]} :
               new = [status |-> s, rec |-> r, weak |-> W(s)]
    BY DEF Torn
<1>2. pg.rec \in [1..Slots[p] -> Record] /\ pg.status \in Statuses
    BY DEF PageState
<1>3. r \in [1..Slots[p] -> Record]
    BY <1>1, <1>2, EmptyType DEF ErasedPage
<1>4. s \in Statuses
    BY <1>1, <1>2 DEF Statuses
<1>5. W(s) \in SUBSET (0..Slots[p]) /\ (s = "ACTIVE" => 0 \notin W(s))
    BY <1>0
<1> HIDE DEF W
<1> QED
    BY <1>1, <1>3, <1>4, <1>5 DEF PageState

(* A status does not verify.                                               *)
LEMMA StatusFailed ==
    ASSUME NEW N \in Nat, NEW pg \in PageState(N), NEW o, o.kind = "status", NEW new \in Failed(pg, o)
    PROVE  /\ new \in PageState(N) /\ new.status = "other"
           /\ new.rec = pg.rec /\ new.weak = pg.weak
<1>1. new = [pg EXCEPT !.status = "other"]
    BY DEF Failed
<1> QED
    BY <1>1 DEF PageState, Statuses

(* A record that does not verify is still one.                             *)
LEMMA MisreadType ==
    ASSUME NEW r \in Record, NEW q \in Misread(r) \cup {Invalid}
    PROVE  q \in Record
<1>1. CASE q = Invalid
    BY <1>1, EmptyType
<1>2. CASE q \in Misread(r)
    <2>1. PICK c \in 1..r.index, d \in Values \cup {r.data} : q = Valid(c, d)
        BY <1>2 DEF Misread
    <2>2. r.index \in 0..Capacity /\ r.data \in Data /\ Capacity \in Nat
        BY EEPROMAssumption DEF Record
    <2>3. c \in Cells
        BY <2>1, <2>2 DEF Cells
    <2>4. d \in Data
        BY <2>1, <2>2 DEF Data
    <2> QED
        BY <2>1, <2>3, <2>4, ValidType
<1> QED
    BY <1>1, <1>2

(* A record does not verify.                                               *)
LEMMA RecordFailed ==
    ASSUME NEW N \in Nat, NEW pg \in PageState(N), NEW i \in 1..N,
           NEW o, o.kind = "record", o.slot = i, o.record \in Record, NEW new \in Failed(pg, o)
    PROVE  /\ new \in PageState(N) /\ new.status = pg.status /\ new.weak = pg.weak
           /\ \E q \in Record : new.rec = SetRec(pg.rec, i, q)
<1> DEFINE w == pg.weak
<1>1. PICK q \in Misread(o.record) \cup {Invalid} : new = [pg EXCEPT !.rec[i] = q]
    BY DEF Failed
<1>2. q \in Record
    BY MisreadType
<1>3. new = Replace(pg, i, q, w)
    BY <1>1 DEF PageState, Replace
<1>4. w \in WordSet(N)
    BY DEF PageState, WordSet
<1> HIDE DEF w
<1>5. /\ new \in PageState(N) /\ new.status = pg.status
      /\ new.rec = SetRec(pg.rec, i, q) /\ new.weak = w
    BY <1>2, <1>3, <1>4, Replaced
<1> QED
    BY <1>2, <1>5 DEF w

-----------------------------------------------------------------------------
(* The next operation of a plan, and the rest of it.                       *)
Rest(s) == Tail(s)

(* The arguments of an appending put() with l of its n records to write.   *)
PutArgs(p, u, n, cs, e, l) ==
    /\ p \in Page /\ UpdateType(u)
    /\ n \in Nat /\ Indexes(cs, n, DOMAIN u)
    /\ e \in Nat \ {0} /\ l \in 1..n

(* It writes the last of them and has one record less to write.            *)
PutPlanGoesOn(p, u, cs, e, l) ==
    /\ PutPlan(p, u, cs, e, l) # <<>>
    /\ Head(PutPlan(p, u, cs, e, l)) = WriteRecord(p, e + l - 1, Valid(cs[l], u[cs[l]]))
    /\ Rest(PutPlan(p, u, cs, e, l)) = PutPlan(p, u, cs, e, l - 1)
    /\ Rest(PutPlan(p, u, cs, e, l)) = <<>> <=> l = 1

(* An appending put() has one record less to write.                        *)
LEMMA PutPlanNext ==
    ASSUME NEW p, NEW u, NEW n, NEW cs, NEW e, NEW l, PutArgs(p, u, n, cs, e, l)
    PROVE  PutPlanGoesOn(p, u, cs, e, l)
<1> USE DEF PutArgs
<1> DEFINE s == PutPlan(p, u, cs, e, l)
           t == PutPlan(p, u, cs, e, l - 1)
<1>1. ASSUME NEW j \in 1..l
      PROVE  WriteRecord(p, e + l - j, Valid(cs[l + 1 - j], u[cs[l + 1 - j]])) \in Operation
    <2>1. l + 1 - j \in 1..n /\ e + l - j \in Nat
        OBVIOUS
    <2>2. cs[l + 1 - j] \in DOMAIN u
        BY <2>1 DEF Indexes
    <2>3. Valid(cs[l + 1 - j], u[cs[l + 1 - j]]) \in Record
        BY <2>2, ValidType DEF UpdateType
    <2> QED
        BY <2>1, <2>3, RecordOperation
<1>2. s \in [1..l -> Operation]
    BY <1>1 DEF PutPlan
<1>3. s[1] = WriteRecord(p, e + l - 1, Valid(cs[l], u[cs[l]]))
    <2>1. 1 \in 1..l /\ l + 1 - 1 = l
        OBVIOUS
    <2> QED
        BY <2>1 DEF PutPlan
<1>4. \A j \in 1..(l - 1) : s[j + 1] = t[j]
    <2>1. ASSUME NEW j \in 1..(l - 1) PROVE s[j + 1] = t[j]
        <3>1. j + 1 \in 1..l /\ e + l - (j + 1) = e + (l - 1) - j /\ l + 1 - (j + 1) = (l - 1) + 1 - j
            OBVIOUS
        <3> QED
            BY <3>1 DEF PutPlan
    <2> QED
        BY <2>1
<1>5. t = [j \in 1..(l - 1) |-> t[j]]
    BY DEF PutPlan
<1>6. l \in Nat \ {0}
    OBVIOUS
<1> HIDE DEF s, t
<1>7. /\ s # <<>> /\ Head(s) = s[1]
      /\ Tail(s) \in [1..(l - 1) -> Operation]
      /\ \A j \in 1..(l - 1) : Tail(s)[j] = s[j + 1]
      /\ Tail(s) = <<>> <=> l = 1
    <2>1. s \in Seq(Operation) /\ Len(s) = l
        BY <1>2, <1>6, LenProperties, SeqDef
    <2> QED
        BY <1>6, <2>1, HeadTail
<1>8. Tail(s) = t
    BY <1>4, <1>5, <1>7
<1> QED
    BY <1>3, <1>7, <1>8 DEF s, t, Rest, PutPlanGoesOn

(* The operations of a swap are flash operations.                          *)
LEMMA SwapOpType ==
    ASSUME NEW p \in Page, NEW m, \A c \in Cells : m[c] \in Data, NEW k \in Nat,
           NEW cs \in [1..k -> Cells], NEW x \in 1..(k + 4)
    PROVE  SwapOp(p, m, cs, k, x) \in Operation
<1>1. CASE x = 1
    BY <1>1, EraseOperation, OtherPage DEF SwapOp
<1>2. CASE x = 2
    BY <1>2, StatusOperation, OtherPage DEF SwapOp, Statuses
<1>3. CASE x \in 3..(k + 2)
    <2>1. x - 2 \in 1..k /\ x - 2 \in Nat
        BY <1>3
    <2>2. Valid(cs[x - 2], m[cs[x - 2]]) \in Record
        BY <2>1, ValidType
    <2>3. WriteRecord(Other(p), x - 2, Valid(cs[x - 2], m[cs[x - 2]])) \in Operation
        BY <2>1, <2>2, RecordOperation, OtherPage
    <2> QED
        BY <1>3, <2>3 DEF SwapOp
<1>4. CASE x = k + 3
    BY <1>4, StatusOperation, OtherPage DEF SwapOp, Statuses
<1>5. CASE x = k + 4
    BY <1>5, StatusOperation, OtherPage DEF SwapOp, Statuses
<1> QED
    BY <1>1, <1>2, <1>3, <1>4, <1>5

(* A swap goes on to its next operation.                                   *)
LEMMA SwapPlanNext ==
    ASSUME NEW p \in Page, NEW m, \A c \in Cells : m[c] \in Data, NEW k \in Nat,
           NEW cs \in [1..k -> Cells], NEW i \in 1..(k + 4)
    PROVE  /\ SwapPlan(p, m, cs, k, i) # <<>>
           /\ Head(SwapPlan(p, m, cs, k, i)) = SwapOp(p, m, cs, k, i)
           /\ Rest(SwapPlan(p, m, cs, k, i)) = SwapPlan(p, m, cs, k, i + 1)
           /\ Rest(SwapPlan(p, m, cs, k, i)) = <<>> <=> i = k + 4
<1> DEFINE l == k + 5 - i
           s == SwapPlan(p, m, cs, k, i)
           t == SwapPlan(p, m, cs, k, i + 1)
<1>1. l \in Nat \ {0} /\ (l = 1 <=> i = k + 4)
    OBVIOUS
<1>2. s \in [1..l -> Operation]
    <2>1. \A j \in 1..l : SwapOp(p, m, cs, k, i + j - 1) \in Operation
        <3>1. \A j \in 1..l : i + j - 1 \in 1..(k + 4)
            OBVIOUS
        <3> QED
            BY <3>1, SwapOpType
    <2> QED
        BY <2>1 DEF SwapPlan
<1>3. s[1] = SwapOp(p, m, cs, k, i)
    <2>1. 1 \in 1..l /\ i + 1 - 1 = i
        OBVIOUS
    <2> QED
        BY <2>1 DEF SwapPlan
<1>4. \A j \in 1..(l - 1) : s[j + 1] = t[j]
    <2>1. ASSUME NEW j \in 1..(l - 1) PROVE s[j + 1] = t[j]
        <3>1. j + 1 \in 1..l /\ j \in 1..(k + 5 - (i + 1)) /\ i + (j + 1) - 1 = (i + 1) + j - 1
            OBVIOUS
        <3> QED
            BY <3>1 DEF SwapPlan
    <2> QED
        BY <2>1
<1>5. t = [j \in 1..(l - 1) |-> t[j]]
    <2>1. l - 1 = k + 5 - (i + 1)
        OBVIOUS
    <2> QED
        BY <2>1 DEF SwapPlan
<1> HIDE DEF s, t, l
<1>7. /\ s # <<>> /\ Head(s) = s[1]
      /\ Tail(s) \in [1..(l - 1) -> Operation]
      /\ \A j \in 1..(l - 1) : Tail(s)[j] = s[j + 1]
      /\ Tail(s) = <<>> <=> l = 1
    <2>1. s \in Seq(Operation) /\ Len(s) = l
        BY <1>1, <1>2, LenProperties, SeqDef
    <2> QED
        BY <1>1, <2>1, HeadTail
<1>8. Tail(s) = t
    <2>1. \A j \in 1..(l - 1) : Tail(s)[j] = t[j]
        BY <1>4, <1>7
    <2>2. Tail(s) = [j \in 1..(l - 1) |-> Tail(s)[j]]
        BY <1>7
    <2> QED
        BY <1>5, <2>1, <2>2
<1> QED
    BY <1>1, <1>3, <1>7, <1>8 DEF s, t, Rest

(* m is what page pg holds with the bytes of u replaced.                   *)
WithUpdate(m, pg, u) == \A c \in Cells : m[c] = IF c \in DOMAIN u THEN u[c] ELSE Read(pg, c)

(* The operations ops copy m to the other page, each index once.           *)
CopyOf(ops, p, m) ==
    \E k \in 0..Capacity : \E cs \in [1..k -> Cells] :
        /\ Lists(cs, k, m)
        /\ \A c \in Cells : m[c] \in Data
        /\ ops = [i \in 1..k |-> WriteRecord(Other(p), i, Valid(cs[i], m[cs[i]]))]

(* copyAllRecordsToPageExcept() and writeRangeDirect() write the contents  *)
(* that put() is to leave, each index once.                                *)
LEMMA CopyAndWriteIs ==
    ASSUME NEW p \in Page, NEW pg, pg \in PageState(Slots[p]),
           NEW u, UpdateType(u), NEW m, WithUpdate(m, pg, u)
    PROVE  CopyOf(CopyAndWrite(pg, p, u), p, m)
<1> DEFINE O == {c \in Cells \ DOMAIN u : Read(pg, c) # Erased}
           W == {c \in DOMAIN u : u[c] # Erased}
           old == Ascending(O)
           new == Ascending(W)
           a == Cardinality(O)
           b == Cardinality(W)
           s == [i \in 1..a |-> Valid(old[i], Read(pg, old[i]))]
           t == [i \in 1..b |-> Valid(new[i], u[new[i]])]
           cs == [i \in 1..(a + b) |-> IF i <= a THEN old[i] ELSE new[i - a]]
<1>0. Capacity \in Nat /\ Slots[p] \in Nat /\ Cells = 1..Capacity
    BY EEPROMAssumption DEF Cells
<1>u. \A c \in DOMAIN u : c \in Cells /\ u[c] \in Data
    BY DEF UpdateType
<1>w. \A c \in Cells : m[c] = IF c \in DOMAIN u THEN u[c] ELSE Read(pg, c)
    BY DEF WithUpdate
<1>1. \A c \in Cells : Read(pg, c) \in Data
    BY <1>0, ReadType DEF PageState
<1>2. \A c \in Cells : m[c] \in Data
    BY <1>1, <1>u, <1>w
<1>3. O \in SUBSET (1..Capacity) /\ W \in SUBSET (1..Capacity) /\ O \cap W = {}
    BY <1>0, <1>u
<1>4. O \subseteq Cells /\ W \subseteq Cells
    BY <1>0, <1>3
<1>5. /\ \A c \in O : m[c] = Read(pg, c) /\ m[c] # Erased
      /\ \A c \in W : m[c] = u[c] /\ m[c] # Erased
      /\ \A c \in Cells : m[c] # Erased => c \in O \/ c \in W
    BY <1>4, <1>w
<1>c. CopyAndWrite(pg, p, u) =
          LET rs == [i \in 1..Len(old) |-> Valid(old[i], Read(pg, old[i]))]
                    \o [i \in 1..Len(new) |-> Valid(new[i], u[new[i]])]
          IN  [i \in 1..Len(rs) |-> WriteRecord(Other(p), i, rs[i])]
    BY DEF CopyAndWrite
<1> HIDE DEF O, W
<1>6. /\ a \in 0..Capacity /\ old \in [1..a -> O]
      /\ \A c \in O : \E r \in 1..a : old[r] = c
    BY <1>0, <1>3, AscendingLists
<1>7. /\ b \in 0..Capacity /\ new \in [1..b -> W]
      /\ \A c \in W : \E r \in 1..b : new[r] = c
    BY <1>0, <1>3, AscendingLists
<1>8. a + b <= Capacity
    <2>1. IsFiniteSet(1..Capacity) /\ Cardinality(1..Capacity) = Capacity
        BY <1>0, FS_Interval
    <2>2. IsFiniteSet(O) /\ IsFiniteSet(W)
        BY <1>3, <2>1, FS_Subset
    <2>3. Cardinality(O \cup W) = a + b
        <3>1. Cardinality(O \cap W) = 0
            BY <1>3, FS_EmptySet
        <3>2. Cardinality(O \cup W) = Cardinality(O) + Cardinality(W) - Cardinality(O \cap W)
            BY <2>2, FS_Union
        <3> QED
            BY <1>6, <1>7, <3>1, <3>2
    <2>4. O \cup W \in SUBSET (1..Capacity)
        BY <1>3
    <2>5. Cardinality(O \cup W) <= Cardinality(1..Capacity)
        BY <2>1, <2>4, FS_Subset
    <2> QED
        BY <2>1, <2>3, <2>5
<1>9. Len(old) = a /\ Len(new) = b
    <2>1. old \in Seq(O) /\ new \in Seq(W)
        BY <1>6, <1>7, SeqDef
    <2> QED
        BY <1>6, <1>7, <2>1, LenProperties
<1> HIDE DEF old, new, a, b
<1>10. s \in [1..a -> Record] /\ t \in [1..b -> Record]
    <2>1. \A i \in 1..a : old[i] \in O /\ old[i] \in Cells
        BY <1>4, <1>6
    <2>2. \A i \in 1..a : Valid(old[i], Read(pg, old[i])) \in Record
        BY <1>1, <2>1, ValidType
    <2>3. \A i \in 1..b : new[i] \in W /\ new[i] \in Cells
        BY <1>4, <1>7
    <2>4. \A i \in 1..b : u[new[i]] \in Data
        BY <1>2, <1>5, <2>3
    <2>5. \A i \in 1..b : Valid(new[i], u[new[i]]) \in Record
        BY <2>3, <2>4, ValidType
    <2> QED
        BY <2>2, <2>5
<1>11. a + b \in 0..Capacity /\ a \in Nat /\ b \in Nat
    BY <1>6, <1>7, <1>8
<1>12. cs \in [1..(a + b) -> Cells]
    <2>1. \A i \in 1..(a + b) : (i <= a => i \in 1..a) /\ (~(i <= a) => i - a \in 1..b)
        BY <1>11
    <2>2. \A i \in 1..(a + b) : (IF i <= a THEN old[i] ELSE new[i - a]) \in Cells
        BY <1>4, <1>6, <1>7, <2>1
    <2> QED
        BY <2>2
<1>13. Lists(cs, a + b, m)
    <2>1. ASSUME NEW j \in 1..(a + b) PROVE m[cs[j]] # Erased
        <3>1. CASE j <= a
            <4>1. j \in 1..a
                BY <1>11, <3>1
            <4>2. cs[j] \in O
                BY <1>6, <3>1, <4>1
            <4> HIDE DEF cs
            <4> QED
                BY <1>5, <4>2
        <3>2. CASE ~ (j <= a)
            <4>1. j - a \in 1..b
                BY <1>11, <3>2
            <4>2. cs[j] \in W
                BY <1>7, <3>2, <4>1
            <4> HIDE DEF cs
            <4> QED
                BY <1>5, <4>2
        <3> QED
            BY <3>1, <3>2
    <2>2. ASSUME NEW c \in Cells, m[c] # Erased PROVE \E j \in 1..(a + b) : cs[j] = c
        <3>1. CASE c \in O
            <4>1. PICK r \in 1..a : old[r] = c
                BY <1>6, <3>1
            <4>2. r \in 1..(a + b) /\ r <= a
                BY <1>11
            <4>3. cs[r] = c
                BY <4>1, <4>2
            <4> QED
                BY <4>2, <4>3
        <3>2. CASE c \in W
            <4>1. PICK r \in 1..b : new[r] = c
                BY <1>7, <3>2
            <4>2. a + r \in 1..(a + b) /\ ~ (a + r <= a) /\ (a + r) - a = r
                BY <1>11
            <4>3. cs[a + r] = c
                BY <4>1, <4>2
            <4> QED
                BY <4>2, <4>3
        <3> QED
            BY <1>5, <2>2, <3>1, <3>2
    <2> HIDE DEF cs
    <2> QED
        BY <2>1, <2>2 DEF Lists
<1> HIDE DEF s, t
<1>s. s \in Seq(Record) /\ Len(s) = a /\ t \in Seq(Record) /\ Len(t) = b
    BY <1>10, <1>11, LenProperties, SeqDef
<1>14. /\ s \o t \in Seq(Record) /\ Len(s \o t) = a + b
       /\ \A i \in 1..(a + b) : (s \o t)[i] = IF i <= a THEN s[i] ELSE t[i - a]
    BY <1>s, ConcatProperties
<1>15. ASSUME NEW i \in 1..(a + b) PROVE (s \o t)[i] = Valid(cs[i], m[cs[i]])
    <2>1. CASE i <= a
        <3>1. i \in 1..a
            BY <1>11, <2>1
        <3>2. s[i] = Valid(old[i], Read(pg, old[i])) /\ cs[i] = old[i] /\ old[i] \in O
            BY <1>6, <2>1, <3>1 DEF s
        <3> HIDE DEF cs
        <3> QED
            BY <1>5, <1>14, <2>1, <3>2
    <2>2. CASE ~ (i <= a)
        <3>1. i - a \in 1..b
            BY <1>11, <2>2
        <3>2. t[i - a] = Valid(new[i - a], u[new[i - a]]) /\ cs[i] = new[i - a] /\ new[i - a] \in W
            BY <1>7, <2>2, <3>1 DEF t
        <3> HIDE DEF cs
        <3> QED
            BY <1>5, <1>14, <2>2, <3>2
    <2> QED
        BY <2>1, <2>2
<1>17. CopyAndWrite(pg, p, u) = [i \in 1..(a + b) |-> WriteRecord(Other(p), i, (s \o t)[i])]
    BY <1>c, <1>9, <1>14 DEF s, t
<1> HIDE DEF cs
<1>18. CopyAndWrite(pg, p, u) = [i \in 1..(a + b) |-> WriteRecord(Other(p), i, Valid(cs[i], m[cs[i]]))]
    BY <1>15, <1>17
<1> QED
    BY <1>2, <1>11, <1>12, <1>13, <1>18 DEF CopyOf

(* swapPagesAndWrite() is that plan, with or without its first operation.  *)
LEMMA SwapPlanIs ==
    ASSUME NEW p \in Page, NEW pg, pg \in PageState(Slots[p]), NEW u, UpdateType(u),
           NEW m, WithUpdate(m, pg, u)
    PROVE  \E k \in 0..Capacity : \E cs \in [1..k -> Cells] :
               /\ Lists(cs, k, m)
               /\ SwapPagesAndWrite(pg, p, u, TRUE) = SwapPlan(p, m, cs, k, 1)
               /\ SwapPagesAndWrite(pg, p, u, FALSE) = SwapPlan(p, m, cs, k, 2)
<1>0. Capacity \in Nat
    BY EEPROMAssumption
<1>c. CopyOf(CopyAndWrite(pg, p, u), p, m)
    BY CopyAndWriteIs
<1>1. PICK k \in 0..Capacity : \E cs \in [1..k -> Cells] :
               /\ Lists(cs, k, m)
               /\ \A c \in Cells : m[c] \in Data
               /\ CopyAndWrite(pg, p, u) =
                      [i \in 1..k |-> WriteRecord(Other(p), i, Valid(cs[i], m[cs[i]]))]
    BY <1>c DEF CopyOf
<1>2. PICK cs \in [1..k -> Cells] :
               /\ Lists(cs, k, m)
               /\ \A c \in Cells : m[c] \in Data
               /\ CopyAndWrite(pg, p, u) =
                      [i \in 1..k |-> WriteRecord(Other(p), i, Valid(cs[i], m[cs[i]]))]
    BY <1>1
<1> DEFINE A == <<Erase(Other(p))>>
           B == <<WriteStatus(Other(p), "COPY")>>
           C == CopyAndWrite(pg, p, u)
           D == <<WriteStatus(Other(p), "ACTIVE"), WriteStatus(p, "INACTIVE")>>
           Op(x) == SwapOp(p, m, cs, k, x)
<1>3. k \in Nat /\ \A x \in 1..(k + 4) : Op(x) \in Operation
    BY <1>0, <1>2, SwapOpType
<1>4. \A i \in 1..k : C[i] = Op(i + 2)
    <2>1. ASSUME NEW i \in 1..k PROVE C[i] = Op(i + 2)
        <3>1. C[i] = WriteRecord(Other(p), i, Valid(cs[i], m[cs[i]]))
            BY <1>2
        <3>2. i + 2 # 1 /\ i + 2 # 2 /\ i + 2 <= k + 2 /\ (i + 2) - 2 = i
            OBVIOUS
        <3> QED
            BY <3>1, <3>2 DEF SwapOp
    <2> QED
        BY <2>1
<1>5. /\ Op(1) = Erase(Other(p)) /\ Op(2) = WriteStatus(Other(p), "COPY")
      /\ Op(k + 3) = WriteStatus(Other(p), "ACTIVE") /\ Op(k + 4) = WriteStatus(p, "INACTIVE")
    BY <1>3 DEF SwapOp
<1>6. C = [i \in 1..k |-> C[i]]
    BY <1>2
<1> HIDE DEF C, Op
<1>7. \A i \in 1..k : i + 2 \in 1..(k + 4)
    BY <1>3
<1>8. C \in Seq(Operation) /\ Len(C) = k
    <2>1. C \in [1..k -> Operation]
        BY <1>3, <1>4, <1>6, <1>7
    <2> QED
        BY <1>3, <2>1, LenProperties, SeqDef
<1>9. /\ A \in Seq(Operation) /\ Len(A) = 1 /\ A[1] = Op(1)
      /\ B \in Seq(Operation) /\ Len(B) = 1 /\ B[1] = Op(2)
      /\ D \in Seq(Operation) /\ Len(D) = 2 /\ D[1] = Op(k + 3) /\ D[2] = Op(k + 4)
    <2>1. Op(1) \in Operation /\ Op(2) \in Operation /\ Op(k + 3) \in Operation /\ Op(k + 4) \in Operation
        BY <1>3
    <2> QED
        BY <1>5, <2>1
<1>10. SwapPagesAndWrite(pg, p, u, TRUE) = ((A \o B) \o C) \o D
    BY DEF SwapPagesAndWrite, C
<1>11. SwapPagesAndWrite(pg, p, u, FALSE) = ((<<>> \o B) \o C) \o D
    BY DEF SwapPagesAndWrite, C
<1> HIDE DEF A, B, D
<1>12. /\ A \o B \in Seq(Operation) /\ Len(A \o B) = 2 /\ (A \o B)[1] = Op(1) /\ (A \o B)[2] = Op(2)
    <2>1. /\ A \o B \in Seq(Operation) /\ Len(A \o B) = 1 + 1
          /\ \A i \in 1..(1 + 1) : (A \o B)[i] = IF i <= 1 THEN A[i] ELSE B[i - 1]
        <3>1. /\ A \o B \in Seq(Operation) /\ Len(A \o B) = Len(A) + Len(B)
              /\ \A i \in 1..(Len(A) + Len(B)) :
                     (A \o B)[i] = IF i <= Len(A) THEN A[i] ELSE B[i - Len(A)]
            BY <1>9, ConcatProperties
        <3> QED
            BY <1>9, <3>1
    <2> QED
        BY <1>9, <2>1
<1>13. <<>> \o B = B
    BY <1>9, ConcatEmptySeq
<1>14. SwapPagesAndWrite(pg, p, u, TRUE) = SwapPlan(p, m, cs, k, 1)
    <2> DEFINE E == A \o B
               F == E \o C
    <2>1. E \in Seq(Operation) /\ Len(E) = 2 /\ E[1] = Op(1) /\ E[2] = Op(2)
        BY <1>12
    <2> HIDE DEF E
    <2>2. /\ F \in Seq(Operation) /\ Len(F) = 2 + k
          /\ \A i \in 1..(2 + k) : F[i] = IF i <= 2 THEN E[i] ELSE C[i - 2]
        <3>1. /\ E \o C \in Seq(Operation) /\ Len(E \o C) = Len(E) + Len(C)
              /\ \A i \in 1..(Len(E) + Len(C)) :
                     (E \o C)[i] = IF i <= Len(E) THEN E[i] ELSE C[i - Len(E)]
            BY <1>8, <2>1, ConcatProperties
        <3> QED
            BY <1>8, <2>1, <3>1
    <2> HIDE DEF F
    <2>3. /\ F \o D \in Seq(Operation) /\ Len(F \o D) = (2 + k) + 2
          /\ \A i \in 1..((2 + k) + 2) : (F \o D)[i] = IF i <= 2 + k THEN F[i] ELSE D[i - (2 + k)]
        <3>1. /\ F \o D \in Seq(Operation) /\ Len(F \o D) = Len(F) + Len(D)
              /\ \A i \in 1..(Len(F) + Len(D)) :
                     (F \o D)[i] = IF i <= Len(F) THEN F[i] ELSE D[i - Len(F)]
            BY <1>9, <2>2, ConcatProperties
        <3> QED
            BY <1>9, <2>2, <3>1
    <2>4. ASSUME NEW i \in 1..(k + 4) PROVE (F \o D)[i] = Op(i)
        <3>1. CASE i \in 1..2
            <4>1. i \in 1..((2 + k) + 2) /\ i \in 1..(2 + k) /\ i <= 2 + k /\ i <= 2 /\ (i = 1 \/ i = 2)
                BY <1>3, <3>1
            <4> QED
                BY <2>1, <2>2, <2>3, <4>1
        <3>2. CASE i \in 3..(k + 2)
            <4>1. i \in 1..((2 + k) + 2) /\ i \in 1..(2 + k) /\ i <= 2 + k /\ ~ (i <= 2) /\ i - 2 \in 1..k /\ (i - 2) + 2 = i
                BY <1>3, <3>2
            <4> QED
                BY <1>4, <2>2, <2>3, <4>1
        <3>3. CASE i = k + 3
            <4>1. i \in 1..((2 + k) + 2) /\ ~ (i <= 2 + k) /\ i - (2 + k) = 1
                BY <1>3, <3>3
            <4> QED
                BY <1>9, <2>3, <3>3, <4>1
        <3>4. CASE i = k + 4
            <4>1. i \in 1..((2 + k) + 2) /\ ~ (i <= 2 + k) /\ i - (2 + k) = 2
                BY <1>3, <3>4
            <4> QED
                BY <1>9, <2>3, <3>4, <4>1
        <3>5. i \in 1..2 \/ i \in 3..(k + 2) \/ i = k + 3 \/ i = k + 4
            BY <1>3
        <3> QED
            BY <3>1, <3>2, <3>3, <3>4, <3>5
    <2>5. (2 + k) + 2 = k + 4 /\ k + 5 - 1 = k + 4 /\ \A i \in 1..(k + 4) : 1 + i - 1 = i
        BY <1>3
    <2>6. F \o D = [i \in 1..(k + 4) |-> Op(i)]
        BY <2>3, <2>4, <2>5, LenProperties
    <2>7. SwapPlan(p, m, cs, k, 1) = [i \in 1..(k + 4) |-> Op(i)]
        BY <2>5 DEF SwapPlan, Op
    <2> QED
        BY <1>10, <2>6, <2>7 DEF E, F
<1>15. SwapPagesAndWrite(pg, p, u, FALSE) = SwapPlan(p, m, cs, k, 2)
    <2> DEFINE F == B \o C
    <2>2. /\ F \in Seq(Operation) /\ Len(F) = 1 + k
          /\ \A i \in 1..(1 + k) : F[i] = IF i <= 1 THEN B[i] ELSE C[i - 1]
        <3>1. /\ B \o C \in Seq(Operation) /\ Len(B \o C) = Len(B) + Len(C)
              /\ \A i \in 1..(Len(B) + Len(C)) :
                     (B \o C)[i] = IF i <= Len(B) THEN B[i] ELSE C[i - Len(B)]
            BY <1>8, <1>9, ConcatProperties
        <3> QED
            BY <1>8, <1>9, <3>1
    <2> HIDE DEF F
    <2>3. /\ F \o D \in Seq(Operation) /\ Len(F \o D) = (1 + k) + 2
          /\ \A i \in 1..((1 + k) + 2) : (F \o D)[i] = IF i <= 1 + k THEN F[i] ELSE D[i - (1 + k)]
        <3>1. /\ F \o D \in Seq(Operation) /\ Len(F \o D) = Len(F) + Len(D)
              /\ \A i \in 1..(Len(F) + Len(D)) :
                     (F \o D)[i] = IF i <= Len(F) THEN F[i] ELSE D[i - Len(F)]
            BY <1>9, <2>2, ConcatProperties
        <3> QED
            BY <1>9, <2>2, <3>1
    <2>4. ASSUME NEW i \in 1..(k + 3) PROVE (F \o D)[i] = Op(i + 1)
        <3>1. CASE i = 1
            <4>1. 1 \in 1..((1 + k) + 2) /\ 1 \in 1..(1 + k) /\ 1 <= 1 + k /\ 1 <= 1 /\ 1 + 1 = 2
                BY <1>3
            <4> QED
                BY <1>9, <2>2, <2>3, <3>1, <4>1
        <3>2. CASE i \in 2..(k + 1)
            <4>1. i \in 1..((1 + k) + 2) /\ i \in 1..(1 + k) /\ i <= 1 + k /\ ~ (i <= 1) /\ i - 1 \in 1..k /\ (i - 1) + 2 = i + 1
                BY <1>3, <3>2
            <4> QED
                BY <1>4, <2>2, <2>3, <4>1
        <3>3. CASE i = k + 2
            <4>1. i \in 1..((1 + k) + 2) /\ ~ (i <= 1 + k) /\ i - (1 + k) = 1 /\ i + 1 = k + 3
                BY <1>3, <3>3
            <4> QED
                BY <1>9, <2>3, <4>1
        <3>4. CASE i = k + 3
            <4>1. i \in 1..((1 + k) + 2) /\ ~ (i <= 1 + k) /\ i - (1 + k) = 2 /\ i + 1 = k + 4
                BY <1>3, <3>4
            <4> QED
                BY <1>9, <2>3, <4>1
        <3>5. i = 1 \/ i \in 2..(k + 1) \/ i = k + 2 \/ i = k + 3
            BY <1>3
        <3> QED
            BY <3>1, <3>2, <3>3, <3>4, <3>5
    <2>5. (1 + k) + 2 = k + 3 /\ k + 5 - 2 = k + 3 /\ \A i \in 1..(k + 3) : 2 + i - 1 = i + 1
        BY <1>3
    <2>6. F \o D = [i \in 1..(k + 3) |-> Op(i + 1)]
        BY <2>3, <2>4, <2>5, LenProperties
    <2>7. SwapPlan(p, m, cs, k, 2) = [i \in 1..(k + 3) |-> Op(i + 1)]
        BY <2>5 DEF SwapPlan, Op
    <2> QED
        BY <1>11, <1>13, <2>6, <2>7 DEF F
<1> QED
    BY <1>2, <1>14, <1>15

-----------------------------------------------------------------------------
(* Steps of the emulation as steps of the array of bytes.                  *)
Refines == [Store!Next]_(Store!vars)

(* The request of each mode.                                               *)
LEMMA RequestIs ==
    /\ mode \in {"put", "swap"} => Request = Store!Putting(update)
    /\ mode = "clear" => Request = Store!Clearing
    /\ mode \in {"idle", "erase"} => Request = Store!Idle
BY DEF Request, Store!Putting, Store!Clearing, Store!Idle

(* The same after a step.                                                  *)
LEMMA RequestIsNext ==
    /\ mode' \in {"put", "swap"} => Request' = Store!Putting(update')
    /\ mode' = "clear" => Request' = Store!Clearing
    /\ mode' \in {"idle", "erase"} => Request' = Store!Idle
BY DEF Request, Store!Putting, Store!Clearing, Store!Idle

(* The contents are read from the active page.                             *)
LEMMA MemRead ==
    /\ Mem = [c \in Cells |-> Mem[c]]
    /\ active \in Page => \A c \in Cells : Mem[c] = Read(page[active], c)
BY DEF Mem, Contents, Page

(* The same after a step.                                                  *)
LEMMA MemReadNext ==
    /\ Mem' = [c \in Cells |-> Mem'[c]]
    /\ active' \in Page => \A c \in Cells : Mem'[c] = Read(page'[active'], c)
BY DEF Mem, Contents, Page

(* The contents stay if the active page reads the same.                    *)
LEMMA SameMem ==
    ASSUME active \in Page, active' = active,
           \A c \in Cells : Read(page'[active], c) = Read(page[active], c)
    PROVE  Mem' = Mem
BY MemRead, MemReadNext

(* The contents are bytes.                                                 *)
LEMMA MemType ==
    ASSUME PagesOK, VariablesOK
    PROVE  Mem \in [Cells -> Data]
<1>1. \A p \in Page : \A c \in Cells : Read(page[p], c) \in Data
    <2>1. ASSUME NEW p \in Page, NEW c \in Cells PROVE Read(page[p], c) \in Data
        <3>1. Slots[p] \in Nat
            BY EEPROMAssumption
        <3>2. page[p].rec \in [1..Slots[p] -> Record]
            BY DEF PagesOK, PageState
        <3> QED
            BY <3>1, <3>2, ReadType
    <2> QED
        BY <2>1
<1>2. CASE active = 0
    BY <1>2 DEF Mem, Contents, Data
<1>3. CASE active \in Page
    BY <1>1, <1>3, MemRead
<1> QED
    BY <1>2, <1>3 DEF VariablesOK, Page

(* put() leaves its values, and the others as they were.                   *)
LEMMA GoalIs ==
    /\ Goal = [c \in Cells |-> Goal[c]]
    /\ \A c \in Cells : Goal[c] = IF c \in DOMAIN update THEN update[c] ELSE Mem[c]
BY DEF Goal, Store!With

(* The same after a step.                                                  *)
LEMMA GoalIsNext ==
    /\ Goal' = [c \in Cells |-> Goal'[c]]
    /\ \A c \in Cells : Goal'[c] = IF c \in DOMAIN update' THEN update'[c] ELSE Mem'[c]
BY DEF Goal, Store!With

(* A step that neither ends a request nor changes the contents.            *)
LEMMA StoreStutter ==
    ASSUME Mem' = Mem, losses' = losses,
           \/ mode \in {"idle", "erase"} /\ mode' \in {"idle", "erase"}
           \/ mode \in {"put", "swap"} /\ mode' \in {"put", "swap"} /\ update' = update
    PROVE  Refines
<1>1. Request' = Request
    BY RequestIs, RequestIsNext
<1> QED
    BY <1>1 DEF Refines, Store!vars, Mem

(* put() is called.                                                        *)
LEMMA StorePut ==
    ASSUME mode = "idle", mode' \in {"put", "swap"}, Mem' = Mem, losses' = losses,
           NEW c \in Cells, NEW d \in Cells, NEW u \in [c..d -> Data], update' = u
    PROVE  Refines
<1>1. Request = Store!Idle /\ Request' = Store!Putting(u)
    BY RequestIs, RequestIsNext
<1>2. Store!Put(u)
    BY <1>1 DEF Store!Put, Mem
<1>3. Store!Next
    BY <1>2 DEF Store!Next
<1> QED
    BY <1>3 DEF Refines

(* put() returns: its values are there, all of them.                       *)
LEMMA StorePutDone ==
    ASSUME mode \in {"put", "swap"}, mode' = "idle", losses' = losses, Mem' = Goal
    PROVE  Refines
<1>1. Request = Store!Putting(update) /\ Request' = Store!Idle
    BY RequestIs, RequestIsNext
<1>2. Request.kind = "put" /\ Request.update = update
    BY <1>1 DEF Store!Putting
<1>3. Store!PutDone
    BY <1>1, <1>2 DEF Store!PutDone, Mem, Goal
<1> QED
    BY <1>3 DEF Refines, Store!Next

(* clear() is called.                                                      *)
LEMMA StoreClear ==
    ASSUME mode = "idle", mode' = "clear", Mem' = Mem, losses' = losses
    PROVE  Refines
<1>1. Request = Store!Idle /\ Request' = Store!Clearing
    BY RequestIs, RequestIsNext
<1>2. Store!Clear
    BY <1>1 DEF Store!Clear, Mem
<1> QED
    BY <1>2 DEF Refines, Store!Next

(* clear() goes on.                                                        *)
LEMMA StoreDestroy ==
    ASSUME mode = "clear", mode' = "clear", Mem' \in [Cells -> Data], losses' = losses
    PROVE  Refines
<1>1. Request = Store!Clearing /\ Request' = Request
    BY RequestIs, RequestIsNext
<1>2. Store!Destroy
    BY <1>1 DEF Store!Destroy, Store!Contents, Mem
<1> QED
    BY <1>2 DEF Refines, Store!Next

(* clear() returns: everything is erased.                                  *)
LEMMA StoreClearDone ==
    ASSUME mode = "clear", mode' = "idle", \A c \in Cells : Mem'[c] = Erased, losses' = losses
    PROVE  Refines
<1>1. Request = Store!Clearing /\ Request' = Store!Idle
    BY RequestIs, RequestIsNext
<1>2. Mem' = [c \in Cells |-> Erased]
    BY MemReadNext
<1>3. Store!ClearDone
    BY <1>1, <1>2 DEF Store!ClearDone, Mem
<1> QED
    BY <1>3 DEF Refines, Store!Next

(* Power is lost: put() is done in full or not at all.                     *)
LEMMA StorePowerLoss ==
    ASSUME losses' = losses + 1,
           \/ mode \in {"idle", "erase"} /\ mode' = "idle" /\ Mem' = Mem
           \/ mode \in {"put", "swap"} /\ mode' = "idle" /\ Mem' \in {Mem, Goal}
           \/ mode = "clear" /\ mode' \in {"idle", "clear"} /\ Mem' \in [Cells -> Data]
    PROVE  Refines
<1>1. CASE mode \in {"idle", "erase"} /\ mode' = "idle" /\ Mem' = Mem
    <2>1. Request = Store!Idle /\ Request' = Request
        BY <1>1, RequestIs, RequestIsNext
    <2>2. Store!PowerLoss
        BY <1>1, <2>1 DEF Store!PowerLoss, Mem
    <2> QED
        BY <2>2 DEF Refines, Store!Next
<1>2. CASE mode \in {"put", "swap"} /\ mode' = "idle" /\ Mem' \in {Mem, Goal}
    <2>1. Request = Store!Putting(update) /\ Request' = Store!Idle
        BY <1>2, RequestIs, RequestIsNext
    <2>2. Request.kind = "put" /\ Request.update = update
        BY <2>1 DEF Store!Putting
    <2>3. Store!PowerLoss
        BY <1>2, <2>1, <2>2 DEF Store!PowerLoss, Mem, Goal
    <2> QED
        BY <2>3 DEF Refines, Store!Next
<1>3. CASE mode = "clear" /\ mode' \in {"idle", "clear"} /\ Mem' \in [Cells -> Data]
    <2>1. Request = Store!Clearing /\ Request' \in {Store!Idle, Store!Clearing}
        BY <1>3, RequestIs, RequestIsNext
    <2>2. Store!PowerLoss
        BY <1>3, <2>1 DEF Store!PowerLoss, Store!Contents, Mem
    <2> QED
        BY <2>2 DEF Refines, Store!Next
<1> QED
    BY <1>1, <1>2, <1>3

-----------------------------------------------------------------------------
(* Facts that several steps need.                                          *)
LEMMA SlotsType ==
    ASSUME NEW p \in Page
    PROVE  Slots[p] \in Nat /\ Capacity \in Nat \ {0} /\ Capacity < Slots[p]
BY EEPROMAssumption

(* A flash operation changes one page.                                     *)
LEMMA FlashEffect ==
    ASSUME DOMAIN page = Page, NEW p \in Page, NEW o, o.page = p, NEW pg, Flash(o, pg)
    PROVE  DOMAIN page' = Page /\ page'[p] = pg /\ page'[Other(p)] = page[Other(p)]
<1>1. Other(p) \in Page /\ Other(p) # p
    BY OtherPage
<1> QED
    BY <1>1 DEF Flash

(* The other page keeps what is known of it.                               *)
LEMMA FlashPages ==
    ASSUME PagesOK, NEW p \in Page, DOMAIN page' = Page, page'[Other(p)] = page[Other(p)],
           page'[p] \in PageState(Slots[p]), page'[p].status = "ACTIVE" => 0 \notin page'[p].weak
    PROVE  PagesOK'
<1>1. \A q \in Page : q = p \/ q = Other(p)
    BY OtherPage
<1>2. \A q \in Page : page[q] \in PageState(Slots[q]) /\ (page[q].status = "ACTIVE" => 0 \notin page[q].weak)
    BY DEF PagesOK
<1>3. ASSUME NEW q \in Page
      PROVE  page'[q] \in PageState(Slots[q]) /\ (page'[q].status = "ACTIVE" => 0 \notin page'[q].weak)
    <2>1. CASE q = p
        BY <2>1
    <2>2. CASE q = Other(p)
        <3>1. page'[q] = page[q]
            BY <2>2
        <3> QED
            BY <1>2, <3>1
    <2> QED
        BY <1>1, <2>1, <2>2
<1> QED
    BY <1>3 DEF PagesOK

(* The indexes and values of put().                                        *)
LEMMA UpdateDomain ==
    ASSUME UpdateOK, mode \in {"put", "swap"}
    PROVE  UpdateType(update)
<1>1. PICK c, d \in Cells : update \in [c..d -> Data]
    BY DEF UpdateOK
<1>2. c..d \subseteq Cells
    BY EEPROMAssumption DEF Cells
<1> QED
    BY <1>1, <1>2 DEF UpdateType

(* updateActivePage() and init() after a restart.                          *)
LEMMA ActivePage ==
    ASSUME NEW f, NEW a \in Page, f[a].status = "ACTIVE", a = 2 => f[1].status # "ACTIVE"
    PROVE  UpdateActivePage(f) = a
BY DEF UpdateActivePage, Page

(* A restart that finds page a.                                            *)
LEMMA Restart ==
    ASSUME PowerLoss, VariablesOK, NEW a \in Page, page'[a].status = "ACTIVE", a = 2 => page'[1].status # "ACTIVE"
    PROVE  /\ active' = a /\ mode' = "idle" /\ plan' = <<>> /\ Chosen' /\ VariablesOK'
           /\ losses' = losses + 1
<1>1. UpdateActivePage(page') = a
    BY ActivePage
<1>2. active' = a /\ a # 0
    BY <1>1 DEF PowerLoss, Page
<1>3. mode' = "idle" /\ plan' = <<>> /\ losses' = losses + 1 /\ losses < MaxLosses /\ tries' = 0
    BY <1>2 DEF PowerLoss
<1>4. Chosen'
    BY <1>2 DEF Chosen, Found
<1>5. VariablesOK'
    BY <1>2, <1>3, EEPROMAssumption DEF VariablesOK, Page
<1> QED
    BY <1>2, <1>3, <1>4, <1>5

(* Between two calls the invariant is about the pages only.                *)
LEMMA IdleInv ==
    ASSUME PagesOK', VariablesOK', mode' = "idle", plan' = <<>>, Chosen'
    PROVE  Inv'
BY DEF Inv, UpdateOK, IdleOK, EraseOK, ClearOK, PutOK, SwapOK

(* The records before the first free slot are valid, and that one is not.  *)
LEMMA FreeSlot ==
    ASSUME NEW N \in Nat, NEW pg, DOMAIN pg.rec = 1..N, NEW e \in 1..N, Free(pg, e)
    PROVE  /\ \A j \in 1..(e - 1) : pg.rec[j].kind = "valid"
           /\ pg.rec[e].kind # "valid"
<1>1. \A j \in 1..(e - 1) : pg.rec[j].kind = "valid"
    <2>1. \A j \in 1..(e - 1) : j \in Visible(pg) /\ j \in 1..j
        BY DEF Free
    <2>2. \A j \in Visible(pg) : \A k \in 1..j : pg.rec[k].kind = "valid"
        BY DEF Visible
    <2> QED
        BY <2>1, <2>2
<1>2. pg.rec[e].kind # "valid"
    <2>1. SUFFICES ASSUME pg.rec[e].kind = "valid" PROVE FALSE
        OBVIOUS
    <2>2. \A j \in 1..e : j = e \/ j \in 1..(e - 1)
        OBVIOUS
    <2>3. \A j \in 1..e : pg.rec[j].kind = "valid"
        BY <1>1, <2>1, <2>2
    <2>4. e \in Visible(pg)
        BY <2>3 DEF Visible
    <2>5. e \notin 1..(e - 1)
        OBVIOUS
    <2> QED
        BY <2>4, <2>5 DEF Free
<1> QED
    BY <1>1, <1>2

(* A write behind the first free slot, or one that leaves that slot free,  *)
(* is not seen.                                                            *)
Hidden(N, pg, new, e, i, q) ==
    /\ N \in Nat /\ DOMAIN pg.rec = 1..N /\ e \in 1..N /\ i \in 1..N /\ e <= i
    /\ Free(pg, e)
    /\ i = e => q.kind # "valid"
    /\ new.rec = SetRec(pg.rec, i, q)

(* The contents are as they were.                                          *)
LEMMA HiddenWrite ==
    ASSUME NEW N, NEW pg, NEW new, NEW e, NEW i, NEW q, Hidden(N, pg, new, e, i, q)
    PROVE  /\ DOMAIN new.rec = 1..N /\ Free(new, e)
           /\ \A c : Read(new, c) = Read(pg, c)
<1> SUFFICES ASSUME N \in Nat, DOMAIN pg.rec = 1..N, e \in 1..N, i \in 1..N, e <= i, Free(pg, e),
                    i = e => q.kind # "valid", new.rec = SetRec(pg.rec, i, q)
             PROVE  /\ DOMAIN new.rec = 1..N /\ Free(new, e)
                    /\ \A c : Read(new, c) = Read(pg, c)
    BY DEF Hidden
<1>1. DOMAIN new.rec = 1..N /\ new.rec[i] = q
      /\ \A j \in 1..N : j # i => new.rec[j] = pg.rec[j]
    BY SetRecIs
<1>2. \A j \in 1..(e - 1) : j \in 1..N /\ j # i
    OBVIOUS
<1>3. \A j \in 1..(e - 1) : new.rec[j] = pg.rec[j] /\ pg.rec[j].kind = "valid"
    <2>1. \A j \in 1..(e - 1) : pg.rec[j].kind = "valid"
        BY FreeSlot
    <2> QED
        BY <1>1, <1>2, <2>1
<1>4. pg.rec[e].kind # "valid"
    BY FreeSlot
<1>5. new.rec[e].kind # "valid"
    BY <1>1, <1>4
<1>6. Visible(new) = 1..(e - 1)
    <2> DEFINE k == e - 1
    <2>0. DOMAIN new.rec = 1..N
        BY <1>1
    <2>1. k \in 0..N
        OBVIOUS
    <2>2. \A j \in 1..k : new.rec[j].kind = "valid"
        BY <1>3
    <2>3. k < N => new.rec[k + 1].kind # "valid"
        BY <1>5
    <2> HIDE DEF k
    <2>4. Visible(new) = 1..k
        BY <2>0, <2>1, <2>2, <2>3, VisibleIs
    <2> QED
        BY <2>4 DEF k
<1>7. \A j \in Visible(pg) : new.rec[j] = pg.rec[j]
    BY <1>3 DEF Free
<1>8. Visible(new) = Visible(pg)
    BY <1>6 DEF Free
<1>9. \A c : Read(new, c) = Read(pg, c)
    BY <1>1, <1>7, <1>8, SameRead
<1> QED
    BY <1>1, <1>6, <1>9 DEF Free

-----------------------------------------------------------------------------
(* An appending put(): what is known at each of its writes.                *)
LEMMA PutState ==
    ASSUME Inv, mode = "put"
    PROVE  /\ active \in Page /\ page[active].status = "ACTIVE" /\ Chosen /\ tries = 0
           /\ UpdateType(update)
           /\ page[active] \in PageState(Slots[active]) /\ Slots[active] \in Nat
           /\ \E n, cs, e, l :
                  /\ n \in 1..Capacity /\ Indexes(cs, n, DOMAIN update) /\ e \in 1..Slots[active] /\ l \in 1..n
                  /\ Appending(page[active], Slots[active], update, n, cs, e, l)
                  /\ Head(plan) = WriteRecord(active, e + l - 1, Valid(cs[l], update[cs[l]]))
                  /\ Rest(plan) = PutPlan(active, update, cs, e, l - 1)
                  /\ Rest(plan) = <<>> <=> l = 1
                  /\ Valid(cs[l], update[cs[l]]) \in Record
                  /\ e + l - 1 \in e..Slots[active]
<1>1. Chosen /\ tries = 0
    BY DEF Inv, PutOK
<1>2. active \in Page /\ page[active].status = "ACTIVE"
    BY <1>1 DEF Chosen, Found
<1>3. UpdateType(update)
    BY UpdateDomain DEF Inv
<1>4. page[active] \in PageState(Slots[active]) /\ Slots[active] \in Nat /\ Capacity \in Nat
    BY <1>2, SlotsType DEF Inv, PagesOK
<1>5. PICK n, cs, e, l :
          /\ n \in 1..Capacity /\ Indexes(cs, n, DOMAIN update) /\ e \in 1..Slots[active] /\ l \in 1..n
          /\ plan = PutPlan(active, update, cs, e, l)
          /\ Appending(page[active], Slots[active], update, n, cs, e, l)
    BY DEF Inv, PutOK, Indexes
<1>6. n \in Nat /\ e \in Nat \ {0} /\ l \in 1..n /\ Indexes(cs, n, DOMAIN update)
    BY <1>4, <1>5
<1>7. /\ Head(plan) = WriteRecord(active, e + l - 1, Valid(cs[l], update[cs[l]]))
      /\ Rest(plan) = PutPlan(active, update, cs, e, l - 1)
      /\ Rest(plan) = <<>> <=> l = 1
    <2>1. plan = PutPlan(active, update, cs, e, l)
        BY <1>5
    <2>2. PutArgs(active, update, n, cs, e, l)
        BY <1>2, <1>3, <1>6 DEF PutArgs
    <2>3. PutPlanGoesOn(active, update, cs, e, l)
        BY <2>2, PutPlanNext
    <2> QED
        BY <2>1, <2>3, Zenon DEF PutPlanGoesOn
<1>8. Valid(cs[l], update[cs[l]]) \in Record
    <2>1. cs[l] \in DOMAIN update
        BY <1>6 DEF Indexes
    <2> QED
        BY <1>3, <2>1, ValidType DEF UpdateType
<1>9. e + l - 1 \in e..Slots[active]
    <2>1. e + n - 1 <= Slots[active]
        BY <1>5 DEF Appending
    <2> QED
        BY <1>4, <1>6, <2>1
<1> QED
    BY <1>1, <1>2, <1>3, <1>4, <1>5, <1>7, <1>8, <1>9

(* A record of an appending put() is written; the last one makes all of    *)
(* them count.                                                             *)
LEMMA WritePut ==
    ASSUME Inv, mode = "put", Write
    PROVE  Inv' /\ Refines
<1> DEFINE a == active
           pg == page[a]
           N == Slots[a]
           o == Head(plan)
           u == update
<1>0. /\ a \in Page /\ pg.status = "ACTIVE" /\ Chosen /\ tries = 0
      /\ UpdateType(u)
      /\ pg \in PageState(N) /\ N \in Nat
    BY PutState
<1>1. PICK n, cs, e, l :
          /\ n \in 1..Capacity /\ Indexes(cs, n, DOMAIN u) /\ e \in 1..N /\ l \in 1..n
          /\ Appending(pg, N, u, n, cs, e, l)
          /\ o = WriteRecord(a, e + l - 1, Valid(cs[l], u[cs[l]]))
          /\ Rest(plan) = PutPlan(a, u, cs, e, l - 1)
          /\ Rest(plan) = <<>> <=> l = 1
          /\ Valid(cs[l], u[cs[l]]) \in Record
          /\ e + l - 1 \in e..N
    BY PutState
<1> DEFINE i == e + l - 1
           r == Valid(cs[l], u[cs[l]])
<1>2. /\ Capacity \in Nat /\ n \in Nat /\ n # 0 /\ e \in 1..N /\ l \in 1..n /\ i \in 1..N /\ i \in e..N
      /\ Indexes(cs, n, DOMAIN u)
    BY <1>0, <1>1, SlotsType
<1>3. o.kind = "record" /\ o.page = a /\ o.slot = i /\ o.record = r /\ r \in Record
    BY <1>1, RecordOperation
<1>4. /\ Flash(o, Done(page[o.page], o)) /\ plan' = Rest(plan) /\ Continue(page')
      /\ tries' = tries /\ update' = u /\ losses' = losses
    BY DEF Write, Rest
<1>5. DOMAIN page = Page /\ PagesOK /\ VariablesOK /\ UpdateOK
    BY DEF Inv, PagesOK
<1> DEFINE new == Done(pg, o)
<1> HIDE DEF o, i, r, pg, new
<1>6. DOMAIN page' = Page /\ page'[a] = new /\ page'[Other(a)] = page[Other(a)]
    BY <1>0, <1>3, <1>4, <1>5, FlashEffect DEF pg, new
<1>7. /\ new \in PageState(N) /\ new.status = pg.status /\ new.rec = SetRec(pg.rec, i, r)
      /\ 0 \notin pg.weak => 0 \notin new.weak
      /\ pg.weak = {} => new.weak = {}
    BY <1>0, <1>2, <1>3, RecordDone DEF new
<1>8. PagesOK'
    <2>1. 0 \notin pg.weak
        BY <1>0, <1>5 DEF PagesOK, pg
    <2> QED
        BY <1>0, <1>5, <1>6, <1>7, <2>1, FlashPages
<1>9. DOMAIN pg.rec = 1..N
    BY <1>0 DEF PageState
<1>b. /\ DOMAIN new.rec = 1..N /\ new.rec[i] = r
      /\ \A j \in 1..N : j # i => new.rec[j] = pg.rec[j]
    BY <1>0, <1>2, <1>7, <1>9, SetRecIs
<1>10. a = 2 => page'[1].status # "ACTIVE"
    BY <1>0, <1>6 DEF Chosen, Other
<1>a. /\ e + n - 1 <= N
      /\ Free(pg, e)
      /\ e + n <= N => pg.rec[e + n].kind # "valid"
      /\ \A s \in (l + 1)..n : pg.rec[e + s - 1] = Valid(cs[s], u[cs[s]])
      /\ \A c \in DOMAIN u : Read(pg, c) # u[c] => \E s \in 1..n : cs[s] = c
    BY <1>1 DEF Appending
<1>11. CASE l = 1
    <2>1. mode' = "idle" /\ active' = a /\ plan' = <<>>
        BY <1>1, <1>4, <1>11 DEF Continue, Rest
    <2>2. Chosen' /\ VariablesOK'
        BY <1>0, <1>4, <1>5, <1>6, <1>7, <1>10, <2>1 DEF Chosen, Found, VariablesOK
    <2>3. Inv'
        BY <1>8, <2>1, <2>2, IdleInv
    <2>4. ASSUME NEW c \in Cells PROVE Read(new, c) = IF c \in DOMAIN u THEN u[c] ELSE Read(pg, c)
        <3>1. i = e
            BY <1>2, <1>11 DEF i
        <3>2. new.rec = SetRec(pg.rec, e, Valid(cs[1], u[cs[1]]))
            BY <1>7, <1>11, <3>1 DEF r
        <3>3. Appending(pg, N, u, n, cs, e, 1)
            BY <1>1, <1>11
        <3>4. n \in Nat \ {0} /\ e \in 1..N /\ N \in Nat /\ Indexes(cs, n, DOMAIN u)
            BY <1>0, <1>2
        <3>5. LastAppended(N, pg, new, u, n, cs, e)
            BY <1>9, <3>2, <3>3, <3>4 DEF LastAppended
        <3> QED
            BY <3>5, ReadAfterAppend
    <2>5. Mem' = Goal
        <3>1. \A c \in Cells : Mem'[c] = Read(new, c) /\ Mem[c] = Read(pg, c)
            BY <1>0, <1>6, <2>1, MemRead, MemReadNext DEF pg
        <3>2. \A c \in Cells : Mem'[c] = Goal[c]
            BY <2>4, <3>1, GoalIs
        <3> QED
            BY <3>2, GoalIs, MemReadNext
    <2>6. Refines
        BY <1>4, <2>1, <2>5, StorePutDone
    <2> QED
        BY <2>3, <2>6
<1>12. CASE l # 1
    <2>1. mode' = mode /\ active' = a /\ plan' = PutPlan(a, u, cs, e, l - 1)
        BY <1>1, <1>4, <1>12 DEF Continue, Rest
    <2>2. i # e /\ l - 1 \in 1..n
        BY <1>2, <1>12 DEF i
    <2>3. DOMAIN new.rec = 1..N /\ Free(new, e) /\ \A c : Read(new, c) = Read(pg, c)
        <3>1. Hidden(N, pg, new, e, i, r)
            BY <1>0, <1>2, <1>7, <1>9, <1>a, <2>2 DEF Hidden
        <3> QED
            BY <3>1, HiddenWrite
    <2>4. Appending(new, N, u, n, cs, e, l - 1)
        <3>1. e + n <= N => new.rec[e + n].kind # "valid"
            <4>1. SUFFICES ASSUME e + n <= N PROVE new.rec[e + n].kind # "valid"
                OBVIOUS
            <4>2. e + n \in 1..N /\ e + n # i
                BY <1>0, <1>2, <4>1 DEF i
            <4>3. new.rec[e + n] = pg.rec[e + n]
                BY <1>b, <4>2
            <4> QED
                BY <1>a, <4>1, <4>3
        <3>2. ASSUME NEW s \in ((l - 1) + 1)..n PROVE new.rec[e + s - 1] = Valid(cs[s], u[cs[s]])
            <4>1. e + s - 1 \in 1..N
                BY <1>0, <1>2, <1>a
            <4>2. CASE s = l
                <5>1. e + s - 1 = i
                    BY <4>2 DEF i
                <5> QED
                    BY <1>b, <4>1, <4>2, <5>1 DEF r
            <4>3. CASE s # l
                <5>1. e + s - 1 # i /\ s \in (l + 1)..n
                    BY <1>2, <4>3 DEF i
                <5>2. new.rec[e + s - 1] = pg.rec[e + s - 1]
                    BY <1>b, <4>1, <5>1
                <5> QED
                    BY <1>a, <5>1, <5>2
            <4> QED
                BY <4>2, <4>3
        <3> QED
            BY <1>a, <2>3, <3>1, <3>2 DEF Appending
    <2>5. Chosen' /\ VariablesOK' /\ UpdateOK'
        BY <1>0, <1>4, <1>5, <1>6, <1>7, <1>10, <2>1 DEF Chosen, Found, VariablesOK, UpdateOK
    <2>6. PutOK'
        <3>1. tries' = 0 /\ active' = a /\ update' = u /\ page'[a] = new
            BY <1>0, <1>4, <1>6, <2>1
        <3>2. \E l2 \in 1..n : /\ plan' = PutPlan(a, u, cs, e, l2)
                                /\ Appending(new, N, u, n, cs, e, l2)
            BY <2>1, <2>2, <2>4
        <3> QED
            BY <1>1, <2>5, <3>1, <3>2 DEF PutOK, Indexes
    <2>7. Inv'
        BY <1>8, <2>1, <2>5, <2>6 DEF Inv, IdleOK, EraseOK, ClearOK, SwapOK
    <2>8. Mem' = Mem
        BY <1>0, <1>6, <2>1, <2>3, SameMem DEF pg
    <2>9. Refines
        BY <1>4, <2>1, <2>8, StoreStutter
    <2> QED
        BY <2>7, <2>9
<1> QED
    BY <1>11, <1>12

-----------------------------------------------------------------------------
(* swapPagesAndWrite() starts, or starts its second round.                 *)
LEMMA SwapStart ==
    ASSUME Inv, active \in Page, active' = active, mode' = "swap",
           PagesOK', VariablesOK', UpdateOK', Chosen', NEW erase \in BOOLEAN,
           plan' = SwapPagesAndWrite(page'[active], active, update', erase),
           erase = FALSE => /\ VerifyPage(page[Other(active)]) /\ tries' = 0
                            /\ page'[Other(active)] = page[Other(active)]
    PROVE  Inv'
<1> DEFINE q == Other(active)
           new == page'[q]
           m == Goal'
<1>1. UpdateType(update')
    <2>1. (UpdateOK /\ mode \in {"put", "swap"} => UpdateType(update))'
        BY UpdateDomain, PTL
    <2> QED
        BY <2>1 DEF UpdateType
<1>2. WithUpdate(m, page'[active], update')
    <2>1. \A c \in Cells : Mem'[c] = Read(page'[active], c)
        BY MemReadNext
    <2> QED
        BY <2>1, GoalIsNext DEF WithUpdate
<1>3. page'[active] \in PageState(Slots[active])
    BY DEF PagesOK
<1> HIDE DEF m
<1>4. \E k \in 0..Capacity : \E cs \in [1..k -> Cells] :
          /\ Lists(cs, k, m)
          /\ SwapPagesAndWrite(page'[active], active, update', TRUE) = SwapPlan(active, m, cs, k, 1)
          /\ SwapPagesAndWrite(page'[active], active, update', FALSE) = SwapPlan(active, m, cs, k, 2)
    BY <1>1, <1>2, <1>3, SwapPlanIs
<1>5. PICK k, cs :
          /\ k \in 0..Capacity /\ cs \in [1..k -> Cells] /\ Lists(cs, k, m)
          /\ SwapPagesAndWrite(page'[active], active, update', TRUE) = SwapPlan(active, m, cs, k, 1)
          /\ SwapPagesAndWrite(page'[active], active, update', FALSE) = SwapPlan(active, m, cs, k, 2)
    BY <1>4
<1>6. k \in Nat
    BY <1>5, SlotsType
<1>7. \E i \in 1..(k + 4) :
          /\ plan' = SwapPlan(active, m, cs, k, i)
          /\ Copied(new, m, cs, k, i)
          /\ i < k + 4
          /\ tries' = 1 /\ i >= 2 => new.weak = {}
    <2>1. CASE erase = TRUE
        <3>1. plan' = SwapPlan(active, m, cs, k, 1)
            BY <1>5, <2>1
        <3>2. Copied(new, m, cs, k, 1)
            BY <1>6 DEF Copied
        <3> QED
            BY <1>6, <3>1, <3>2
    <2>2. CASE erase = FALSE
        <3>1. plan' = SwapPlan(active, m, cs, k, 2) /\ tries' = 0
            BY <1>5, <2>2
        <3>2. new = page[q] /\ VerifyPage(page[q])
            BY <2>2
        <3>3. \A j \in DOMAIN new.rec : new.rec[j].kind = "empty"
            BY <3>2 DEF VerifyPage
        <3>4. \A j \in DOMAIN new.rec : j \in Int
            <4>1. new.rec \in [1..Slots[q] -> Record] /\ Slots[q] \in Nat
                BY <3>2, OtherPage, SlotsType DEF Inv, PagesOK, PageState
            <4> QED
                BY <4>1
        <3>5. Copied(new, m, cs, k, 2)
            <4>1. \A j \in DOMAIN new.rec : j \in 1..Slots[q]
                BY <3>2, OtherPage DEF Inv, PagesOK, PageState
            <4>2. Slots[q] \in Nat
                BY OtherPage, SlotsType
            <4>3. \A j \in DOMAIN new.rec : ~ (j + 2 < 2)
                BY <4>1, <4>2
            <4>4. ~ (2 >= 3) /\ 2 # k + 4
                BY <1>6
            <4> QED
                BY <3>3, <4>3, <4>4 DEF Copied
        <3> QED
            BY <1>6, <3>1, <3>5
    <2> QED
        BY <2>1, <2>2
<1>8. SwapOK'
    <2>1. Found'
        BY DEF Chosen
    <2>2. PICK i \in 1..(k + 4) :
              /\ plan' = SwapPlan(active, m, cs, k, i)
              /\ Copied(new, m, cs, k, i)
              /\ i < k + 4
              /\ tries' = 1 /\ i >= 2 => new.weak = {}
        BY <1>7
    <2> QED
        BY <1>5, <2>1, <2>2 DEF SwapOK, m
<1> QED
    BY <1>8 DEF Inv, IdleOK, EraseOK, ClearOK, PutOK

(* A record of an appending put() does not verify: a page swap, with the   *)
(* contents as they were unless that was the record that makes the put()   *)
(* visible.                                                                *)
LEMMA WriteFailsPut ==
    ASSUME Inv, mode = "put", WriteFails
    PROVE  Inv' /\ (~Marginal => Refines)
<1> DEFINE a == active
           pg == page[a]
           N == Slots[a]
           o == Head(plan)
           u == update
<1>0. /\ a \in Page /\ pg.status = "ACTIVE" /\ Chosen /\ tries = 0
      /\ UpdateType(u)
      /\ pg \in PageState(N) /\ N \in Nat
    BY PutState
<1>1. PICK n, cs, e, l :
          /\ n \in 1..Capacity /\ Indexes(cs, n, DOMAIN u) /\ e \in 1..N /\ l \in 1..n
          /\ Appending(pg, N, u, n, cs, e, l)
          /\ o = WriteRecord(a, e + l - 1, Valid(cs[l], u[cs[l]]))
          /\ Valid(cs[l], u[cs[l]]) \in Record
          /\ e + l - 1 \in e..N
    BY PutState
<1> DEFINE i == e + l - 1
<1>2. e \in 1..N /\ i \in 1..N /\ e <= i
    <2>1. n \in Nat /\ Capacity \in Nat
        BY <1>0, <1>1, SlotsType
    <2> QED
        BY <1>0, <1>1, <2>1
<1>3. o.kind = "record" /\ o.page = a /\ o.slot = i /\ o.record \in Record
    BY <1>1, RecordOperation
<1>4. PICK new \in Failed(page[o.page], o) :
          (Visible(new) # Visible(pg) => Marginal) /\ Flash(o, new)
    BY DEF WriteFails
<1>p. /\ mode' = "swap"
      /\ plan' = SwapPagesAndWrite(page'[a], a, u, ~VerifyPage(page[Other(a)]))
      /\ active' = a /\ tries' = tries /\ update' = u /\ losses' = losses
    BY DEF WriteFails
<1>5. DOMAIN page = Page /\ PagesOK /\ VariablesOK /\ UpdateOK
    BY DEF Inv, PagesOK
<1>f. new \in Failed(pg, o)
    BY <1>3, <1>4
<1> HIDE DEF o, i, pg
<1>6. DOMAIN page' = Page /\ page'[a] = new /\ page'[Other(a)] = page[Other(a)]
    BY <1>0, <1>3, <1>4, <1>5, FlashEffect DEF pg
<1>7. /\ new \in PageState(N) /\ new.status = pg.status /\ new.weak = pg.weak
      /\ \E q \in Record : new.rec = SetRec(pg.rec, i, q)
    BY <1>0, <1>2, <1>3, <1>f, RecordFailed
<1>8. PagesOK'
    <2>1. 0 \notin pg.weak
        BY <1>0, <1>5 DEF PagesOK, pg
    <2> QED
        BY <1>0, <1>5, <1>6, <1>7, <2>1, FlashPages
<1>9. ~Marginal => Mem' = Mem
    <2>1. SUFFICES ASSUME ~Marginal PROVE Mem' = Mem
        OBVIOUS
    <2>2. PICK q \in Record : new.rec = SetRec(pg.rec, i, q)
        BY <1>7
    <2>3. DOMAIN pg.rec = 1..N
        BY <1>0 DEF PageState
    <2>4. Free(pg, e)
        BY <1>1 DEF Appending
    <2>5. Visible(new) = Visible(pg)
        BY <1>4, <2>1
    <2>6. i = e => q.kind # "valid"
        <3>1. SUFFICES ASSUME i = e, q.kind = "valid" PROVE FALSE
            OBVIOUS
        <3>2. DOMAIN new.rec = 1..N /\ new.rec[e] = q
              /\ \A j \in 1..N : j # e => new.rec[j] = pg.rec[j]
            BY <1>0, <1>2, <2>2, <2>3, <3>1, SetRecIs
        <3>3. \A j \in 1..(e - 1) : pg.rec[j].kind = "valid"
            BY <1>0, <1>2, <2>3, <2>4, FreeSlot
        <3>4. \A j \in 1..e : j \in 1..N /\ (j = e \/ j \in 1..(e - 1))
            BY <1>0, <1>2
        <3>5. \A j \in 1..e : new.rec[j].kind = "valid"
            BY <3>1, <3>2, <3>3, <3>4
        <3>6. e \in Visible(new)
            BY <1>2, <3>2, <3>5 DEF Visible
        <3>7. e \notin 1..(e - 1)
            BY <1>0, <1>2
        <3> QED
            BY <2>4, <2>5, <3>6, <3>7 DEF Free
    <2>7. Hidden(N, pg, new, e, i, q)
        BY <1>0, <1>2, <2>2, <2>3, <2>4, <2>6 DEF Hidden
    <2>8. \A c : Read(new, c) = Read(pg, c)
        BY <2>7, HiddenWrite
    <2> QED
        BY <1>0, <1>p, <1>6, <2>8, SameMem DEF pg
<1>10. Chosen' /\ VariablesOK' /\ UpdateOK'
    <2>1. a = 2 => page'[1].status # "ACTIVE"
        BY <1>0, <1>6 DEF Chosen, Other
    <2> QED
        BY <1>0, <1>p, <1>5, <1>6, <1>7, <2>1 DEF Chosen, Found, VariablesOK, UpdateOK
<1>11. Inv'
    <2> DEFINE erase == ~VerifyPage(page[Other(a)])
    <2>1. erase \in BOOLEAN /\ plan' = SwapPagesAndWrite(page'[a], a, update', erase)
        BY <1>p
    <2>2. erase = FALSE => VerifyPage(page[Other(a)]) /\ tries' = 0 /\ page'[Other(a)] = page[Other(a)]
        BY <1>0, <1>p, <1>6
    <2> HIDE DEF erase
    <2> QED
        BY <1>0, <1>p, <1>8, <1>10, <2>1, <2>2, SwapStart
<1>12. ~Marginal => Refines
    BY <1>p, <1>9, StoreStutter
<1> QED
    BY <1>11, <1>12

(* Power is lost while a record is appended: only the last one decides.    *)
LEMMA PowerLossPut ==
    ASSUME Inv, mode = "put", PowerLoss
    PROVE  Inv' /\ Refines
<1> DEFINE a == active
           pg == page[a]
           N == Slots[a]
           o == Head(plan)
           u == update
<1>0. /\ a \in Page /\ pg.status = "ACTIVE" /\ Chosen
      /\ UpdateType(u)
      /\ pg \in PageState(N) /\ N \in Nat
    BY PutState
<1>1. PICK n, cs, e, l :
          /\ n \in 1..Capacity /\ Indexes(cs, n, DOMAIN u) /\ e \in 1..N /\ l \in 1..n
          /\ Appending(pg, N, u, n, cs, e, l)
          /\ o = WriteRecord(a, e + l - 1, Valid(cs[l], u[cs[l]]))
          /\ Valid(cs[l], u[cs[l]]) \in Record
          /\ e + l - 1 \in e..N
    BY PutState
<1> DEFINE i == e + l - 1
           r == Valid(cs[l], u[cs[l]])
<1>2. n \in Nat /\ n # 0 /\ e \in 1..N /\ i \in 1..N /\ e <= i /\ l \in 1..n
    <2>1. n \in Nat /\ Capacity \in Nat
        BY <1>0, <1>1, SlotsType
    <2> QED
        BY <1>0, <1>1, <2>1
<1>3. o.kind = "record" /\ o.page = a /\ o.slot = i /\ o.record = r /\ r \in Record
    BY <1>1, RecordOperation
<1>4. PICK new \in Torn(page[o.page], o) : Flash(o, new)
    BY DEF PowerLoss
<1>5. DOMAIN page = Page /\ PagesOK /\ VariablesOK
    BY DEF Inv, PagesOK
<1> HIDE DEF o, i, r, pg
<1>6. DOMAIN page' = Page /\ page'[a] = new /\ page'[Other(a)] = page[Other(a)]
    BY <1>0, <1>3, <1>4, <1>5, FlashEffect
<1>7. /\ new \in PageState(N) /\ new.status = pg.status
      /\ \E q \in {r, pg.rec[i], Invalid} : new.rec = SetRec(pg.rec, i, q)
      /\ 0 \notin pg.weak => 0 \notin new.weak
    <2>1. new \in Torn(pg, o)
        BY <1>3, <1>4 DEF pg
    <2> QED
        BY <1>0, <1>2, <1>3, <2>1, RecordTorn
<1>8. PagesOK'
    <2>1. 0 \notin pg.weak
        BY <1>0, <1>5 DEF PagesOK, pg
    <2> QED
        BY <1>0, <1>5, <1>6, <1>7, <2>1, FlashPages
<1>9. /\ active' = a /\ mode' = "idle" /\ plan' = <<>> /\ Chosen' /\ VariablesOK'
      /\ losses' = losses + 1
    <2>1. page'[a].status = "ACTIVE"
        BY <1>0, <1>6, <1>7
    <2>2. a = 2 => page'[1].status # "ACTIVE"
        BY <1>0, <1>6 DEF Chosen, Other
    <2> QED
        BY <1>0, <1>5, <2>1, <2>2, Restart
<1>10. Inv'
    BY <1>8, <1>9, IdleInv
<1>11. DOMAIN pg.rec = 1..N /\ Free(pg, e)
    BY <1>0, <1>1 DEF PageState, Appending
<1>12. PICK q \in {r, pg.rec[i], Invalid} : new.rec = SetRec(pg.rec, i, q)
    BY <1>7
<1>13. CASE l = 1 /\ q = r
    <2>1. i = e
        BY <1>2, <1>13 DEF i
    <2>2. new.rec = SetRec(pg.rec, e, Valid(cs[1], u[cs[1]]))
        BY <1>12, <1>13, <2>1 DEF r
    <2>3. Appending(pg, N, u, n, cs, e, 1)
        BY <1>1, <1>13
    <2>4. n \in Nat \ {0} /\ e \in 1..N /\ N \in Nat /\ Indexes(cs, n, DOMAIN u)
        BY <1>0, <1>1, <1>2
    <2>5. ASSUME NEW c \in Cells PROVE Read(new, c) = IF c \in DOMAIN u THEN u[c] ELSE Read(pg, c)
        <3>1. LastAppended(N, pg, new, u, n, cs, e)
            BY <1>11, <2>2, <2>3, <2>4 DEF LastAppended
        <3> QED
            BY <3>1, ReadAfterAppend
    <2>6. \A c \in Cells : Mem'[c] = Read(new, c) /\ Mem[c] = Read(pg, c)
        BY <1>0, <1>6, <1>9, MemRead, MemReadNext DEF pg
    <2>7. \A c \in Cells : Mem'[c] = Goal[c]
        BY <2>5, <2>6, GoalIs
    <2>8. Mem' = Goal
        BY <2>7, GoalIs, MemReadNext
    <2>9. Refines
        BY <1>9, <2>8, StorePowerLoss
    <2> QED
        BY <1>10, <2>9
<1>14. CASE ~ (l = 1 /\ q = r)
    <2>1. i = e => q.kind # "valid"
        <3>1. SUFFICES ASSUME i = e PROVE q.kind # "valid"
            OBVIOUS
        <3>2. q \in {pg.rec[e], Invalid}
            BY <1>2, <1>12, <1>14, <3>1 DEF i
        <3>3. pg.rec[e].kind # "valid"
            BY <1>0, <1>2, <1>11, FreeSlot
        <3> QED
            BY <3>2, <3>3, EmptyType
    <2>2. Hidden(N, pg, new, e, i, q)
        BY <1>0, <1>2, <1>11, <1>12, <2>1 DEF Hidden
    <2>3. \A c : Read(new, c) = Read(pg, c)
        BY <2>2, HiddenWrite
    <2>4. Mem' = Mem
        BY <1>0, <1>6, <1>9, <2>3, SameMem DEF pg
    <2>5. Refines
        BY <1>9, <2>4, StorePowerLoss
    <2> QED
        BY <1>10, <2>5
<1> QED
    BY <1>13, <1>14

-----------------------------------------------------------------------------
(* A page swap: what is known at each of its operations.                   *)
SwapAt(k, cs, i) ==
    /\ k \in 0..Capacity /\ cs \in [1..k -> Cells] /\ i \in 1..(k + 4)
    /\ Lists(cs, k, Goal)
    /\ Copied(page[Other(active)], Goal, cs, k, i)
    /\ i < k + 4 => Chosen
    /\ tries = 1 /\ i >= 2 => page[Other(active)].weak = {}
    /\ Head(plan) = SwapOp(active, Goal, cs, k, i)
    /\ Rest(plan) = SwapPlan(active, Goal, cs, k, i + 1)
    /\ Rest(plan) = <<>> <=> i = k + 4

(* There is such a point of the swap.                                      *)
LEMMA SwapState ==
    ASSUME Inv, mode = "swap"
    PROVE  /\ active \in Page /\ page[active].status = "ACTIVE" /\ Found
           /\ UpdateType(update) /\ DataType(Goal)
           /\ Other(active) \in Page /\ Other(active) # active
           /\ page[Other(active)] \in PageState(Slots[Other(active)])
           /\ Slots[Other(active)] \in Nat /\ Capacity < Slots[Other(active)]
           /\ \E k, cs, i : SwapAt(k, cs, i)
<1>1. active \in Page /\ page[active].status = "ACTIVE" /\ Found
    BY DEF Inv, SwapOK, Found
<1>2. UpdateType(update)
    BY UpdateDomain DEF Inv
<1>3. DataType(Goal)
    <2>1. Mem \in [Cells -> Data]
        BY MemType DEF Inv
    <2> QED
        BY <1>2, <2>1, GoalIs DEF DataType, UpdateType
<1>4. Other(active) \in Page /\ Other(active) # active
    BY <1>1, OtherPage
<1>5. /\ page[Other(active)] \in PageState(Slots[Other(active)])
      /\ Slots[Other(active)] \in Nat /\ Capacity < Slots[Other(active)] /\ Capacity \in Nat
    BY <1>4, SlotsType DEF Inv, PagesOK
<1>6. PICK k, cs, i :
          /\ k \in 0..Capacity /\ cs \in [1..k -> Cells] /\ i \in 1..(k + 4)
          /\ Lists(cs, k, Goal)
          /\ plan = SwapPlan(active, Goal, cs, k, i)
          /\ Copied(page[Other(active)], Goal, cs, k, i)
          /\ i < k + 4 => Chosen
          /\ tries = 1 /\ i >= 2 => page[Other(active)].weak = {}
    BY DEF Inv, SwapOK
<1>7. /\ Head(plan) = SwapOp(active, Goal, cs, k, i)
      /\ Rest(plan) = SwapPlan(active, Goal, cs, k, i + 1)
      /\ Rest(plan) = <<>> <=> i = k + 4
    <2>1. k \in Nat /\ i \in 1..(k + 4) /\ cs \in [1..k -> Cells]
        BY <1>5, <1>6
    <2>2. \A c \in Cells : Goal[c] \in Data
        BY <1>3 DEF DataType
    <2> QED
        BY <1>1, <1>6, <2>1, <2>2, SwapPlanNext
<1>8. SwapAt(k, cs, i)
    BY <1>6, <1>7 DEF SwapAt
<1> QED
    BY <1>1, <1>2, <1>3, <1>4, <1>5, <1>8

(* The operations of a swap.                                               *)
SwapOpAt(p, m, cs, k, i, o) ==
    /\ p \in Page /\ DataType(m) /\ k \in Nat /\ cs \in [1..k -> Cells]
    /\ i \in 1..(k + 4) /\ o = SwapOp(p, m, cs, k, i)

(* What each of them writes, and where.                                    *)
LEMMA SwapOpIs ==
    ASSUME NEW p, NEW m, NEW k, NEW cs, NEW i, NEW o, SwapOpAt(p, m, cs, k, i, o)
    PROVE  /\ i = 1 => o.kind = "erase" /\ o.page = Other(p)
           /\ i = 2 => o.kind = "status" /\ o.page = Other(p) /\ o.slot = 0 /\ o.status = "COPY"
           /\ i \in 3..(k + 2) =>
                  /\ o.kind = "record" /\ o.page = Other(p) /\ o.slot = i - 2
                  /\ o.record = Valid(cs[i - 2], m[cs[i - 2]])
                  /\ Valid(cs[i - 2], m[cs[i - 2]]) \in Record
           /\ i = k + 3 => o.kind = "status" /\ o.page = Other(p) /\ o.slot = 0 /\ o.status = "ACTIVE"
           /\ i = k + 4 => o.kind = "status" /\ o.page = p /\ o.slot = 0 /\ o.status = "INACTIVE"
<1> USE DEF SwapOpAt
<1>1. CASE i = 1
    <2>1. o = Erase(Other(p)) /\ 1 # k + 3 /\ 1 # k + 4
        BY <1>1 DEF SwapOp
    <2> QED
        BY <1>1, <2>1, EraseOperation
<1>2. CASE i = 2
    <2>1. o = WriteStatus(Other(p), "COPY") /\ 2 # k + 3 /\ 2 # k + 4
        BY <1>2 DEF SwapOp
    <2> QED
        BY <1>2, <2>1, StatusOperation
<1>3. CASE i \in 3..(k + 2)
    <2>1. i # 1 /\ i # 2 /\ i # k + 3 /\ i # k + 4 /\ i - 2 \in 1..k
        BY <1>3
    <2>2. o = WriteRecord(Other(p), i - 2, Valid(cs[i - 2], m[cs[i - 2]]))
        BY <1>3, <2>1 DEF SwapOp
    <2>3. Valid(cs[i - 2], m[cs[i - 2]]) \in Record
        BY <2>1, ValidType DEF DataType
    <2> QED
        BY <2>1, <2>2, <2>3, RecordOperation
<1>4. CASE i = k + 3
    <2>1. o = WriteStatus(Other(p), "ACTIVE") /\ i # 1 /\ i # 2 /\ i \notin 3..(k + 2) /\ i # k + 4
        BY <1>4 DEF SwapOp
    <2> QED
        BY <2>1, StatusOperation
<1>5. CASE i = k + 4
    <2>1. o = WriteStatus(p, "INACTIVE") /\ i # 1 /\ i # 2 /\ i \notin 3..(k + 2) /\ i # k + 3
        BY <1>5 DEF SwapOp
    <2> QED
        BY <2>1, StatusOperation
<1> QED
    BY <1>1, <1>2, <1>3, <1>4, <1>5

(* A page that holds the whole copy reads as the contents put() is to      *)
(* leave.                                                                  *)
HoldsCopy(N, pg, m, cs, k, i) ==
    /\ N \in Nat /\ pg.rec \in [1..N -> Record] /\ Capacity < N /\ k \in 0..Capacity
    /\ cs \in [1..k -> Cells] /\ Lists(cs, k, m) /\ i \in {k + 3, k + 4}
    /\ Copied(pg, m, cs, k, i)

(* readRange() of that page.                                               *)
LEMMA CopyReads ==
    ASSUME NEW N, NEW pg, NEW m, NEW cs, NEW k, NEW i, HoldsCopy(N, pg, m, cs, k, i)
    PROVE  \A c \in Cells : Read(pg, c) = m[c]
<1>0. /\ N \in Nat /\ pg.rec \in [1..N -> Record] /\ Capacity < N /\ k \in 0..Capacity
      /\ cs \in [1..k -> Cells] /\ Lists(cs, k, m) /\ i \in {k + 3, k + 4}
      /\ Copied(pg, m, cs, k, i)
    BY DEF HoldsCopy
<1>1. DOMAIN pg.rec = 1..N /\ k \in Nat /\ k <= N /\ i >= 2 /\ i \in Nat
    BY <1>0, EEPROMAssumption
<1>2. \A j \in 1..N : IF j <= k THEN pg.rec[j] = Valid(cs[j], m[cs[j]]) ELSE pg.rec[j].kind = "empty"
    <2>1. \A j \in 1..N : j <= k /\ j + 2 < i <=> j <= k
        BY <1>0, <1>1
    <2>2. \A j \in 1..N : IF j <= k /\ j + 2 < i THEN pg.rec[j] = Valid(cs[j], m[cs[j]])
                           ELSE pg.rec[j].kind = "empty"
        BY <1>0, <1>1 DEF Copied
    <2> QED
        BY <2>1, <2>2
<1>3. ASSUME NEW c \in Cells PROVE Read(pg, c) = m[c]
    <2>1. N \in Nat /\ cs \in [1..k -> Cells] /\ Lists(cs, k, m)
        BY <1>0
    <2> QED
        BY <1>1, <1>2, <2>1, ReadAfterCopy
<1> QED
    BY <1>3

(* The next operation of a swap on the other page, and what it leaves      *)
(* there.                                                                  *)
Copying(p, q, pg, m, cs, k, i, o) ==
    /\ p \in Page /\ q \in Page /\ q = Other(p) /\ pg \in PageState(Slots[q])
    /\ DataType(m) /\ k \in 0..Capacity /\ cs \in [1..k -> Cells] /\ i \in 1..(k + 3)
    /\ Copied(pg, m, cs, k, i) /\ o = SwapOp(p, m, cs, k, i)

(* One operation more is done.                                             *)
LEMMA CopyNext ==
    ASSUME NEW p, NEW q, NEW pg, NEW m, NEW cs, NEW k, NEW i, NEW o,
           Copying(p, q, pg, m, cs, k, i, o)
    PROVE  /\ o.page = q
           /\ Done(pg, o) \in PageState(Slots[q])
           /\ Copied(Done(pg, o), m, cs, k, i + 1)
           /\ i = k + 3 \/ Done(pg, o).status \in {"ERASED", "COPY", pg.status}
           /\ i >= 2 => 0 \notin Done(pg, o).weak
           /\ i = 1 \/ pg.weak = {} => Done(pg, o).weak = {}
<1> USE DEF Copying
<1> DEFINE new == Done(pg, o)
           N == Slots[q]
<1>0. N \in Nat /\ Capacity < N /\ Capacity \in Nat /\ k \in Nat /\ i \in 1..(k + 4)
    BY SlotsType
<1>1. DOMAIN pg.rec = 1..N
    BY DEF PageState
<1>2. /\ i = 1 => o.kind = "erase" /\ o.page = q
      /\ i = 2 => o.kind = "status" /\ o.page = q /\ o.slot = 0 /\ o.status = "COPY"
      /\ i \in 3..(k + 2) =>
             /\ o.kind = "record" /\ o.page = q /\ o.slot = i - 2
             /\ o.record = Valid(cs[i - 2], m[cs[i - 2]])
             /\ Valid(cs[i - 2], m[cs[i - 2]]) \in Record
      /\ i = k + 3 => o.kind = "status" /\ o.page = q /\ o.slot = 0 /\ o.status = "ACTIVE"
    <2>1. SwapOpAt(p, m, cs, k, i, o)
        BY <1>0 DEF SwapOpAt
    <2> QED
        BY <2>1, SwapOpIs
<1> HIDE DEF N, new
<1>3. CASE i = 1
    <2>1. new = ErasedPage(q) /\ o.page = q
        BY <1>2, <1>3, EraseDone DEF new
    <2>2. /\ ErasedPage(q) \in PageState(N)
          /\ ErasedPage(q).status = "ERASED" /\ ErasedPage(q).weak = {}
          /\ \A j \in 1..N : ErasedPage(q).rec[j].kind = "empty"
        BY ErasedPageIs DEF N
    <2>3. DOMAIN new.rec = 1..N
        BY <2>1, <2>2 DEF PageState
    <2>4. Copied(new, m, cs, k, i + 1)
        <3>1. \A j \in DOMAIN new.rec : ~ (j + 2 < 2) /\ new.rec[j].kind = "empty"
            BY <1>0, <2>1, <2>2, <2>3
        <3>2. 2 # k + 4 /\ ~ (2 >= 3) /\ i + 1 = 2
            BY <1>0, <1>3
        <3> QED
            BY <3>1, <3>2 DEF Copied
    <2> QED
        BY <1>0, <1>3, <2>1, <2>2, <2>4 DEF new, N
<1>4. CASE i # 1 /\ i \notin 3..(k + 2)
    <2>1. (i = 2 \/ i = k + 3) /\ i >= 2
        BY <1>0, <1>4
    <2>2. o.kind = "status" /\ o.status \in Statuses /\ o.page = q
        BY <1>2, <2>1 DEF Statuses
    <2>3. /\ new \in PageState(N) /\ new.status = o.status
          /\ new.rec = pg.rec /\ 0 \notin new.weak
          /\ pg.weak = {} => new.weak = {}
        BY <1>0, <2>2, StatusDone DEF new, N
    <2>4. Copied(new, m, cs, k, i + 1)
        <3>1. \A j \in DOMAIN pg.rec : (j <= k /\ j + 2 < i + 1) <=> (j <= k /\ j + 2 < i)
            BY <1>0, <1>1, <2>1
        <3>2. \A j \in DOMAIN pg.rec :
                  IF j <= k /\ j + 2 < i THEN pg.rec[j] = Valid(cs[j], m[cs[j]])
                  ELSE pg.rec[j].kind = "empty"
            BY <2>1 DEF Copied
        <3>3. \A j \in DOMAIN new.rec :
                  IF j <= k /\ j + 2 < i + 1 THEN new.rec[j] = Valid(cs[j], m[cs[j]])
                  ELSE new.rec[j].kind = "empty"
            BY <2>3, <3>1, <3>2
        <3>4. i + 1 = k + 4 => new.status = "ACTIVE"
            BY <1>0, <1>2, <2>3
        <3> QED
            BY <2>3, <3>3, <3>4 DEF Copied
    <2> QED
        BY <1>2, <1>4, <2>1, <2>2, <2>3, <2>4 DEF new, N
<1>5. CASE i \in 3..(k + 2)
    <2> DEFINE x == i - 2
               r == Valid(cs[x], m[cs[x]])
    <2>1. x \in 1..N /\ x \in 1..k
        BY <1>0, <1>5
    <2>2. o.kind = "record" /\ o.slot = x /\ o.record = r /\ r \in Record /\ o.page = q
        BY <1>2, <1>5
    <2>3. x + 2 = i
        BY <1>0
    <2> HIDE DEF x, r
    <2>4. /\ new \in PageState(N) /\ new.status = pg.status
          /\ new.rec = SetRec(pg.rec, x, r)
          /\ 0 \notin pg.weak => 0 \notin new.weak
          /\ pg.weak = {} => new.weak = {}
        BY <1>0, <2>1, <2>2, RecordDone DEF new, N
    <2>5. /\ DOMAIN new.rec = 1..N /\ new.rec[x] = r
          /\ \A j \in 1..N : j # x => new.rec[j] = pg.rec[j]
        BY <1>0, <1>1, <2>1, <2>4, SetRecIs
    <2>6. i >= 3 /\ i >= 2 /\ i < k + 3
        BY <1>0, <1>5
    <2>7. 0 \notin pg.weak
        BY <2>6 DEF Copied
    <2>8. ASSUME NEW j \in DOMAIN new.rec
          PROVE  IF j <= k /\ j + 2 < i + 1 THEN new.rec[j] = Valid(cs[j], m[cs[j]])
                 ELSE new.rec[j].kind = "empty"
        <3>1. j \in 1..N /\ j \in DOMAIN pg.rec
            BY <1>1, <2>5
        <3>2. CASE j = x
            <4>1. j <= k /\ j + 2 < i + 1
                BY <1>0, <2>1, <2>3, <3>2
            <4> QED
                BY <2>5, <3>2, <4>1 DEF r
        <3>3. CASE j # x
            <4>1. j + 2 < i + 1 <=> j + 2 < i
                BY <1>0, <2>1, <2>3, <3>1, <3>3
            <4>2. IF j <= k /\ j + 2 < i THEN pg.rec[j] = Valid(cs[j], m[cs[j]])
                  ELSE pg.rec[j].kind = "empty"
                BY <2>6, <3>1 DEF Copied
            <4>3. new.rec[j] = pg.rec[j]
                BY <2>5, <3>1, <3>3
            <4> QED
                BY <4>1, <4>2, <4>3
        <3> QED
            BY <3>2, <3>3
    <2>9. Copied(new, m, cs, k, i + 1)
        <3>1. i + 1 # k + 4
            BY <1>0, <2>6
        <3> QED
            BY <2>4, <2>7, <2>8, <3>1 DEF Copied
    <2> QED
        BY <2>2, <2>4, <2>6, <2>7, <2>9 DEF new, N
<1> QED
    BY <1>3, <1>4, <1>5

(* An operation of a swap succeeds; the last one replaces the contents.    *)
LEMMA WriteSwap ==
    ASSUME Inv, mode = "swap", Write
    PROVE  Inv' /\ Refines
<1> DEFINE a == active
           q == Other(a)
           pg == page[q]
           o == Head(plan)
           m == Goal
<1>0. /\ a \in Page /\ page[a].status = "ACTIVE" /\ UpdateType(update) /\ DataType(m)
      /\ q \in Page /\ q # a /\ pg \in PageState(Slots[q])
      /\ Slots[q] \in Nat /\ Capacity < Slots[q]
    BY SwapState
<1>1. PICK k, cs, i : SwapAt(k, cs, i)
    BY SwapState
<1>2. /\ k \in 0..Capacity /\ cs \in [1..k -> Cells] /\ i \in 1..(k + 4)
      /\ Lists(cs, k, m)
      /\ Copied(pg, m, cs, k, i)
      /\ i < k + 4 => Chosen
      /\ tries = 1 /\ i >= 2 => pg.weak = {}
      /\ o = SwapOp(a, m, cs, k, i)
      /\ Rest(plan) = SwapPlan(a, m, cs, k, i + 1)
      /\ Rest(plan) = <<>> <=> i = k + 4
    BY <1>1 DEF SwapAt
<1>3. /\ Flash(o, Done(page[o.page], o)) /\ plan' = Rest(plan) /\ Continue(page')
      /\ tries' = tries /\ update' = update /\ losses' = losses
    BY DEF Write, Rest
<1>4. DOMAIN page = Page /\ PagesOK /\ VariablesOK /\ UpdateOK
    BY DEF Inv, PagesOK
<1>5. Other(q) = a /\ k \in Nat /\ Capacity \in Nat
    BY <1>0, <1>2, OtherPage, SlotsType
<1> HIDE DEF o, m
<1>6. CASE i < k + 4
    <2> DEFINE new == Done(pg, o)
    <2>1. Copying(a, q, pg, m, cs, k, i, o) /\ i \in 1..(k + 3)
        BY <1>0, <1>2, <1>5, <1>6 DEF Copying
    <2>2. /\ o.page = q
          /\ new \in PageState(Slots[q])
          /\ Copied(new, m, cs, k, i + 1)
          /\ i = k + 3 \/ new.status \in {"ERASED", "COPY", pg.status}
          /\ i >= 2 => 0 \notin new.weak
          /\ i = 1 \/ pg.weak = {} => new.weak = {}
        BY <2>1, CopyNext
    <2> HIDE DEF new
    <2>3. DOMAIN page' = Page /\ page'[q] = new /\ page'[a] = page[a]
        BY <1>0, <1>3, <1>4, <1>5, <2>2, FlashEffect DEF new
    <2>4. mode' = mode /\ active' = a /\ plan' = SwapPlan(a, m, cs, k, i + 1)
        <3>1. Tail(plan) # <<>>
            BY <1>2, <1>6, <1>5 DEF Rest
        <3> QED
            BY <1>2, <1>3, <3>1 DEF Continue
    <2>5. PagesOK'
        <3>1. new.status = "ACTIVE" => 0 \notin new.weak
            <4>1. i = 1 \/ i >= 2
                BY <1>2, <1>5
            <4> QED
                BY <2>2, <4>1
        <3> QED
            BY <1>0, <1>4, <1>5, <2>2, <2>3, <3>1, FlashPages
    <2>6. Mem' = Mem
        BY <1>0, <2>3, <2>4, SameMem
    <2>7. Goal' = m
        BY <1>3, <2>6 DEF Goal, m
    <2>8. VariablesOK' /\ UpdateOK' /\ Found'
        BY <1>0, <1>3, <1>4, <2>3, <2>4 DEF VariablesOK, UpdateOK, Found
    <2>9. i + 1 < k + 4 => Chosen'
        <3>1. SUFFICES ASSUME i + 1 < k + 4 PROVE Chosen'
            OBVIOUS
        <3>2. i # k + 3 /\ Chosen
            BY <1>2, <1>5, <1>6, <3>1
        <3>3. new.status \in {"ERASED", "COPY", pg.status}
            BY <2>2, <3>2
        <3>4. a = 2 => q = 1 /\ pg.status # "ACTIVE"
            BY <3>2 DEF Chosen, Other
        <3>5. a = 2 => page'[1].status # "ACTIVE"
            BY <2>3, <3>3, <3>4
        <3> QED
            BY <2>4, <2>8, <3>5 DEF Chosen
    <2>10. tries = 1 => new.weak = {}
        <3>1. i = 1 \/ i >= 2
            BY <1>2, <1>5
        <3> QED
            BY <1>2, <2>2, <3>1
    <2>11. SwapOK'
        <3>1. i + 1 \in 1..(k + 4)
            BY <1>2, <1>5, <1>6
        <3>2. active' = a /\ page'[Other(a)] = new /\ tries' = tries
            BY <1>3, <2>3, <2>4
        <3>3. \E j \in 1..(k + 4) :
                  /\ plan' = SwapPlan(active', Goal', cs, k, j)
                  /\ Copied(page'[Other(active')], Goal', cs, k, j)
                  /\ j < k + 4 => Chosen'
                  /\ tries' = 1 /\ j >= 2 => page'[Other(active')].weak = {}
            BY <2>2, <2>4, <2>7, <2>9, <2>10, <3>1, <3>2
        <3> QED
            BY <1>2, <2>7, <2>8, <3>3 DEF SwapOK
    <2>12. Inv'
        BY <2>4, <2>5, <2>8, <2>11 DEF Inv, IdleOK, EraseOK, ClearOK, PutOK
    <2>13. Refines
        BY <1>3, <2>4, <2>6, StoreStutter
    <2> QED
        BY <2>12, <2>13
<1>7. CASE i = k + 4
    <2> DEFINE new == Done(page[a], o)
    <2>1. o.kind = "status" /\ o.page = a /\ o.status = "INACTIVE"
        <3>1. SwapOpAt(a, m, cs, k, i, o)
            BY <1>0, <1>2, <1>5 DEF SwapOpAt
        <3> QED
            BY <1>7, <3>1, SwapOpIs
    <2>2. page[a] \in PageState(Slots[a]) /\ Slots[a] \in Nat
        BY <1>0, <1>4, SlotsType DEF PagesOK
    <2>3. new \in PageState(Slots[a]) /\ new.status = "INACTIVE"
        BY <2>1, <2>2, StatusDone DEF Statuses
    <2> HIDE DEF new
    <2>4. DOMAIN page' = Page /\ page'[a] = new /\ page'[q] = pg
        BY <1>0, <1>3, <1>4, <2>1, FlashEffect DEF new
    <2>5. PagesOK'
        BY <1>0, <1>4, <2>3, <2>4, FlashPages
    <2>6. pg.status = "ACTIVE"
        BY <1>2, <1>7 DEF Copied
    <2>7. UpdateActivePage(page') = q
        <3>1. q = 2 => page'[1].status # "ACTIVE"
            BY <1>0, <2>3, <2>4 DEF Page
        <3> QED
            BY <1>0, <2>4, <2>6, <3>1, ActivePage
    <2>8. mode' = "idle" /\ active' = q /\ plan' = <<>>
        BY <1>2, <1>3, <1>7, <2>7 DEF Continue, Rest
    <2>9. Chosen' /\ VariablesOK'
        BY <1>0, <1>3, <1>4, <2>3, <2>4, <2>6, <2>8 DEF Chosen, Found, VariablesOK, Page
    <2>10. Inv'
        BY <2>5, <2>8, <2>9, IdleInv
    <2>11. \A c \in Cells : Read(pg, c) = m[c]
        <3>1. HoldsCopy(Slots[q], pg, m, cs, k, i)
            BY <1>0, <1>2, <1>7 DEF HoldsCopy, PageState
        <3> QED
            BY <3>1, CopyReads
    <2>12. Mem' = Goal
        <3>1. \A c \in Cells : Mem'[c] = Goal[c]
            BY <1>0, <2>4, <2>8, <2>11, MemReadNext DEF m
        <3> QED
            BY <3>1, GoalIs, MemReadNext
    <2>13. Refines
        BY <1>3, <2>8, <2>12, StorePutDone
    <2> QED
        BY <2>10, <2>13
<1>8. i < k + 4 \/ i = k + 4
    BY <1>2, <1>5
<1> QED
    BY <1>6, <1>7, <1>8

(* A write of a swap does not verify: the first round is followed by a     *)
(* second, and in the second none fails, so that put() is never dropped.   *)
LEMMA WriteFailsSwap ==
    ASSUME Inv, mode = "swap", WriteFails
    PROVE  Inv' /\ Refines
<1> DEFINE a == active
           q == Other(a)
           pg == page[q]
           o == Head(plan)
           m == Goal
<1>0. /\ a \in Page /\ page[a].status = "ACTIVE" /\ UpdateType(update) /\ DataType(m)
      /\ q \in Page /\ q # a /\ pg \in PageState(Slots[q])
      /\ Slots[q] \in Nat /\ Capacity < Slots[q]
    BY SwapState
<1>1. PICK k, cs, i : SwapAt(k, cs, i)
    BY SwapState
<1>2. /\ k \in 0..Capacity /\ cs \in [1..k -> Cells] /\ i \in 1..(k + 4)
      /\ Copied(pg, m, cs, k, i)
      /\ i < k + 4 => Chosen
      /\ tries = 1 /\ i >= 2 => pg.weak = {}
      /\ o = SwapOp(a, m, cs, k, i)
    BY <1>1 DEF SwapAt
<1>3. /\ o.kind # "erase"
      /\ Overwrites(page[o.page], o) \/ o.slot \in page[o.page].weak
      /\ active' = a /\ update' = update /\ losses' = losses
    BY DEF WriteFails
<1>4. DOMAIN page = Page /\ PagesOK /\ VariablesOK /\ UpdateOK
    BY DEF Inv, PagesOK
<1>5. Other(q) = a /\ k \in Nat /\ Capacity \in Nat
    BY <1>0, <1>2, OtherPage, SlotsType
<1> HIDE DEF o, m
<1>6. /\ i = 1 => o.kind = "erase" /\ o.page = q
      /\ i = 2 => o.kind = "status" /\ o.page = q /\ o.slot = 0 /\ o.status = "COPY"
      /\ i \in 3..(k + 2) =>
             /\ o.kind = "record" /\ o.page = q /\ o.slot = i - 2
             /\ o.record = Valid(cs[i - 2], m[cs[i - 2]])
             /\ Valid(cs[i - 2], m[cs[i - 2]]) \in Record
      /\ i = k + 3 => o.kind = "status" /\ o.page = q /\ o.slot = 0 /\ o.status = "ACTIVE"
      /\ i = k + 4 => o.kind = "status" /\ o.page = a /\ o.slot = 0 /\ o.status = "INACTIVE"
    <2>1. SwapOpAt(a, m, cs, k, i, o)
        BY <1>0, <1>2, <1>5 DEF SwapOpAt
    <2> QED
        BY <2>1, SwapOpIs
<1>7. i = 2 \/ i \in 3..(k + 2)
    <2>1. i # 1
        BY <1>3, <1>6
    <2>2. i # k + 3
        <3>1. SUFFICES ASSUME i = k + 3 PROVE FALSE
            OBVIOUS
        <3>2. 0 \in pg.weak
            BY <1>3, <1>6, <3>1 DEF Overwrites
        <3>3. i >= 3
            BY <1>5, <3>1
        <3> QED
            BY <1>2, <3>2, <3>3 DEF Copied
    <2>3. i # k + 4
        <3>1. SUFFICES ASSUME i = k + 4 PROVE FALSE
            OBVIOUS
        <3>2. 0 \in page[a].weak
            BY <1>3, <1>6, <3>1 DEF Overwrites
        <3> QED
            BY <1>0, <1>4, <3>2 DEF PagesOK
    <2> QED
        BY <1>2, <1>5, <2>1, <2>2, <2>3
<1>8. Chosen /\ o.page = q /\ i >= 2
    BY <1>2, <1>5, <1>6, <1>7
<1>9. i \in 3..(k + 2) => i - 2 \in 1..Slots[q]
    BY <1>0, <1>2, <1>5
<1>10. o.slot \in pg.weak
    <2>1. ~ Overwrites(pg, o)
        <3>1. CASE i = 2
            BY <1>6, <3>1 DEF Overwrites
        <3>2. CASE i \in 3..(k + 2)
            <4>1. i - 2 \in DOMAIN pg.rec
                BY <1>0, <1>9, <3>2 DEF PageState
            <4>2. ~ ((i - 2) + 2 < i)
                BY <1>2, <1>5
            <4>3. pg.rec[i - 2].kind = "empty"
                BY <1>2, <1>8, <4>1, <4>2 DEF Copied
            <4> QED
                BY <1>6, <3>2, <4>3 DEF Overwrites
        <3> QED
            BY <1>7, <3>1, <3>2
    <2> QED
        BY <1>3, <1>8, <2>1
<1>11. tries = 0
    <2>1. tries # 1
        BY <1>2, <1>8, <1>10
    <2> QED
        BY <1>4, <2>1 DEF VariablesOK
<1>12. tries' = 1 /\ mode' = "swap" /\ plan' = SwapPagesAndWrite(page'[a], a, update', TRUE)
    BY <1>11 DEF WriteFails
<1>f. PICK new \in Failed(page[o.page], o) : Flash(o, new)
    BY DEF WriteFails, o
<1>g. new \in Failed(pg, o)
    BY <1>8, <1>f
<1>13. /\ new \in PageState(Slots[q])
       /\ new.status = "other" \/ (new.status = pg.status /\ new.weak = pg.weak)
    <2>1. CASE i = 2
        <3>1. o.kind = "status"
            BY <1>6, <2>1
        <3> QED
            BY <1>0, <1>g, <3>1, StatusFailed
    <2>2. CASE i \in 3..(k + 2)
        <3> DEFINE x == i - 2
        <3>1. o.kind = "record" /\ o.slot = x /\ x \in 1..Slots[q] /\ o.record \in Record
            BY <1>6, <1>9, <2>2
        <3> HIDE DEF x
        <3> QED
            BY <1>0, <1>g, <3>1, RecordFailed
    <2> QED
        BY <1>7, <2>1, <2>2
<1>14. DOMAIN page' = Page /\ page'[q] = new /\ page'[a] = page[a]
    BY <1>0, <1>f, <1>4, <1>5, <1>8, FlashEffect
<1>15. PagesOK'
    <2>1. new.status = "ACTIVE" => 0 \notin new.weak
        BY <1>0, <1>4, <1>13 DEF PagesOK
    <2> QED
        BY <1>0, <1>4, <1>5, <1>13, <1>14, <2>1, FlashPages
<1>16. Mem' = Mem
    BY <1>0, <1>3, <1>14, SameMem
<1>17. VariablesOK' /\ UpdateOK' /\ Chosen'
    <2>1. a = 2 => page'[1].status # "ACTIVE"
        BY <1>8, <1>13, <1>14 DEF Chosen, Other
    <2> QED
        BY <1>0, <1>3, <1>4, <1>12, <1>14, <2>1 DEF VariablesOK, UpdateOK, Chosen, Found
<1>18. Inv'
    <2> DEFINE erase == TRUE
    <2>1. erase \in BOOLEAN /\ plan' = SwapPagesAndWrite(page'[a], a, update', erase)
        BY <1>12
    <2>2. erase = FALSE => VerifyPage(page[Other(a)]) /\ tries' = 0 /\ page'[Other(a)] = page[Other(a)]
        OBVIOUS
    <2> HIDE DEF erase
    <2> QED
        BY <1>0, <1>3, <1>12, <1>15, <1>16, <1>17, <2>1, <2>2, SwapStart
<1>19. Refines
    BY <1>3, <1>12, <1>16, StoreStutter
<1> QED
    BY <1>18, <1>19

(* Power is lost while the other page is written, or while its status or   *)
(* that of this page is.                                                   *)
LEMMA PowerLossSwap ==
    ASSUME Inv, mode = "swap", PowerLoss
    PROVE  Inv' /\ Refines
<1> DEFINE a == active
           q == Other(a)
           pg == page[q]
           o == Head(plan)
           m == Goal
<1>0. /\ a \in Page /\ page[a].status = "ACTIVE" /\ UpdateType(update) /\ DataType(m)
      /\ q \in Page /\ q # a /\ pg \in PageState(Slots[q])
      /\ Slots[q] \in Nat /\ Capacity < Slots[q]
    BY SwapState
<1>1. PICK k, cs, i : SwapAt(k, cs, i)
    BY SwapState
<1>2. /\ k \in 0..Capacity /\ cs \in [1..k -> Cells] /\ i \in 1..(k + 4)
      /\ Lists(cs, k, m)
      /\ Copied(pg, m, cs, k, i)
      /\ i < k + 4 => Chosen
      /\ o = SwapOp(a, m, cs, k, i)
    BY <1>1 DEF SwapAt
<1>3. PICK new \in Torn(page[o.page], o) : Flash(o, new)
    BY DEF PowerLoss
<1>4. DOMAIN page = Page /\ PagesOK /\ VariablesOK
    BY DEF Inv, PagesOK
<1>5. Other(q) = a /\ k \in Nat /\ Capacity \in Nat
    BY <1>0, <1>2, OtherPage, SlotsType
<1> HIDE DEF o, m
<1>6. /\ i = 1 => o.kind = "erase" /\ o.page = q
      /\ i = 2 => o.kind = "status" /\ o.page = q /\ o.slot = 0 /\ o.status = "COPY"
      /\ i \in 3..(k + 2) =>
             /\ o.kind = "record" /\ o.page = q /\ o.slot = i - 2
             /\ o.record = Valid(cs[i - 2], m[cs[i - 2]])
             /\ Valid(cs[i - 2], m[cs[i - 2]]) \in Record
      /\ i = k + 3 => o.kind = "status" /\ o.page = q /\ o.slot = 0 /\ o.status = "ACTIVE"
      /\ i = k + 4 => o.kind = "status" /\ o.page = a /\ o.slot = 0 /\ o.status = "INACTIVE"
    <2>1. SwapOpAt(a, m, cs, k, i, o)
        BY <1>0, <1>2, <1>5 DEF SwapOpAt
    <2> QED
        BY <2>1, SwapOpIs
(* The old contents when this page is found, the new ones when the other   *)
(* page is, which happens only once it holds them.                         *)
<1>7. ASSUME PagesOK', page'[a] = page[a] \/ page'[a].rec = page[a].rec,
             page'[a].status = "ACTIVE", a = 2 => page'[1].status # "ACTIVE"
      PROVE  Inv' /\ Refines
    <2>1. /\ active' = a /\ mode' = "idle" /\ plan' = <<>> /\ Chosen' /\ VariablesOK'
          /\ losses' = losses + 1
        BY <1>0, <1>4, <1>7, Restart
    <2>2. Mem' = Mem
        <3>1. page'[a].rec = page[a].rec
            BY <1>7
        <3>2. \A c \in Cells : Read(page'[a], c) = Read(page[a], c)
            BY <3>1 DEF Read, Copies, Visible
        <3> QED
            BY <1>0, <2>1, <3>2, SameMem
    <2>3. Inv'
        BY <1>7, <2>1, IdleInv
    <2>4. Refines
        BY <2>1, <2>2, StorePowerLoss
    <2> QED
        BY <2>3, <2>4
<1>8. ASSUME PagesOK', i = k + 3 \/ i = k + 4, page'[q].rec = pg.rec,
             page'[q].status = "ACTIVE", q = 2 => page'[1].status # "ACTIVE"
      PROVE  Inv' /\ Refines
    <2>1. /\ active' = q /\ mode' = "idle" /\ plan' = <<>> /\ Chosen' /\ VariablesOK'
          /\ losses' = losses + 1
        BY <1>0, <1>4, <1>8, Restart
    <2>2. Mem' = Goal
        <3>1. \A c \in Cells : Read(page'[q], c) = Read(pg, c)
            BY <1>8 DEF Read, Copies, Visible
        <3>2. \A c \in Cells : Read(pg, c) = m[c]
            <4>1. HoldsCopy(Slots[q], pg, m, cs, k, i)
                BY <1>0, <1>2, <1>8 DEF HoldsCopy, PageState
            <4> QED
                BY <4>1, CopyReads
        <3>3. \A c \in Cells : Mem'[c] = Goal[c]
            BY <1>0, <2>1, <3>1, <3>2, MemReadNext DEF m
        <3> QED
            BY <3>3, GoalIs, MemReadNext
    <2>3. Inv'
        BY <1>8, <2>1, IdleInv
    <2>4. Refines
        BY <2>1, <2>2, StorePowerLoss
    <2> QED
        BY <2>3, <2>4
<1>9. CASE i < k + 3
    <2>1. o.page = q /\ (i = 1 \/ i = 2 \/ i \in 3..(k + 2)) /\ Chosen
        BY <1>2, <1>5, <1>6, <1>9
    <2>2. new \in Torn(pg, o)
        BY <1>3, <2>1
    <2>3. /\ new \in PageState(Slots[q]) /\ new.status \in {pg.status, "ERASED", "COPY", "other"}
          /\ new.status = "ACTIVE" => 0 \notin new.weak
        <3>0. pg.status = "ACTIVE" => 0 \notin pg.weak
            BY <1>0, <1>4 DEF PagesOK
        <3>1. CASE i = 1
            BY <1>0, <1>6, <2>2, <3>1, EraseTorn
        <3>2. CASE i = 2
            <4>1. o.kind = "status" /\ o.status = "COPY" /\ o.status \in Statuses
                BY <1>6, <3>2 DEF Statuses
            <4>2. /\ new \in PageState(Slots[q]) /\ new.rec = pg.rec /\ new.weak = pg.weak
                  /\ new.status \in {pg.status, "other", o.status}
                BY <1>0, <2>2, <4>1, StatusTorn
            <4> QED
                BY <3>0, <4>1, <4>2
        <3>3. CASE i \in 3..(k + 2)
            <4> DEFINE x == i - 2
                       r == Valid(cs[x], m[cs[x]])
            <4>1. x \in 1..Slots[q]
                BY <1>0, <1>2, <1>5, <3>3
            <4>2. o.kind = "record" /\ o.slot = x /\ o.record = r /\ r \in Record
                BY <1>6, <3>3
            <4> HIDE DEF x, r
            <4>3. /\ new \in PageState(Slots[q]) /\ new.status = pg.status
                  /\ \E z \in {r, pg.rec[x], Invalid} : new.rec = SetRec(pg.rec, x, z)
                  /\ 0 \notin pg.weak => 0 \notin new.weak
                BY <1>0, <2>2, <4>1, <4>2, RecordTorn
            <4> QED
                BY <3>0, <4>3
        <3> QED
            BY <2>1, <3>1, <3>2, <3>3
    <2>4. DOMAIN page' = Page /\ page'[q] = new /\ page'[a] = page[a]
        BY <1>0, <1>3, <1>4, <1>5, <2>1, FlashEffect
    <2>5. PagesOK'
        BY <1>0, <1>4, <1>5, <2>3, <2>4, FlashPages
    <2>6. a = 2 => page'[1].status # "ACTIVE"
        BY <2>1, <2>3, <2>4 DEF Chosen, Other
    <2> QED
        BY <1>0, <1>7, <2>4, <2>5, <2>6
<1>10. CASE i = k + 3
    <2>1. o.kind = "status" /\ o.page = q /\ o.status = "ACTIVE" /\ o.status \in Statuses /\ Chosen
        BY <1>2, <1>5, <1>6, <1>10 DEF Statuses
    <2>2. /\ new \in PageState(Slots[q]) /\ new.rec = pg.rec /\ new.weak = pg.weak
          /\ new.status \in {pg.status, "other", o.status}
        BY <1>0, <1>3, <2>1, StatusTorn
    <2>3. DOMAIN page' = Page /\ page'[q] = new /\ page'[a] = page[a]
        BY <1>0, <1>3, <1>4, <1>5, <2>1, FlashEffect
    <2>4. 0 \notin pg.weak
        BY <1>2, <1>5, <1>10 DEF Copied
    <2>5. PagesOK'
        BY <1>0, <1>4, <1>5, <2>2, <2>3, <2>4, FlashPages
    <2>6. CASE q = 1 /\ new.status = "ACTIVE"
        BY <1>8, <1>10, <2>2, <2>3, <2>5, <2>6
    <2>7. CASE ~ (q = 1 /\ new.status = "ACTIVE")
        <3>1. a = 2 => page'[1].status # "ACTIVE"
            BY <2>3, <2>7 DEF Other
        <3> QED
            BY <1>0, <1>7, <2>3, <2>5, <3>1
    <2> QED
        BY <2>6, <2>7
<1>11. CASE i = k + 4
    <2>1. o.kind = "status" /\ o.page = a /\ o.status = "INACTIVE" /\ o.status \in Statuses
        BY <1>6, <1>11 DEF Statuses
    <2>2. page[a] \in PageState(Slots[a]) /\ Slots[a] \in Nat /\ 0 \notin page[a].weak
        BY <1>0, <1>4, SlotsType DEF PagesOK
    <2>3. /\ new \in PageState(Slots[a]) /\ new.rec = page[a].rec /\ new.weak = page[a].weak
          /\ new.status \in {page[a].status, "other", o.status}
        <3>1. new \in Torn(page[a], o)
            BY <1>3, <2>1
        <3> QED
            BY <2>1, <2>2, <3>1, StatusTorn
    <2>4. DOMAIN page' = Page /\ page'[a] = new /\ page'[q] = pg
        BY <1>0, <1>3, <1>4, <2>1, FlashEffect
    <2>5. PagesOK'
        BY <1>0, <1>4, <2>2, <2>3, <2>4, FlashPages
    <2>6. pg.status = "ACTIVE"
        BY <1>2, <1>11 DEF Copied
    <2>7. CASE a = 1 /\ new.status = "ACTIVE"
        BY <1>7, <2>3, <2>4, <2>5, <2>7
    <2>8. CASE ~ (a = 1 /\ new.status = "ACTIVE")
        <3>1. q = 2 => page'[1].status # "ACTIVE"
            BY <1>0, <2>4, <2>8 DEF Page
        <3> QED
            BY <1>8, <1>11, <2>4, <2>5, <2>6, <3>1
    <2> QED
        BY <2>7, <2>8
<1>12. i < k + 3 \/ i = k + 3 \/ i = k + 4
    BY <1>2, <1>5
<1> QED
    BY <1>9, <1>10, <1>11, <1>12

-----------------------------------------------------------------------------
(* writeRangeChanged() from the last slot to the first.                    *)
LEMMA PutPlanIs ==
    ASSUME NEW p \in Page, NEW N \in Nat, DOMAIN page[p].rec = 1..N, NEW u, UpdateType(u),
           Changed(page[p], u) # {}, Fits(page[p], Cardinality(Changed(page[p], u)))
    PROVE  \E n, cs, e :
               /\ n \in 1..Capacity /\ cs \in [1..n -> DOMAIN u] /\ e \in 1..N
               /\ WriteRangeChanged(p, u) = PutPlan(p, u, cs, e, n)
               /\ Appending(page[p], N, u, n, cs, e, n)
<1> DEFINE pg == page[p]
           S == Changed(pg, u)
           n == Cardinality(S)
           A == Ascending(S)
<1>0. Capacity \in Nat
    BY EEPROMAssumption
<1>1. S \in SUBSET (1..Capacity) /\ S \subseteq DOMAIN u
    BY DEF Changed, UpdateType, Cells
<1>2. /\ n \in 0..Capacity
      /\ S # {} => n # 0
      /\ A \in [1..n -> S]
      /\ \A c \in S : \E r \in 1..n : A[r] = c
    <2> HIDE DEF S
    <2> QED
        BY <1>0, <1>1, AscendingLists
<1>3. n \in 1..Capacity /\ n \in Nat
    BY <1>0, <1>2
<1>4. PICK k \in 0..N :
          /\ Visible(pg) = 1..k
          /\ EmptySlot(pg) = k + 1
          /\ k < N => pg.rec[k + 1].kind # "valid"
    BY VisibleInterval
<1> DEFINE e == k + 1
           cs == [s \in 1..n |-> A[n + 1 - s]]
<1>5. EmptySlot(pg) = e /\ e \in Nat \ {0} /\ e - 1 = k
    BY <1>4
<1>6. /\ e + n - 1 \in 1..N
      /\ e + n \in 1..N => pg.rec[e + n].kind = "empty"
    BY <1>5 DEF Fits
<1>7. Len(A) = n
    <2> HIDE DEF A, n
    <2> QED
        BY <1>2, <1>3, LenProperties, SeqDef
<1>8. Changed(pg, u) = S /\ Ascending(S) = A
    OBVIOUS
<1>9. WriteRangeChanged(p, u) =
          [r \in 1..n |-> WriteRecord(p, e + n - r, Valid(A[r], u[A[r]]))]
    <2> HIDE DEF S, A, n, e
    <2>1. WriteRangeChanged(p, u) =
              [r \in 1..Len(A) |-> WriteRecord(p, EmptySlot(pg) + Len(A) - r, Valid(A[r], u[A[r]]))]
        BY <1>8 DEF WriteRangeChanged
    <2> QED
        BY <1>5, <1>7, <2>1
<1> HIDE DEF S, A, n, e, pg
<1>10. \A s \in 1..n : n + 1 - s \in 1..n /\ n + 1 - (n + 1 - s) = s
    BY <1>3
<1>11. cs \in [1..n -> DOMAIN u] /\ \A s \in 1..n : cs[n + 1 - s] = A[s]
    BY <1>1, <1>2, <1>10
<1> HIDE DEF cs
<1>12. WriteRangeChanged(p, u) = PutPlan(p, u, cs, e, n)
    BY <1>9, <1>11 DEF PutPlan
<1>13. e \in 1..N
    BY <1>3, <1>5, <1>6
<1>14. Appending(pg, N, u, n, cs, e, n)
    <2>1. Free(pg, e)
        BY <1>4, <1>5 DEF Free
    <2>2. ASSUME NEW c \in DOMAIN u, Read(pg, c) # u[c] PROVE \E s \in 1..n : cs[s] = c
        <3>1. c \in S
            BY <2>2 DEF S, Changed
        <3>2. PICK r \in 1..n : A[r] = c
            BY <1>2, <3>1
        <3> QED
            BY <1>10, <1>11, <3>2
    <2>3. e + n - 1 <= N /\ (e + n <= N => pg.rec[e + n].kind # "valid")
        BY <1>3, <1>6, <1>13
    <2>4. \A s \in (n + 1)..n : FALSE
        BY <1>3
    <2> QED
        BY <2>1, <2>2, <2>3, <2>4 DEF Appending
<1> QED
    BY <1>3, <1>11, <1>12, <1>13, <1>14 DEF pg

(* put(): records are appended, or the pages are swapped.                  *)
LEMMA PutStep ==
    ASSUME Inv, NEW c \in Cells, NEW d \in Cells, NEW u \in [c..d -> Data], Put(u)
    PROVE  Inv' /\ Refines
<1> DEFINE a == active
           pg == page[a]
           N == Slots[a]
           append == ~HasInvalidRecords(pg) /\ Fits(pg, Cardinality(Changed(pg, u)))
<1>1. /\ mode = "idle" /\ update' = u /\ tries' = 0
      /\ HasInvalidRecords(pg) \/ Changed(pg, u) # {}
      /\ append => mode' = "put" /\ plan' = WriteRangeChanged(a, u)
      /\ ~append => /\ mode' = "swap"
                    /\ plan' = SwapPagesAndWrite(page[a], a, u, ~VerifyPage(page[Other(a)]))
      /\ page' = page /\ active' = a /\ losses' = losses
    BY DEF Put
<1>2. PagesOK /\ VariablesOK /\ Chosen /\ a \in Page
    BY <1>1 DEF Inv, IdleOK, Chosen, Found
<1>3. N \in Nat /\ DOMAIN pg.rec = 1..N
    BY <1>2, SlotsType DEF PagesOK, PageState
<1>4. c..d \subseteq Cells
    BY EEPROMAssumption DEF Cells
<1>5. UpdateType(u)
    BY <1>4 DEF UpdateType
<1>6. mode' \in {"put", "swap"}
    BY <1>1
<1>7. PagesOK' /\ VariablesOK' /\ Chosen' /\ UpdateOK'
    BY <1>1, <1>2, <1>6 DEF PagesOK, VariablesOK, Chosen, Found, UpdateOK
<1>8. Mem' = Mem
    BY <1>1, <1>2, SameMem
<1>9. Refines
    BY <1>1, <1>6, <1>8, StorePut
<1>10. CASE append
    <2>1. mode' = "put" /\ plan' = WriteRangeChanged(a, u) /\ Changed(pg, u) # {}
        BY <1>1, <1>10
    <2>2. PICK n, cs, e :
              /\ n \in 1..Capacity /\ cs \in [1..n -> DOMAIN u] /\ e \in 1..N
              /\ WriteRangeChanged(a, u) = PutPlan(a, u, cs, e, n)
              /\ Appending(pg, N, u, n, cs, e, n)
        BY <1>2, <1>3, <1>5, <1>10, <2>1, PutPlanIs
    <2>3. n \in 1..n
        BY <2>2, EEPROMAssumption
    <2>4. \E l \in 1..n : /\ plan' = PutPlan(a, u, cs, e, l)
                          /\ Appending(pg, N, u, n, cs, e, l)
        BY <2>1, <2>2, <2>3
    <2>5. PutOK'
        BY <1>1, <1>7, <2>2, <2>4 DEF PutOK
    <2>6. Inv'
        BY <1>7, <2>1, <2>5 DEF Inv, IdleOK, EraseOK, ClearOK, SwapOK
    <2> QED
        BY <1>9, <2>6
<1>11. CASE ~append
    <2> DEFINE erase == ~VerifyPage(page[Other(a)])
    <2>1. mode' = "swap" /\ erase \in BOOLEAN /\ plan' = SwapPagesAndWrite(page'[a], a, update', erase)
        BY <1>1, <1>11
    <2>2. erase = FALSE => VerifyPage(page[Other(a)]) /\ tries' = 0 /\ page'[Other(a)] = page[Other(a)]
        BY <1>1
    <2> HIDE DEF erase
    <2>3. Inv'
        BY <1>1, <1>2, <1>7, <1>8, <2>1, <2>2, SwapStart
    <2> QED
        BY <1>9, <2>3
<1> QED
    BY <1>10, <1>11

-----------------------------------------------------------------------------
(* clear() and performPendingErase().                                      *)
LEMMA ClearStep ==
    ASSUME Inv, Clear
    PROVE  Inv' /\ Refines
<1>1. /\ mode = "idle" /\ mode' = "clear" /\ plan' = ClearPlan
      /\ page' = page /\ active' = active /\ tries' = tries /\ losses' = losses
    BY DEF Clear
<1>2. active \in Page /\ PagesOK /\ VariablesOK
    BY <1>1 DEF Inv, IdleOK, Chosen, Found
<1>3. PagesOK' /\ VariablesOK'
    BY <1>1, <1>2 DEF PagesOK, VariablesOK
<1>4. Inv'
    BY <1>1, <1>3 DEF Inv, UpdateOK, IdleOK, EraseOK, ClearOK, PutOK, SwapOK
<1>5. Mem' = Mem
    BY <1>1, <1>2, SameMem
<1>6. Refines
    BY <1>1, <1>5, StoreClear
<1> QED
    BY <1>4, <1>6

(* performPendingErase() is called.                                        *)
LEMMA PerformPendingEraseStep ==
    ASSUME Inv, PerformPendingErase
    PROVE  Inv' /\ Refines
<1>1. /\ mode = "idle" /\ mode' = "erase" /\ plan' = <<Erase(Other(active))>>
      /\ page' = page /\ active' = active /\ tries' = tries /\ losses' = losses
    BY DEF PerformPendingErase
<1>2. active \in Page /\ PagesOK /\ VariablesOK /\ Chosen
    BY <1>1 DEF Inv, IdleOK, Chosen, Found
<1>3. PagesOK' /\ VariablesOK' /\ Chosen'
    BY <1>1, <1>2 DEF PagesOK, VariablesOK, Chosen, Found
<1>4. Inv'
    BY <1>1, <1>3 DEF Inv, UpdateOK, IdleOK, EraseOK, ClearOK, PutOK, SwapOK
<1>5. Mem' = Mem
    BY <1>1, <1>2, SameMem
<1>6. Refines
    BY <1>1, <1>5, StoreStutter
<1> QED
    BY <1>4, <1>6

(* performPendingErase() erases the other page.                            *)
LEMMA WriteErase ==
    ASSUME Inv, mode = "erase", Write
    PROVE  Inv' /\ Refines
<1> DEFINE a == active
           q == Other(a)
           o == Erase(q)
<1>1. a \in Page /\ PagesOK /\ VariablesOK /\ Chosen /\ plan = <<o>> /\ DOMAIN page = Page
    BY DEF Inv, EraseOK, Chosen, Found, PagesOK
<1>2. Head(plan) = o /\ Tail(plan) = <<>>
    BY <1>1
<1>3. q \in Page /\ q # a /\ Other(q) = a
    BY <1>1, OtherPage
<1>4. o.kind = "erase" /\ o.page = q
    BY EraseOperation
<1> HIDE DEF o
<1>5. /\ Flash(o, Done(page[o.page], o)) /\ plan' = <<>> /\ mode' = "idle" /\ active' = a
      /\ tries' = tries /\ losses' = losses
    BY <1>2 DEF Write, Continue
<1>6. Done(page[o.page], o) = ErasedPage(q)
    BY <1>4, EraseDone
<1>7. /\ ErasedPage(q) \in PageState(Slots[q])
      /\ ErasedPage(q).status = "ERASED"
    BY <1>3, ErasedPageIs
<1>8. DOMAIN page' = Page /\ page'[q] = ErasedPage(q) /\ page'[a] = page[a]
    BY <1>1, <1>3, <1>4, <1>5, <1>6, FlashEffect
<1>9. PagesOK'
    BY <1>1, <1>3, <1>7, <1>8, FlashPages
<1>10. Chosen' /\ VariablesOK'
    <2>1. a = 2 => page'[1].status # "ACTIVE"
        BY <1>7, <1>8 DEF Other
    <2> QED
        BY <1>1, <1>5, <1>8, <2>1 DEF Chosen, Found, VariablesOK
<1>11. Inv'
    BY <1>5, <1>9, <1>10, IdleInv
<1>12. Mem' = Mem
    BY <1>1, <1>5, <1>8, SameMem
<1>13. Refines
    BY <1>5, <1>12, StoreStutter
<1> QED
    BY <1>11, <1>13

(* Power is lost between two calls or while the other page is erased.      *)
LEMMA PowerLossIdle ==
    ASSUME Inv, mode \in {"idle", "erase"}, PowerLoss
    PROVE  Inv' /\ Refines
<1> DEFINE a == active
           q == Other(a)
<1>1. a \in Page /\ PagesOK /\ VariablesOK /\ Chosen /\ DOMAIN page = Page
    BY DEF Inv, IdleOK, EraseOK, Chosen, Found, PagesOK
<1>2. q \in Page /\ q # a /\ Other(q) = a
    BY <1>1, OtherPage
<1>3. PagesOK' /\ page'[a] = page[a] /\ (a = 2 => page'[1].status # "ACTIVE")
    <2>1. CASE mode = "idle"
        <3>1. page' = page
            BY <2>1 DEF PowerLoss
        <3> QED
            BY <1>1, <3>1 DEF PagesOK, Chosen
    <2>2. CASE mode = "erase"
        <3> DEFINE o == Erase(q)
        <3>1. Head(plan) = o
            BY <2>2 DEF Inv, EraseOK
        <3>2. o.kind = "erase" /\ o.page = q
            BY EraseOperation
        <3> HIDE DEF o
        <3>3. PICK new \in Torn(page[q], o) : Flash(o, new)
            BY <2>2, <3>1, <3>2 DEF PowerLoss
        <3>4. DOMAIN page' = Page /\ page'[q] = new /\ page'[a] = page[a]
            BY <1>1, <1>2, <3>2, <3>3, FlashEffect
        <3>5. page[q] \in PageState(Slots[q])
            BY <1>1, <1>2 DEF PagesOK
        <3>6. /\ new \in PageState(Slots[q]) /\ new.status \in {page[q].status, "ERASED", "other"}
              /\ new.status = "ACTIVE" => 0 \notin new.weak
            BY <1>2, <3>2, <3>3, <3>5, EraseTorn
        <3>7. PagesOK'
            BY <1>1, <1>2, <3>4, <3>6, FlashPages
        <3>8. a = 2 => page'[1].status # "ACTIVE"
            BY <1>1, <3>4, <3>6 DEF Chosen, Other
        <3> QED
            BY <3>4, <3>7, <3>8
    <2> QED
        BY <2>1, <2>2
<1>4. /\ active' = a /\ mode' = "idle" /\ plan' = <<>> /\ Chosen' /\ VariablesOK'
      /\ losses' = losses + 1
    <2>1. page'[a].status = "ACTIVE"
        BY <1>1, <1>3 DEF Chosen, Found
    <2> QED
        BY <1>1, <1>3, <2>1, Restart
<1>5. Inv'
    BY <1>3, <1>4, IdleInv
<1>6. Mem' = Mem
    BY <1>1, <1>3, <1>4, SameMem
<1>7. Refines
    BY <1>4, <1>6, StorePowerLoss
<1> QED
    BY <1>5, <1>7

(* The contents are bytes, after a step.                                   *)
LEMMA MemTypeNext ==
    ASSUME PagesOK', VariablesOK'
    PROVE  Mem' \in [Cells -> Data]
<1>1. (PagesOK /\ VariablesOK => Mem \in [Cells -> Data])'
    BY MemType, PTL
<1> QED
    BY <1>1 DEF Cells, Data

(* clear() goes on: the data goes away.                                    *)
LEMMA ClearGoesOn ==
    ASSUME Inv, mode = "clear", Write, NEW p \in Page, Head(plan) = Erase(p), Tail(plan) # <<>>
    PROVE  /\ PagesOK' /\ VariablesOK' /\ Refines
           /\ mode' = "clear" /\ plan' = Tail(plan)
           /\ page'[p] = ErasedPage(p) /\ page'[Other(p)] = page[Other(p)]
<1> DEFINE o == Head(plan)
<1>1. o.kind = "erase" /\ o.page = p
    BY EraseOperation
<1>2. /\ Flash(o, Done(page[o.page], o)) /\ plan' = Tail(plan) /\ mode' = "clear"
      /\ active' = active /\ tries' = tries /\ losses' = losses
    BY DEF Write, Continue
<1>3. PagesOK /\ VariablesOK /\ DOMAIN page = Page
    BY DEF Inv, PagesOK
<1> HIDE DEF o
<1>4. Done(page[o.page], o) = ErasedPage(p)
    BY <1>1, EraseDone
<1>5. DOMAIN page' = Page /\ page'[p] = ErasedPage(p) /\ page'[Other(p)] = page[Other(p)]
    BY <1>1, <1>2, <1>3, <1>4, FlashEffect
<1>6. ErasedPage(p) \in PageState(Slots[p]) /\ ErasedPage(p).status = "ERASED"
    BY ErasedPageIs
<1>7. PagesOK'
    BY <1>3, <1>5, <1>6, FlashPages
<1>8. VariablesOK'
    BY <1>2, <1>3 DEF VariablesOK
<1>9. Refines
    BY <1>2, <1>7, <1>8, MemTypeNext, StoreDestroy
<1> QED
    BY <1>2, <1>5, <1>7, <1>8, <1>9

(* A page without records reads as erased.                                 *)
LEMMA ErasedReads ==
    ASSUME NEW pg, pg.rec = ErasedPage(1).rec, NEW c
    PROVE  Read(pg, c) = Erased
<1>1. Slots[1] \in Nat \ {0}
    BY EEPROMAssumption DEF Page
<1>2. DOMAIN pg.rec = 1..Slots[1] /\ pg.rec[1].kind = "empty"
    <2>1. \A i \in 1..Slots[1] : ErasedPage(1).rec[i].kind = "empty"
        BY ErasedPageIs DEF Page
    <2>2. 1 \in 1..Slots[1]
        BY <1>1
    <2>3. DOMAIN ErasedPage(1).rec = 1..Slots[1]
        BY DEF ErasedPage
    <2> QED
        BY <2>1, <2>2, <2>3
<1>3. Visible(pg) = {}
    <2>1. ASSUME NEW i \in Visible(pg) PROVE FALSE
        <3>1. i \in 1..Slots[1] /\ \A j \in 1..i : pg.rec[j].kind = "valid"
            BY <1>2 DEF Visible
        <3>2. 1 \in 1..i
            BY <1>1, <3>1
        <3> QED
            BY <1>2, <3>1, <3>2
    <2> QED
        BY <2>1
<1> QED
    BY <1>3 DEF Read, Copies

(* An operation of clear().                                                *)
LEMMA WriteClear ==
    ASSUME Inv, mode = "clear", Write
    PROVE  Inv' /\ Refines
<1>0. 1 \in Page /\ 2 \in Page /\ Other(1) = 2 /\ Other(2) = 1
    BY DEF Page, Other
<1>1. ASSUME PagesOK', VariablesOK', ClearOK', mode' = "clear" PROVE Inv'
    BY <1>1 DEF Inv, UpdateOK, IdleOK, EraseOK, PutOK, SwapOK
<1>2. CASE plan = ClearPlan
    <2>1. /\ Head(plan) = Erase(1) /\ Tail(plan) # <<>>
          /\ Tail(plan) = <<Erase(2), WriteStatus(1, "ACTIVE")>>
        BY <1>2 DEF ClearPlan
    <2>2. /\ PagesOK' /\ VariablesOK' /\ Refines
          /\ mode' = "clear" /\ plan' = Tail(plan)
          /\ page'[1] = ErasedPage(1) /\ page'[Other(1)] = page[Other(1)]
        BY <1>0, <2>1, ClearGoesOn
    <2>3. ClearOK'
        BY <2>1, <2>2 DEF ClearOK, ErasedPage, Erase, WriteStatus
    <2> QED
        BY <1>1, <2>2, <2>3
<1>3. CASE plan = <<Erase(2), WriteStatus(1, "ACTIVE")>> /\ page[1] = ErasedPage(1)
    <2>1. /\ Head(plan) = Erase(2) /\ Tail(plan) # <<>>
          /\ Tail(plan) = <<WriteStatus(1, "ACTIVE")>>
        BY <1>3
    <2>2. /\ PagesOK' /\ VariablesOK' /\ Refines
          /\ mode' = "clear" /\ plan' = Tail(plan)
          /\ page'[2] = ErasedPage(2) /\ page'[Other(2)] = page[Other(2)]
        BY <1>0, <2>1, ClearGoesOn
    <2>3. page'[1] = ErasedPage(1)
        BY <1>0, <1>3, <2>2
    <2>4. ClearOK'
        BY <2>1, <2>2, <2>3 DEF ClearOK, ErasedPage, WriteStatus
    <2> QED
        BY <1>1, <2>2, <2>4
<1>4. CASE /\ plan = <<WriteStatus(1, "ACTIVE")>>
           /\ page[1] = ErasedPage(1) /\ page[2] = ErasedPage(2)
    <2> DEFINE o == WriteStatus(1, "ACTIVE")
               new == Done(page[1], o)
    <2>1. Head(plan) = o /\ Tail(plan) = <<>>
        BY <1>4
    <2>2. o.kind = "status" /\ o.page = 1 /\ o.status = "ACTIVE" /\ o.status \in Statuses
        BY StatusOperation DEF Statuses
    <2> HIDE DEF o
    <2>3. PagesOK /\ VariablesOK /\ DOMAIN page = Page /\ page[1] \in PageState(Slots[1]) /\ Slots[1] \in Nat
        BY <1>0, SlotsType DEF Inv, PagesOK
    <2>4. /\ new \in PageState(Slots[1]) /\ new.status = "ACTIVE"
          /\ new.rec = page[1].rec /\ 0 \notin new.weak
        BY <2>2, <2>3, StatusDone
    <2> HIDE DEF new
    <2>5. DOMAIN page' = Page /\ page'[1] = new /\ page'[Other(1)] = page[Other(1)]
        <3>1. Flash(o, new)
            BY <2>1, <2>2 DEF Write, new
        <3> QED
            BY <1>0, <2>2, <2>3, <3>1, FlashEffect
    <2>6. PagesOK'
        BY <1>0, <2>3, <2>4, <2>5, FlashPages
    <2>7. UpdateActivePage(page') = 1
        BY <2>4, <2>5 DEF UpdateActivePage
    <2>8. mode' = "idle" /\ active' = 1 /\ plan' = <<>> /\ tries' = tries /\ losses' = losses
        BY <2>1, <2>7 DEF Write, Continue
    <2>9. VariablesOK' /\ Chosen'
        BY <1>0, <2>3, <2>4, <2>5, <2>8 DEF VariablesOK, Chosen, Found
    <2>10. Inv'
        BY <2>6, <2>8, <2>9, IdleInv
    <2>11. \A c \in Cells : Read(new, c) = Erased
        <3>1. new.rec = ErasedPage(1).rec
            BY <1>4, <2>4
        <3> QED
            BY <3>1, ErasedReads
    <2>12. \A c \in Cells : Mem'[c] = Erased
        BY <1>0, <2>5, <2>8, <2>11, MemReadNext
    <2>13. Refines
        BY <2>8, <2>12, StoreClearDone
    <2> QED
        BY <2>10, <2>13
<1>5. \/ plan = ClearPlan
      \/ plan = <<Erase(2), WriteStatus(1, "ACTIVE")>> /\ page[1] = ErasedPage(1)
      \/ /\ plan = <<WriteStatus(1, "ACTIVE")>>
         /\ page[1] = ErasedPage(1) /\ page[2] = ErasedPage(2)
    BY DEF Inv, ClearOK
<1> QED
    BY <1>2, <1>3, <1>4, <1>5

(* Power is lost during clear(): it starts again unless a page is active.  *)
LEMMA PowerLossClear ==
    ASSUME Inv, mode = "clear", PowerLoss
    PROVE  Inv' /\ Refines
<1> DEFINE o == Head(plan)
<1>0. 1 \in Page /\ 2 \in Page
    BY DEF Page
<1>1. PagesOK /\ VariablesOK /\ DOMAIN page = Page
    BY DEF Inv, PagesOK
<1>2. \/ o = Erase(1) \/ o = Erase(2)
      \/ o = WriteStatus(1, "ACTIVE") /\ page[1] = ErasedPage(1)
    <2>1. \/ plan = ClearPlan
          \/ plan = <<Erase(2), WriteStatus(1, "ACTIVE")>>
          \/ plan = <<WriteStatus(1, "ACTIVE")>> /\ page[1] = ErasedPage(1)
        BY DEF Inv, ClearOK
    <2>2. CASE plan = ClearPlan
        BY <2>2 DEF ClearPlan
    <2>3. CASE plan = <<Erase(2), WriteStatus(1, "ACTIVE")>>
        BY <2>3
    <2>4. CASE plan = <<WriteStatus(1, "ACTIVE")>> /\ page[1] = ErasedPage(1)
        BY <2>4
    <2> QED
        BY <2>1, <2>2, <2>3, <2>4
<1>3. PICK new \in Torn(page[o.page], o) : Flash(o, new)
    BY DEF PowerLoss
<1> HIDE DEF o
<1>4. ASSUME NEW p \in Page, o = Erase(p) PROVE PagesOK'
    <2>1. o.kind = "erase" /\ o.page = p
        BY <1>4, EraseOperation
    <2>2. DOMAIN page' = Page /\ page'[p] = new /\ page'[Other(p)] = page[Other(p)]
        BY <1>1, <1>3, <2>1, FlashEffect
    <2>3. page[p] \in PageState(Slots[p]) /\ new \in Torn(page[p], o)
        BY <1>1, <1>3, <2>1 DEF PagesOK
    <2>4. /\ new \in PageState(Slots[p]) /\ new.status \in {page[p].status, "ERASED", "other"}
          /\ new.status = "ACTIVE" => 0 \notin new.weak
        BY <2>1, <2>3, EraseTorn
    <2> QED
        BY <1>1, <2>2, <2>4, FlashPages
<1>5. ASSUME o = WriteStatus(1, "ACTIVE"), page[1] = ErasedPage(1) PROVE PagesOK'
    <2>1. o.kind = "status" /\ o.page = 1 /\ o.status \in Statuses
        BY <1>5, StatusOperation DEF Statuses
    <2>2. DOMAIN page' = Page /\ page'[1] = new /\ page'[Other(1)] = page[Other(1)]
        BY <1>0, <1>1, <1>3, <2>1, FlashEffect
    <2>3. page[1] \in PageState(Slots[1]) /\ new \in Torn(page[1], o) /\ Slots[1] \in Nat
        BY <1>0, <1>1, <1>3, <2>1, SlotsType DEF PagesOK
    <2>4. new \in PageState(Slots[1]) /\ new.weak = page[1].weak
        BY <2>1, <2>3, StatusTorn
    <2>5. page[1].weak = {}
        BY <1>0, <1>5, ErasedPageIs
    <2>6. 0 \notin new.weak
        BY <2>4, <2>5
    <2> QED
        BY <1>0, <1>1, <2>2, <2>4, <2>6, FlashPages
<1>6. PagesOK'
    BY <1>0, <1>2, <1>4, <1>5
<1>7. CASE UpdateActivePage(page') = 0
    <2>1. /\ active' = 0 /\ mode' = "clear" /\ plan' = ClearPlan /\ tries' = 0
          /\ losses' = losses + 1 /\ losses < MaxLosses
        BY <1>7 DEF PowerLoss
    <2>2. VariablesOK'
        BY <1>1, <2>1, EEPROMAssumption DEF VariablesOK
    <2>3. Inv'
        BY <1>6, <2>1, <2>2 DEF Inv, UpdateOK, IdleOK, EraseOK, ClearOK, PutOK, SwapOK
    <2>4. Refines
        BY <1>6, <2>1, <2>2, MemTypeNext, StorePowerLoss
    <2> QED
        BY <2>3, <2>4
<1>8. CASE UpdateActivePage(page') # 0
    <2>1. PICK a \in Page : page'[a].status = "ACTIVE" /\ (a = 2 => page'[1].status # "ACTIVE")
        BY <1>0, <1>8 DEF UpdateActivePage
    <2>2. /\ active' = a /\ mode' = "idle" /\ plan' = <<>> /\ Chosen' /\ VariablesOK'
          /\ losses' = losses + 1
        BY <1>1, <2>1, Restart
    <2>3. Inv'
        BY <1>6, <2>2, IdleInv
    <2>4. Refines
        BY <1>6, <2>2, MemTypeNext, StorePowerLoss
    <2> QED
        BY <2>3, <2>4
<1> QED
    BY <1>7, <1>8

-----------------------------------------------------------------------------
(* Blank flash.                                                            *)
LEMMA InvInit ==
    ASSUME Init
    PROVE  Inv /\ Store!Init
<1>1. PagesOK
    <2>1. \A p \in Page : page[p] = ErasedPage(p)
        BY DEF Init
    <2>2. \A p \in Page : page[p] \in PageState(Slots[p]) /\ page[p].status = "ERASED"
        BY <2>1, ErasedPageIs
    <2>3. DOMAIN page = Page
        BY DEF Init
    <2> QED
        BY <2>2, <2>3 DEF PagesOK
<1>2. VariablesOK /\ mode = "clear" /\ plan = ClearPlan /\ losses = 0
    BY EEPROMAssumption DEF Init, VariablesOK
<1>3. Inv
    BY <1>1, <1>2 DEF Inv, UpdateOK, IdleOK, EraseOK, ClearOK, PutOK, SwapOK
<1>4. Mem \in [Cells -> Data] /\ Request = Store!Clearing
    BY <1>1, <1>2, MemType, RequestIs
<1>5. Store!Init
    BY <1>2, <1>4 DEF Store!Init, Store!Contents, Mem
<1> QED
    BY <1>3, <1>5

(* Every step keeps the invariant, and is a step of the array of bytes.    *)
LEMMA InvStep ==
    ASSUME Inv, [Next]_vars
    PROVE  Inv' /\ (~Marginal => Refines)
<1>0. mode \in {"idle", "put", "swap", "clear", "erase"}
    BY DEF Inv, VariablesOK
<1>1. CASE \E c, d \in Cells : c <= d /\ \E u \in [c..d -> Data] : Put(u)
    <2>1. PICK c \in Cells, d \in Cells : \E u \in [c..d -> Data] : Put(u)
        BY <1>1
    <2>2. PICK u \in [c..d -> Data] : Put(u)
        BY <2>1
    <2> QED
        BY <2>2, PutStep
<1>2. CASE Clear
    BY <1>2, ClearStep
<1>3. CASE PerformPendingErase
    BY <1>3, PerformPendingEraseStep
<1>4. CASE Write
    <2>1. mode # "idle"
        BY <1>4 DEF Write
    <2> QED
        BY <1>0, <1>4, <2>1, WritePut, WriteSwap, WriteClear, WriteErase
<1>5. CASE WriteFails
    <2>1. mode \in {"put", "swap"}
        BY <1>5 DEF WriteFails
    <2> QED
        BY <1>5, <2>1, WriteFailsPut, WriteFailsSwap
<1>6. CASE PowerLoss
    BY <1>0, <1>6, PowerLossIdle, PowerLossPut, PowerLossSwap, PowerLossClear
<1>7. CASE UNCHANGED vars
    <2>1. /\ page' = page /\ active' = active /\ mode' = mode /\ tries' = tries
          /\ update' = update /\ plan' = plan /\ losses' = losses
        BY <1>7 DEF vars
    <2>2. Mem' = Mem /\ Goal' = Goal /\ Request' = Request
        BY <2>1 DEF Mem, Goal, Contents, Request
    <2>3. PagesOK' /\ VariablesOK' /\ UpdateOK' /\ IdleOK' /\ EraseOK' /\ ClearOK'
        BY <2>1 DEF Inv, PagesOK, VariablesOK, UpdateOK, IdleOK, EraseOK, ClearOK, Chosen, Found
    <2>4. PutOK' /\ SwapOK'
        BY <2>1, <2>2 DEF Inv, PutOK, SwapOK, Chosen, Found
    <2>5. Refines
        BY <2>1, <2>2 DEF Refines, Store!vars, Mem
    <2> QED
        BY <2>3, <2>4, <2>5 DEF Inv
<1> QED
    BY <1>1, <1>2, <1>3, <1>4, <1>5, <1>6, <1>7 DEF Next

(* Every operation of a plan lies within its page.                         *)
LEMMA PlanSlots ==
    ASSUME Inv
    PROVE  /\ \A j \in DOMAIN plan : plan[j].slot \in 0..Slots[plan[j].page]
           /\ plan = <<>> <=> mode = "idle"
<1>0. mode \in {"idle", "put", "swap", "clear", "erase"}
    BY DEF Inv, VariablesOK
<1>1. \A p \in Page : Slots[p] \in Nat /\ 0 \in 0..Slots[p]
    BY SlotsType
<1>2. CASE mode = "idle"
    <2>1. plan = <<>>
        BY <1>2 DEF Inv, IdleOK
    <2> QED
        BY <1>2, <2>1
<1>3. CASE mode = "erase"
    <2>1. plan = <<Erase(Other(active))>> /\ active \in Page
        BY <1>3 DEF Inv, EraseOK, Chosen, Found
    <2>2. Erase(Other(active)).slot = 0 /\ Erase(Other(active)).page \in Page
        BY <2>1, EraseOperation, OtherPage
    <2> QED
        BY <1>1, <1>3, <2>1, <2>2
<1>4. CASE mode = "clear"
    <2>0. 1 \in Page /\ 2 \in Page
        BY DEF Page
    <2>1. /\ Erase(1).slot = 0 /\ Erase(1).page \in Page
          /\ Erase(2).slot = 0 /\ Erase(2).page \in Page
          /\ WriteStatus(1, "ACTIVE").slot = 0 /\ WriteStatus(1, "ACTIVE").page \in Page
        BY <2>0, EraseOperation, StatusOperation
    <2>2. \/ plan = <<Erase(1), Erase(2), WriteStatus(1, "ACTIVE")>>
          \/ plan = <<Erase(2), WriteStatus(1, "ACTIVE")>>
          \/ plan = <<WriteStatus(1, "ACTIVE")>>
        BY <1>4 DEF Inv, ClearOK, ClearPlan
    <2>3. plan # <<>>
        BY <2>2
    <2>4. \A j \in DOMAIN plan : plan[j] \in {Erase(1), Erase(2), WriteStatus(1, "ACTIVE")}
        BY <2>2
    <2> QED
        BY <1>1, <1>4, <2>1, <2>3, <2>4
<1>5. CASE mode = "put"
    <2>1. /\ active \in Page /\ UpdateType(update) /\ Slots[active] \in Nat
        BY <1>5, PutState
    <2>2. PICK n, cs, e, l :
              /\ n \in 1..Capacity /\ Indexes(cs, n, DOMAIN update) /\ e \in 1..Slots[active] /\ l \in 1..n
              /\ plan = PutPlan(active, update, cs, e, l)
              /\ Appending(page[active], Slots[active], update, n, cs, e, l)
        BY <1>5 DEF Inv, PutOK, Indexes
    <2>3. n \in Nat /\ e \in Nat \ {0} /\ l \in 1..n /\ Indexes(cs, n, DOMAIN update)
        BY <2>1, <2>2, SlotsType
    <2>4. plan # <<>>
        <3>1. PutArgs(active, update, n, cs, e, l)
            BY <2>1, <2>3 DEF PutArgs
        <3>2. PutPlanGoesOn(active, update, cs, e, l)
            BY <3>1, PutPlanNext
        <3> QED
            BY <2>2, <3>2, Zenon DEF PutPlanGoesOn
    <2>5. e + n - 1 <= Slots[active]
        BY <2>2 DEF Appending
    <2>6. ASSUME NEW j \in DOMAIN plan PROVE plan[j].slot \in 0..Slots[plan[j].page]
        <3>1. j \in 1..l /\ plan[j] = WriteRecord(active, e + l - j, Valid(cs[l + 1 - j], update[cs[l + 1 - j]]))
            BY <2>2 DEF PutPlan
        <3>2. plan[j].slot = e + l - j /\ plan[j].page = active
            BY <3>1, RecordOperation
        <3>3. e + l - j \in 0..Slots[active]
            BY <2>1, <2>3, <2>5, <3>1
        <3> QED
            BY <3>2, <3>3
    <2> QED
        BY <1>5, <2>4, <2>6
<1>6. CASE mode = "swap"
    <2> DEFINE q == Other(active)
               m == Goal
    <2>1. /\ active \in Page /\ DataType(m) /\ q \in Page
          /\ Slots[q] \in Nat /\ Capacity < Slots[q]
        BY <1>6, SwapState
    <2>2. PICK k, cs, i :
              /\ k \in 0..Capacity /\ cs \in [1..k -> Cells] /\ i \in 1..(k + 4)
              /\ plan = SwapPlan(active, m, cs, k, i)
        BY <1>6 DEF Inv, SwapOK
    <2> HIDE DEF m
    <2>3. k \in Nat /\ Capacity \in Nat
        BY <2>1, <2>2, SlotsType
    <2>4. plan # <<>>
        <3>1. \A c \in Cells : m[c] \in Data
            BY <2>1 DEF DataType
        <3>2. k \in Nat /\ cs \in [1..k -> Cells] /\ i \in 1..(k + 4)
            BY <2>2, <2>3
        <3> QED
            BY <2>1, <2>2, <3>1, <3>2, SwapPlanNext
    <2>5. ASSUME NEW j \in DOMAIN plan PROVE plan[j].slot \in 0..Slots[plan[j].page]
        <3> DEFINE x == i + j - 1
                   o == plan[j]
        <3>1. j \in 1..(k + 5 - i) /\ o = SwapOp(active, m, cs, k, x)
            BY <2>2 DEF SwapPlan
        <3>2. x \in 1..(k + 4)
            BY <2>2, <2>3, <3>1
        <3> HIDE DEF x, o
        <3>3. SwapOpAt(active, m, cs, k, x, o)
            BY <2>1, <2>2, <2>3, <3>1, <3>2 DEF SwapOpAt
        <3>4. x = 1 => o.slot = 0 /\ o.page = q
            BY <3>1, EraseOperation DEF SwapOp
        <3>5. /\ x = 2 => o.slot = 0 /\ o.page = q
              /\ x \in 3..(k + 2) => o.page = q /\ o.slot = x - 2
              /\ x = k + 3 => o.slot = 0 /\ o.page = q
              /\ x = k + 4 => o.slot = 0 /\ o.page = active
            BY <3>3, SwapOpIs
        <3>6. x \in 3..(k + 2) => x - 2 \in 0..Slots[q]
            BY <2>1, <2>2, <2>3, <3>2
        <3>7. x = 1 \/ x = 2 \/ x \in 3..(k + 2) \/ x = k + 3 \/ x = k + 4
            BY <2>3, <3>2
        <3>8. o.slot \in 0..Slots[o.page]
            BY <1>1, <2>1, <3>4, <3>5, <3>6, <3>7
        <3> QED
            BY <3>8 DEF o
    <2> QED
        BY <1>6, <2>4, <2>5
<1> QED
    BY <1>0, <1>2, <1>3, <1>4, <1>5, <1>6

(* The type invariant follows.                                             *)
LEMMA InvTypeOK ==
    ASSUME Inv
    PROVE  TypeOK
<1>1. PagesOK /\ VariablesOK
    BY DEF Inv
<1>2. /\ \A j \in DOMAIN plan : plan[j].slot \in 0..Slots[plan[j].page]
      /\ (plan = <<>>) = (mode = "idle")
    BY PlanSlots
<1> QED
    BY <1>1, <1>2 DEF TypeOK, PagesOK, VariablesOK, PageState

(* In every reachable state the pages, the variables and the plan have     *)
(* their types: no flash operation of put(), clear() or                    *)
(* performPendingErase() is outside its page, however full the page is and *)
(* whatever a power failure left in it.                                    *)
THEOREM TypeCorrect == Spec => []TypeOK
<1>1. Init => Inv
    BY InvInit
<1>2. Inv /\ [Next]_vars => Inv'
    BY InvStep
<1>3. Inv => TypeOK
    BY InvTypeOK
<1> QED
    BY <1>1, <1>2, <1>3, PTL DEF Spec

(* eeprom_emulation.h: "either all bytes written will be read back or none *)
(* will be read back, even in the presence of power failure/controller     *)
(* reset".  For every capacity, size of the pages and sequence of calls,   *)
(* power failures and writes that do not verify and leave the wrong record *)
(* behind, each step of the emulation is a step of the array of bytes, or  *)
(* does not change it, as long as the one record that makes a put()        *)
(* visible, in the first free slot, is not among those left wrong.  If it  *)
(* is, the promise is broken: the run eeprom_marginal shows how.           *)
THEOREM EEPROMIsAStore ==
    ASSUME ~Marginal
    PROVE  Spec => StoreSpec
<1>1. Init => Inv /\ Store!Init
    BY InvInit
<1>2. Inv /\ [Next]_vars => Inv' /\ [Store!Next]_(Store!vars)
    BY InvStep DEF Refines
<1> QED
    BY <1>1, <1>2, PTL DEF Spec, StoreSpec, Store!Spec
=============================================================================
