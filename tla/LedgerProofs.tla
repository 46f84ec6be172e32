---------------------------- MODULE LedgerProofs ----------------------------
(* Theorems about the journal and about the bank evidence that rests on it. *)
EXTENDS BankReconciliation, Sums

-----------------------------------------------------------------------------
(* Theorems about Ledger, for every value of its constants. *)

(***************************************************************************)
(* The inductive invariant.  The issued value of a sequences row never     *)
(* exceeds the highest number in the journal, which is what lets a company *)
(* key continue the numbering of another; and the unique index speaks of   *)
(* every original, reversed or not.                                        *)
(***************************************************************************)
IssuedBounded ==
  \A k \in Keys, y \in Years :
    issued[<<k, y>>] \in EntrySuffixes(entries, y) \cup {0}

BankSourceUnique ==
  \A i, j \in Ids :
    /\ IsOriginal(i) /\ IsOriginal(j)
    /\ entries[i].bank # None /\ entries[i].bank = entries[j].bank
    => i = j

NumberInv == NumbersGapless /\ IssuedBounded

RowInv == /\ ChainLinked(entries)
          /\ ReversalsExact(entries)
          /\ EntriesBalanced(entries)
          /\ ReceiptsPresent(entries)
          /\ BankSourceUnique

-----------------------------------------------------------------------------
(* The highest suffix of a gapless year is its length. *)
LEMMA MaxOfInterval ==
  ASSUME NEW S, NEW n \in Nat, S = 1..n
  PROVE  Max(S \cup {0}) = n
<1>1. n \in S \cup {0} /\ \A x \in S \cup {0} : n >= x
  OBVIOUS
<1>2. \A m \in S \cup {0} : (\A x \in S \cup {0} : m >= x) => m = n
  BY <1>1
<1> QED  BY <1>1, <1>2 DEF Max

(* What an append does to the rows, whatever it appends. *)
LEMMA AppendRows ==
  ASSUME NEW s, NEW e, s \in Seq(Range(s))
  PROVE  /\ Append(s, e) \in Seq(Range(Append(s, e)))
         /\ Len(Append(s, e)) = Len(s) + 1
         /\ Len(s) \in Nat
         /\ \A i \in 1..Len(s) : Append(s, e)[i] = s[i]
         /\ Append(s, e)[Len(s) + 1] = e
<1> DEFINE R == Range(s) \cup {e}
           t == Append(s, e)
<1>1. s \in Seq(R) /\ e \in R
  OBVIOUS
<1>2. /\ t \in Seq(R) /\ Len(t) = Len(s) + 1 /\ Len(s) \in Nat
      /\ \A i \in 1..Len(s) : t[i] = s[i]
      /\ t[Len(s) + 1] = e
  BY <1>1
<1>3. DOMAIN t = 1..Len(t)
  BY <1>2
<1>4. \A i \in 1..Len(t) : t[i] \in Range(t)
  BY <1>3 DEF Range
<1>5. t \in Seq(Range(t))
  BY <1>2, <1>3, <1>4
<1> QED  BY <1>2, <1>5

(* What AppendEntry leaves behind: one row more, and the others alone.      *)
RowAppended(p, lines, prog, rev) ==
  LET n == Len(entries) + 1
      year == FiscalYear[p.date]
      row == entries'[n]
  IN  /\ entries' \in Seq(Range(entries'))
      /\ Len(entries') = n /\ n \in Nat \ {0} /\ n <= MaxEntries
      /\ Len(entries) \in Nat
      /\ \A i \in Ids : entries'[i] = entries[i]
      /\ row.id = n /\ row.rev = rev /\ row.prog = prog
      /\ row.date = p.date /\ row.doc = p.doc /\ row.bank = p.bank
      /\ row.lines = lines
      /\ rev = 0 => row.status = "posted"
      /\ rev # 0 => row.status = "reversed"
      /\ year \in Years /\ row.year = year
      /\ row.no = NextSequenceValue(year)
      /\ row.prev = PreviousHash(entries)
      /\ row.hash = HashEntry(CanonicalEntryData(row), row.prev)
      /\ issued' = [issued EXCEPT ![<<companyKey, year>>] = row.no]

(* The row AppendEntry writes, and that it leaves the others alone. *)
LEMMA AppendEntryRow ==
  ASSUME LedgerAssumption, TypeOK, NEW p, p.date \in Dates, NEW lines,
         NEW prog, NEW rev, AppendEntry(p, lines, prog, rev)
  PROVE  RowAppended(p, lines, prog, rev)
<1> DEFINE year == FiscalYear[p.date]
           data == [id |-> Len(entries) + 1, year |-> year,
                    no |-> NextSequenceValue(year),
                    date |-> p.date, doc |-> p.doc, bank |-> p.bank,
                    lines |-> lines, prog |-> prog, rev |-> rev,
                    status |-> IF rev = 0 THEN "posted" ELSE "reversed"]
           row == Row(data, PreviousHash(entries))
<1>1. /\ entries' = Append(entries, row)
      /\ issued' = [issued EXCEPT ![<<companyKey, year>>] = NextSequenceValue(year)]
      /\ Len(entries) < MaxEntries
  BY DEF AppendEntry
<1>2. entries \in Seq(Range(entries))
  BY DEF TypeOK
<1>3. /\ entries' \in Seq(Range(entries')) /\ Len(entries') = Len(entries) + 1
      /\ Len(entries) \in Nat
      /\ \A i \in 1..Len(entries) : entries'[i] = entries[i]
      /\ entries'[Len(entries) + 1] = row
  <2> HIDE DEF row
  <2> QED  BY <1>1, <1>2, AppendRows
<1>4. year \in Years
  BY DEF LedgerAssumption
<1>5. CanonicalEntryData(row) = data
  BY DEF CanonicalEntryData, Row
<1>6. /\ row.id = Len(entries) + 1 /\ row.rev = rev /\ row.prog = prog
      /\ row.date = p.date /\ row.doc = p.doc /\ row.bank = p.bank
      /\ row.lines = lines
      /\ rev = 0 => row.status = "posted"
      /\ rev # 0 => row.status = "reversed"
      /\ row.year = year /\ row.no = NextSequenceValue(year)
      /\ row.prev = PreviousHash(entries)
      /\ row.hash = HashEntry(data, row.prev)
  BY DEF Row
<1> HIDE DEF row, data
<1>7. Len(entries) + 1 <= MaxEntries
  BY <1>1, <1>3 DEF LedgerAssumption
<1> QED  BY <1>1, <1>3, <1>4, <1>5, <1>6, <1>7 DEF Ids, RowAppended

(* Numbering: the next value of a year is one above its highest number,    *)
(* whichever sequences row it is drawn from.                               *)
LEMMA NextIsOneAbove ==
  ASSUME TypeOK, NumberInv, NEW y \in Years, NEW n \in Nat,
         EntrySuffixes(entries, y) = 1..n
  PROVE  NextSequenceValue(y) = n + 1
<1>1. MaxEntryNoSuffix(entries, y) = n
  BY MaxOfInterval DEF MaxEntryNoSuffix
<1>2. companyKey \in Keys
  BY DEF TypeOK
<1>3. issued[<<companyKey, y>>] \in 0..n
  BY <1>2 DEF NumberInv, IssuedBounded
<1> QED  BY <1>1, <1>3 DEF NextSequenceValue

LEMMA AppendKeepsNumbers ==
  ASSUME LedgerAssumption, TypeOK, NumberInv, NEW p, p.date \in Dates,
         NEW lines, NEW prog, NEW rev, AppendEntry(p, lines, prog, rev)
  PROVE  NumberInv'
<1> DEFINE n == Len(entries) + 1
           year == FiscalYear[p.date]
<1>1. /\ Len(entries') = n /\ n \in Nat \ {0}
      /\ \A i \in Ids : entries'[i] = entries[i]
      /\ year \in Years /\ entries'[n].year = year
      /\ entries'[n].no = NextSequenceValue(year)
      /\ issued' = [issued EXCEPT ![<<companyKey, year>>] = entries'[n].no]
  BY AppendEntryRow DEF RowAppended
<1> HIDE DEF n, year
<1>2. Len(entries) \in Nat /\ n = Len(entries) + 1
  BY <1>1 DEF TypeOK, n
<1>3. Ids' = Ids \cup {n}
  BY <1>1, <1>2 DEF Ids
<1>4. PICK h \in 0..Len(entries) : EntrySuffixes(entries, year) = 1..h
  BY <1>1 DEF NumberInv, NumbersGapless
<1>5. entries'[n].no = h + 1
  BY <1>1, <1>2, <1>4, NextIsOneAbove
<1>6. EntrySuffixes(entries', year) = 1..(h + 1)
  <2>1. EntrySuffixes(entries', year) = EntrySuffixes(entries, year) \cup {entries'[n].no}
    <3>1. PICK rows : rows = {j \in 1..Len(entries) : entries[j].year = year}
      OBVIOUS
    <3>2. {j \in 1..Len(entries') : entries'[j].year = year} = rows \cup {n}
      BY <1>1, <1>2, <3>1 DEF Ids
    <3>3. \A i \in rows : entries'[i].no = entries[i].no
      BY <1>1, <3>1 DEF Ids
    <3>4. EntrySuffixes(entries, year) = {entries[i].no : i \in rows}
      BY <3>1 DEF EntrySuffixes
    <3>5. EntrySuffixes(entries', year) = {entries'[i].no : i \in rows \cup {n}}
      BY <3>2 DEF EntrySuffixes
    <3> QED  BY <3>3, <3>4, <3>5
  <2> QED  BY <2>1, <1>4, <1>5
<1>7. \A y \in Years \ {year} : EntrySuffixes(entries', y) = EntrySuffixes(entries, y)
  <2> SUFFICES ASSUME NEW y \in Years \ {year}
               PROVE  EntrySuffixes(entries', y) = EntrySuffixes(entries, y)
    OBVIOUS
  <2>1. PICK rows : rows = {j \in 1..Len(entries) : entries[j].year = y}
    OBVIOUS
  <2>2. {j \in 1..Len(entries') : entries'[j].year = y} = rows
    BY <1>1, <1>2, <2>1 DEF Ids
  <2>3. \A i \in rows : entries'[i].no = entries[i].no
    BY <1>1, <2>1 DEF Ids
  <2> QED  BY <2>1, <2>2, <2>3 DEF EntrySuffixes
<1>8. \A y \in Years : \E m \in 0..Len(entries') : EntrySuffixes(entries', y) = 1..m
  BY <1>1, <1>2, <1>4, <1>6, <1>7 DEF NumberInv, NumbersGapless
<1>9. ASSUME NEW i \in Ids', NEW j \in Ids', i < j,
             entries'[i].year = entries'[j].year
      PROVE  entries'[i].no < entries'[j].no
  <2>1. CASE j \in Ids
    <3>1. i \in Ids
      BY <1>2, <1>3, <1>9, <2>1 DEF Ids
    <3> QED  BY <1>1, <1>9, <2>1, <3>1 DEF NumberInv, NumbersGapless
  <2>2. CASE j = n
    <3>1. i \in Ids /\ entries'[i] = entries[i]
      BY <1>1, <1>2, <1>3, <1>9, <2>2 DEF Ids
    <3>2. entries[i].no \in EntrySuffixes(entries, year)
      BY <1>1, <1>9, <2>2, <3>1 DEF EntrySuffixes, Ids
    <3> QED  BY <1>4, <1>5, <2>2, <3>1, <3>2
  <2> QED  BY <1>3, <2>1, <2>2
<1>10. NumbersGapless'
  BY <1>8, <1>9 DEF NumbersGapless
<1>11. ASSUME NEW k \in Keys, NEW y \in Years
       PROVE  issued'[<<k, y>>] \in EntrySuffixes(entries', y) \cup {0}
  <2>1. issued \in [Keys \X Years -> Nat] /\ <<k, y>> \in Keys \X Years
    BY DEF TypeOK
  <2>2. CASE <<k, y>> = <<companyKey, year>>
    <3>1. issued'[<<k, y>>] = h + 1 /\ y = year
      BY <1>1, <1>5, <2>1, <2>2
    <3>2. h + 1 \in EntrySuffixes(entries', y)
      BY <3>1, <1>6, <1>2, <1>4
    <3> QED  BY <3>1, <3>2
  <2>3. CASE <<k, y>> # <<companyKey, year>>
    <3>1. issued'[<<k, y>>] = issued[<<k, y>>]
      BY <1>1, <2>1, <2>3
    <3>2. issued[<<k, y>>] \in EntrySuffixes(entries, y) \cup {0}
      BY DEF NumberInv, IssuedBounded
    <3>3. EntrySuffixes(entries, y) \subseteq EntrySuffixes(entries', y)
      BY <1>4, <1>6, <1>7, <1>2
    <3> QED  BY <3>1, <3>2, <3>3
  <2> QED  BY <2>2, <2>3
<1>12. IssuedBounded'
  BY <1>11 DEF IssuedBounded
<1> QED  BY <1>10, <1>12 DEF NumberInv

-----------------------------------------------------------------------------
(* Rows: swapping the sides of a voucher keeps it balanced and keeps the   *)
(* accounts it touches.                                                    *)
LEMMA SwapKeepsBalance ==
  ASSUME NEW lines, Balanced(lines)
  PROVE  Balanced(SwapSides(lines))
<1>1. [i \in DOMAIN SwapSides(lines) |-> SwapSides(lines)[i]["debit"]]
        = [i \in DOMAIN lines |-> lines[i]["credit"]]
  BY DEF SwapSides
<1>2. [i \in DOMAIN SwapSides(lines) |-> SwapSides(lines)[i]["credit"]]
        = [i \in DOMAIN lines |-> lines[i]["debit"]]
  BY DEF SwapSides
<1>3. /\ Side(SwapSides(lines), "debit") = Side(lines, "credit")
      /\ Side(SwapSides(lines), "credit") = Side(lines, "debit")
  BY <1>1, <1>2 DEF Side
<1> QED  BY <1>3 DEF Balanced

LEMMA SwapKeepsAccounts ==
  ASSUME NEW lines
  PROVE  TouchesResult(SwapSides(lines)) <=> TouchesResult(lines)
BY DEF TouchesResult, SwapSides

(* A row that closes the chain and satisfies the row rules keeps them all. *)
LEMMA AppendKeepsChain ==
  ASSUME LedgerAssumption, TypeOK, ChainLinked(entries), NEW p, p.date \in Dates,
         NEW lines, NEW prog, NEW rev, AppendEntry(p, lines, prog, rev)
  PROVE  ChainLinked(entries)'
<1> DEFINE n == Len(entries) + 1
<1>1. /\ Len(entries') = n /\ n \in Nat \ {0}
      /\ \A i \in Ids : entries'[i] = entries[i]
      /\ entries'[n].prev = PreviousHash(entries)
      /\ entries'[n].hash = HashEntry(CanonicalEntryData(entries'[n]), entries'[n].prev)
  BY AppendEntryRow DEF RowAppended
<1>2. Len(entries) \in Nat /\ entries \in Seq(Range(entries))
  BY DEF TypeOK
<1>3. PreviousHash(entries) = IF n = 1 THEN "GENESIS" ELSE entries[n - 1].hash
  BY <1>2 DEF PreviousHash
<1> SUFFICES ASSUME NEW i \in 1..Len(entries')
             PROVE  LET before == IF i = 1 THEN "GENESIS" ELSE entries'[i - 1].hash
                    IN  /\ entries'[i].prev = before
                        /\ entries'[i].hash =
                             HashEntry(CanonicalEntryData(entries'[i]), before)
  BY DEF ChainLinked
<1>4. i # 1 => i - 1 \in Ids /\ entries'[i - 1] = entries[i - 1]
  BY <1>1, <1>2 DEF Ids
<1>5. CASE i \in Ids
  BY <1>1, <1>4, <1>5 DEF ChainLinked, Ids
<1>6. CASE i = n
  BY <1>1, <1>3, <1>4, <1>6
<1> QED  BY <1>1, <1>2, <1>5, <1>6 DEF Ids

LEMMA PostKeepsRows ==
  ASSUME LedgerAssumption, TypeOK, RowInv, NEW p \in Payloads,
         NEW historical \in BOOLEAN, NEW linked,
         PostJournalEntry(p, historical, linked)
  PROVE  RowInv'
<1> DEFINE n == Len(entries) + 1
           prog == IF historical THEN "import" ELSE "manual"
<1>1. /\ AppendEntry(p, p.lines, prog, 0) /\ p.date \in Dates
      /\ ValidPayload(p, historical, linked) /\ DatabaseAccepts(p, 0, linked)
  BY DEF PostJournalEntry, LedgerAssumption
<1> HIDE DEF prog
<1>2. /\ Len(entries') = n /\ n \in Nat \ {0}
      /\ \A i \in Ids : entries'[i] = entries[i]
      /\ entries'[n].rev = 0 /\ entries'[n].prog = prog
      /\ entries'[n].doc = p.doc /\ entries'[n].bank = p.bank
      /\ entries'[n].lines = p.lines
      /\ entries'[n].status = "posted"
  <2>1. RowAppended(p, p.lines, prog, 0)
    BY <1>1, AppendEntryRow
  <2> QED  BY <2>1 DEF RowAppended
<1>3. Ids' = Ids \cup {n} /\ Len(entries) \in Nat /\ n \notin Ids
  BY <1>2 DEF Ids, TypeOK
<1>4. Ids = 1..Len(entries) /\ Ids' = 1..Len(entries')
  BY DEF Ids
<1>5. \A i \in Ids : entries[i].rev \in 0..(i - 1) /\ i \in Nat
  BY <1>3 DEF TypeOK, Ids
<1>6. ChainLinked(entries)'
  BY <1>1, AppendKeepsChain DEF RowInv
<1>7. ReversalsExact(entries)'
  <2> SUFFICES ASSUME NEW i \in Ids'
               PROVE  /\ entries'[i].status = "reversed" <=> entries'[i].rev # 0
                      /\ entries'[i].rev # 0 =>
                           LET o == entries'[i].rev IN
                           /\ o < i
                           /\ entries'[o].rev = 0
                           /\ entries'[i].doc = entries'[o].doc
                           /\ entries'[i].bank = entries'[o].bank
                           /\ entries'[i].lines = SwapSides(entries'[o].lines)
                           /\ \A j \in Ids' : entries'[j].rev = o => j = i
    BY <1>4 DEF ReversalsExact
  <2>1. CASE i \in Ids
    <3> DEFINE o == entries[i].rev
    <3>1. o # 0 => o \in Ids
      BY <1>3, <1>4, <1>5, <2>1
    <3>2. o # 0 => \A j \in Ids' : entries'[j].rev = o => j = i
      BY <1>2, <1>3, <1>4, <2>1, <3>1 DEF RowInv, ReversalsExact
    <3> QED  BY <1>2, <1>4, <2>1, <3>1, <3>2 DEF RowInv, ReversalsExact
  <2>2. CASE i = n
    BY <1>2, <2>2
  <2> QED  BY <1>3, <2>1, <2>2
<1>8. EntriesBalanced(entries)'
  BY <1>1, <1>2, <1>3, <1>4 DEF EntriesBalanced, RowInv, ValidPayload
<1>9. ReceiptsPresent(entries)'
  BY <1>1, <1>2, <1>3, <1>4 DEF ReceiptsPresent, RowInv, ValidPayload, prog
<1>10. BankSourceUnique'
  <2> SUFFICES ASSUME NEW i \in Ids', NEW j \in Ids',
                      entries'[i].rev = 0, entries'[j].rev = 0,
                      entries'[i].bank # None, entries'[i].bank = entries'[j].bank
               PROVE  i = j
    BY DEF BankSourceUnique, IsOriginal
  <2>1. CASE i \in Ids /\ j \in Ids
    BY <1>2, <2>1 DEF RowInv, BankSourceUnique, IsOriginal
  <2>2. CASE i = n /\ j \in Ids
    BY <1>1, <1>2, <2>2 DEF DatabaseAccepts, IsOriginal
  <2>3. CASE i \in Ids /\ j = n
    BY <1>1, <1>2, <2>3 DEF DatabaseAccepts, IsOriginal
  <2> QED  BY <1>3, <2>1, <2>2, <2>3
<1> QED  BY <1>6, <1>7, <1>8, <1>9, <1>10 DEF RowInv

LEMMA ReversalKeepsRows ==
  ASSUME LedgerAssumption, TypeOK, RowInv, NEW proc \in Procs, NEW linked,
         ApplyReversal(proc, linked)
  PROVE  RowInv'
<1> DEFINE n == Len(entries) + 1
           o == pending[proc].id
           p == ReversalPayload(o, pending[proc].date)
           prog == IF FromImport(o) THEN "import" ELSE "manual"
<1>1. /\ AppendEntry(p, p.lines, prog, o)
      /\ DatabaseAccepts(p, o, linked) /\ pending[proc] # None
  BY DEF ApplyReversal
<1>2. /\ p.date \in Dates /\ o \in Ids /\ o # 0
      /\ p.lines = SwapSides(entries[o].lines)
      /\ p.doc = entries[o].doc /\ p.bank = entries[o].bank
  BY <1>1 DEF TypeOK, ReversalPayload, Ids
<1>3. Active(o)
  BY <1>1, <1>2 DEF DatabaseAccepts
<1> HIDE DEF prog, p, o
<1>4. /\ Len(entries') = n /\ n \in Nat \ {0}
      /\ \A i \in Ids : entries'[i] = entries[i]
      /\ entries'[n].rev = o /\ entries'[n].prog = prog
      /\ entries'[n].doc = entries[o].doc /\ entries'[n].bank = entries[o].bank
      /\ entries'[n].lines = SwapSides(entries[o].lines)
      /\ entries'[n].status = "reversed"
  <2>1. RowAppended(p, p.lines, prog, o)
    BY <1>1, <1>2, AppendEntryRow
  <2> QED  BY <1>2, <2>1 DEF RowAppended
<1>5. Ids' = Ids \cup {n} /\ Len(entries) \in Nat /\ n \notin Ids
  BY <1>4 DEF Ids, TypeOK
<1>6. Ids = 1..Len(entries) /\ Ids' = 1..Len(entries')
  BY DEF Ids
<1>7. \A i \in Ids : entries[i].rev \in 0..(i - 1) /\ i \in Nat
  BY <1>5 DEF TypeOK, Ids
<1>8. ChainLinked(entries)'
  BY <1>1, <1>2, AppendKeepsChain DEF RowInv
<1>9. ReversalsExact(entries)'
  <2> SUFFICES ASSUME NEW i \in Ids'
               PROVE  /\ entries'[i].status = "reversed" <=> entries'[i].rev # 0
                      /\ entries'[i].rev # 0 =>
                           LET t == entries'[i].rev IN
                           /\ t < i
                           /\ entries'[t].rev = 0
                           /\ entries'[i].doc = entries'[t].doc
                           /\ entries'[i].bank = entries'[t].bank
                           /\ entries'[i].lines = SwapSides(entries'[t].lines)
                           /\ \A j \in Ids' : entries'[j].rev = t => j = i
    BY <1>6 DEF ReversalsExact
  <2>1. CASE i \in Ids
    <3> DEFINE t == entries[i].rev
    <3>1. t # 0 => t \in Ids /\ t # o
      BY <1>3, <1>5, <1>6, <1>7, <2>1 DEF Active, Reversed
    <3>2. t # 0 => \A j \in Ids' : entries'[j].rev = t => j = i
      BY <1>4, <1>5, <1>6, <2>1, <3>1 DEF RowInv, ReversalsExact
    <3> QED  BY <1>4, <1>6, <2>1, <3>1, <3>2 DEF RowInv, ReversalsExact
  <2>2. CASE i = n
    <3>1. entries'[o] = entries[o] /\ entries[o].rev = 0 /\ o < n
      BY <1>2, <1>3, <1>4, <1>5, <1>6 DEF Active, IsOriginal
    <3>2. \A j \in Ids' : entries'[j].rev = o => j = n
      BY <1>3, <1>4, <1>5 DEF Active, Reversed
    <3> QED  BY <1>2, <1>4, <2>2, <3>1, <3>2
  <2> QED  BY <1>5, <2>1, <2>2
<1>10. EntriesBalanced(entries)'
  BY <1>2, <1>4, <1>5, <1>6, SwapKeepsBalance DEF EntriesBalanced, RowInv
<1>11. ReceiptsPresent(entries)'
  <2>1. TouchesResult(entries[o].lines) =>
          prog = "import" \/ entries[o].doc # None
    BY <1>2, <1>6 DEF RowInv, ReceiptsPresent, prog, FromImport
  <2> QED  BY <1>4, <1>5, <1>6, <2>1, SwapKeepsAccounts DEF ReceiptsPresent, RowInv
<1>12. BankSourceUnique'
  <2>1. \A i \in Ids' : entries'[i].rev = 0 => i \in Ids
    BY <1>2, <1>4, <1>5
  <2> QED  BY <1>4, <2>1 DEF BankSourceUnique, RowInv, IsOriginal
<1> QED  BY <1>8, <1>9, <1>10, <1>11, <1>12 DEF RowInv

-----------------------------------------------------------------------------
(* Type correctness of the next state after a row was appended. *)
LEMMA AppendKeepsTypes ==
  ASSUME LedgerAssumption, TypeOK, NumberInv, NEW p, p.date \in Dates,
         NEW lines, NEW prog \in {"manual", "import"}, NEW rev \in Ids \cup {0},
         AppendEntry(p, lines, prog, rev), UNCHANGED <<companyKey, locked>>,
         pending' \in [Procs -> [id : Ids, date : Dates] \cup {None}]
  PROVE  TypeOK'
<1> DEFINE n == Len(entries) + 1
           year == FiscalYear[p.date]
<1>1. RowAppended(p, lines, prog, rev)
  BY AppendEntryRow
<1>2. /\ Len(entries') = n /\ n \in Nat \ {0} /\ n <= MaxEntries
      /\ entries' \in Seq(Range(entries'))
      /\ \A i \in Ids : entries'[i] = entries[i]
      /\ entries'[n].id = n /\ entries'[n].rev = rev /\ entries'[n].prog = prog
      /\ entries'[n].date = p.date
      /\ entries'[n].status \in {"posted", "reversed"}
      /\ year \in Years /\ entries'[n].year = year
      /\ entries'[n].no = NextSequenceValue(year)
      /\ issued' = [issued EXCEPT ![<<companyKey, year>>] = entries'[n].no]
  BY <1>1 DEF RowAppended
<1> HIDE DEF n, year
<1>3. /\ Ids' = Ids \cup {n} /\ Len(entries) \in Nat /\ n = Len(entries) + 1
      /\ Ids = 1..Len(entries) /\ Ids \subseteq Ids'
  BY <1>1, <1>2 DEF Ids, RowAppended, n
<1>4. entries'[n].no \in Nat \ {0}
  <2>1. PICK h \in 0..Len(entries) : EntrySuffixes(entries, year) = 1..h
    BY <1>2 DEF NumberInv, NumbersGapless
  <2> QED  BY <1>2, <1>3, <2>1, NextIsOneAbove
<1>5. issued' \in [Keys \X Years -> Nat]
  BY <1>2, <1>4 DEF TypeOK
<1>6. pending' \in [Procs -> [id : Ids', date : Dates] \cup {None}]
  BY <1>3
<1>7. \A i \in Ids' : /\ entries'[i].id = i
                      /\ entries'[i].year \in Years
                      /\ entries'[i].date \in Dates
                      /\ entries'[i].no \in Nat \ {0}
                      /\ entries'[i].rev \in 0..(i - 1)
                      /\ entries'[i].status \in {"posted", "reversed"}
                      /\ entries'[i].prog \in {"manual", "import"}
  <2>1. ASSUME NEW i \in Ids
        PROVE  /\ entries'[i].id = i
               /\ entries'[i].year \in Years
               /\ entries'[i].date \in Dates
               /\ entries'[i].no \in Nat \ {0}
               /\ entries'[i].rev \in 0..(i - 1)
               /\ entries'[i].status \in {"posted", "reversed"}
               /\ entries'[i].prog \in {"manual", "import"}
    BY <1>2 DEF TypeOK
  <2>2. rev \in 0..(n - 1)
    BY <1>3
  <2> QED  BY <1>2, <1>3, <1>4, <2>1, <2>2
<1> QED  BY <1>2, <1>5, <1>6, <1>7 DEF TypeOK

(***************************************************************************)
(* The inductive invariant and its three facts.                            *)
(***************************************************************************)
LedgerInv == TypeOK /\ NumberInv /\ RowInv

LEMMA InitEstablishes ==
  ASSUME LedgerAssumption, LedgerInit
  PROVE  LedgerInv
<1> USE DEF LedgerInit
<1>1. Len(entries) = 0 /\ Ids = {} /\ entries \in Seq(Range(entries))
  BY DEF Ids
<1>2. TypeOK
  BY <1>1 DEF TypeOK, LedgerAssumption
<1>3. \A y \in Years : EntrySuffixes(entries, y) = {}
  BY <1>1 DEF EntrySuffixes
<1>4. \A y \in Years : EntrySuffixes(entries, y) = 1..0 /\ 0 \in 0..Len(entries)
  BY <1>1, <1>3
<1>5. NumbersGapless
  BY <1>1, <1>4 DEF NumbersGapless
<1>6. IssuedBounded
  BY DEF IssuedBounded
<1>7. RowInv
  BY <1>1 DEF RowInv, ChainLinked, ReversalsExact, EntriesBalanced,
              ReceiptsPresent, BankSourceUnique, Ids
<1> QED  BY <1>2, <1>5, <1>6, <1>7 DEF LedgerInv, NumberInv

(* A step that leaves the journal and the issued values alone. *)
LEMMA QuietStepKeeps ==
  ASSUME LedgerInv, UNCHANGED <<entries, issued>>, TypeOK'
  PROVE  LedgerInv'
<1>1. NumberInv'
  <2>1. Ids' = Ids /\ \A y : EntrySuffixes(entries', y) = EntrySuffixes(entries, y)
    BY DEF Ids
  <2>2. NumbersGapless'
    BY <2>1 DEF LedgerInv, NumberInv, NumbersGapless
  <2>3. IssuedBounded'
    BY <2>1 DEF LedgerInv, NumberInv, IssuedBounded
  <2> QED  BY <2>2, <2>3 DEF NumberInv
<1>2. RowInv'
  BY DEF LedgerInv, RowInv, ChainLinked, ReversalsExact, EntriesBalanced,
         ReceiptsPresent, BankSourceUnique, IsOriginal, Ids
<1> QED  BY <1>1, <1>2 DEF LedgerInv

LEMMA PostKeeps ==
  ASSUME LedgerAssumption, LedgerInv, NEW p \in Payloads,
         NEW historical \in BOOLEAN, NEW linked,
         PostJournalEntry(p, historical, linked)
  PROVE  LedgerInv'
<1> DEFINE prog == IF historical THEN "import" ELSE "manual"
<1>1. /\ AppendEntry(p, p.lines, prog, 0) /\ p.date \in Dates
      /\ UNCHANGED <<companyKey, locked, pending>>
  BY DEF PostJournalEntry, LedgerAssumption
<1>2. prog \in {"manual", "import"}
  OBVIOUS
<1>3. /\ TypeOK /\ NumberInv
      /\ pending' \in [Procs -> [id : Ids, date : Dates] \cup {None}]
  BY <1>1 DEF LedgerInv, TypeOK
<1> HIDE DEF prog
<1>4. TypeOK'
  <2>1. 0 \in Ids \cup {0}
    OBVIOUS
  <2> QED  BY <1>1, <1>2, <1>3, <2>1, AppendKeepsTypes
<1>5. NumberInv'
  BY <1>1, <1>3, AppendKeepsNumbers
<1>6. RowInv'
  BY PostKeepsRows DEF LedgerInv
<1> QED  BY <1>4, <1>5, <1>6 DEF LedgerInv

LEMMA ReversalKeeps ==
  ASSUME LedgerAssumption, LedgerInv, NEW proc \in Procs, NEW linked,
         ApplyReversal(proc, linked)
  PROVE  LedgerInv'
<1> DEFINE o == pending[proc].id
           p == ReversalPayload(o, pending[proc].date)
           prog == IF FromImport(o) THEN "import" ELSE "manual"
<1>1. /\ AppendEntry(p, p.lines, prog, o) /\ pending[proc] # None
      /\ UNCHANGED <<companyKey, locked>>
      /\ pending' = [pending EXCEPT ![proc] = None]
  BY DEF ApplyReversal
<1>2. /\ p.date \in Dates /\ o \in Ids \cup {0} /\ prog \in {"manual", "import"}
  BY <1>1 DEF LedgerInv, TypeOK, ReversalPayload
<1>3. /\ TypeOK /\ NumberInv
      /\ pending' \in [Procs -> [id : Ids, date : Dates] \cup {None}]
  BY <1>1 DEF LedgerInv, TypeOK
<1> HIDE DEF o, p, prog
<1>4. TypeOK'
  <2>1. PICK lines : lines = p.lines
    OBVIOUS
  <2>2. AppendEntry(p, lines, prog, o)
    BY <1>1, <2>1
  <2>3. /\ UNCHANGED <<companyKey, locked>> /\ TypeOK /\ NumberInv
        /\ pending' \in [Procs -> [id : Ids, date : Dates] \cup {None}]
    BY <1>1, <1>3
  <2> QED  BY <1>2, <2>2, <2>3, AppendKeepsTypes
<1>5. NumberInv'
  BY <1>1, <1>2, <1>3, AppendKeepsNumbers
<1>6. RowInv'
  BY ReversalKeepsRows DEF LedgerInv
<1> QED  BY <1>4, <1>5, <1>6 DEF LedgerInv

LEMMA NextKeeps ==
  ASSUME LedgerAssumption, LedgerInv, [Next]_ledgerVars
  PROVE  LedgerInv'
<1> USE DEF LedgerInv
<1>1. ASSUME NEW p \in Payloads, NEW historical \in BOOLEAN,
             PostJournalEntry(p, historical, {})
      PROVE  LedgerInv'
  BY <1>1, PostKeeps
<1>2. ASSUME NEW proc \in Procs, NEW i \in Ids, NEW d \in Dates,
             ValidateReversal(proc, i, d, {})
      PROVE  LedgerInv'
  <2>1. /\ UNCHANGED <<entries, issued, companyKey, locked>>
        /\ pending' = [pending EXCEPT ![proc] = [id |-> i, date |-> d]]
    BY <1>2 DEF ValidateReversal
  <2>2. TypeOK'
    BY <2>1 DEF TypeOK, Ids
  <2> QED  BY <2>1, <2>2, QuietStepKeeps
<1>3. ASSUME NEW proc \in Procs, ApplyReversal(proc, {})
      PROVE  LedgerInv'
  BY <1>3, ReversalKeeps
<1>4. ASSUME NEW proc \in Procs, AbandonReversal(proc)
      PROVE  LedgerInv'
  <2>1. /\ UNCHANGED <<entries, issued, companyKey, locked>>
        /\ pending' = [pending EXCEPT ![proc] = None]
    BY <1>4 DEF AbandonReversal
  <2>2. TypeOK'
    BY <2>1 DEF TypeOK, Ids
  <2> QED  BY <2>1, <2>2, QuietStepKeeps
<1>5. ASSUME NEW k \in Keys, SetCompanyKey(k)
      PROVE  LedgerInv'
  <2>1. UNCHANGED <<entries, issued, locked, pending>> /\ companyKey' = k
    BY <1>5 DEF SetCompanyKey
  <2>2. TypeOK'
    BY <2>1 DEF TypeOK, Ids
  <2> QED  BY <2>1, <2>2, QuietStepKeeps
<1>6. ASSUME NEW d \in Dates, LockDate(d) \/ UnlockDate(d)
      PROVE  LedgerInv'
  <2>1. UNCHANGED <<entries, issued, companyKey, pending>> /\ locked' \subseteq Dates
    BY <1>6 DEF LockDate, UnlockDate, TypeOK
  <2>2. TypeOK'
    BY <2>1 DEF TypeOK, Ids
  <2> QED  BY <2>1, <2>2, QuietStepKeeps
<1>7. CASE UNCHANGED ledgerVars
  <2>1. UNCHANGED <<entries, issued, companyKey, locked, pending>>
    BY <1>7 DEF ledgerVars
  <2>2. TypeOK'
    BY <2>1 DEF TypeOK, Ids
  <2> QED  BY <2>1, <2>2, QuietStepKeeps
<1> QED  BY <1>1, <1>2, <1>3, <1>4, <1>5, <1>6, <1>7 DEF Next

(* Every reachable journal satisfies the inductive invariant. *)
THEOREM LedgerInvariant == Spec => []LedgerInv
<1>1. LedgerInit => LedgerInv
  BY InitEstablishes, LedgerAssumption
<1>2. LedgerInv /\ [Next]_ledgerVars => LedgerInv'
  BY NextKeeps, LedgerAssumption
<1> QED  BY <1>1, <1>2, PTL DEF Spec

(* Type correctness of the journal that ledger.ts writes. *)
THEOREM TypeCorrect == Spec => []TypeOK
<1>1. LedgerInv => TypeOK
  BY DEF LedgerInv
<1> QED  BY <1>1, LedgerInvariant, PTL

(* nextEntryNo leaves no hole and no duplicate in a year's numbers, for    *)
(* any number of processes, keys and years.                                *)
THEOREM NumbersAreGapless == Spec => []NumbersGapless
<1>1. LedgerInv => NumbersGapless
  BY DEF LedgerInv, NumberInv
<1> QED  BY <1>1, LedgerInvariant, PTL

-----------------------------------------------------------------------------
(* The truncation guard: a year has at least as many rows as any of its    *)
(* sequences rows has issued.                                              *)
LEMMA RowsCoverIssued ==
  ASSUME TypeOK, NumberInv
  PROVE  NothingMissing(entries, issued)
<1> SUFFICES ASSUME NEW s \in DOMAIN issued
             PROVE  /\ MaxEntryNoSuffix(entries, s[2]) >= issued[s]
                    /\ Cardinality({i \in 1..Len(entries) : entries[i].year = s[2]})
                         >= issued[s]
  BY DEF NothingMissing
<1> DEFINE rows == {i \in 1..Len(entries) : entries[i].year = s[2]}
           number == [i \in rows |-> entries[i].no]
<1>1. PICK k \in Keys, y \in Years : s = <<k, y>>
  BY DEF TypeOK
<1>2. s[2] = y /\ Len(entries) \in Nat
  BY <1>1 DEF TypeOK
<1>3. PICK n \in 0..Len(entries) : EntrySuffixes(entries, y) = 1..n
  BY DEF NumberInv, NumbersGapless
<1>4. issued[s] \in 0..n
  BY <1>1, <1>3 DEF NumberInv, IssuedBounded
<1>5. MaxEntryNoSuffix(entries, y) = n
  <2> HIDE DEF rows, number
  <2>1. n \in Nat
    BY <1>2, <1>3
  <2> QED  BY <1>3, <2>1, MaxOfInterval DEF MaxEntryNoSuffix
<1>6. number \in Surjection(rows, 1..n)
  <2>1. \A i \in rows : entries[i].no \in 1..n
    BY <1>2, <1>3 DEF EntrySuffixes
  <2>2. \A m \in 1..n : \E i \in rows : number[i] = m
    BY <1>2, <1>3 DEF EntrySuffixes
  <2> QED  BY <2>1, <2>2 DEF Surjection
<1>7. IsFiniteSet(rows)
  <2>1. IsFiniteSet(1..Len(entries))
    BY <1>2, FS_Interval
  <2> QED  BY <2>1, FS_Subset
<1>8. Cardinality(1..n) <= Cardinality(rows) /\ Cardinality(1..n) = n
  <2> HIDE DEF rows, number
  <2>1. Cardinality(1..n) <= Cardinality(rows)
    BY <1>6, <1>7, FS_Surjection
  <2>2. Cardinality(1..n) = n
    BY <1>3, <1>2, FS_Interval
  <2> QED  BY <2>1, <2>2
<1>9. Cardinality(rows) \in Nat
  <2> HIDE DEF rows
  <2> QED  BY <1>7, FS_CardinalityType
<1> QED  BY <1>2, <1>3, <1>4, <1>5, <1>8, <1>9

(* verifyAuditChain accepts every journal the two write paths produce:     *)
(* unbroken chain, exact single reversals, balanced vouchers, receipts, no *)
(* missing row and no bank transaction booked twice.                       *)
THEOREM AuditAlwaysAccepts == Spec => []AuditAccepts
<1>1. ASSUME LedgerInv PROVE AuditAccepts
  <2>1. NothingMissing(entries, issued)
    BY <1>1, RowsCoverIssued DEF LedgerInv
  <2>2. BankUsedOnce(entries)
    BY <1>1 DEF LedgerInv, RowInv, BankSourceUnique, BankUsedOnce, IsOriginal, Ids
  <2> QED  BY <1>1, <2>1, <2>2
           DEF AuditAccepts, VerifyAuditChain, LedgerInv, RowInv
<1> QED  BY <1>1, LedgerInvariant, PTL

(* No process writes a row into a locked period, however long ago it       *)
(* validated its reversal.                                                 *)
THEOREM LockedPeriodsStayClosed == Spec => NoEntryInLockedPeriod
<1>1. ASSUME LedgerInv, [Next]_ledgerVars,
             NEW i \in (Len(entries) + 1)..Len(entries')
      PROVE  entries'[i].date \notin locked
  <2>1. Len(entries) \in Nat
    BY <1>1 DEF LedgerInv, TypeOK
  <2>2. entries' # entries
    BY <1>1, <2>1
  <2>3. CASE \E p \in Payloads, historical \in BOOLEAN :
               PostJournalEntry(p, historical, {})
    <3>1. PICK p \in Payloads, historical \in BOOLEAN :
            PostJournalEntry(p, historical, {})
      BY <2>3
    <3>2. /\ AppendEntry(p, p.lines, IF historical THEN "import" ELSE "manual", 0)
          /\ p.date \in Dates /\ p.date \notin locked
      BY <3>1, LedgerAssumption DEF PostJournalEntry, ValidPayload, LedgerAssumption
    <3>3. RowAppended(p, p.lines, IF historical THEN "import" ELSE "manual", 0)
      BY <1>1, <3>2, AppendEntryRow, LedgerAssumption DEF LedgerInv
    <3>4. i = Len(entries) + 1 /\ entries'[i].date = p.date
      BY <1>1, <2>1, <3>3 DEF RowAppended
    <3> QED  BY <3>2, <3>4
  <2>4. CASE \E proc \in Procs : ApplyReversal(proc, {})
    <3>1. PICK proc \in Procs : ApplyReversal(proc, {})
      BY <2>4
    <3> DEFINE o == pending[proc].id
               p == ReversalPayload(o, pending[proc].date)
               prog == IF FromImport(o) THEN "import" ELSE "manual"
    <3>2. /\ AppendEntry(p, p.lines, prog, o)
          /\ p.date \in Dates /\ p.date \notin locked
      BY <1>1, <3>1 DEF ApplyReversal, LedgerInv, TypeOK, ReversalPayload
    <3> HIDE DEF o, p, prog
    <3>3. RowAppended(p, p.lines, prog, o)
      BY <1>1, <3>2, AppendEntryRow, LedgerAssumption DEF LedgerInv
    <3>4. i = Len(entries) + 1 /\ entries'[i].date = p.date
      BY <1>1, <2>1, <3>3 DEF RowAppended
    <3> QED  BY <3>2, <3>4
  <2> QED  BY <1>1, <2>2, <2>3, <2>4
           DEF Next, ledgerVars, ValidateReversal, AbandonReversal,
               SetCompanyKey, LockDate, UnlockDate
<1>2. LedgerInv /\ [Next]_ledgerVars =>
        [\A i \in (Len(entries) + 1)..Len(entries') :
           entries'[i].date \notin locked]_ledgerVars
  BY <1>1
<1> QED  BY <1>2, LedgerInvariant, PTL DEF Spec, NoEntryInLockedPeriod

-----------------------------------------------------------------------------
(***************************************************************************)
(* Balances.  The balance over all rows is the balance over the active     *)
(* ones because a reversal brings the opposite of what its original        *)
(* brought, line by line, and takes the original out of the active rows    *)
(* in the same step.                                                       *)
(***************************************************************************)
LineSeqs == Seq(JournalLineInput)

LinesTyped == \A i \in Ids : entries[i].lines \in LineSeqs

LineMoves(a, lines) ==
  [k \in DOMAIN lines |->
     IF lines[k].acct = a THEN lines[k].debit - lines[k].credit ELSE 0]

RowMovement(a, lines) == SumFunction(LineMoves(a, lines))

LEMMA LinesHaveTypes ==
  ASSUME NEW lines \in LineSeqs, NEW k \in DOMAIN lines
  PROVE  /\ lines[k].acct \in Accounts
         /\ lines[k].debit \in Nat /\ lines[k].credit \in Nat
<1>1. lines[k] \in JournalLineInput
  BY DEF LineSeqs
<1> QED  BY <1>1 DEF JournalLineInput

LEMMA LineMovesAreNumbers ==
  ASSUME NEW a, NEW lines \in LineSeqs
  PROVE  /\ IsFiniteSet(DOMAIN lines)
         /\ DOMAIN LineMoves(a, lines) = DOMAIN lines
         /\ \A k \in DOMAIN lines : LineMoves(a, lines)[k] \in Int
<1>1. Len(lines) \in Nat /\ DOMAIN lines = 1..Len(lines)
  BY DEF LineSeqs
<1>2. IsFiniteSet(DOMAIN lines)
  BY <1>1, FS_Interval
<1>3. \A k \in DOMAIN lines : lines[k].debit \in Nat /\ lines[k].credit \in Nat
  BY LinesHaveTypes
<1> QED  BY <1>2, <1>3 DEF LineMoves

LEMMA RowMovementIsNumber ==
  ASSUME NEW a, NEW lines \in LineSeqs
  PROVE  RowMovement(a, lines) \in Int
BY LineMovesAreNumbers, SumType DEF RowMovement, SumFunction

LEMMA SwapSidesTyped ==
  ASSUME NEW lines \in LineSeqs
  PROVE  SwapSides(lines) \in LineSeqs /\ DOMAIN SwapSides(lines) = DOMAIN lines
<1>1. Len(lines) \in Nat /\ DOMAIN lines = 1..Len(lines)
  BY DEF LineSeqs
<1>2. \A k \in DOMAIN lines :
        /\ lines[k].acct \in Accounts
        /\ lines[k].debit \in Nat /\ lines[k].credit \in Nat
  BY LinesHaveTypes
<1>3. \A k \in DOMAIN lines : SwapSides(lines)[k] \in JournalLineInput
  BY <1>2 DEF SwapSides, JournalLineInput
<1>4. SwapSides(lines) \in [1..Len(lines) -> JournalLineInput]
  BY <1>1, <1>3 DEF SwapSides
<1> QED  BY <1>1, <1>4 DEF LineSeqs, SwapSides

(* A reversal moves every account by the opposite amount.                   *)
LEMMA SwapSidesMovesBack ==
  ASSUME NEW a, NEW lines \in LineSeqs
  PROVE  RowMovement(a, SwapSides(lines)) = -RowMovement(a, lines)
<1> DEFINE F == LineMoves(a, lines)
           G == LineMoves(a, SwapSides(lines))
           D == DOMAIN lines
<1>1. /\ IsFiniteSet(D) /\ DOMAIN F = D /\ DOMAIN G = D
      /\ \A k \in D : F[k] \in Int
  BY LineMovesAreNumbers, SwapSidesTyped
<1>2. \A k \in D : lines[k].debit \in Nat /\ lines[k].credit \in Nat
  BY LinesHaveTypes
<1>3. \A k \in D : G[k] = -F[k]
  BY <1>2 DEF LineMoves, SwapSides
<1> HIDE DEF F, G, D
<1>4. SumFunctionOnSet(G, D) = -SumFunctionOnSet(F, D)
  BY <1>1, <1>3, SumNegates
<1> QED  BY <1>1, <1>4 DEF RowMovement, SumFunction, F, G

(* What an account moves over a set of rows, as a sum of one function.      *)
Journal(es) ==
  es \in Seq(Range(es)) /\ \A i \in 1..Len(es) : es[i].lines \in LineSeqs

RowMoves(es, a) == [i \in 1..Len(es) |-> RowMovement(a, es[i].lines)]

MovementIn(es, a, rows) == SumFunction([i \in rows |-> RowMovement(a, es[i].lines)])

LEMMA MovementIsSum ==
  ASSUME NEW es, Journal(es), NEW a, NEW rows \in SUBSET (1..Len(es))
  PROVE  /\ IsFiniteSet(rows)
         /\ \A i \in rows : RowMoves(es, a)[i] \in Int
         /\ MovementIn(es, a, rows) = SumFunctionOnSet(RowMoves(es, a), rows)
         /\ MovementIn(es, a, rows) \in Int
<1> DEFINE F == [i \in rows |-> RowMovement(a, es[i].lines)]
<1>1. IsFiniteSet(rows)
  <2>1. Len(es) \in Nat
    BY DEF Journal
  <2>2. IsFiniteSet(1..Len(es))
    BY <2>1, FS_Interval
  <2> QED  BY <2>2, FS_Subset
<1>2. MovementIn(es, a, rows) = SumFunctionOnSet(F, rows)
  BY DEF MovementIn, SumFunction
<1>3. \A i \in rows : F[i] = RowMoves(es, a)[i] /\ F[i] \in Int
  BY RowMovementIsNumber DEF RowMoves, Journal
<1> HIDE DEF F
<1>4. SumFunctionOnSet(F, rows) = SumFunctionOnSet(RowMoves(es, a), rows)
  BY <1>1, <1>3, SumCongruence
<1>5. SumFunctionOnSet(F, rows) \in Int
  BY <1>1, <1>3, SumType
<1> QED  BY <1>1, <1>2, <1>3, <1>4, <1>5

(* Appending a row leaves the movement over the earlier ones alone.         *)
Extended(es, later, n, rows) ==
  /\ Journal(es) /\ Journal(later)
  /\ n \in Nat \ {0} /\ Len(es) = n - 1 /\ Len(later) = n
  /\ \A i \in 1..Len(es) : later[i] = es[i]
  /\ rows \subseteq 1..Len(es)

MovesOn(es, later, n, a, rows) ==
  /\ MovementIn(later, a, rows) = MovementIn(es, a, rows)
  /\ MovementIn(later, a, rows \cup {n}) =
       RowMovement(a, later[n].lines) + MovementIn(es, a, rows)

LEMMA EarlierRowsStand ==
  ASSUME NEW es, NEW later, NEW n, NEW a, NEW rows, Extended(es, later, n, rows)
  PROVE  MovesOn(es, later, n, a, rows)
<1>1. PICK F : F = RowMoves(later, a)
  OBVIOUS
<1>2. PICK E : E = RowMoves(es, a)
  OBVIOUS
<1>3. PICK grown : grown = rows \cup {n}
  OBVIOUS
<1>4. /\ Journal(es) /\ Journal(later)
      /\ rows \in SUBSET (1..Len(es))
      /\ rows \in SUBSET (1..Len(later)) /\ grown \in SUBSET (1..Len(later))
      /\ n \notin rows /\ n \in 1..Len(later)
      /\ \A i \in rows : later[i] = es[i]
  BY <1>3 DEF Extended
<1>5. \A i \in rows : F[i] = E[i]
  BY <1>1, <1>2, <1>4 DEF RowMoves
<1>6. IsFiniteSet(rows) /\ MovementIn(es, a, rows) = SumFunctionOnSet(E, rows)
  BY <1>2, <1>4, MovementIsSum
<1>7. /\ MovementIn(later, a, rows) = SumFunctionOnSet(F, rows)
      /\ MovementIn(later, a, grown) = SumFunctionOnSet(F, grown)
      /\ \A i \in grown : F[i] \in Int
  BY <1>1, <1>4, MovementIsSum
<1>8. SumFunctionOnSet(F, rows) = SumFunctionOnSet(E, rows)
  BY <1>5, <1>6, SumCongruence
<1>9. SumFunctionOnSet(F, grown) = F[n] + SumFunctionOnSet(F, rows)
  BY <1>3, <1>4, <1>6, <1>7, SumAdds
<1>10. F[n] = RowMovement(a, later[n].lines)
  BY <1>1, <1>4 DEF RowMoves
<1> QED  BY <1>3, <1>6, <1>7, <1>8, <1>9, <1>10 DEF MovesOn

LEMMA MovementIsMovementIn ==
  \A a, rows : Movement(a, rows) = MovementIn(entries, a, rows)
BY DEF Movement, MovementIn, RowMovement, LineMoves

LEMMA MovementIsMovementInLater ==
  \A a, rows : Movement(a, rows)' = MovementIn(entries', a, rows)
BY DEF Movement, MovementIn, RowMovement, LineMoves

ActiveIds == {i \in Ids : Active(i)}

BalanceInv == LinesTyped /\ BalanceIsActive

(* What a new row does to the active rows: an original joins them, a         *)
(* reversal takes its original out.                                         *)
LEMMA RowsBecomeActive ==
  ASSUME LedgerInv, NEW n \in Nat, n = Len(entries) + 1, NEW rev \in Ids \cup {0},
         Len(entries') = n, \A i \in Ids : entries'[i] = entries[i],
         entries'[n].rev = rev
  PROVE  /\ Ids = 1..(n - 1) /\ Ids' = Ids \cup {n}
         /\ ActiveIds \in SUBSET Ids
         /\ rev = 0 => ActiveIds' = ActiveIds \cup {n}
         /\ rev # 0 => ActiveIds' = ActiveIds \ {rev}
<1>1. Ids = 1..(n - 1) /\ Ids' = Ids \cup {n}
  BY DEF Ids, LedgerInv, TypeOK
<1>2. \A i \in Ids : entries[i].rev \in 0..(i - 1)
  BY DEF LedgerInv, TypeOK
<1>3. \A i \in Ids : Active(i)' <=> Active(i) /\ i # rev
  BY <1>1 DEF Active, Reversed, IsOriginal
<1>4. \A j \in Ids' : entries'[j].rev # n
  BY <1>1, <1>2
<1>5. Active(n)' <=> rev = 0
  BY <1>1, <1>4 DEF Active, Reversed, IsOriginal
<1>6. \A i \in Ids' : i \in ActiveIds' <=> Active(i)'
  BY DEF ActiveIds
<1>7. \A i \in Ids : i \in ActiveIds <=> Active(i)
  BY DEF ActiveIds
<1>8. ActiveIds \in SUBSET Ids /\ ActiveIds' \in SUBSET Ids' /\ n \notin Ids
  BY <1>1 DEF ActiveIds
<1>9. rev = 0 => ActiveIds' = ActiveIds \cup {n}
  <2>1. \A i \in Ids : i # 0
    BY <1>1
  <2>2. rev = 0 => \A i \in Ids : i \in ActiveIds' <=> i \in ActiveIds
    BY <1>1, <1>3, <1>6, <1>7, <2>1
  <2>3. rev = 0 => n \in ActiveIds'
    BY <1>1, <1>5, <1>6
  <2> QED  BY <1>1, <1>8, <2>2, <2>3
<1>10. rev # 0 => ActiveIds' = ActiveIds \ {rev}
  BY <1>1, <1>3, <1>5, <1>6, <1>7, <1>8
<1> QED  BY <1>1, <1>8, <1>9, <1>10

LEMMA BalanceOfActive ==
  \A a : Movement(a, {i \in Ids : Active(i)}) = Movement(a, ActiveIds)
BY DEF ActiveIds

(* The balances after a row was appended.                                   *)
LEMMA AppendKeepsBalance ==
  ASSUME LedgerInv, LedgerInv', BalanceInv,
         NEW n \in Nat, n = Len(entries) + 1, NEW rev \in Ids \cup {0},
         Len(entries') = n, \A i \in Ids : entries'[i] = entries[i],
         entries'[n].rev = rev, entries'[n].lines \in LineSeqs,
         rev # 0 => /\ Active(rev)
                    /\ entries'[n].lines = SwapSides(entries[rev].lines)
  PROVE  BalanceInv'
<1>1. /\ Ids = 1..Len(entries) /\ Len(entries) = n - 1 /\ Len(entries) \in Nat
      /\ Ids = 1..(n - 1) /\ Ids' = Ids \cup {n} /\ Ids' = 1..Len(entries')
      /\ ActiveIds \in SUBSET Ids
      /\ rev = 0 => ActiveIds' = ActiveIds \cup {n}
      /\ rev # 0 => ActiveIds' = ActiveIds \ {rev}
  BY RowsBecomeActive DEF Ids
<1>2. LinesTyped'
  <2>1. \A i \in Ids' : entries'[i].lines \in LineSeqs
    BY <1>1 DEF BalanceInv, LinesTyped
  <2> QED  BY <2>1 DEF LinesTyped
<1>3. Journal(entries) /\ Journal(entries')
  BY <1>1, <1>2 DEF Journal, LinesTyped, BalanceInv, LedgerInv, TypeOK
<1>4. ASSUME NEW a \in Accounts
      PROVE  Movement(a, Ids)' = Movement(a, {i \in Ids : Active(i)})'
  <2> DEFINE M(rows) == MovementIn(entries, a, rows)
             L(rows) == MovementIn(entries', a, rows)
  <2>1. M(Ids) = M(ActiveIds)
    BY MovementIsMovementIn, BalanceOfActive DEF BalanceInv, BalanceIsActive
  <2>2. PICK v : v = RowMovement(a, entries'[n].lines)
    OBVIOUS
  <2>3. /\ \A rows \in SUBSET Ids : /\ L(rows) = M(rows) /\ M(rows) \in Int
                                    /\ L(rows \cup {n}) = v + M(rows)
    <3> SUFFICES ASSUME NEW rows \in SUBSET Ids
                 PROVE  /\ L(rows) = M(rows) /\ M(rows) \in Int
                        /\ L(rows \cup {n}) = v + M(rows)
      OBVIOUS
    <3>1. Extended(entries, entries', n, rows) /\ rows \in SUBSET (1..Len(entries))
      BY <1>1, <1>3 DEF Extended
    <3>2. MovesOn(entries, entries', n, a, rows)
      BY <3>1, EarlierRowsStand
    <3>3. M(rows) \in Int
      BY <1>3, <3>1, MovementIsSum
    <3> QED  BY <2>2, <3>2, <3>3 DEF MovesOn
  <2>4. L(Ids') = v + M(Ids)
    BY <1>1, <2>3
  <2>5. CASE rev = 0
    <3>1. L(ActiveIds') = v + M(ActiveIds)
      BY <1>1, <2>3, <2>5
    <3> QED
      BY <2>1, <2>4, <3>1, MovementIsMovementInLater DEF ActiveIds
  <2>6. CASE rev # 0
    <3>1. rev \in ActiveIds /\ rev \in Ids
      BY <2>6 DEF ActiveIds
    <3>2. PICK w \in Int : w = RowMovement(a, entries[rev].lines)
      BY <3>1, RowMovementIsNumber DEF BalanceInv, LinesTyped
    <3>3. v = -w
      BY <2>2, <2>6, <3>1, <3>2, SwapSidesMovesBack DEF BalanceInv, LinesTyped
    <3>4. PICK others : others = ActiveIds \ {rev}
      OBVIOUS
    <3>5. others \in SUBSET Ids /\ rev \notin others /\ ActiveIds = others \cup {rev}
      BY <1>1, <3>1, <3>4
    <3>6. M(ActiveIds) = w + M(others)
      <4>1. PICK F : F = RowMoves(entries, a)
        OBVIOUS
      <4>2. /\ IsFiniteSet(others) /\ \A i \in ActiveIds : F[i] \in Int
            /\ M(ActiveIds) = SumFunctionOnSet(F, ActiveIds)
            /\ M(others) = SumFunctionOnSet(F, others)
        BY <1>1, <1>3, <3>5, <4>1, MovementIsSum
      <4>3. F[rev] = w
        BY <1>1, <3>1, <3>2, <4>1 DEF RowMoves
      <4> HIDE DEF M
      <4> QED  BY <3>5, <4>2, <4>3, SumAdds
    <3>7. L(ActiveIds') = M(others)
      BY <1>1, <2>3, <2>6, <3>4, <3>5
    <3>8. L(Ids') = v + (w + M(others)) /\ M(others) \in Int
      BY <2>1, <2>3, <2>4, <3>5, <3>6
    <3>9. L(Ids') = L(ActiveIds')
      <4> HIDE DEF M, L
      <4> QED  BY <3>2, <3>3, <3>7, <3>8
    <3> QED  BY <3>9, MovementIsMovementInLater DEF ActiveIds
  <2> QED  BY <2>5, <2>6
<1> QED  BY <1>2, <1>4 DEF BalanceInv, BalanceIsActive

LEMMA NextKeepsBalance ==
  ASSUME LedgerAssumption, LedgerInv, LedgerInv', BalanceInv, [Next]_ledgerVars
  PROVE  BalanceInv'
<1>1. CASE UNCHANGED entries
  <2>1. Ids' = Ids /\ \A i \in Ids : Active(i)' <=> Active(i)
    BY <1>1 DEF Ids, Active, Reversed, IsOriginal
  <2>2. LinesTyped'
    BY <1>1, <2>1 DEF BalanceInv, LinesTyped
  <2>3. {i \in Ids : Active(i)}' = {i \in Ids : Active(i)}
    BY <2>1
  <2>4. \A a, rows : Movement(a, rows)' = Movement(a, rows)
    BY <1>1, MovementIsMovementIn, MovementIsMovementInLater
  <2>5. BalanceIsActive'
    BY <2>1, <2>3, <2>4 DEF BalanceInv, BalanceIsActive
  <2> QED  BY <2>2, <2>5 DEF BalanceInv
<1>2. ASSUME NEW p \in Payloads, NEW historical \in BOOLEAN,
             PostJournalEntry(p, historical, {})
      PROVE  BalanceInv'
  <2> DEFINE prog == IF historical THEN "import" ELSE "manual"
  <2>1. /\ AppendEntry(p, p.lines, prog, 0) /\ p.date \in Dates
        /\ p.lines \in LineSeqs
    BY <1>2 DEF PostJournalEntry, LedgerAssumption, LineSeqs
  <2> HIDE DEF prog
  <2>2. RowAppended(p, p.lines, prog, 0)
    BY <2>1, AppendEntryRow DEF LedgerInv
  <2>3. PICK n \in Nat : n = Len(entries) + 1
    BY <2>2 DEF RowAppended
  <2>4. /\ Len(entries') = n /\ \A i \in Ids : entries'[i] = entries[i]
        /\ entries'[n].rev = 0 /\ entries'[n].lines = p.lines
    BY <2>2, <2>3 DEF RowAppended
  <2> QED  BY <2>1, <2>3, <2>4, AppendKeepsBalance
<1>3. ASSUME NEW proc \in Procs, ApplyReversal(proc, {})
      PROVE  BalanceInv'
  <2>1. PICK o : o = pending[proc].id
    OBVIOUS
  <2>2. PICK p : p = ReversalPayload(o, pending[proc].date)
    OBVIOUS
  <2>3. PICK prog : prog = IF FromImport(o) THEN "import" ELSE "manual"
    OBVIOUS
  <2>4. /\ AppendEntry(p, p.lines, prog, o) /\ DatabaseAccepts(p, o, {})
        /\ pending[proc] # None
    BY <1>3, <2>1, <2>2, <2>3 DEF ApplyReversal
  <2>5. /\ p.date \in Dates /\ o \in Ids /\ o # 0
        /\ p.lines = SwapSides(entries[o].lines)
    BY <2>1, <2>2, <2>4 DEF LedgerInv, TypeOK, ReversalPayload, Ids
  <2>6. Active(o)
    BY <2>4, <2>5 DEF DatabaseAccepts
  <2>7. RowAppended(p, p.lines, prog, o)
    BY <2>4, <2>5, AppendEntryRow DEF LedgerInv
  <2>8. PICK n \in Nat : n = Len(entries) + 1
    BY <2>7 DEF RowAppended
  <2>9. /\ Len(entries') = n /\ \A i \in Ids : entries'[i] = entries[i]
        /\ entries'[n].rev = o /\ entries'[n].lines = SwapSides(entries[o].lines)
    BY <2>5, <2>7, <2>8 DEF RowAppended
  <2>10. entries'[n].lines \in LineSeqs
    BY <2>5, <2>9, SwapSidesTyped DEF BalanceInv, LinesTyped
  <2> QED  BY <2>5, <2>6, <2>8, <2>9, <2>10, AppendKeepsBalance
<1> QED
  BY <1>1, <1>2, <1>3
     DEF Next, ledgerVars, ValidateReversal, AbandonReversal, SetCompanyKey,
         LockDate, UnlockDate

(* The two ways of computing a balance agree, for any number of rows,       *)
(* accounts and lines: accountBalanceSnapshot sums every row, the           *)
(* reconciliation controls only the active ones.                            *)
THEOREM BalancesAgree == Spec => []BalanceIsActive
<1>1. LedgerInit => BalanceInv
  <2> SUFFICES ASSUME LedgerInit PROVE BalanceInv
    OBVIOUS
  <2>1. Ids = {} /\ {i \in Ids : Active(i)} = {}
    BY DEF LedgerInit, Ids
  <2> QED  BY <2>1 DEF BalanceInv, LinesTyped, BalanceIsActive
<1>2. LedgerInv /\ LedgerInv' /\ BalanceInv /\ [Next]_ledgerVars => BalanceInv'
  BY NextKeepsBalance, LedgerAssumption
<1>3. BalanceInv => BalanceIsActive
  BY DEF BalanceInv
<1> QED  BY <1>1, <1>2, <1>3, LedgerInvariant, PTL DEF Spec

(***************************************************************************)
(* Refinement: a posting records, a reversal cancels, the rest stutters.   *)
(***************************************************************************)
LEMMA PostRecords ==
  ASSUME LedgerAssumption, LedgerInv, NEW p \in Payloads,
         NEW historical \in BOOLEAN, PostJournalEntry(p, historical, {})
  PROVE  Book!Record
<1> DEFINE prog == IF historical THEN "import" ELSE "manual"
<1>1. AppendEntry(p, p.lines, prog, 0) /\ p.date \in Dates
  BY DEF PostJournalEntry, LedgerAssumption
<1> HIDE DEF prog
<1>2. RowAppended(p, p.lines, prog, 0)
  BY <1>1, AppendEntryRow DEF LedgerInv
<1>3. /\ Len(entries) \in Nat /\ Len(entries') = Len(entries) + 1
      /\ entries'[Len(entries) + 1].rev = 0
      /\ \A i \in Ids : entries'[i] = entries[i]
      /\ \A i \in Ids : entries[i].rev \in 0..(i - 1)
  BY <1>2 DEF RowAppended, LedgerInv, TypeOK
<1>4. PICK n \in Nat : n = Len(entries) + 1
  BY <1>3
<1>5. Ids' = Ids \cup {n} /\ Ids = 1..Len(entries) /\ n \notin Ids
  BY <1>3, <1>4 DEF Ids
<1>6. \A i \in Ids : Active(i)' <=> Active(i)
  BY <1>3, <1>4, <1>5 DEF Active, Reversed, IsOriginal
<1>7. \A j \in Ids' : entries'[j].rev # n
  BY <1>3, <1>4, <1>5
<1>8. Active(n)'
  BY <1>3, <1>4, <1>7 DEF Active, Reversed, IsOriginal
<1>9. {i \in Ids : Active(i)}' = {i \in Ids : Active(i)} \cup {n}
  BY <1>5, <1>6, <1>8
<1> QED  BY <1>3, <1>4, <1>9 DEF Book!Record

LEMMA ReversalCancels ==
  ASSUME LedgerAssumption, LedgerInv, NEW proc \in Procs, ApplyReversal(proc, {})
  PROVE  Book!Cancel
<1> DEFINE o == pending[proc].id
           p == ReversalPayload(o, pending[proc].date)
           prog == IF FromImport(o) THEN "import" ELSE "manual"
<1>1. /\ AppendEntry(p, p.lines, prog, o) /\ DatabaseAccepts(p, o, {})
      /\ pending[proc] # None
  BY DEF ApplyReversal
<1>2. p.date \in Dates /\ o \in Ids /\ o # 0
  BY <1>1 DEF LedgerInv, TypeOK, ReversalPayload, Ids
<1>3. Active(o)
  BY <1>1, <1>2 DEF DatabaseAccepts
<1> HIDE DEF o, p, prog
<1>4. RowAppended(p, p.lines, prog, o)
  BY <1>1, <1>2, AppendEntryRow DEF LedgerInv
<1>5. /\ Len(entries) \in Nat /\ Len(entries') = Len(entries) + 1
      /\ entries'[Len(entries) + 1].rev = o
      /\ \A i \in Ids : entries'[i] = entries[i]
  BY <1>4 DEF RowAppended
<1>6. PICK n \in Nat : n = Len(entries) + 1
  BY <1>5
<1>7. Ids' = Ids \cup {n} /\ Ids = 1..Len(entries) /\ n \notin Ids
  BY <1>5, <1>6 DEF Ids
<1>8. \A i \in Ids : Active(i)' <=> Active(i) /\ i # o
  BY <1>3, <1>5, <1>6, <1>7 DEF Active, Reversed, IsOriginal
<1>9. ~Active(n)'
  BY <1>2, <1>5, <1>6 DEF Active, IsOriginal
<1>10. {i \in Ids : Active(i)}' = {i \in Ids : Active(i)} \ {o}
  BY <1>7, <1>8, <1>9
<1> QED  BY <1>2, <1>3, <1>5, <1>10 DEF Book!Cancel

(* The journal implements the abstract book of active postings.            *)
THEOREM LedgerImplementsBook == Spec => BookSpec
<1>1. LedgerInit => Book!Init
  BY DEF LedgerInit, Book!Init, Ids
<1>2. ASSUME LedgerInv, [Next]_ledgerVars
      PROVE  [Book!Next]_<<Len(entries), {i \in Ids : Active(i)}>>
  <2>1. CASE UNCHANGED entries
    BY <2>1 DEF Ids, Active, Reversed, IsOriginal
  <2>2. ASSUME NEW p \in Payloads, NEW historical \in BOOLEAN,
               PostJournalEntry(p, historical, {})
        PROVE  Book!Next
    BY <1>2, <2>2, PostRecords, LedgerAssumption DEF Book!Next
  <2>3. ASSUME NEW proc \in Procs, ApplyReversal(proc, {})
        PROVE  Book!Next
    BY <1>2, <2>3, ReversalCancels, LedgerAssumption DEF Book!Next
  <2>4. UNCHANGED entries \/ Book!Next
    BY <1>2, <2>2, <2>3
       DEF Next, ledgerVars, ValidateReversal, AbandonReversal, SetCompanyKey,
           LockDate, UnlockDate
  <2> QED  BY <2>1, <2>4
<1> QED  BY <1>1, <1>2, LedgerInvariant, PTL DEF Spec, BookSpec, Book!Spec

-----------------------------------------------------------------------------
(***************************************************************************)
(* Theorems about BankReconciliation, for every set of bank transactions,  *)
(* payloads and processes and every bound.                                 *)
(*                                                                         *)
(* The database looks at one table at a time, so the argument has to go    *)
(* through all three: whatever reconciled a bank transaction is an         *)
(* original; a correction presupposes a direct journal or a link of the    *)
(* same bank transaction, and these exclude each other; and what is        *)
(* superseded is reversed.  Hence a correction finds nothing in force, and *)
(* a posting or a link finds nothing at all.                               *)
(***************************************************************************)

LinkRecords == [bank : Banks, entry : Nat]

CorrectionRecords ==
  [bank : Banks, kind : {"direct", "append-only", "correction"},
   id : Nat, old : Nat, new : Nat]

EvidenceTyped ==
  /\ links \in Seq(LinkRecords) /\ corrections \in Seq(CorrectionRecords)
  /\ Len(links) <= MaxLinks /\ Len(corrections) <= MaxLinks

CandidatesOriginal ==
  \A b \in Banks : \A r \in Candidates(b) : r.entry \in Ids /\ IsOriginal(r.entry)

LinkedOnce ==
  \A k, m \in DOMAIN links : links[k].bank = links[m].bank => k = m

HasDirect(b) == \E i \in Ids : IsOriginal(i) /\ entries[i].bank = b

CorrectionsRooted ==
  \A k \in DOMAIN corrections :
    corrections[k].bank \in Linked \/ HasDirect(corrections[k].bank)

EffectiveUnique == \A b \in Banks : \A r, s \in Effective(b) : r = s

EvidenceFacts ==
  /\ EvidenceTyped /\ CandidatesOriginal /\ LinkedOnce /\ CorrectionsRooted
  /\ EffectiveUnique /\ BookedOnce /\ LinksVerified

LinkRequests == [op : {"link"}, bank : Banks, entry : Nat]

CorrectionRequests == [op : {"correct"}, plan : CorrectionRecords]

SyncRequests == [op : {"sync"}, left : SUBSET Banks, stale : SUBSET Banks]

RequestsTyped ==
  /\ open \subseteq Banks
  /\ requests \in [Procs -> {None} \cup LinkRequests \cup CorrectionRequests
                                   \cup SyncRequests]

(* The inductive invariant.                                                 *)
BankInv == LedgerInv /\ EvidenceFacts /\ RequestsTyped

LinkSound(b, i) ==
  /\ \A j \in Ids : entries[j].bank # b
  /\ entries[i].bank = None
  /\ BooksAmount(i, b)

CorrectionSound(c) ==
  /\ [kind |-> c.kind, id |-> c.id, entry |-> c.old] \in Candidates(c.bank)
  /\ Reversed(c.old)
  /\ entries[c.new].bank = None
  /\ BooksAmount(c.new, c.bank)

-----------------------------------------------------------------------------
(* The stored records, one by one, before and after a step.                 *)

LEMMA StoredRecords ==
  ASSUME EvidenceTyped
  PROVE  /\ DOMAIN links = 1..Len(links) /\ Len(links) \in Nat
         /\ DOMAIN corrections = 1..Len(corrections) /\ Len(corrections) \in Nat
         /\ \A k \in DOMAIN links : links[k].bank \in Banks /\ links[k].entry \in Nat
         /\ \A k \in DOMAIN corrections :
              corrections[k] \in CorrectionRecords /\ corrections[k].bank \in Banks
<1>1. ASSUME NEW k \in DOMAIN links PROVE links[k] \in LinkRecords
  BY DEF EvidenceTyped
<1>2. ASSUME NEW k \in DOMAIN corrections PROVE corrections[k] \in CorrectionRecords
  BY DEF EvidenceTyped
<1>3. ASSUME NEW c \in CorrectionRecords PROVE c.bank \in Banks
  BY DEF CorrectionRecords
<1>4. ASSUME NEW c \in LinkRecords PROVE c.bank \in Banks /\ c.entry \in Nat
  BY DEF LinkRecords
<1> QED BY <1>1, <1>2, <1>3, <1>4 DEF EvidenceTyped

LEMMA VerifiedNow ==
  ASSUME LinksVerified
  PROVE  /\ \A k \in DOMAIN links : LinkSound(links[k].bank, links[k].entry)
         /\ \A k \in DOMAIN corrections : CorrectionSound(corrections[k])
BY DEF LinksVerified, LinkSound, CorrectionSound

LEMMA VerifiedLater ==
  ASSUME \A k \in DOMAIN links' : \A b, i :
           b = links'[k].bank /\ i = links'[k].entry => LinkSound(b, i)',
         \A k \in DOMAIN corrections' : \A c :
           c = corrections'[k] => CorrectionSound(c)',
         \A k, m \in DOMAIN corrections' :
           corrections'[k].kind = corrections'[m].kind
             /\ corrections'[k].id = corrections'[m].id => m = k
  PROVE  LinksVerified'
BY DEF LinksVerified, LinkSound, CorrectionSound

-----------------------------------------------------------------------------
(* Candidates, before and after a step.                                     *)

LEMMA CandidateIs ==
  ASSUME NEW b, NEW r
  PROVE  r \in Candidates(b) <=>
    \/ \E i \in Ids : IsOriginal(i) /\ entries[i].bank = b
                      /\ r = [kind |-> "direct", id |-> i, entry |-> i]
    \/ \E k \in DOMAIN links : links[k].bank = b
         /\ r = [kind |-> "append-only", id |-> k, entry |-> links[k].entry]
    \/ \E k \in DOMAIN corrections : corrections[k].bank = b
         /\ r = [kind |-> "correction", id |-> k, entry |-> corrections[k].new]
BY DEF Candidates

LEMMA CandidateWillBe ==
  ASSUME NEW b, NEW r
  PROVE  r \in Candidates(b)' <=>
    \/ \E i \in Ids' : IsOriginal(i)' /\ entries'[i].bank = b
                       /\ r = [kind |-> "direct", id |-> i, entry |-> i]
    \/ \E k \in DOMAIN links' : links'[k].bank = b
         /\ r = [kind |-> "append-only", id |-> k, entry |-> links'[k].entry]
    \/ \E k \in DOMAIN corrections' : corrections'[k].bank = b
         /\ r = [kind |-> "correction", id |-> k, entry |-> corrections'[k].new]
BY DEF Candidates

(* The identity of a candidate tells its bank transaction and its entry.    *)
LEMMA IdentityDecides ==
  ASSUME EvidenceTyped, LedgerInv, NEW a, NEW b, NEW r \in Candidates(a),
         NEW s \in Candidates(b), r.kind = s.kind, r.id = s.id
  PROVE  r = s /\ a = b
BY CandidateIs

LEMMA NothingWithoutRoot ==
  ASSUME EvidenceFacts, NEW b \in Banks, ~HasDirect(b), b \notin Linked
  PROVE  Candidates(b) = {}
<1>1. ASSUME NEW r \in Candidates(b) PROVE FALSE
  BY CandidateIs DEF EvidenceFacts, CorrectionsRooted, HasDirect, Linked
<1> QED BY <1>1

(* What is superseded is reversed.                                          *)
LEMMA SupersededIsReversed ==
  ASSUME EvidenceFacts, LedgerInv, NEW b \in Banks, NEW r \in Candidates(b), Superseded(r)
  PROVE  Reversed(r.entry)
<1>1. PICK k \in DOMAIN corrections : corrections[k].kind = r.kind /\ corrections[k].id = r.id
  BY DEF Superseded
<1>2. PICK c : c = corrections[k]
  OBVIOUS
<1>3. [kind |-> c.kind, id |-> c.id, entry |-> c.old] \in Candidates(c.bank) /\ Reversed(c.old)
  BY <1>2 DEF EvidenceFacts, LinksVerified
<1>4. r = [kind |-> c.kind, id |-> c.id, entry |-> c.old]
  BY <1>1, <1>2, <1>3, IdentityDecides DEF EvidenceFacts
<1> QED BY <1>3, <1>4

(* A correction names a candidate, so its identity is one of those that     *)
(* exist.                                                                   *)
LEMMA CorrectionNamesOld ==
  ASSUME EvidenceFacts, NEW k \in DOMAIN corrections
  PROVE  /\ corrections[k].kind = "direct" => corrections[k].id \in Ids
         /\ corrections[k].kind = "append-only" => corrections[k].id \in DOMAIN links
         /\ corrections[k].kind = "correction" => corrections[k].id \in DOMAIN corrections
<1>1. PICK c : c = corrections[k]
  OBVIOUS
<1>2. PICK r : r = [kind |-> c.kind, id |-> c.id, entry |-> c.old]
  OBVIOUS
<1>3. r \in Candidates(c.bank)
  BY <1>1, <1>2 DEF EvidenceFacts, LinksVerified
<1>4. r.kind = c.kind /\ r.id = c.id
  BY <1>2
<1> QED BY <1>1, <1>3, <1>4, CandidateIs

-----------------------------------------------------------------------------
(* Rows are only added.                                                     *)

(* One row is new and the others are as they were.                          *)
OneRow ==
  /\ Ids' = Ids \cup {Len(entries) + 1} /\ Len(entries) + 1 \notin Ids
  /\ \A i \in Ids : entries'[i] = entries[i]

LEMMA MovementStays ==
  ASSUME NEW a, NEW i, entries'[i] = entries[i]
  PROVE  Movement(a, {i})' = Movement(a, {i})
<1> DEFINE lines(es, j) ==
     SumFunction([k \in DOMAIN es[j].lines |->
       IF es[j].lines[k].acct = a
         THEN es[j].lines[k].debit - es[j].lines[k].credit ELSE 0])
<1>1. lines(entries', i) = lines(entries, i)
  OBVIOUS
<1>2. Movement(a, {i}) = SumFunction([j \in {i} |-> lines(entries, j)])
  BY DEF Movement
<1>3. Movement(a, {i})' = SumFunction([j \in {i} |-> lines(entries', j)])
  BY DEF Movement
<1> HIDE DEF lines
<1>4. [j \in {i} |-> lines(entries', j)] = [j \in {i} |-> lines(entries, j)]
  BY <1>1
<1> QED BY <1>2, <1>3, <1>4

LEMMA BooksAmountStays ==
  ASSUME NEW i, NEW b, entries'[i] = entries[i]
  PROVE  BooksAmount(i, b)' <=> BooksAmount(i, b)
BY MovementStays DEF BooksAmount

(* A row that names no linked bank transaction keeps the evidence, if it    *)
(* reverses an active row or is the first original of its bank transaction. *)
LEMMA RowKeepsEvidence ==
  ASSUME BankAssumption, EvidenceFacts, LedgerInv, NEW n, n = Len(entries) + 1,
         OneRow, UNCHANGED <<links, corrections>>, NEW rev, entries'[n].rev = rev,
         entries'[n].bank = None \/ entries'[n].bank \notin Linked,
         \/ rev # 0
         \/ \A b \in Banks : entries'[n].bank = b => ~HasDirect(b) /\ b \notin Linked
  PROVE  EvidenceFacts'
<1> DEFINE new == [kind |-> "direct", id |-> n, entry |-> n]
<1>1. /\ Ids' = Ids \cup {n} /\ n \notin Ids
      /\ \A i \in Ids : entries'[i] = entries[i]
      /\ \A i \in Ids : IsOriginal(i)' <=> IsOriginal(i)
      /\ IsOriginal(n)' <=> rev = 0
  BY DEF OneRow, IsOriginal
<1>2. \A i \in Ids : Reversed(i) => Reversed(i)'
  BY <1>1 DEF Reversed
<1>3. \A i \in Ids : Active(i)' => Active(i)
  BY <1>1, <1>2 DEF Active
<1>4. ASSUME NEW b \in Banks, NEW r
      PROVE  r \in Candidates(b)' <=>
               r \in Candidates(b) \/ (rev = 0 /\ entries'[n].bank = b /\ r = new)
  <2>1. (\E i \in Ids' : IsOriginal(i)' /\ entries'[i].bank = b
                         /\ r = [kind |-> "direct", id |-> i, entry |-> i])
        <=> \/ \E i \in Ids : IsOriginal(i) /\ entries[i].bank = b
                              /\ r = [kind |-> "direct", id |-> i, entry |-> i]
            \/ rev = 0 /\ entries'[n].bank = b /\ r = new
    BY <1>1
  <2> QED BY <2>1, CandidateIs, CandidateWillBe
<1> HIDE DEF new
<1>5. new.entry = n
  BY DEF new
<1>6. \A r : Superseded(r)' <=> Superseded(r)
  BY DEF Superseded
<1>7. ASSUME NEW b \in Banks, rev = 0, entries'[n].bank = b PROVE Candidates(b) = {}
  BY <1>7, NothingWithoutRoot
<1>8. EvidenceTyped'
  BY DEF EvidenceFacts, EvidenceTyped
<1>9. CandidatesOriginal'
  BY <1>1, <1>4, <1>5 DEF EvidenceFacts, CandidatesOriginal
<1>10. LinkedOnce'
  BY DEF EvidenceFacts, LinkedOnce
<1>11. CorrectionsRooted'
  <2>1. Linked' = Linked
    BY DEF Linked
  <2>2. \A b : HasDirect(b) => HasDirect(b)'
    BY <1>1 DEF HasDirect
  <2> QED BY <2>1, <2>2 DEF EvidenceFacts, CorrectionsRooted
<1>12. EffectiveUnique'
  <2> SUFFICES ASSUME NEW b \in Banks, NEW r, NEW s, r \in Effective(b)', s \in Effective(b)'
               PROVE  r = s
    BY DEF EffectiveUnique
  <2>1. r \in Candidates(b)' /\ s \in Candidates(b)' /\ ~Superseded(r) /\ ~Superseded(s)
    BY <1>6 DEF Effective
  <2>2. CASE rev = 0 /\ entries'[n].bank = b
    BY <1>4, <1>7, <2>1, <2>2
  <2>3. CASE ~(rev = 0 /\ entries'[n].bank = b)
    <3>1. r \in Effective(b) /\ s \in Effective(b)
      BY <1>4, <2>1, <2>3 DEF Effective
    <3> QED BY <3>1 DEF EvidenceFacts, EffectiveUnique
  <2> QED BY <2>2, <2>3
<1>13. BookedOnce'
  <2> SUFFICES ASSUME NEW b \in Banks, NEW r, NEW s,
                      r \in Candidates(b)', s \in Candidates(b)',
                      Active(r.entry)', Active(s.entry)'
               PROVE  r.entry = s.entry
    BY DEF BookedOnce
  <2>1. CASE rev = 0 /\ entries'[n].bank = b
    BY <1>4, <1>7, <2>1
  <2>2. CASE ~(rev = 0 /\ entries'[n].bank = b)
    <3>1. r \in Candidates(b) /\ s \in Candidates(b)
      BY <1>4, <2>2
    <3>2. r.entry \in Ids /\ s.entry \in Ids
      BY <3>1 DEF EvidenceFacts, CandidatesOriginal
    <3> QED BY <1>3, <3>1, <3>2 DEF EvidenceFacts, BookedOnce
  <2> QED BY <2>1, <2>2
<1>14. ASSUME NEW k \in DOMAIN links, NEW b, NEW i,
              b = links[k].bank, i = links[k].entry
       PROVE  LinkSound(b, i)'
  <2>1. b \in Linked /\ b \in Banks
    BY <1>14, StoredRecords DEF Linked, EvidenceFacts
  <2>2. [kind |-> "append-only", id |-> k, entry |-> i] \in Candidates(b)
    BY <1>14, CandidateIs
  <2>3. i \in Ids
    BY <2>1, <2>2 DEF EvidenceFacts, CandidatesOriginal
  <2>4. (\A j \in Ids : entries[j].bank # b) /\ entries[i].bank = None /\ BooksAmount(i, b)
    BY <1>14, VerifiedNow DEF EvidenceFacts, LinkSound
  <2>5. entries'[n].bank # b
    BY <2>1 DEF BankAssumption
  <2>6. BooksAmount(i, b)'
    BY <1>1, <2>3, <2>4, BooksAmountStays
  <2> QED BY <1>1, <2>3, <2>4, <2>5, <2>6 DEF LinkSound
<1>15. ASSUME NEW k \in DOMAIN corrections, NEW c, c = corrections[k]
       PROVE  CorrectionSound(c)'
  <2>2. /\ [kind |-> c.kind, id |-> c.id, entry |-> c.old] \in Candidates(c.bank)
        /\ Reversed(c.old) /\ entries[c.new].bank = None /\ BooksAmount(c.new, c.bank)
    BY <1>15, VerifiedNow DEF EvidenceFacts, CorrectionSound
  <2>3. c.bank \in Banks
    BY <1>15, StoredRecords DEF EvidenceFacts
  <2>4. [kind |-> "correction", id |-> k, entry |-> c.new] \in Candidates(c.bank)
    BY <1>15, CandidateIs
  <2>5. c.new \in Ids /\ c.old \in Ids
    BY <2>2, <2>3, <2>4 DEF EvidenceFacts, CandidatesOriginal
  <2>6. BooksAmount(c.new, c.bank)'
    BY <1>1, <2>2, <2>5, BooksAmountStays
  <2> QED BY <1>1, <1>2, <1>4, <2>2, <2>3, <2>5, <2>6 DEF CorrectionSound
<1>16. LinksVerified'
  <2>1. \A k, m \in DOMAIN corrections :
          corrections[k].kind = corrections[m].kind
            /\ corrections[k].id = corrections[m].id => m = k
    BY DEF EvidenceFacts, LinksVerified
  <2> QED BY <1>14, <1>15, <2>1, VerifiedLater
<1> QED BY <1>8, <1>9, <1>10, <1>11, <1>12, <1>13, <1>16 DEF EvidenceFacts

LEMMA QuietKeepsEvidence ==
  ASSUME EvidenceFacts, UNCHANGED <<entries, links, corrections>>
  PROVE  EvidenceFacts'
<1>1. Ids' = Ids /\ \A b : Candidates(b)' = Candidates(b)
  BY DEF Candidates, Ids, IsOriginal
<1>2. /\ \A i : IsOriginal(i)' <=> IsOriginal(i)
      /\ \A i : Reversed(i)' <=> Reversed(i)
      /\ \A i : Active(i)' <=> Active(i)
      /\ \A b : Effective(b)' = Effective(b)
      /\ \A i, b : BooksAmount(i, b)' <=> BooksAmount(i, b)
  BY <1>1, BooksAmountStays DEF IsOriginal, Reversed, Active, Effective, Superseded, Ids
<1>3. EvidenceTyped' /\ LinkedOnce' /\ CandidatesOriginal' /\ EffectiveUnique' /\ BookedOnce'
  BY <1>1, <1>2 DEF EvidenceFacts, EvidenceTyped, LinkedOnce, CandidatesOriginal,
                    EffectiveUnique, BookedOnce
<1>4. CorrectionsRooted'
  BY <1>1, <1>2 DEF EvidenceFacts, CorrectionsRooted, Linked, HasDirect
<1>5. LinksVerified'
  <2>1. ASSUME NEW k \in DOMAIN links, NEW b, NEW i, b = links[k].bank, i = links[k].entry
        PROVE  LinkSound(b, i)'
    BY <1>1, <1>2, <2>1, VerifiedNow DEF EvidenceFacts, LinkSound
  <2>2. ASSUME NEW k \in DOMAIN corrections, NEW c, c = corrections[k]
        PROVE  CorrectionSound(c)'
    BY <1>1, <1>2, <2>2, VerifiedNow DEF EvidenceFacts, CorrectionSound
  <2>3. \A k, m \in DOMAIN corrections :
          corrections[k].kind = corrections[m].kind
            /\ corrections[k].id = corrections[m].id => m = k
    BY DEF EvidenceFacts, LinksVerified
  <2> QED BY <2>1, <2>2, <2>3, VerifiedLater
<1> QED BY <1>3, <1>4, <1>5 DEF EvidenceFacts

-----------------------------------------------------------------------------
(* A link is inserted where nothing reconciled the bank transaction yet.    *)

LEMMA LinkKeepsEvidence ==
  ASSUME BankAssumption, EvidenceFacts, LedgerInv, NEW b \in Banks, NEW e,
         DatabaseAcceptsLink(b, e), Len(links) < MaxLinks,
         links' = Append(links, [bank |-> b, entry |-> e]),
         UNCHANGED <<entries, corrections>>
  PROVE  /\ EvidenceFacts'
         /\ \E r : r \in Effective(b)'
<1>1. PICK l : l = [bank |-> b, entry |-> e]
  OBVIOUS
<1>2. /\ EvidenceTyped /\ e \in Ids /\ Active(e) /\ entries[e].bank = None
      /\ \A j \in Ids : entries[j].bank # b
      /\ BooksAmount(e, b) /\ b \notin Linked
  BY DEF DatabaseAcceptsLink, EvidenceFacts
<1>3. l \in LinkRecords /\ l.bank = b /\ l.entry = e
  BY <1>1, <1>2 DEF LinkRecords, Ids
<1>4. PICK n \in Nat : n = Len(links) + 1
  BY <1>2, StoredRecords
<1>5. /\ links' \in Seq(LinkRecords) /\ Len(links') = n
      /\ DOMAIN links' = DOMAIN links \cup {n} /\ n \notin DOMAIN links
      /\ links'[n] = l /\ \A k \in DOMAIN links : links'[k] = links[k]
  BY <1>1, <1>2, <1>3, <1>4, StoredRecords DEF EvidenceTyped
<1> DEFINE new == [kind |-> "append-only", id |-> n, entry |-> e]
<1>6. /\ Ids' = Ids
      /\ \A i : IsOriginal(i)' <=> IsOriginal(i)
      /\ \A i : Reversed(i)' <=> Reversed(i)
      /\ \A i : Active(i)' <=> Active(i)
      /\ \A r : Superseded(r)' <=> Superseded(r)
      /\ \A i, a : BooksAmount(i, a)' <=> BooksAmount(i, a)
  BY BooksAmountStays DEF IsOriginal, Reversed, Active, Superseded, Ids
<1>7. ASSUME NEW a \in Banks, NEW r
      PROVE  r \in Candidates(a)' <=> r \in Candidates(a) \/ (a = b /\ r = new)
  <2>1. (\E k \in DOMAIN links' : links'[k].bank = a
           /\ r = [kind |-> "append-only", id |-> k, entry |-> links'[k].entry])
        <=> \/ \E k \in DOMAIN links : links[k].bank = a
                 /\ r = [kind |-> "append-only", id |-> k, entry |-> links[k].entry]
            \/ a = b /\ r = new
    BY <1>3, <1>5
  <2>2. (\E i \in Ids' : IsOriginal(i)' /\ entries'[i].bank = a
                         /\ r = [kind |-> "direct", id |-> i, entry |-> i])
        <=> \E i \in Ids : IsOriginal(i) /\ entries[i].bank = a
                         /\ r = [kind |-> "direct", id |-> i, entry |-> i]
    BY <1>6
  <2> QED BY <2>1, <2>2, CandidateIs, CandidateWillBe
<1>8. Candidates(b) = {}
  BY <1>2, NothingWithoutRoot DEF HasDirect
<1>9. new.entry = e /\ new.kind = "append-only" /\ new.id = n
  OBVIOUS
<1> HIDE DEF new
<1>10. EvidenceTyped'
  BY <1>2, <1>4, <1>5, StoredRecords DEF EvidenceTyped, BankAssumption
<1>11. CandidatesOriginal'
  BY <1>2, <1>6, <1>7, <1>9 DEF EvidenceFacts, CandidatesOriginal, Active
<1>12. LinkedOnce'
  <2>1. \A k \in DOMAIN links : links[k].bank # b
    BY <1>2 DEF Linked
  <2> QED BY <1>3, <1>5, <2>1 DEF EvidenceFacts, LinkedOnce
<1>13. CorrectionsRooted'
  <2>1. Linked \subseteq Linked'
    BY <1>5 DEF Linked
  <2>2. \A a : HasDirect(a)' <=> HasDirect(a)
    BY <1>6 DEF HasDirect
  <2> QED BY <2>1, <2>2 DEF EvidenceFacts, CorrectionsRooted
<1>14. EffectiveUnique'
  BY <1>6, <1>7, <1>8 DEF EvidenceFacts, EffectiveUnique, Effective
<1>15. BookedOnce'
  BY <1>6, <1>7, <1>8 DEF EvidenceFacts, BookedOnce
<1>16. LinksVerified'
  <2>1. ASSUME NEW k \in DOMAIN links', NEW a, NEW i, a = links'[k].bank, i = links'[k].entry
        PROVE  LinkSound(a, i)'
    <3>1. LinkSound(a, i)
      BY <1>2, <1>3, <1>5, <2>1, VerifiedNow DEF EvidenceFacts, LinkSound
    <3> QED BY <1>6, <3>1 DEF LinkSound
  <2>2. ASSUME NEW k \in DOMAIN corrections, NEW c, c = corrections[k]
        PROVE  CorrectionSound(c)'
    BY <1>6, <1>7, <2>2, VerifiedNow, StoredRecords DEF EvidenceFacts, CorrectionSound
  <2>3. \A k, m \in DOMAIN corrections :
          corrections[k].kind = corrections[m].kind
            /\ corrections[k].id = corrections[m].id => m = k
    BY DEF EvidenceFacts, LinksVerified
  <2> QED BY <2>1, <2>2, <2>3, VerifiedLater
<1>17. new \in Effective(b)'
  <2>1. ~Superseded(new)
    <3> SUFFICES ASSUME NEW k \in DOMAIN corrections, corrections[k].kind = new.kind,
                        corrections[k].id = new.id
                 PROVE  FALSE
      BY DEF Superseded
    <3> QED BY <1>5, <1>9, CorrectionNamesOld
  <2> QED BY <1>6, <1>7, <2>1 DEF Effective
<1> QED BY <1>10, <1>11, <1>12, <1>13, <1>14, <1>15, <1>16, <1>17 DEF EvidenceFacts

-----------------------------------------------------------------------------
(* A correction finds one current row, on a reversed journal, and puts the  *)
(* new one in its place.                                                    *)

LEMMA OneCurrent ==
  ASSUME EvidenceFacts, NEW b \in Banks, Cardinality(Effective(b)) = 1
  PROVE  \E r : Effective(b) = {r}
<1>1. Effective(b) # {}
  BY FS_EmptySet
<1> QED BY <1>1 DEF EvidenceFacts, EffectiveUnique

LEMMA CorrectionKeepsEvidence ==
  ASSUME BankAssumption, EvidenceFacts, LedgerInv, NEW c \in CorrectionRecords,
         Correctable(c.bank, c.new), Context(c.bank, c.new) = c,
         DatabaseAcceptsCorrection(c), Len(corrections) < MaxLinks,
         corrections' = Append(corrections, c),
         UNCHANGED <<entries, links>>
  PROVE  EvidenceFacts'
<1>1. PICK b : b = c.bank
  OBVIOUS
<1>2. b \in Banks /\ c.id \in Nat /\ c.old \in Nat /\ EvidenceTyped
  BY <1>1 DEF CorrectionRecords, EvidenceFacts
<1>3. PICK cur : Effective(b) = {cur}
  BY <1>1, <1>2, OneCurrent DEF Correctable
<1>4. c.kind = cur.kind /\ c.id = cur.id /\ c.old = cur.entry
  BY <1>1, <1>3 DEF Context
<1>5. cur \in Candidates(b) /\ ~Superseded(cur) /\ Reversed(cur.entry)
  <2>1. cur \in Candidates(b) /\ ~Superseded(cur) /\ ~Active(cur.entry)
    BY <1>1, <1>3 DEF Effective, Correctable
  <2> QED BY <1>2, <2>1 DEF EvidenceFacts, CandidatesOriginal, Active
<1>6. [kind |-> c.kind, id |-> c.id, entry |-> c.old] = cur
  BY <1>1, <1>3 DEF DatabaseAcceptsCorrection
<1>7. \A r \in Candidates(b) : Reversed(r.entry)
  <2>1. ASSUME NEW r \in Candidates(b), ~Superseded(r) PROVE r = cur
    BY <1>3, <2>1 DEF Effective
  <2> QED BY <1>2, <1>5, <2>1, SupersededIsReversed
<1>8. /\ c.new \in Ids /\ Active(c.new) /\ entries[c.new].bank = None
      /\ BooksAmount(c.new, b)
  BY <1>1 DEF Correctable
<1>9. PICK n \in Nat : n = Len(corrections) + 1
  BY <1>2, StoredRecords
<1>10. /\ corrections' \in Seq(CorrectionRecords) /\ Len(corrections') = n
       /\ DOMAIN corrections' = DOMAIN corrections \cup {n} /\ n \notin DOMAIN corrections
       /\ corrections'[n] = c
       /\ \A k \in DOMAIN corrections : corrections'[k] = corrections[k]
  BY <1>2, <1>9, StoredRecords DEF EvidenceTyped
<1> DEFINE new == [kind |-> "correction", id |-> n, entry |-> c.new]
<1>11. /\ Ids' = Ids
       /\ \A i : IsOriginal(i)' <=> IsOriginal(i)
       /\ \A i : Reversed(i)' <=> Reversed(i)
       /\ \A i : Active(i)' <=> Active(i)
       /\ \A i, a : BooksAmount(i, a)' <=> BooksAmount(i, a)
  BY BooksAmountStays DEF IsOriginal, Reversed, Active, Ids
<1>12. ASSUME NEW a \in Banks, NEW r
       PROVE  r \in Candidates(a)' <=> r \in Candidates(a) \/ (a = b /\ r = new)
  <2>1. (\E k \in DOMAIN corrections' : corrections'[k].bank = a
           /\ r = [kind |-> "correction", id |-> k, entry |-> corrections'[k].new])
        <=> \/ \E k \in DOMAIN corrections : corrections[k].bank = a
                 /\ r = [kind |-> "correction", id |-> k, entry |-> corrections[k].new]
            \/ a = b /\ r = new
    BY <1>1, <1>10
  <2>2. (\E i \in Ids' : IsOriginal(i)' /\ entries'[i].bank = a
                         /\ r = [kind |-> "direct", id |-> i, entry |-> i])
        <=> \E i \in Ids : IsOriginal(i) /\ entries[i].bank = a
                         /\ r = [kind |-> "direct", id |-> i, entry |-> i]
    BY <1>11
  <2> QED BY <2>1, <2>2, CandidateIs, CandidateWillBe
<1>13. new.entry = c.new /\ new.kind = "correction" /\ new.id = n
  OBVIOUS
<1> HIDE DEF new
<1>14. \A r : Superseded(r)' <=> Superseded(r) \/ (r.kind = cur.kind /\ r.id = cur.id)
  BY <1>4, <1>10 DEF Superseded
<1>15. EvidenceTyped'
  BY <1>2, <1>9, <1>10, StoredRecords DEF EvidenceTyped, BankAssumption
<1>16. CandidatesOriginal'
  BY <1>8, <1>11, <1>12, <1>13 DEF EvidenceFacts, CandidatesOriginal, Active
<1>17. LinkedOnce'
  BY DEF EvidenceFacts, LinkedOnce
<1>18. CorrectionsRooted'
  <2>1. Linked' = Linked /\ \A a : HasDirect(a)' <=> HasDirect(a)
    BY <1>11 DEF Linked, HasDirect
  <2>2. b \in Linked \/ HasDirect(b)
    BY <1>2, <1>5, NothingWithoutRoot
  <2> QED BY <1>1, <1>10, <2>1, <2>2 DEF EvidenceFacts, CorrectionsRooted
<1>19. EffectiveUnique'
  <2> SUFFICES ASSUME NEW a \in Banks, NEW r, NEW s, r \in Effective(a)', s \in Effective(a)'
               PROVE  r = s
    BY DEF EffectiveUnique
  <2>1. r \in Candidates(a)' /\ s \in Candidates(a)' /\ ~Superseded(r)' /\ ~Superseded(s)'
    BY DEF Effective
  <2>2. CASE a = b
    <3>1. \A x \in Candidates(b) : Superseded(x)'
      BY <1>3, <1>14 DEF Effective
    <3> QED BY <1>12, <2>1, <2>2, <3>1
  <2>3. CASE a # b
    <3>1. r \in Effective(a) /\ s \in Effective(a)
      BY <1>12, <1>14, <2>1, <2>3 DEF Effective
    <3> QED BY <3>1 DEF EvidenceFacts, EffectiveUnique
  <2> QED BY <2>2, <2>3
<1>20. BookedOnce'
  <2> SUFFICES ASSUME NEW a \in Banks, NEW r, NEW s, r \in Candidates(a)', s \in Candidates(a)',
                      Active(r.entry), Active(s.entry)
               PROVE  r.entry = s.entry
    BY <1>11 DEF BookedOnce
  <2>1. CASE a = b
    <3>1. r = new /\ s = new
      BY <1>7, <1>12, <2>1 DEF Active
    <3> QED BY <3>1
  <2>2. CASE a # b
    BY <1>12, <2>2 DEF EvidenceFacts, BookedOnce
  <2> QED BY <2>1, <2>2
<1>21. LinksVerified'
  <2>1. ASSUME NEW k \in DOMAIN links, NEW a, NEW i, a = links[k].bank, i = links[k].entry
        PROVE  LinkSound(a, i)'
    BY <1>11, <2>1, VerifiedNow DEF EvidenceFacts, LinkSound
  <2>2. ASSUME NEW k \in DOMAIN corrections', NEW d, d = corrections'[k]
        PROVE  CorrectionSound(d)'
    <3>1. CorrectionSound(c) /\ c.bank \in Banks
      BY <1>1, <1>2, <1>4, <1>5, <1>6, <1>8 DEF CorrectionSound
    <3>2. CorrectionSound(d) /\ d.bank \in Banks
      BY <1>10, <2>2, <3>1, VerifiedNow, StoredRecords DEF EvidenceFacts
    <3> QED BY <1>11, <1>12, <3>2 DEF CorrectionSound
  <2>3. ASSUME NEW k \in DOMAIN corrections',  NEW m \in DOMAIN corrections',
               corrections'[k].kind = corrections'[m].kind,
               corrections'[k].id = corrections'[m].id
        PROVE  m = k
    <3>1. \A j \in DOMAIN corrections : ~(corrections[j].kind = c.kind /\ corrections[j].id = c.id)
      BY <1>4, <1>5 DEF Superseded
    <3>2. CASE k \in DOMAIN corrections /\ m \in DOMAIN corrections
      BY <1>10, <2>3, <3>2 DEF EvidenceFacts, LinksVerified
    <3>3. CASE k = n \/ m = n
      BY <1>10, <2>3, <3>1, <3>3
    <3> QED BY <1>10, <3>2, <3>3
  <2> QED BY <2>1, <2>2, <2>3, VerifiedLater
<1> QED BY <1>15, <1>16, <1>17, <1>18, <1>19, <1>20, <1>21 DEF EvidenceFacts

-----------------------------------------------------------------------------
(* The steps.                                                               *)

LEMMA RowMakesOne ==
  ASSUME NEW p, NEW lines, NEW prog, NEW rev, RowAppended(p, lines, prog, rev)
  PROVE  /\ OneRow
         /\ \A n : n = Len(entries) + 1 =>
              n \in Ids' /\ entries'[n].rev = rev /\ entries'[n].bank = p.bank
<1>1. /\ Len(entries') = Len(entries) + 1 /\ Len(entries) \in Nat
      /\ \A i \in Ids : entries'[i] = entries[i]
      /\ entries'[Len(entries) + 1].rev = rev
      /\ entries'[Len(entries) + 1].bank = p.bank
  BY DEF RowAppended
<1>2. PICK n \in Nat : n = Len(entries) + 1
  BY <1>1
<1>3. Ids' = Ids \cup {n} /\ n \notin Ids
  BY <1>1, <1>2 DEF Ids
<1> QED BY <1>1, <1>2, <1>3 DEF OneRow

LEMMA PostKeepsEvidence ==
  ASSUME LedgerAssumption, BankAssumption, BankInv, NEW p \in Payloads,
         NEW historical \in BOOLEAN, Post(p, historical)
  PROVE  /\ BankInv'
         /\ p.bank \in Banks => Reconciled(p.bank)'
<1>1. PICK linked : linked = Linked
  OBVIOUS
<1>2. /\ PostJournalEntry(p, historical, linked) /\ open' = open \ {p.bank}
      /\ UNCHANGED <<links, corrections, requests>>
  BY <1>1 DEF Post
<1>3. LedgerInv'
  BY <1>2, PostKeeps DEF BankInv
<1> DEFINE prog == IF historical THEN "import" ELSE "manual"
<1>4. /\ AppendEntry(p, p.lines, prog, 0) /\ p.date \in Dates
      /\ DatabaseAccepts(p, 0, linked)
  BY <1>2 DEF PostJournalEntry, LedgerAssumption
<1> HIDE DEF prog
<1>5. RowAppended(p, p.lines, prog, 0)
  BY <1>4, AppendEntryRow DEF BankInv, LedgerInv
<1>6. PICK n : n = Len(entries) + 1
  OBVIOUS
<1>7. OneRow /\ n \in Ids' /\ entries'[n].rev = 0 /\ entries'[n].bank = p.bank
  BY <1>5, <1>6, RowMakesOne
<1>8. p.bank = None \/ p.bank \notin Linked
  BY <1>1, <1>4 DEF DatabaseAccepts
<1>9. \A b \in Banks : p.bank = b => ~HasDirect(b) /\ b \notin Linked
  BY <1>4, <1>8 DEF DatabaseAccepts, HasDirect, BankAssumption
<1>10. EvidenceFacts'
  BY <1>2, <1>6, <1>7, <1>8, <1>9, RowKeepsEvidence DEF BankInv
<1>11. RequestsTyped'
  BY <1>2 DEF BankInv, RequestsTyped
<1>12. ASSUME p.bank \in Banks PROVE Reconciled(p.bank)'
  <2>1. PICK b \in Banks : b = p.bank
    BY <1>12
  <2>2. PICK r : r = [kind |-> "direct", id |-> n, entry |-> n]
    OBVIOUS
  <2>3. r \in Candidates(b)'
    <3>1. IsOriginal(n)'
      BY <1>7 DEF IsOriginal
    <3> QED BY <1>7, <2>1, <2>2, <3>1, CandidateWillBe
  <2>4. ~Superseded(r)'
    <3>1. \A k \in DOMAIN corrections : corrections[k].kind = "direct" => corrections[k].id \in Ids
      BY CorrectionNamesOld DEF BankInv
    <3>2. n \notin Ids
      BY <1>6, <1>7 DEF OneRow
    <3> QED BY <1>2, <2>2, <3>1, <3>2 DEF Superseded
  <2> QED BY <2>1, <2>3, <2>4 DEF Reconciled, Effective
<1> QED BY <1>3, <1>10, <1>11, <1>12 DEF BankInv

LEMMA ReversalKeepsEvidence ==
  ASSUME LedgerAssumption, BankAssumption, BankInv, NEW proc \in Procs,
         ApplyReversal(proc, Linked), UNCHANGED bankVars
  PROVE  BankInv'
<1>1. PICK linked : linked = Linked
  OBVIOUS
<1>2. ApplyReversal(proc, linked) /\ UNCHANGED <<links, corrections, open, requests>>
  BY <1>1 DEF bankVars
<1>3. LedgerInv'
  BY <1>2, ReversalKeeps DEF BankInv
<1> DEFINE o == pending[proc].id
           p == ReversalPayload(o, pending[proc].date)
           prog == IF FromImport(o) THEN "import" ELSE "manual"
<1>4. /\ AppendEntry(p, p.lines, prog, o) /\ DatabaseAccepts(p, o, linked)
      /\ pending[proc] # None
  BY <1>2 DEF ApplyReversal
<1>5. p.date \in Dates /\ o \in Ids /\ o # 0
  BY <1>4 DEF BankInv, LedgerInv, TypeOK, ReversalPayload, Ids
<1> HIDE DEF o, p, prog
<1>6. RowAppended(p, p.lines, prog, o)
  BY <1>4, <1>5, AppendEntryRow DEF BankInv, LedgerInv
<1>7. PICK n : n = Len(entries) + 1
  OBVIOUS
<1>8. PICK rev : rev = o
  OBVIOUS
<1>9. OneRow /\ entries'[n].rev = rev /\ entries'[n].bank = p.bank
  BY <1>6, <1>7, <1>8, RowMakesOne
<1>10. p.bank = None \/ p.bank \notin Linked
  BY <1>1, <1>4 DEF DatabaseAccepts
<1>11. EvidenceFacts'
  BY <1>2, <1>5, <1>7, <1>8, <1>9, <1>10, RowKeepsEvidence DEF BankInv
<1>12. RequestsTyped'
  BY <1>2 DEF BankInv, RequestsTyped
<1> QED BY <1>3, <1>11, <1>12 DEF BankInv

(* A step that writes no row of the journal and no evidence.                *)
LEMMA QuietKeepsBank ==
  ASSUME BankInv, UNCHANGED <<entries, issued, links, corrections>>, TypeOK', RequestsTyped'
  PROVE  BankInv'
<1>1. LedgerInv'
  BY QuietStepKeeps DEF BankInv
<1>2. EvidenceFacts'
  BY QuietKeepsEvidence DEF BankInv
<1> QED BY <1>1, <1>2 DEF BankInv

LEMMA TypesStay ==
  ASSUME TypeOK, UNCHANGED ledgerVars
  PROVE  TypeOK'
BY DEF TypeOK, ledgerVars, Ids

LEMMA InsertLinkKeeps ==
  ASSUME LedgerAssumption, BankAssumption, BankInv, NEW proc \in Procs, InsertLink(proc)
  PROVE  /\ BankInv'
         /\ \A b \in open \ open' : Reconciled(b)'
<1>1. PICK q : q = requests[proc]
  OBVIOUS
<1>2. /\ q \in LinkRequests
  BY <1>1 DEF BankInv, RequestsTyped, InsertLink, CorrectionRequests, SyncRequests
<1>3. PICK b, e : b = q.bank /\ e = q.entry
  OBVIOUS
<1>4. b \in Banks
  BY <1>2, <1>3 DEF LinkRequests
<1>5. /\ DatabaseAcceptsLink(b, e) /\ Len(links) < MaxLinks
      /\ links' = Append(links, [bank |-> b, entry |-> e])
      /\ open' = open \ {b}
      /\ requests' = [requests EXCEPT ![proc] = None]
      /\ UNCHANGED <<entries, issued, companyKey, locked, pending, corrections>>
  BY <1>1, <1>3 DEF InsertLink, ledgerVars
<1>6. EvidenceFacts' /\ \E r : r \in Effective(b)'
  BY <1>4, <1>5, LinkKeepsEvidence DEF BankInv
<1>7. TypeOK'
  BY <1>5, TypesStay DEF ledgerVars, BankInv, LedgerInv
<1>8. LedgerInv'
  BY <1>5, <1>7, QuietStepKeeps DEF BankInv
<1>9. RequestsTyped'
  BY <1>5 DEF BankInv, RequestsTyped
<1> QED BY <1>5, <1>6, <1>8, <1>9 DEF BankInv, Reconciled

LEMMA ApplyCorrectionKeeps ==
  ASSUME LedgerAssumption, BankAssumption, BankInv, NEW proc \in Procs, ApplyCorrection(proc)
  PROVE  BankInv' /\ open' = open
<1>1. PICK q : q = requests[proc]
  OBVIOUS
<1>2. /\ q \in CorrectionRequests
  BY <1>1 DEF BankInv, RequestsTyped, ApplyCorrection, LinkRequests, SyncRequests
<1>3. PICK c : c = q.plan
  OBVIOUS
<1>4. c \in CorrectionRecords
  BY <1>2, <1>3 DEF CorrectionRequests
<1>5. /\ Correctable(c.bank, c.new) /\ Context(c.bank, c.new) = c
      /\ DatabaseAcceptsCorrection(c) /\ Len(corrections) < MaxLinks
      /\ corrections' = Append(corrections, c)
      /\ requests' = [requests EXCEPT ![proc] = None]
      /\ UNCHANGED <<entries, issued, companyKey, locked, pending, links, open>>
  BY <1>1, <1>3 DEF ApplyCorrection, ledgerVars
<1>6. EvidenceFacts'
  BY <1>4, <1>5, CorrectionKeepsEvidence DEF BankInv
<1>7. TypeOK'
  BY <1>5, TypesStay DEF ledgerVars, BankInv, LedgerInv
<1>8. LedgerInv'
  BY <1>5, <1>7, QuietStepKeeps DEF BankInv
<1>9. RequestsTyped'
  BY <1>5 DEF BankInv, RequestsTyped
<1> QED BY <1>5, <1>6, <1>8, <1>9 DEF BankInv

LEMMA ContextIsTyped ==
  ASSUME EvidenceFacts, NEW b \in Banks, NEW i \in Ids, Cardinality(Effective(b)) = 1
  PROVE  Context(b, i) \in CorrectionRecords
<1>1. PICK cur : Effective(b) = {cur}
  BY OneCurrent
<1>2. cur \in Candidates(b)
  BY <1>1 DEF Effective
<1>3. cur.kind \in {"direct", "append-only", "correction"} /\ cur.id \in Nat /\ cur.entry \in Nat
  <2>1. cur.entry \in Nat
    BY <1>2 DEF EvidenceFacts, CandidatesOriginal, Ids
  <2>2. CASE \E j \in Ids : cur = [kind |-> "direct", id |-> j, entry |-> j]
    BY <2>1, <2>2 DEF Ids
  <2>3. CASE \E k \in DOMAIN links :
               cur = [kind |-> "append-only", id |-> k, entry |-> links[k].entry]
    BY <2>1, <2>3, StoredRecords DEF EvidenceFacts
  <2>4. CASE \E k \in DOMAIN corrections :
               cur = [kind |-> "correction", id |-> k, entry |-> corrections[k].new]
    BY <2>1, <2>4, StoredRecords DEF EvidenceFacts
  <2> QED BY <1>2, <2>2, <2>3, <2>4, CandidateIs
<1>4. PICK k, d, o : k = cur.kind /\ d = cur.id /\ o = cur.entry
  OBVIOUS
<1>5. Context(b, i) = [bank |-> b, kind |-> k, id |-> d, old |-> o, new |-> i]
  BY <1>1, <1>4 DEF Context
<1> QED BY <1>3, <1>4, <1>5 DEF CorrectionRecords, Ids

(* The steps of the queue and of those who prepare a link or a correction.  *)
LEMMA PreparingKeeps ==
  ASSUME LedgerAssumption, BankAssumption, BankInv, NEW proc \in Procs,
         \/ \E b \in Banks, i \in Ids : CheckLink(proc, b, i) \/ PlanCorrection(proc, b, i)
         \/ ReadUnmatched(proc) \/ Abandon(proc)
  PROVE  BankInv' /\ open' = open
<1>1. UNCHANGED ledgerVars /\ UNCHANGED <<links, corrections, open>>
  BY DEF CheckLink, PlanCorrection, ReadUnmatched, Abandon
<1>2. \E q \in {None} \cup LinkRequests \cup CorrectionRequests \cup SyncRequests :
        requests' = [requests EXCEPT ![proc] = q]
  <2>1. ASSUME NEW b \in Banks, NEW i \in Ids, CheckLink(proc, b, i)
        PROVE  \E q \in LinkRequests : requests' = [requests EXCEPT ![proc] = q]
    <3>1. PICK q : q = [op |-> "link", bank |-> b, entry |-> i]
      OBVIOUS
    <3>2. q \in LinkRequests
      BY <3>1 DEF LinkRequests, Ids
    <3> QED BY <2>1, <3>1, <3>2 DEF CheckLink
  <2>2. ASSUME NEW b \in Banks, NEW i \in Ids, PlanCorrection(proc, b, i)
        PROVE  \E q \in CorrectionRequests : requests' = [requests EXCEPT ![proc] = q]
    <3>1. PICK c : c = Context(b, i)
      OBVIOUS
    <3>2. c \in CorrectionRecords
      BY <2>2, <3>1, ContextIsTyped DEF PlanCorrection, Correctable, BankInv
    <3>3. PICK q : q = [op |-> "correct", plan |-> c]
      OBVIOUS
    <3>4. q \in CorrectionRequests
      BY <3>2, <3>3 DEF CorrectionRequests
    <3> QED BY <2>2, <3>1, <3>3, <3>4 DEF PlanCorrection
  <2>3. ASSUME ReadUnmatched(proc)
        PROVE  \E q \in SyncRequests : requests' = [requests EXCEPT ![proc] = q]
    <3>1. PICK unmatched : unmatched = {b \in Banks : ~Reconciled(b)}
      OBVIOUS
    <3>2. PICK stale \in SUBSET (unmatched \cap open) :
            requests' = [requests EXCEPT ![proc] =
              [op |-> "sync", left |-> unmatched \ open, stale |-> stale]]
      BY <2>3, <3>1 DEF ReadUnmatched
    <3>3. unmatched \ open \in SUBSET Banks /\ stale \in SUBSET Banks
      BY <3>1, <3>2
    <3>4. PICK q : q = [op |-> "sync", left |-> unmatched \ open, stale |-> stale]
      OBVIOUS
    <3>5. q \in SyncRequests
      BY <3>3, <3>4 DEF SyncRequests
    <3> QED BY <3>2, <3>4, <3>5
  <2>4. ASSUME Abandon(proc) PROVE requests' = [requests EXCEPT ![proc] = None]
    BY <2>4 DEF Abandon
  <2> QED BY <2>1, <2>2, <2>3, <2>4
<1>3. RequestsTyped'
  BY <1>1, <1>2 DEF BankInv, RequestsTyped
<1>4. TypeOK'
  BY <1>1, TypesStay DEF BankInv, LedgerInv
<1> QED BY <1>1, <1>3, <1>4, QuietKeepsBank DEF ledgerVars

LEMMA SyncUpdated ==
  ASSUME NEW q \in SyncRequests, NEW t \in SUBSET Banks
  PROVE  /\ [q EXCEPT !.left = t] \in SyncRequests
         /\ [q EXCEPT !.left = t].left = t /\ [q EXCEPT !.left = t].stale = q.stale
         /\ [q EXCEPT !.stale = t] \in SyncRequests
         /\ [q EXCEPT !.stale = t].left = q.left
BY DEF SyncRequests

LEMMA QueueStepKeeps ==
  ASSUME BankAssumption, BankInv, NEW proc \in Procs,
         RefreshStale(proc) \/ RecordUnmatched(proc)
  PROVE  /\ BankInv'
         /\ \A b \in open \ open' : /\ requests'[proc] # None
                                   /\ requests'[proc].op = "sync"
                                   /\ b \in requests'[proc].left
<1>1. UNCHANGED ledgerVars /\ UNCHANGED <<links, corrections>>
  BY DEF RefreshStale, RecordUnmatched
<1>2. PICK q : q = requests[proc]
  OBVIOUS
<1>3. q \in SyncRequests
  BY <1>2 DEF BankInv, RequestsTyped, RefreshStale, RecordUnmatched, LinkRequests,
              CorrectionRequests
<1>4. q.left \subseteq Banks /\ q.stale \subseteq Banks
  BY <1>3 DEF SyncRequests
<1>5. \E b \in Banks, new \in SyncRequests :
        /\ \/ open' = open \ {b} /\ b \in new.left
           \/ open' = open \cup {b}
        /\ requests' = [requests EXCEPT ![proc] = new]
  <2>1. CASE RefreshStale(proc)
    <3>1. PICK b \in q.stale : /\ open' = open \ {b}
                               /\ requests' = [requests EXCEPT ![proc].left = @ \cup {b},
                                                               ![proc].stale = @ \ {b}]
      BY <1>2, <2>1 DEF RefreshStale
    <3>2. PICK r : r = [q EXCEPT !.left = q.left \cup {b}]
      OBVIOUS
    <3>3. r \in SyncRequests /\ r.left = q.left \cup {b} /\ r.stale = q.stale
      BY <1>3, <1>4, <3>2, SyncUpdated
    <3>4. PICK new : new = [r EXCEPT !.stale = r.stale \ {b}]
      OBVIOUS
    <3>5. new \in SyncRequests /\ new.left = q.left \cup {b}
      BY <1>4, <3>3, <3>4, SyncUpdated
    <3>6. requests' = [requests EXCEPT ![proc] = new]
      BY <1>2, <3>1, <3>2, <3>4 DEF BankInv, RequestsTyped
    <3> QED BY <1>4, <3>1, <3>5, <3>6
  <2>2. CASE RecordUnmatched(proc)
    <3>1. PICK b \in q.left : /\ open' = open \cup {b}
                              /\ requests' = [requests EXCEPT ![proc].left = @ \ {b}]
      BY <1>2, <2>2 DEF RecordUnmatched
    <3>2. PICK new : new = [q EXCEPT !.left = q.left \ {b}]
      OBVIOUS
    <3>3. new \in SyncRequests
      BY <1>3, <1>4, <3>2, SyncUpdated
    <3>4. requests' = [requests EXCEPT ![proc] = new]
      BY <1>2, <3>1, <3>2
    <3> QED BY <1>4, <3>1, <3>3, <3>4
  <2> QED BY <2>1, <2>2
<1>6. PICK b \in Banks, new \in SyncRequests :
        /\ \/ open' = open \ {b} /\ b \in new.left
           \/ open' = open \cup {b}
        /\ requests' = [requests EXCEPT ![proc] = new]
  BY <1>5
<1>7. new.op = "sync" /\ new # None
  BY DEF SyncRequests, BankAssumption
<1>8. requests'[proc] = new
  BY <1>6 DEF BankInv, RequestsTyped
<1>9. RequestsTyped'
  BY <1>6 DEF BankInv, RequestsTyped
<1>10. TypeOK'
  BY <1>1, TypesStay DEF BankInv, LedgerInv
<1>11. BankInv'
  BY <1>1, <1>9, <1>10, QuietKeepsBank DEF ledgerVars
<1>12. \A x \in open \ open' : x \in new.left
  BY <1>6
<1> QED BY <1>7, <1>8, <1>11, <1>12

LEMMA OtherStepsKeep ==
  ASSUME LedgerAssumption, BankAssumption, BankInv,
         \/ \E proc \in Procs, i \in Ids, d \in Dates : StartReversal(proc, i, d)
         \/ \E proc \in Procs : AbandonReversal(proc) /\ UNCHANGED bankVars
         \/ \E b \in Banks : ResolveException(b)
         \/ UNCHANGED vars
  PROVE  /\ BankInv'
         /\ \A b \in open \ open' : ResolveException(b)
<1>1. UNCHANGED <<entries, issued, companyKey, locked, links, corrections, requests>>
  BY DEF StartReversal, ValidateReversal, AbandonReversal, ResolveException, vars,
         bankVars, ledgerVars
<1>2. \A b \in open \ open' : ResolveException(b)
  BY DEF StartReversal, AbandonReversal, ResolveException, vars, bankVars
<1>3. open' \subseteq Banks
  BY DEF BankInv, RequestsTyped, StartReversal, AbandonReversal, ResolveException, vars,
         bankVars
<1>4. pending' \in [Procs -> [id : Ids, date : Dates] \cup {None}]
  <2> USE DEF BankInv, LedgerInv, TypeOK
  <2>1. ASSUME NEW proc \in Procs, NEW i \in Ids, NEW d \in Dates,
               StartReversal(proc, i, d)
        PROVE  pending' \in [Procs -> [id : Ids, date : Dates] \cup {None}]
    BY <2>1 DEF StartReversal, ValidateReversal
  <2> QED BY <2>1 DEF AbandonReversal, ResolveException, vars, ledgerVars
<1>5. TypeOK'
  BY <1>1, <1>4 DEF TypeOK, BankInv, LedgerInv, Ids
<1>6. RequestsTyped'
  BY <1>1, <1>3 DEF BankInv, RequestsTyped
<1> QED BY <1>1, <1>2, <1>5, <1>6, QuietKeepsBank

(* Every step keeps the invariant, and what it takes out of the queue has   *)
(* its evidence, its person or its sync.                                    *)
Accounted(b) ==
  \/ Reconciled(b)'
  \/ ResolveException(b)
  \/ \E proc \in Procs : /\ requests'[proc] # None
                         /\ requests'[proc].op = "sync"
                         /\ b \in requests'[proc].left

LEMMA BankStep ==
  ASSUME LedgerAssumption, BankAssumption, BankInv, [BankNext]_vars
  PROVE  BankInv' /\ \A b \in open \ open' : Accounted(b)
<1>1. ASSUME NEW p \in Payloads, NEW historical \in BOOLEAN, Post(p, historical)
      PROVE  BankInv' /\ \A b \in open \ open' : Reconciled(b)'
  <2>1. BankInv' /\ (p.bank \in Banks => Reconciled(p.bank)')
    BY <1>1, PostKeepsEvidence
  <2>2. \A b \in open \ open' : b = p.bank /\ b \in Banks
    BY <1>1 DEF Post, BankInv, RequestsTyped
  <2> QED BY <2>1, <2>2
<1>2. ASSUME NEW proc \in Procs, ApplyReversal(proc, Linked), UNCHANGED bankVars
      PROVE  BankInv' /\ open' = open
  BY <1>2, ReversalKeepsEvidence DEF bankVars
<1>3. ASSUME NEW proc \in Procs, InsertLink(proc)
      PROVE  BankInv' /\ \A b \in open \ open' : Reconciled(b)'
  BY <1>3, InsertLinkKeeps
<1>4. ASSUME NEW proc \in Procs, ApplyCorrection(proc) PROVE BankInv' /\ open' = open
  BY <1>4, ApplyCorrectionKeeps
<1>5. ASSUME NEW proc \in Procs,
             \/ \E b \in Banks, i \in Ids : CheckLink(proc, b, i) \/ PlanCorrection(proc, b, i)
             \/ ReadUnmatched(proc) \/ Abandon(proc)
      PROVE  BankInv' /\ open' = open
  BY <1>5, PreparingKeeps
<1>6. ASSUME NEW proc \in Procs, RefreshStale(proc) \/ RecordUnmatched(proc)
      PROVE  /\ BankInv'
             /\ \A b \in open \ open' : /\ requests'[proc] # None
                                       /\ requests'[proc].op = "sync"
                                       /\ b \in requests'[proc].left
  BY <1>6, QueueStepKeeps
<1>7. \/ \E p \in Payloads, historical \in BOOLEAN : Post(p, historical)
      \/ \E proc \in Procs : ApplyReversal(proc, Linked) /\ UNCHANGED bankVars
      \/ \E proc \in Procs : InsertLink(proc)
      \/ \E proc \in Procs : ApplyCorrection(proc)
      \/ \E proc \in Procs :
           \/ \E b \in Banks, i \in Ids : CheckLink(proc, b, i) \/ PlanCorrection(proc, b, i)
           \/ ReadUnmatched(proc) \/ Abandon(proc)
      \/ \E proc \in Procs : RefreshStale(proc) \/ RecordUnmatched(proc)
      \/ \/ \E proc \in Procs, i \in Ids, d \in Dates : StartReversal(proc, i, d)
         \/ \E proc \in Procs : AbandonReversal(proc) /\ UNCHANGED bankVars
         \/ \E b \in Banks : ResolveException(b)
         \/ UNCHANGED vars
  BY DEF BankNext, FinishReversal
<1>8. CASE \/ \E proc \in Procs, i \in Ids, d \in Dates : StartReversal(proc, i, d)
           \/ \E proc \in Procs : AbandonReversal(proc) /\ UNCHANGED bankVars
           \/ \E b \in Banks : ResolveException(b)
           \/ UNCHANGED vars
  BY <1>8, OtherStepsKeep DEF Accounted
<1> QED BY <1>1, <1>2, <1>3, <1>4, <1>5, <1>6, <1>7, <1>8 DEF Accounted

LEMMA BankInitEstablishes ==
  ASSUME LedgerAssumption, BankAssumption, BankInit
  PROVE  BankInv
<1>1. LedgerInv
  BY InitEstablishes DEF BankInit
<1>2. /\ links = <<>> /\ corrections = <<>> /\ Len(links) = 0 /\ Len(corrections) = 0
      /\ DOMAIN links = {} /\ DOMAIN corrections = {} /\ Ids = {}
  BY DEF BankInit, LedgerInit, Ids
<1>3. \A b : Candidates(b) = {}
  BY <1>2 DEF Candidates
<1>4. EvidenceTyped
  BY <1>2 DEF EvidenceTyped, BankAssumption
<1>5. EvidenceFacts
  BY <1>2, <1>3, <1>4 DEF EvidenceFacts, CandidatesOriginal, LinkedOnce, CorrectionsRooted,
                          EffectiveUnique, Effective, BookedOnce, LinksVerified
<1>6. RequestsTyped
  BY DEF BankInit, RequestsTyped
<1> QED BY <1>1, <1>5, <1>6 DEF BankInv

(* The invariant of the journal and of the bank evidence beside it          *)
(* (BankSpec).                                                              *)
THEOREM BankInvariant == BankSpec => []BankInv
<1>1. BankInit => BankInv
  BY BankInitEstablishes, LedgerAssumption, BankAssumption
<1>2. BankInv /\ [BankNext]_vars => BankInv'
  BY BankStep, LedgerAssumption, BankAssumption
<1> QED BY <1>1, <1>2, PTL DEF BankSpec

(* Links and corrections name bank transactions and rows that exist, for    *)
(* any number of processes, links and corrections.                          *)
THEOREM BankTypes == BankSpec => []BankTypeOK
<1>1. BankInv => BankTypeOK
  <2> SUFFICES ASSUME BankInv PROVE BankTypeOK
    OBVIOUS
  <2>1. ASSUME NEW k \in DOMAIN links PROVE links[k].bank \in Banks /\ links[k].entry \in Ids
    <3>1. PICK b, e : b = links[k].bank /\ e = links[k].entry
      OBVIOUS
    <3>2. b \in Banks
      BY <3>1, StoredRecords DEF BankInv, EvidenceFacts
    <3>3. [kind |-> "append-only", id |-> k, entry |-> e] \in Candidates(b)
      BY <3>1, CandidateIs
    <3> QED BY <3>1, <3>2, <3>3 DEF BankInv, EvidenceFacts, CandidatesOriginal
  <2>2. ASSUME NEW k \in DOMAIN corrections
        PROVE  /\ corrections[k].bank \in Banks
               /\ corrections[k].kind \in {"direct", "append-only", "correction"}
               /\ corrections[k].old \in Ids
               /\ corrections[k].new \in Ids
    <3>1. PICK c : c = corrections[k]
      OBVIOUS
    <3>2. c \in CorrectionRecords /\ c.bank \in Banks
      BY <3>1, StoredRecords DEF BankInv, EvidenceFacts
    <3>3. c.kind \in {"direct", "append-only", "correction"}
      BY <3>2 DEF CorrectionRecords
    <3>4. [kind |-> "correction", id |-> k, entry |-> c.new] \in Candidates(c.bank)
      BY <3>1, CandidateIs
    <3>5. [kind |-> c.kind, id |-> c.id, entry |-> c.old] \in Candidates(c.bank)
      BY <3>1, VerifiedNow DEF BankInv, EvidenceFacts, CorrectionSound
    <3> QED BY <3>1, <3>2, <3>3, <3>4, <3>5 DEF BankInv, EvidenceFacts, CandidatesOriginal
  <2> QED BY <2>1, <2>2 DEF BankTypeOK, BankInv, LedgerInv, EvidenceFacts, EvidenceTyped,
                            RequestsTyped
<1> QED BY <1>1, BankInvariant, PTL

(* A bank transaction has at most one current reconciliation and at most    *)
(* one journal in force, and every link and correction is as the audit      *)
(* wants it, whichever of posting, linking, reversing and correcting race   *)
(* (bank-journal-reconciliation.ts).                                        *)
THEOREM EvidenceStaysSound == BankSpec => []EvidenceSound
<1>1. BankInv => EvidenceSound
  <2> SUFFICES ASSUME BankInv PROVE EvidenceSound
    OBVIOUS
  <2>1. ASSUME NEW b \in Banks PROVE Cardinality(Effective(b)) <= 1
    <3>1. CASE Effective(b) = {}
      BY <3>1, FS_EmptySet
    <3>2. CASE Effective(b) # {}
      <4>1. PICK r : Effective(b) = {r}
        BY <3>2 DEF BankInv, EvidenceFacts, EffectiveUnique
      <4>2. Cardinality({r}) = 1
        BY FS_Singleton
      <4> QED BY <4>1, <4>2
    <3> QED BY <3>1, <3>2
  <2> QED BY <2>1 DEF EvidenceSound, OneReconciliation, BankInv, EvidenceFacts
<1> QED BY <1>1, BankInvariant, PTL

(* An exception leaves the queue only with its evidence, by a person or     *)
(* into a sync that owes it a new text (exceptions.ts).                     *)
THEOREM QueueIsKept == BankSpec => QueueLosesNothing
<1>1. BankInv /\ [BankNext]_vars =>
        [\A b \in open \ open' :
           \/ Reconciled(b)'
           \/ ResolveException(b)
           \/ \E proc \in Procs : /\ requests'[proc] # None
                                 /\ requests'[proc].op = "sync"
                                 /\ b \in requests'[proc].left]_vars
  BY BankStep, LedgerAssumption, BankAssumption DEF Accounted
<1> QED BY <1>1, BankInvariant, PTL DEF BankSpec, QueueLosesNothing
=============================================================================
