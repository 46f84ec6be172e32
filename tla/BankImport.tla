----------------------------- MODULE BankImport -----------------------------
(***************************************************************************)
(* The import of bank statements (src/core/bank.ts).  A bank exports its   *)
(* movements as CSV files, whole or in part, newest or oldest first, and   *)
(* the same movement is in many of them.  A row is recognised by what it   *)
(* says and by how many rows before it in the same file say the same.      *)
(* After the rows are committed the running balances of the new ones are   *)
(* walked, and every break becomes an exception.                           *)
(* Left out: parsing and the profiles, currencies, the kept copy of the    *)
(* file, the text of the warnings.                                         *)
(***************************************************************************)
EXTENDS Integers, Sequences, FiniteSets, SequencesExt

CONSTANTS
  History,       \* what happened at the bank: <<[day, text, amount], ...>>
  BankAccounts,  \* rows of bank_accounts
  NoAccount,     \* an import that names no account
  Importers,     \* processes that import
  MaxImports     \* bound on the imports

ASSUME BankImportAssumption ==
  /\ Len(History) \in Nat /\ DOMAIN History = 1 .. Len(History)
  /\ \A i \in DOMAIN History :
       History[i].day \in Nat /\ History[i].amount \in Int
  /\ NoAccount \notin BankAccounts /\ MaxImports \in Nat

VARIABLES
  active,        \* the accounts that accept imports
  transactions,  \* bank_transactions in order of insertion
  unchecked,     \* per clerk: the new rows whose balances are not walked yet
  breaks,        \* open BANK_BALANCE_GAP exceptions: the row before which it is
  exports        \* (history) the files imported so far, with their account

bankImportVars == <<active, transactions, unchecked, breaks, exports>>

Moves == DOMAIN History

(* Any movements of the account, oldest or newest first.                    *)
Exports ==
  {file \in UNION {[1 .. n -> Moves] : n \in 1 .. Len(History)} :
     \/ \A i, j \in DOMAIN file : i < j => file[i] < file[j]
     \/ \A i, j \in DOMAIN file : i < j => file[i] > file[j]}

(* What two rows have in common when they say the same.                     *)
SameContent(i, j) == History[i] = History[j]

(* A mutant of Occurrence: the coarse fingerprint, by content alone.        *)
OccurrenceAlways(file, k) == 0

(* occurrenceByContent: the rows before it in the file with its content.    *)
Occurrence(file, k) == Cardinality({j \in 1 .. k - 1 : SameContent(file[j], file[k])})

(* transaction_hash: account, content and occurrence.                       *)
Known(account, move, occurrence) ==
  \E i \in DOMAIN transactions :
    /\ transactions[i].account = account
    /\ SameContent(transactions[i].move, move)
    /\ transactions[i].occurrence = occurrence

ImportedRow(account, file, k) ==
  [account |-> account, move |-> file[k], occurrence |-> Occurrence(file, k)]

(* The rows of the file that the import inserts: row by row, unless known.  *)
NewRows(account, file) ==
  LET upTo[k \in 0 .. Len(file)] ==
        IF k = 0 THEN <<>>
        ELSE IF Known(account, file[k], Occurrence(file, k)) THEN upTo[k - 1]
        ELSE Append(upTo[k - 1], ImportedRow(account, file, k))
  IN  upTo[Len(file)]

-----------------------------------------------------------------------------
(* The running balance the bank prints on a movement.                       *)
BalanceAfter[i \in 0 .. Len(History)] ==
  IF i = 0 THEN 0 ELSE BalanceAfter[i - 1] + History[i].amount

(* Rows are named by their id; After and Before are what the row itself     *)
(* says of the balance.                                                     *)
After(id) == BalanceAfter[transactions[id].move]
Before(id) == After(id) - History[transactions[id].move].amount
DayOf(id) == History[transactions[id].move].day

(* orderDayCluster: the rows of one day as a chain of balances from the     *)
(* one carried in, each time the first row that fits; the order of the file *)
(* when some step finds none.  Without a carried balance the chain starts   *)
(* at the first row that follows no other.                                  *)
OrderDayCluster(cluster, incoming) ==
  LET starts == {k \in DOMAIN cluster :
                   \A j \in DOMAIN cluster : After(cluster[j]) # Before(cluster[k])}
      first == IF incoming # <<>> THEN incoming
               ELSE IF starts = {} THEN <<>>
               ELSE <<Before(cluster[Min(starts)])>>
      Fits(s) == {k \in s.left : Before(cluster[k]) = s.running}
      Step(s, turn) ==
        IF Fits(s) = {} THEN s
        ELSE LET k == Min(Fits(s))
             IN  [left |-> s.left \ {k}, running |-> After(cluster[k]),
                  chain |-> Append(s.chain, cluster[k])]
      walked == FoldLeft(Step, [left |-> DOMAIN cluster, running |-> first[1], chain |-> <<>>],
                         cluster)
  IN  IF Len(cluster) < 2 \/ first = <<>> \/ walked.left # {} THEN cluster ELSE walked.chain

(* The batch by day, each day in the order its balances give.               *)
WalkOrder(batch) ==
  LET days == SetToSortSeq({DayOf(batch[k]) : k \in DOMAIN batch}, <)
      Day(d) == SelectSeq(batch, LAMBDA id : DayOf(id) = d)
      Add(done, d) ==
        done \o OrderDayCluster(Day(d), IF done = <<>> THEN <<>> ELSE <<After(Last(done))>>)
  IN  FoldLeft(Add, <<>>, days)

(* verifyBatchBalanceContinuity: rows whose balance does not follow.        *)
Breaks(batch) ==
  LET walk == WalkOrder(batch)
  IN  {id \in Range(batch) :
         \E j \in 2 .. Len(walk) : walk[j] = id /\ After(walk[j - 1]) # Before(id)}

-----------------------------------------------------------------------------
(* importBankCsv up to its commit: the account is active, every row of the  *)
(* file that is not known is inserted, in one transaction.                  *)
ImportRows(c, account, file) ==
  LET new == NewRows(account, file)
  IN  /\ Cardinality(exports) < MaxImports /\ unchecked[c] = <<>>
      /\ account = NoAccount \/ account \in active
      /\ transactions' = transactions \o new
      /\ unchecked' = [unchecked EXCEPT ![c] =
           [k \in DOMAIN new |-> Len(transactions) + k]]
      /\ exports' = exports \union {[account |-> account, file |-> file]}
      /\ UNCHANGED <<active, breaks>>

(* The walk over the new rows, after the transaction.                       *)
VerifyContinuity(c) ==
  /\ unchecked[c] # <<>>
  /\ breaks' = breaks \union Breaks(unchecked[c])
  /\ unchecked' = [unchecked EXCEPT ![c] = <<>>]
  /\ UNCHANGED <<active, transactions, exports>>

(* The process dies between the commit and the walk.                        *)
CrashImport(c) ==
  /\ unchecked[c] # <<>>
  /\ unchecked' = [unchecked EXCEPT ![c] = <<>>]
  /\ UNCHANGED <<active, transactions, breaks, exports>>

(* updateBankAccount: the account is opened or closed for imports.          *)
UpdateBankAccount(account) ==
  /\ active' = IF account \in active THEN active \ {account} ELSE active \union {account}
  /\ UNCHANGED <<transactions, unchecked, breaks, exports>>

-----------------------------------------------------------------------------
BankImportInit ==
  /\ active = BankAccounts
  /\ transactions = <<>>
  /\ unchecked = [c \in Importers |-> <<>>]
  /\ breaks = {}
  /\ exports = {}

BankImportNext ==
  \/ \E c \in Importers, account \in BankAccounts \union {NoAccount}, file \in Exports :
       ImportRows(c, account, file)
  \/ \E c \in Importers : VerifyContinuity(c) \/ CrashImport(c)
  \/ \E account \in BankAccounts : UpdateBankAccount(account)

BankImportSpec == BankImportInit /\ [][BankImportNext]_bankImportVars

-----------------------------------------------------------------------------
(* Types: rows name movements, exceptions name rows.                        *)
BankImportTypeOK ==
  /\ active \subseteq BankAccounts
  /\ \A i \in DOMAIN transactions : transactions[i].move \in Moves
  /\ \A c \in Importers : Range(unchecked[c]) \subseteq DOMAIN transactions
  /\ breaks \subseteq DOMAIN transactions

(* However the exports overlap and whatever their order, an account has as  *)
(* many rows of a content as the fullest export of it imported there: two   *)
(* equal movements of one file are both kept, and importing them again in   *)
(* another file adds nothing (the occurrence in transactionFingerprint).    *)
StoredIsTheFullestExport ==
  \A account \in BankAccounts \union {NoAccount}, i \in Moves :
    LET stored == {k \in DOMAIN transactions : /\ transactions[k].account = account
                                               /\ SameContent(transactions[k].move, i)}
        Copies(file) == Cardinality({k \in DOMAIN file : SameContent(file[k], i)})
        counts == {Copies(e.file) : e \in {x \in exports : x.account = account}}
    IN  Cardinality(stored) = Max(counts \union {0})

(* A statement that holds every movement raises no exception, whichever end *)
(* of it comes first: the rows of a day that chain are walked in their true *)
(* order (orderDayCluster).                                                 *)
NoFalseBreak ==
  \A c \in Importers :
    (unchecked[c] # <<>> /\ {transactions[id].move : id \in Range(unchecked[c])} = Moves)
      => Breaks(unchecked[c]) = {}
=============================================================================
