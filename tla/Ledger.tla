-------------------------------- MODULE Ledger --------------------------------
(***************************************************************************)
(* Records of finance: the journal of a partner with its settlements, and  *)
(* the numbers of documents.  The two share no row.                        *)
(***************************************************************************)
EXTENDS Integers, FiniteSets, FiniteSetsExt, Sequences, Rows

-----------------------------------------------------------------------------
(***************************************************************************)
(* The journal of one partner and the settlements drawn from it: journals, *)
(* reversals, calculate, approve, pay (ReturnsFinanceRepository).          *)
(*                                                                         *)
(* A settlement is calculated from entries read before the transaction     *)
(* that writes it; approve and pay write by id what they read before.      *)
(***************************************************************************)
CONSTANTS
    Entries,        \* journal entries that may be posted, reversals among them
    EntryKey,       \* [Entries -> key]: idempotency key
    ReversalOf,     \* [Entries -> Entries \cup {None}]
    EntryAmount,    \* [Entries -> Int]: net credit of account 2000
    Settlements,
    Reserve,        \* [Settlements -> Nat]: reserveMinor of the request
    Accountants     \* concurrent HTTP requests

ASSUME LedgerAssumption ==
    /\ ReversalOf \in [Entries -> Entries \cup {None}]
    /\ EntryAmount \in [Entries -> Int]
    /\ Reserve \in [Settlements -> Nat]
    /\ None \notin Entries \cup Settlements
    /\ \A e \in Entries : ReversalOf[e] # None => ReversalOf[ReversalOf[e]] = None

VARIABLES
    journal,     \* entries with a row; an entry is never changed
    settlement,  \* Settlement.status, "NONE" before the row exists
    lines,       \* its SettlementLine rows: sets of entries
    accountant   \* what a caller has read and goes on to write

ledgerVars == <<journal, settlement, lines, accountant>>

AccountantIdle == [op |-> "idle", about |-> None, entries |-> {}]

LedgerInit ==
    /\ journal = {}
    /\ settlement = [s \in Settlements |-> "NONE"]
    /\ lines = [s \in Settlements |-> {}]
    /\ accountant = [c \in Accountants |-> AccountantIdle]

LedgerRead(c, op, x, entries) ==
    /\ accountant[c] = AccountantIdle
    /\ accountant' = [accountant EXCEPT ![c] = [op |-> op, about |-> x, entries |-> entries]]
    /\ UNCHANGED <<journal, settlement, lines>>

LedgerWrite(c, op, x) ==
    /\ accountant[c].op = op /\ accountant[c].about = x
    /\ accountant' = [accountant EXCEPT ![c] = AccountantIdle]

\* A balanced entry is posted once per key; a repeated key answers with the
\* entry it has.
PostJournal(e) ==
    /\ ReversalOf[e] = None
    /\ \A f \in journal : EntryKey[f] # EntryKey[e]
    /\ journal' = journal \cup {e}
    /\ UNCHANGED <<settlement, lines, accountant>>

\* An entry that is no reversal itself may be reversed under any new key.  The
\* original stays POSTED; the reversal has the entry as its source and not the
\* partner.
ReverseJournal(e) ==
    /\ ReversalOf[e] \in journal
    /\ \A f \in journal : EntryKey[f] # EntryKey[e]
    /\ journal' = journal \cup {e}
    /\ UNCHANGED <<settlement, lines, accountant>>

Settled == UNION {lines[s] : s \in Settlements}

Total(entries) == MapThenSumSet(LAMBDA e : EntryAmount[e], entries)

\* 3% fees on a positive gross; a negative net is refused.  adjustmentMinor only
\* shifts the reserve.
Net(s, entries) ==
    LET gross == Total(entries)
        fees == IF gross > 0 THEN (gross * 3) \div 100 ELSE 0
    IN gross - fees - Reserve[s]

\* The POSTED entries of the partner and period without a settlement line.
CalculateRead(c, s) ==
    LET open == {e \in journal : ReversalOf[e] = None /\ e \notin Settled} IN
    /\ settlement[s] = "NONE"
    /\ open # {} /\ Net(s, open) >= 0
    /\ LedgerRead(c, "calculate", s, open)

\* SettlementLine is unique in the entry.
LineFree(e) == e \notin Settled

\* A unique conflict refuses the whole settlement.
Calculate(c, s) ==
    /\ LedgerWrite(c, "calculate", s)
    /\ IF settlement[s] = "NONE" /\ \A e \in accountant[c].entries : LineFree(e)
         THEN /\ settlement' = [settlement EXCEPT ![s] = "CALCULATED"]
              /\ lines' = [lines EXCEPT ![s] = accountant[c].entries]
         ELSE UNCHANGED <<settlement, lines>>
    /\ UNCHANGED journal

ApproveSettlementRead(c, s) ==
    settlement[s] = "CALCULATED" /\ LedgerRead(c, "approve", s, {})

ApproveSettlement(c, s) ==
    /\ LedgerWrite(c, "approve", s)
    /\ settlement' = [settlement EXCEPT ![s] = "APPROVED"]
    /\ UNCHANGED <<journal, lines>>

PaySettlementRead(c, s) == settlement[s] = "APPROVED" /\ LedgerRead(c, "pay", s, {})

PaySettlement(c, s) ==
    /\ LedgerWrite(c, "pay", s)
    /\ settlement' = [settlement EXCEPT ![s] = "PAID"]
    /\ UNCHANGED <<journal, lines>>

LedgerNext ==
    \/ \E e \in Entries : PostJournal(e) \/ ReverseJournal(e)
    \/ \E c \in Accountants, s \in Settlements :
          \/ CalculateRead(c, s) \/ Calculate(c, s)
          \/ ApproveSettlementRead(c, s) \/ ApproveSettlement(c, s)
          \/ PaySettlementRead(c, s) \/ PaySettlement(c, s)

LedgerSpec == LedgerInit /\ [][LedgerNext]_ledgerVars

-----------------------------------------------------------------------------
(***************************************************************************)
(* Properties.                                                             *)
(***************************************************************************)

\* However calculations overlap, an entry is paid out by one settlement
\* (calculateSettlement and the unique SettlementLine.journalEntryId).
SettledOnce ==
    \A s, t \in Settlements : s # t => lines[s] \cap lines[t] = {}

\* The entries a calculation reads are not reversed: "Exclude settled/reversed
\* journals" of the repository audit (calculateSettlement).
ReversedNotSettled ==
    [][\A c \in Accountants :
         (accountant[c].op # "calculate" /\ accountant'[c].op = "calculate") =>
            \A e \in accountant'[c].entries : ~\E f \in journal : ReversalOf[f] = e
      ]_ledgerVars

-----------------------------------------------------------------------------
(***************************************************************************)
(* Numbers of invoices, bookings and other documents, drawn from a row of  *)
(* DocumentSequence per kind and year (nextInvoiceNumber, FreightRepository*)
(* nextNumber), inside the transaction that stores the document.           *)
(*                                                                         *)
(* The row is incremented in place, so that its lock is held until the     *)
(* transaction ends; a row that was not there is inserted, and the unique  *)
(* key lets one of two first insertions fail.                              *)
(***************************************************************************)
CONSTANTS
    Kinds,          \* kinds of numbers, a year each
    Drawers,        \* concurrent transactions
    MaxNumber       \* bound on the numbers drawn

ASSUME NumberingAssumption == MaxNumber \in Nat /\ None \notin Kinds

VARIABLES
    nextValue,      \* DocumentSequence.nextValue as committed, 0 before the row exists
    drawer,         \* a transaction: what it has read, and the number it drew
    numbers         \* numbers of stored documents, by kind, in the order of their commits

numberingVars == <<nextValue, drawer, numbers>>

DrawerIdle == [kind |-> None, found |-> FALSE, number |-> 0]

NumberingInit ==
    /\ nextValue = [k \in Kinds |-> 0]
    /\ drawer = [c \in Drawers |-> DrawerIdle]
    /\ numbers = [k \in Kinds |-> <<>>]

\* The upsert looks for the row.
LookUp(c, k) ==
    /\ drawer[c] = DrawerIdle /\ nextValue[k] <= MaxNumber
    /\ drawer' = [drawer EXCEPT ![c] = [kind |-> k, found |-> nextValue[k] # 0, number |-> 0]]
    /\ UNCHANGED <<nextValue, numbers>>

\* Mutant: nothing holds the row until the commit.
UnlockedAlways(k) == TRUE

\* No other transaction has written the row and not ended.
Unlocked(k) == \A c \in Drawers : drawer[c].kind = k => drawer[c].number = 0

\* The number is the row's as it is now, not as it was found.
Draw(c, k) ==
    /\ drawer[c].kind = k /\ drawer[c].number = 0 /\ drawer[c].found
    /\ Unlocked(k)
    /\ drawer' = [drawer EXCEPT ![c].number = nextValue[k]]
    /\ UNCHANGED <<nextValue, numbers>>

\* The first number of the kind.
DrawFirst(c, k) ==
    /\ drawer[c].kind = k /\ drawer[c].number = 0 /\ ~drawer[c].found
    /\ Unlocked(k) /\ nextValue[k] = 0
    /\ drawer' = [drawer EXCEPT ![c].number = 1]
    /\ UNCHANGED <<nextValue, numbers>>

\* Another transaction inserted the row first.
DrawRefused(c, k) ==
    /\ drawer[c].kind = k /\ drawer[c].number = 0 /\ ~drawer[c].found
    /\ Unlocked(k) /\ nextValue[k] # 0
    /\ drawer' = [drawer EXCEPT ![c] = DrawerIdle]
    /\ UNCHANGED <<nextValue, numbers>>

\* The document is stored, and with it the row.
CommitNumber(c, k) ==
    /\ drawer[c].kind = k /\ drawer[c].number # 0
    /\ nextValue' = [nextValue EXCEPT ![k] = drawer[c].number + 1]
    /\ numbers' = [numbers EXCEPT ![k] = Append(@, drawer[c].number)]
    /\ drawer' = [drawer EXCEPT ![c] = DrawerIdle]

\* A later statement of the transaction fails: the number is drawn again.
RollbackNumber(c) ==
    /\ drawer[c].number # 0
    /\ drawer' = [drawer EXCEPT ![c] = DrawerIdle]
    /\ UNCHANGED <<nextValue, numbers>>

NumberingNext ==
    \E c \in Drawers :
       \/ \E k \in Kinds :
             LookUp(c, k) \/ Draw(c, k) \/ DrawFirst(c, k) \/ DrawRefused(c, k) \/ CommitNumber(c, k)
       \/ RollbackNumber(c)

NumberingSpec == NumberingInit /\ [][NumberingNext]_numberingVars

-----------------------------------------------------------------------------
(***************************************************************************)
(* Properties.                                                             *)
(***************************************************************************)

\* The numbers of a kind are 1, 2, 3, ... in the order of their commits, with
\* no gap and no repetition, whatever is rolled back (nextInvoiceNumber,
\* nextNumber).
NumberedWithoutGaps ==
    \A k \in Kinds : \A n \in DOMAIN numbers[k] : numbers[k][n] = n
=============================================================================
