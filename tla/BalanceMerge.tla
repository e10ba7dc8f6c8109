----------------------------- MODULE BalanceMerge -----------------------------
(***************************************************************************)
(* BalanceSheetJob.assemble_report: the stores' drafts that people keep at   *)
(* RYO and the invoices SAS drafted are merged into one row per store.  The  *)
(* files are written row by row by people and by SAS; the report is made of  *)
(* whatever they hold.  Dates, the order of the rows and the CSV itself are  *)
(* left out.                                                                 *)
(***************************************************************************)
EXTENDS Integers, Sequences, FiniteSets, FiniteSetsExt, Functions

CONSTANTS
  RyoNames, SasNames,    \* what is written for a store's name
  Unnamed,               \* the blank name
  FirstDigits,           \* the number in the names that have one
  Wholesale, Warehouse,  \* the name of the warehouse at RYO and at SAS
  RyoCells, SasCells,    \* what is written for an amount
  RyoRows, SasRows       \* bounds: the rows of the files

(* "plain" $1,234.56, "accounting" $(1,234.56), "dash" $-, "text" anything that is
   not a finite number, "blank" nothing.                                           *)
Forms == {"plain", "accounting", "dash", "text", "blank"}

Cell == [form : Forms, digits : Int]

ASSUME MergeAssumption ==
  /\ {Unnamed, Wholesale} \cap DOMAIN FirstDigits = {}
  /\ Wholesale \notin SasNames
  /\ Warehouse \notin DOMAIN FirstDigits \cup RyoNames \cup {Unnamed}
  /\ RyoCells \cup SasCells \subseteq Cell
  /\ RyoRows \in Nat /\ SasRows \in Nat

VARIABLES
  ryo,     \* the rows of the RYO file, its right half below its left one
  sas,     \* the rows of the SAS file
  report   \* the rows of the report, {} until it is assembled

vars == <<ryo, sas, report>>

-----------------------------------------------------------------------------
(* Cells and names. *)

(* The amount in a cell, if there is one to read. *)
parse_amount(cell) ==
  CASE cell.form = "plain" -> {cell.digits}
    [] cell.form = "accounting" -> {-cell.digits}
    [] cell.form = "dash" -> {0}
    [] OTHER -> {}

(* Two rows are one store's if their keys are equal: its number, or the name that
   has none.                                                                       *)
Numbered(number) == <<"number", number>>

Named(name) == <<"name", name>>

extract_storenums(name, overrides) ==
  IF name \in DOMAIN overrides THEN Numbered(overrides[name])
  ELSE IF name \in DOMAIN FirstDigits THEN Numbered(FirstDigits[name])
  ELSE Named(name)

(* "SFT-WHOLESALE" is given its number before the numbers are read off. *)
RyoKey(row) == extract_storenums(row.store, [name \in {Wholesale} |-> 999])

(* Mutant: the warehouse is looked for under its name at RYO. *)
SasKeyAtRyo(row) == extract_storenums(row.store, [name \in {Wholesale} |-> 999])

(* SAS_STORE_NAME_OVERRIDES *)
SasKey(row) == extract_storenums(row.store, [name \in {Warehouse} |-> 999])

-----------------------------------------------------------------------------
(* What is written at the two sides. *)

RyoLists(name, cell) ==
  /\ report = {}
  /\ Len(ryo) < RyoRows
  /\ ryo' = Append(ryo, [store |-> name, amount |-> cell])
  /\ UNCHANGED <<sas, report>>

SasDrafts(name, cell) ==
  /\ report = {}
  /\ Len(sas) < SasRows
  /\ sas' = Append(sas, [store |-> name, amount |-> cell])
  /\ UNCHANGED <<ryo, report>>

-----------------------------------------------------------------------------
(* assemble_report *)

(* The rows of the RYO file left once those without a store are dropped. *)
Kept == {i \in DOMAIN ryo : ryo[i].store # Unnamed}

(* groupby(dropna=False): a store without number or name is a group as well. *)
Group(key) == {i \in DOMAIN sas : SasKey(sas[i]) = key}

Readable(rows) == {i \in rows : parse_amount(sas[i].amount) # {}}

Amounts(rows) ==
  [i \in Readable(rows) |-> CHOOSE amount \in parse_amount(sas[i].amount) : TRUE]

Total(amounts) == MapThenSumSet(LAMBDA i : amounts[i], DOMAIN amounts)

(* Mutant: the amounts are collected and not added. *)
each_amount(rows) == Range(Amounts(rows))

(* The total of the readable amounts, if there is any. *)
sum_amounts(rows) == IF Readable(rows) = {} THEN {} ELSE {Total(Amounts(rows))}

(* Mutant: only what cannot be read is noted, as at RYO. *)
SasNotesOnText(rows) ==
  {<<sas[i].amount.form, i>> : i \in {j \in rows : sas[j].amount.form = "text"}}

(* An invoice's amount that could not be read, or is not there. *)
SasNotes(rows) == {<<sas[i].amount.form, i>> : i \in rows \ Readable(rows)}

(* A blank amount is no mistake at RYO. *)
RyoNotes(i) == IF ryo[i].amount.form = "text" THEN {<<"RYO", "text">>} ELSE {}

StoreNotes(key) ==
  CASE key = Named(Unnamed) -> {<<"store", "neither name nor number">>}
    [] key[1] = "name" -> {<<"store", "no number in the name">>}
    [] OTHER -> {}

(* A row of the RYO file with its store's group. *)
Matched(i) ==
  LET key == RyoKey(ryo[i])  group == Group(key) IN
  [line |-> i, store |-> key, ryo_total |-> parse_amount(ryo[i].amount),
   sas_total |-> sum_amounts(group),
   error_notes |-> StoreNotes(key) \cup RyoNotes(i) \cup SasNotes(group)]

(* A group without a row in the RYO file. *)
Unmatched(key) ==
  [line |-> 0, store |-> key, ryo_total |-> {},
   sas_total |-> sum_amounts(Group(key)),
   error_notes |-> StoreNotes(key) \cup SasNotes(Group(key))]

(* The keys of the two sides. *)
RyoStores == {RyoKey(ryo[i]) : i \in Kept}

SasStores == {SasKey(sas[i]) : i \in DOMAIN sas}

(* Mutant: invoices without a store are dropped, as groupby does by default. *)
NoNamelessGroup == {Matched(i) : i \in Kept} \cup
  {Unmatched(key) : key \in (SasStores \ RyoStores) \ {Named(Unnamed)}}

(* Mutant: the merge is a left join. *)
LeftJoin == {Matched(i) : i \in Kept}

(* The outer join. *)
Merged == {Matched(i) : i \in Kept} \cup {Unmatched(key) : key \in SasStores \ RyoStores}

assemble_report ==
  /\ report = {}
  /\ report' = Merged
  /\ UNCHANGED <<ryo, sas>>

-----------------------------------------------------------------------------
Init ==
  /\ ryo = <<>>
  /\ sas = <<>>
  /\ report = {}

Next ==
  \/ \E name \in RyoNames, cell \in RyoCells : RyoLists(name, cell)
  \/ \E name \in SasNames, cell \in SasCells : SasDrafts(name, cell)
  \/ assemble_report

Spec == Init /\ [][Next]_vars
-----------------------------------------------------------------------------
(* A file lists a store once. *)
OncePerStore == \A i, j \in Kept : RyoKey(ryo[i]) = RyoKey(ryo[j]) => i = j

TotalIn(row) == CHOOSE total \in row.sas_total : TRUE

(* The rows are made of what the files' rows are made of. *)
TypeOK ==
  /\ ryo \in Seq([store : RyoNames, amount : RyoCells])
  /\ sas \in Seq([store : SasNames, amount : SasCells])
  /\ \A row \in report :
       /\ row.line \in {0} \cup DOMAIN ryo
       /\ row.ryo_total \in SUBSET Int /\ Cardinality(row.ryo_total) <= 1
       /\ row.sas_total \in SUBSET Int /\ Cardinality(row.sas_total) <= 1

(* No store is lost: whoever is named in either file, under whichever of its names,
   has a row, and no row is about anyone else.                                      *)
EveryStoreHasARow ==
  report # {} => {row.store : row \in report} = RyoStores \cup SasStores

(* No money of SAS's is lost or counted twice between the two files: if no store is
   twice in the RYO file, the totals of the report add up to all that SAS drafted
   and could be read, credit notes and nameless invoices included.                  *)
SasAddsUp ==
  report # {} /\ OncePerStore =>
    Total([row \in {r \in report : r.sas_total # {}} |-> TotalIn(row)])
      = Total(Amounts(DOMAIN sas))

(* A row without error notes can be relied on: its store has a number, every invoice
   of the store is in its SAS total, and what its line in the RYO file says is in the
   other.  "Anything that went wrong with a row is written on that row".            *)
CleanRowsAreComplete ==
  \A row \in report :
    row.error_notes = {} =>
      /\ row.store[1] = "number"
      /\ Readable(Group(row.store)) = Group(row.store)
      /\ row.line # 0 /\ ryo[row.line].amount.form # "blank" => row.ryo_total # {}

(* Two names of one store: they are the same, have the same number, or are what the
   sides call the warehouse.                                                        *)
SameStore(atRyo, atSas) ==
  \/ atRyo = atSas
  \/ /\ {atRyo, atSas} \subseteq DOMAIN FirstDigits
     /\ FirstDigits[atRyo] = FirstDigits[atSas]
  \/ <<atRyo, atSas>> = <<Wholesale, Warehouse>>

(* The two sides of a store meet, under whichever names they know it: SAS's invoices
   are not on a row of their own while the RYO file lists their store.              *)
NoStoreIsSplit ==
  \A row \in report :
    row.line = 0 =>
      \A i \in Kept, j \in Group(row.store) : ~SameStore(ryo[i].store, sas[j].store)
=============================================================================
