-------------------------------- MODULE Generator --------------------------------
(***************************************************************************)
(* internal/iso4217: the program that makes table_gen.go of the published  *)
(* lists, the build that compiles it, and the registry pkg/currency makes  *)
(* of it at init.  The lists are files that their maintainers replace at   *)
(* any time, so a read finds any of them; a run may be killed at any step  *)
(* and os.WriteFile may stop halfway.                                      *)
(*                                                                         *)
(* A code is its place in the alphabet: 0 is the empty code, and a         *)
(* malformed one is negative.  List One is [published, rows]; List Two is  *)
(* the sequence of its lines that are no comments, each a sequence of      *)
(* codes; Unreadable is either file when it is missing, or no XML.         *)
(***************************************************************************)
EXTENDS Integers, SequencesExt

CONSTANTS
  ListOnes, ListTwos, Unreadable,
  Numerics,             \* the strings of three digits
  NotRatable, Upper     \* as in Currency, the codes being numbers

noCurrencyName == "No universal currency"

(* What the two parsers may make of a file. *)
Row == [code : Int, name : STRING, numeric : STRING, minorUnits : STRING]

ASSUME GeneratorAssumption ==
  /\ \A one \in ListOnes \ {Unreadable} : one \in [published : STRING, rows : Seq(Row)]
  /\ \A two \in ListTwos \ {Unreadable} : two \in Seq(Seq(Int))
  /\ NotRatable \notin Nat

(***************************************************************************)
(* Reading the lists.  An error names what is at fault: a list, a row of   *)
(* List One, or a code whose rows differ.                                  *)
(***************************************************************************)
Error(what, which) == [what |-> what, which |-> which]
NoError == Error("nil", 0)

validateCode(code) == code > 0
validateNumeric(numeric) == numeric \in Numerics

MinorUnits == [raw \in {"N.A.", "0", "2", "3", "4"} |->
  CASE raw = "2" -> 2 [] raw = "3" -> 3 [] raw = "4" -> 4 [] OTHER -> 0]

parseListOneError(doc) ==
  IF doc = Unreadable \/ doc.published = "" THEN Error("list one", 0) ELSE NoError

readFundsError(lines) ==
  IF \/ lines = Unreadable
     \/ Len(lines) # 1
     \/ \E i \in DOMAIN lines[1] : ~validateCode(lines[1][i])
    THEN Error("list two", 0)
    ELSE NoError

(***************************************************************************)
(* buildTable: the rows in order, then the funds.                          *)
(***************************************************************************)
makeEntry(row, funds) ==
  [code |-> row.code, numeric |-> row.numeric, name |-> row.name,
   minorUnits |-> MinorUnits[row.minorUnits], ratable |-> row.minorUnits # "N.A.",
   fund |-> row.code \in funds]

noUniversalCurrency(row) ==
  row.name = noCurrencyName /\ row.numeric = "" /\ row.minorUnits = ""

rowFails(row) ==
  IF row.code = 0
    THEN ~noUniversalCurrency(row)
    ELSE \/ ~validateCode(row.code) \/ row.name = ""
         \/ ~validateNumeric(row.numeric) \/ row.minorUnits \notin DOMAIN MinorUnits

(* Mutant: a repeated code takes the data of its last row. *)
conflictsNever(seen, entry) == FALSE

(* Mutant: a second row of a code is refused, whatever it says. *)
conflictsAny(seen, entry) == entry.code \in DOMAIN seen

conflicts(seen, entry) == entry.code \in DOMAIN seen /\ seen[entry.code] # entry

store(seen, entry) ==
  [code \in DOMAIN seen \cup {entry.code} |->
     IF code = entry.code THEN entry ELSE seen[code]]

collectEntries(rows, funds) ==
  LET after[i \in 0 .. Len(rows)] ==
        IF i = 0 THEN [seen |-> [code \in {} |-> 0], err |-> NoError]
        ELSE IF after[i - 1].err # NoError THEN after[i - 1]
        ELSE IF rowFails(rows[i]) THEN [after[i - 1] EXCEPT !.err = Error("row", i)]
        ELSE IF rows[i].code = 0 THEN after[i - 1]
        ELSE IF conflicts(after[i - 1].seen, makeEntry(rows[i], funds))
          THEN [after[i - 1] EXCEPT !.err = Error("code", rows[i].code)]
        ELSE [after[i - 1] EXCEPT !.seen = store(@, makeEntry(rows[i], funds))]
  IN  after[Len(rows)]

(* Mutant: funds are not looked for in List One. *)
checkFundsPresentNever(funds, seen) == NoError

checkFundsPresent(funds, seen) ==
  IF Range(funds) \subseteq DOMAIN seen THEN NoError ELSE Error("list two", 0)

buildTableError(rows, funds) ==
  LET collected == collectEntries(rows, Range(funds))
  IN  IF ~IsInjective(funds) THEN Error("list two", 0)      \* fundSet
      ELSE IF collected.err # NoError THEN collected.err
      ELSE IF DOMAIN collected.seen = {} THEN Error("list one", 0)
      ELSE checkFundsPresent(funds, collected.seen)

(* sort.Slice by Code, which may exchange entries of one code. *)
sortSlice(entries) ==
  LET places == DOMAIN entries
      order  == CHOOSE p \in Bijection(places, places) :
                  \A i, j \in places : i < j => entries[p[i]].code <= entries[p[j]].code
  IN  [i \in places |-> entries[order[i]]]

(* Mutant: the entries come as the map yields them. *)
sortedEntriesNot(entries) == entries

sortedEntries(entries) == sortSlice(entries)

(* A Go map is iterated in any order. *)
iterations(seen) == SetToSeqs(Range(seen))

(***************************************************************************)
(* The runs.                                                               *)
(***************************************************************************)
VARIABLES
  pc,                \* "idle", "parsed", "read", "writing", "failed"
  doc, lines,        \* what the run read of the lists
  error,             \* what it failed with
  file,              \* table_gen.go: whole or cut, the sources its header
                     \* names (the checksum of List One, the funds), the table
  registry, ordered  \* of the program last built, with the file it is of

program == <<registry, ordered>>
vars == <<pc, doc, lines, error, file, program>>

running == pc \in {"parsed", "read", "writing"}
fail(err) == pc' = "failed" /\ error' = err

parseListOne ==
  /\ ~running
  /\ doc' \in ListOnes /\ lines' = Unreadable
  /\ \/ parseListOneError(doc') # NoError /\ fail(parseListOneError(doc'))
     \/ parseListOneError(doc') = NoError /\ pc' = "parsed" /\ error' = NoError
  /\ UNCHANGED <<file, program>>

readFunds ==
  /\ pc = "parsed"
  /\ lines' \in ListTwos
  /\ \/ readFundsError(lines') # NoError /\ fail(readFundsError(lines'))
     \/ readFundsError(lines') = NoError /\ pc' = "read" /\ UNCHANGED error
  /\ UNCHANGED <<doc, file, program>>

(* buildTable and render, and os.WriteFile as it opens the file, which it  *)
(* truncates, if it can.  A publication date of two lines is no comment of *)
(* one, so the result is not Go.                                           *)
buildTable ==
  /\ pc = "read"
  /\ LET err == buildTableError(doc.rows, lines[1])
     IN  \/ err # NoError /\ fail(err) /\ UNCHANGED file
         \/ /\ err = NoError /\ doc.published = "two\nlines"
            /\ fail(Error("list one", 0)) /\ UNCHANGED file
         \/ /\ err = NoError /\ doc.published # "two\nlines"
            /\ fail(Error("write", 0)) /\ UNCHANGED file
         \/ /\ err = NoError /\ doc.published # "two\nlines"
            /\ \E entries \in iterations(collectEntries(doc.rows, Range(lines[1])).seen) :
                 file' = [whole |-> FALSE, doc |-> doc, funds |-> lines[1],
                          table |-> sortedEntries(entries)]
            /\ pc' = "writing"
            /\ UNCHANGED error
  /\ UNCHANGED <<doc, lines, program>>

(* The rest of os.WriteFile, which may also fail before the last byte. *)
writeFile ==
  /\ pc = "writing"
  /\ file' = [file EXCEPT !.whole = TRUE]
  /\ pc' = "idle" /\ doc' = Unreadable /\ lines' = Unreadable
  /\ UNCHANGED <<error, program>>

writeFails ==
  /\ pc = "writing"
  /\ fail(Error("write", 0))
  /\ UNCHANGED <<doc, lines, file, program>>

Killed ==
  /\ running
  /\ pc' = "idle" /\ doc' = Unreadable /\ lines' = Unreadable
  /\ UNCHANGED <<error, file, program>>

(* A cut table_gen.go lacks the brace that closes it, and does not compile.*)
BuildAndInit ==
  /\ file.whole
  /\ registry' = [code \in {e.code : e \in Range(file.table)} |->
                    CHOOSE e \in Range(file.table) : e.code = code]
  /\ ordered' = sortSlice(file.table)
  /\ UNCHANGED <<pc, doc, lines, error, file>>

Init ==
  /\ pc = "idle" /\ error = NoError
  /\ doc = Unreadable /\ lines = Unreadable
  /\ file = [whole |-> FALSE, doc |-> Unreadable, funds |-> <<>>, table |-> <<>>]
  /\ registry = [code \in {} |-> 0] /\ ordered = <<>>

Next ==
  \/ parseListOne \/ readFunds \/ buildTable \/ writeFile \/ writeFails
  \/ Killed \/ BuildAndInit

Spec == Init /\ [][Next]_vars

-------------------------------------------------------------------------------
(* The lists agree: every row is a currency or the mark of a country that  *)
(* has none, the rows of one code say the same, and the funds are distinct *)
(* currencies of List One.                                                 *)
currencies(rows) == {row \in Range(rows) : row.code # 0}
wellFormed(row) ==
  \/ /\ row.code > 0 /\ row.numeric \in Numerics /\ row.name # ""
     /\ row.minorUnits \in {"N.A.", "0", "2", "3", "4"}
  \/ row.code = 0 /\ noUniversalCurrency(row)
codesOf(rows) == {row.code : row \in currencies(rows)}

Consistent(one, two) ==
  /\ one # Unreadable /\ two # Unreadable
  /\ one.published \notin {"", "two\nlines"}
  /\ codesOf(one.rows) # {}
  /\ \A row \in Range(one.rows) : wellFormed(row)
  /\ \A a, b \in currencies(one.rows) : a.code = b.code =>
       <<a.name, a.numeric, a.minorUnits>> = <<b.name, b.numeric, b.minorUnits>>
  /\ Len(two) = 1
  /\ IsInjective(two[1]) /\ Range(two[1]) \subseteq codesOf(one.rows)

(* Each number of minor units, and how List One prints it. *)
printed == {<<0, "0">>, <<2, "2">>, <<3, "3">>, <<4, "4">>}

(* A table is its sources' and nothing else's: each currency of List One   *)
(* once, in the order of the codes, as every one of its rows has it, and   *)
(* marked as a fund if List Two says so.  It depends on no order, neither  *)
(* of the rows nor of a map.                                               *)
TableOf(table, one, funds) ==
  /\ \A i, j \in DOMAIN table : i < j => table[i].code < table[j].code
  /\ {e.code : e \in Range(table)} = codesOf(one.rows)
  /\ \A e \in Range(table) :
       /\ e.fund <=> e.code \in Range(funds)
       /\ \A row \in currencies(one.rows) : row.code = e.code =>
            /\ <<e.name, e.numeric>> = <<row.name, row.numeric>>
            /\ e.ratable <=> row.minorUnits # "N.A."
            /\ e.ratable => <<e.minorUnits, row.minorUnits>> \in printed

(* A complete table_gen.go is the table of the sources its header names,   *)
(* also when the lists are replaced while the generator runs, or it was    *)
(* killed before.                                                          *)
TableAsItsHeaderSays == file.whole => TableOf(file.table, file.doc, file.funds)

(* The committed table is touched only once the sources proved consistent. *)
TableKeptUnlessConsistent == [][file' # file => Consistent(doc, lines)]_vars

(* Consistent sources are never refused: only writing can still fail.      *)
ConsistentNotRefused ==
  pc = "failed" /\ error.what # "write" => ~Consistent(doc, lines)

(***************************************************************************)
(* The registry of a built program.                                        *)
(***************************************************************************)
Served == INSTANCE Currency WITH
  Registry <- [code \in DOMAIN registry |->
                 IF registry[code].ratable THEN registry[code].minorUnits ELSE NotRatable]

(* Lookup finds a currency of the published table under any spelling, with *)
(* its published minor units, and nothing else; All lists the same ones,   *)
(* in the order of their codes.                                            *)
RegistryServesTable ==
  /\ \A code \in DOMAIN registry : registry[code] \in Range(ordered)
  /\ \A i, j \in DOMAIN ordered : i < j => ordered[i].code < ordered[j].code
  /\ \A code \in DOMAIN Upper :
       /\ Served!lookup(code) = "nil" <=> \E e \in Range(ordered) : e.code = Upper[code]
       /\ \A e \in Range(ordered) : e.code = Upper[code] =>
            /\ Served!Code(code) = e.code
            /\ Served!Ratable(code) <=> e.ratable
            /\ e.ratable => Served!MinorUnits(code) = e.minorUnits
===============================================================================
