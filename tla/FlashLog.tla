------------------------------ MODULE FlashLog ------------------------------
(***************************************************************************)
(* The EEPROM emulated in the flash of a Teensy LC (the KL2x part of       *)
(* tmk_core/common/chibios/eeprom_teensy.c): a log of writes, each a half  *)
(* word with an offset and a byte.  The last entry of an offset counts.    *)
(* When the log is full, its area is erased sector by sector and what     *)
(* counts is written again.                                                *)
(*                                                                         *)
(* Cells are numbered from 1; two of them make the word that is programmed *)
(* at once.  flashend is the cell of the last entry and lies in RAM.       *)
(***************************************************************************)
EXTENDS Naturals, FiniteSets, Sequences, FiniteSetsExt

CONSTANTS EEPROM_SIZE,
          Sectors, SectorCells,   \* the work area and the 1024 bytes of a sector
          MaxData,                \* 0xFF
          MaxLogFailures          \* bound: how often the power fails

Offsets == 0 .. EEPROM_SIZE - 1
Data    == 0 .. MaxData

ASSUME LogAssumption ==
  /\ EEPROM_SIZE \in Nat \ {0} /\ Sectors \in Nat \ {0} /\ SectorCells \in Nat \ {0}
  /\ SectorCells % 2 = 0 /\ EEPROM_SIZE < Sectors * SectorCells
  /\ MaxData \in Nat /\ MaxLogFailures \in Nat

CellCount == Sectors * SectorCells
Cells     == 1 .. CellCount
Entries   == Offsets \X Data
Empty     == << >>             \* 0xFFFF
Unknown   == CellCount + 2     \* flashend before eeprom_initialize

VARIABLES cells, flashend,
          compaction,   \* where eeprom_write_byte is in its compaction
          buf,          \* entries it has still to write
          logFailures,
          logWanted,    \* history: the bytes as they were set, but for those
                        \* at risk when the power failed
          astray        \* history: how a power failure has first left entries
                        \* behind an empty cell, where eeprom_initialize stops

logVars == <<cells, flashend, compaction, buf, logFailures, logWanted, astray>>

NoCompaction == [at |-> "idle", n |-> 0]
NotAstray    == "not"

LogInit ==
  /\ cells = [c \in Cells |-> Empty] /\ flashend = Unknown
  /\ compaction = NoCompaction /\ buf = << >> /\ logFailures = 0
  /\ logWanted = [o \in Offsets |-> MaxData] /\ astray = NotAstray

\* The byte that the last entry of an offset up to a cell of a log holds.
HasEntry(log, c, o) == log[c] # Empty /\ log[c][1] = o
LastByte(log, o, end) ==
  LET at == {c \in Cells : c <= end /\ HasEntry(log, c, o)}
  IN  IF at = {} THEN MaxData ELSE log[Max(at)][2]

eeprom_read_byte(o) == LastByte(cells, o, flashend)

LastEntry ==
  IF \E c \in Cells : cells[c] = Empty
  THEN Min({c \in Cells : cells[c] = Empty}) - 1 ELSE CellCount

\* The first read after power on looks for the end of the log.
eeprom_initialize ==
  /\ flashend = Unknown
  /\ flashend' = LastEntry
  /\ UNCHANGED <<cells, compaction, buf, logFailures, logWanted, astray>>

\* flash_write: an empty cell takes the entry.  Flash that is not erased
\* cannot be programmed again: the errors are cleared and what the cell holds
\* then is any entry.
Programmed(c, e) ==
  IF cells[c] = Empty THEN {[cells EXCEPT ![c] = e]}
  ELSE {[cells EXCEPT ![c] = f] : f \in Entries}

Append1(o, b) ==
  /\ flashend + 1 \in Cells
  /\ flashend' = flashend + 1
  /\ cells' \in Programmed(flashend + 1, <<o, b>>)
  /\ UNCHANGED <<compaction, buf>>

\* The members of a set of numbers, in their order.
Ascending(S) ==
  CHOOSE s \in [1 .. Cardinality(S) -> S] :
    /\ \A i, j \in DOMAIN s : i < j => s[i] < s[j]
    /\ \A p \in S : \E i \in DOMAIN s : s[i] = p

\* Seeded fault: the byte that is being written is left out.
BufferWithout(o, b) ==
  LET Byte(p) == LastByte(cells, p, CellCount)
      kept    == Ascending({p \in Offsets : Byte(p) # MaxData})
  IN  [i \in DOMAIN kept |-> <<kept[i], Byte(kept[i])>>]

\* What buf holds, as entries in the order of their offsets; 0xFF is left out.
Buffer(o, b) ==
  LET Byte(p) == IF p = o THEN b ELSE LastByte(cells, p, CellCount)
      kept    == Ascending({p \in Offsets : Byte(p) # MaxData})
  IN  [i \in DOMAIN kept |-> <<kept[i], Byte(kept[i])>>]

BeginCompaction(o, b) ==
  /\ flashend + 1 \notin Cells
  /\ buf' = Buffer(o, b)
  /\ compaction' = [at |-> "erase", n |-> 0]
  /\ UNCHANGED <<cells, flashend>>

eeprom_write_byte(o, b) ==
  /\ compaction = NoCompaction /\ flashend # Unknown
  /\ Append1(o, b) \/ BeginCompaction(o, b)
  /\ logWanted' = [p \in DOMAIN logWanted \cup {o} |-> IF p = o THEN b ELSE logWanted[p]]
  /\ UNCHANGED <<logFailures, astray>>

EraseSector ==
  /\ compaction.at = "erase"
  /\ cells' = [c \in Cells |-> IF (c - 1) \div SectorCells = compaction.n THEN Empty ELSE cells[c]]
  /\ compaction' = IF compaction.n + 1 < Sectors THEN [compaction EXCEPT !.n = @ + 1]
                   ELSE [at |-> "rewrite", n |-> 1]
  /\ UNCHANGED <<flashend, buf, logFailures, logWanted, astray>>

\* Two entries at a time, the last one alone if need be.
RewriteCells ==
  /\ compaction.at = "rewrite" /\ compaction.n <= Len(buf)
  /\ cells' = [c \in Cells |-> IF c \in {compaction.n, compaction.n + 1} /\ c <= Len(buf)
                               THEN buf[c] ELSE cells[c]]
  /\ compaction' = [compaction EXCEPT !.n = @ + 2]
  /\ UNCHANGED <<flashend, buf, logFailures, logWanted, astray>>

\* flashend is the cell after the last entry, not that of the last entry.
EndCompaction ==
  /\ compaction.at = "rewrite" /\ compaction.n > Len(buf)
  /\ flashend' = Len(buf) + 1
  /\ compaction' = NoCompaction /\ buf' = << >>
  /\ UNCHANGED <<cells, logFailures, logWanted, astray>>

Gap == \E c, d \in Cells : c < d /\ cells[c] = Empty /\ cells[d] # Empty

\* The power fails: flashend and buf are lost, and during a compaction every
\* byte is at risk.
LogPowerFails ==
  /\ logFailures < MaxLogFailures /\ logFailures' = logFailures + 1
  /\ flashend' = Unknown /\ compaction' = NoCompaction /\ buf' = << >>
  /\ logWanted' = IF compaction = NoCompaction THEN logWanted ELSE [o \in {} |-> 0]
  /\ astray' = IF astray = NotAstray /\ Gap THEN compaction.at ELSE astray
  /\ UNCHANGED cells

LogNext ==
  \/ eeprom_initialize \/ EraseSector \/ RewriteCells \/ EndCompaction \/ LogPowerFails
  \/ \E o \in Offsets, b \in Data : eeprom_write_byte(o, b)

LogSpec == LogInit /\ [][LogNext]_logVars

-----------------------------------------------------------------------------
(* Properties.                                                             *)

ReadsAsSet ==
  compaction = NoCompaction /\ flashend # Unknown =>
    \A o \in DOMAIN logWanted : eeprom_read_byte(o) = logWanted[o]

\* "retained even after power loss" (docs/custom_quantum_functions.md:332):
\* while the power fails only between writes, a byte reads as it was set last.
\* The code does not keep this: the first entry after a compaction leaves an
\* empty cell before it, and when the power has failed since, eeprom_initialize
\* takes the log to end there.
Retained == astray \in {NotAstray, NoCompaction.at} => ReadsAsSet

\* What the code does keep: until a power failure finds an entry behind an
\* empty cell, every byte reads as it was set last, through the compactions and
\* through power failures, those during a compaction included for what is set
\* after them.
RetainedInOrder == astray = NotAstray => ReadsAsSet

LogTypeOK ==
  /\ cells \in [Cells -> Entries \cup {Empty}]
  /\ flashend \in (0 .. CellCount) \cup {Unknown}
  /\ compaction \in {NoCompaction} \cup [at : {"erase"}, n : 0 .. Sectors - 1]
                                   \cup [at : {"rewrite"}, n : Nat]
  /\ buf \in Seq(Entries) /\ Len(buf) <= EEPROM_SIZE
  /\ logFailures \in 0 .. MaxLogFailures
  /\ DOMAIN logWanted \subseteq Offsets /\ logWanted \in [DOMAIN logWanted -> Data]

\* The strengthening that makes this inductive.  While the power is on the
\* cells after flashend are empty; before eeprom_initialize there is no entry
\* behind an empty cell; and during a compaction buf has the bytes as set.
Waiting == flashend = Unknown =>
  /\ ~Gap
  /\ \A o \in DOMAIN logWanted : LastByte(cells, o, CellCount) = logWanted[o]

EndIsLast == flashend # Unknown => \A c \in Cells : c > flashend => cells[c] = Empty

BufKeeps ==
  /\ \A i, j \in DOMAIN buf : buf[i][1] = buf[j][1] => i = j
  /\ \A o \in DOMAIN logWanted :
       \/ \E i \in DOMAIN buf : buf[i] = <<o, logWanted[o]>>
       \/ logWanted[o] = MaxData /\ \A i \in DOMAIN buf : buf[i][1] # o

Erasing   == \A c \in Cells : (c - 1) \div SectorCells < compaction.n => cells[c] = Empty
RewritingCells == \A c \in Cells :
  cells[c] = IF c < compaction.n /\ c <= Len(buf) THEN buf[c] ELSE Empty

LogInv ==
  /\ LogTypeOK
  /\ compaction # NoCompaction => flashend # Unknown
  /\ astray = NotAstray =>
       /\ compaction = NoCompaction => Waiting /\ EndIsLast /\ ReadsAsSet
       /\ compaction.at = "erase"   => BufKeeps /\ Erasing
       /\ compaction.at = "rewrite" => BufKeeps /\ RewritingCells
=============================================================================
