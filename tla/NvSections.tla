------------------------------ MODULE NvSections ------------------------------
(***************************************************************************)
(* The section table and the RAM shadow of midware::NonvolatileDataHandler *)
(* (nonvolatile_data_handler.cpp): named sections are carved out of one    *)
(* vector of bytes, behind a fixed header and a fixed table area; load()   *)
(* rebuilds table and shadow from flash, store() writes them back.         *)
(*                                                                         *)
(* Sizes and positions are bytes, as in the code; contents are words of    *)
(* four bytes, the unit every size is rounded up to.  "data" is the shadow *)
(* behind the header and the table area, whose bytes only store() writes   *)
(* and only load() reads.  Here store() is one step of one thread; module  *)
(* NvStore takes it apart.  The return code of the last call is in "last". *)
(***************************************************************************)
EXTENDS Integers, Sequences, FiniteSets

CONSTANTS
  Name,              \* section names
  NoName,            \* the name of a value-initialised table entry
  Word,              \* the contents of one word
  Zero,              \* the word a fresh vector element holds
  HeaderSize,        \* cu32_header_size
  TableSize,         \* cu32_block_information_size
  EntrySize,         \* sizeof(FlashSection)
  InternalEntrySize, \* sizeof(FlashSectionInternal)
  FlashSize,         \* m_u32_flash_block_size * m_u16_num_of_flash_blocks
  PositionRange,     \* how many values the uint16_t m_u32_position has
  Firmware,          \* the default tables of the firmware versions in use
  Size,              \* the sizes callers ask for
  NoImage,           \* an erased or unreadable page
  MaxCalls           \* bound: calls of the interface and power cycles

ASSUME NvAssumption ==
  /\ NoName \notin Name
  /\ Zero \in Word
  /\ HeaderSize \in Nat /\ TableSize \in Nat /\ FlashSize \in Nat
  /\ HeaderSize + TableSize > 0
  /\ EntrySize \in Nat \ {0} /\ InternalEntrySize \in Nat \ {0}
  /\ PositionRange \in Nat /\ FlashSize < PositionRange
  /\ (HeaderSize + TableSize) % 4 = 0
  /\ Size \subseteq Nat
  /\ MaxCalls \in Nat
  /\ Firmware \subseteq Seq([name : Name, size : Nat])

Base == HeaderSize + TableSize

ASSUME FlashHoldsHeader == Base <= FlashSize

VARIABLES
  sections, \* m_flash_sections
  data,     \* m_au8_data_shadow behind the table area
  defaults, \* m_ao_flash_default_sections
  reserved, \* u32_total_size of set_default_sections
  todo,     \* default sections the running boot loop has still to visit
  phase,    \* where startup_from_reset is
  code,     \* i32_ret_val of the running set_default_sections or load
  flash,    \* the image on the flash page
  moved,    \* history: another section than the last was resized
  last,     \* the last completed call
  calls     \* how many calls and power cycles there were

vars == <<sections, data, defaults, reserved, todo, phase, code,
          flash, moved, last, calls>>

Section == [name : Name, size : Nat, pos : 0 .. PositionRange - 1, valid : BOOLEAN]
Default == [name : Name, size : Nat]
Image   == [table : Seq(Section), data : Seq(Word), moved : BOOLEAN]
Code    == {"SUCCESS", "NOT_ENOUGH_MEMORY", "PARAMETER_WRONG",
            "UNEXPECTED_VALUE", "INTERNAL_ERROR"}
Op      == {"none", "add", "resize", "write", "store", "load"}

-----------------------------------------------------------------------------
(* Helpers *)

AlignUp(n) == IF n % 4 # 0 THEN n + (4 - (n % 4)) ELSE n

End(s) == s.pos + s.size

\* m_au8_data_shadow.size()
ShadowSize(d) == Base + 4 * Len(d)

Has(ss, n) == \E i \in DOMAIN ss : ss[i].name = n

\* find_section
Find(ss, n) == CHOOSE i \in DOMAIN ss : ss[i].name = n

\* the largest end of a section, and the end of the table area if none is larger
Extent(ss) ==
  CHOOSE m \in {Base} \cup {End(ss[i]) : i \in DOMAIN ss} :
    /\ m >= Base
    /\ \A i \in DOMAIN ss : End(ss[i]) <= m

\* the words of a section
Content(ss, d, n) ==
  LET s == ss[Find(ss, n)]
  IN  SubSeq(d, (s.pos - Base) \div 4 + 1, (s.pos - Base) \div 4 + s.size \div 4)

\* Accesses through a section outside the shadow's data are undefined in C++
\* (iterators past the end of a vector): no step is taken through one.
InData(s, d) == Base <= s.pos /\ End(s) <= ShadowSize(d)

Overlaps(s, t) ==
  \/ t.pos < End(s) /\ t.pos > s.pos
  \/ End(t) < End(s) /\ End(t) > s.pos

\* check_data_integrity; with no section at all the expected size is 0
IntegrityOK(ss, size) ==
  /\ ss # << >>
  /\ \A i \in DOMAIN ss : Base <= ss[i].pos /\ End(ss[i]) <= size
  /\ \A i, j \in DOMAIN ss :
       ss[i].name # ss[j].name => ~ Overlaps(ss[i], ss[j])
  /\ AlignUp(Extent(ss)) = size

Checked(ss, d) ==
  IF IntegrityOK(ss, ShadowSize(d)) THEN "SUCCESS" ELSE "UNEXPECTED_VALUE"

-----------------------------------------------------------------------------
(* add_section *)

AddError(n, size) ==
  CASE ShadowSize(data) + AlignUp(size) > FlashSize      -> "NOT_ENOUGH_MEMORY"
    [] (Len(sections) + 1) * EntrySize > TableSize       -> "NOT_ENOUGH_MEMORY"
    [] Has(sections, n)                                  -> "PARAMETER_WRONG"
    [] OTHER                                             -> "SUCCESS"

\* bug: the new section is placed behind the data it makes room for
BugNewPosition(d, size) == ShadowSize(d) + size

NewPosition(d, size) == ShadowSize(d)

Added(n, size) ==
  Append(sections,
         [name |-> n, size |-> size, pos |-> NewPosition(data, size), valid |-> FALSE])

Grown(d, at, words) ==
  SubSeq(d, 1, at) \o [i \in 1 .. words |-> Zero] \o SubSeq(d, at + 1, Len(d))

\* bug: the room for the new section is made in front of the others
BugRoomFor(d, size) == Grown(d, 0, size \div 4)

RoomFor(d, size) == Grown(d, Len(d), size \div 4)

\* bug: the shadow grows before the name is looked up
BugAddResult(n, asked) ==
  LET ss == Added(n, AlignUp(asked))
      d  == RoomFor(data, AlignUp(asked))
  IN  CASE AddError(n, asked) = "SUCCESS" ->
             [ret |-> Checked(ss, d), table |-> ss, words |-> d]
        [] AddError(n, asked) = "PARAMETER_WRONG" ->
             [ret |-> "PARAMETER_WRONG", table |-> sections, words |-> d]
        [] OTHER ->
             [ret |-> AddError(n, asked), table |-> sections, words |-> data]

AddResult(n, asked) ==
  LET ss == Added(n, AlignUp(asked))
      d  == RoomFor(data, AlignUp(asked))
  IN  IF AddError(n, asked) # "SUCCESS"
      THEN [ret |-> AddError(n, asked), table |-> sections, words |-> data]
      ELSE [ret |-> Checked(ss, d), table |-> ss, words |-> d]

-----------------------------------------------------------------------------
(* resize_section, and delete_section as a resize to 0 *)

\* the sections the relocation loop touches
Behind(ss, k) == {i \in DOMAIN ss : ss[i].pos > ss[k].pos}

\* bug: the difference is stored in more bits than the position has
BugRelocated(ss, k, diff) ==
  [i \in DOMAIN ss |->
     IF i \in Behind(ss, k) THEN [ss[i] EXCEPT !.pos = diff] ELSE ss[i]]

\* "m_u32_position =+ i32_size_difference" assigns the difference
Relocated(ss, k, diff) ==
  [i \in DOMAIN ss |->
     IF i \in Behind(ss, k) THEN [ss[i] EXCEPT !.pos = diff % PositionRange]
                            ELSE ss[i]]

Resized(ss, k, size) == [ss EXCEPT ![k].valid = FALSE, ![k].size = size]

Without(ss, k) == SubSeq(ss, 1, k - 1) \o SubSeq(ss, k + 1, Len(ss))

\* the words of section s after it was given the new size
Spliced(d, s, size) ==
  LET from == (s.pos - Base) \div 4
  IN  IF size > s.size
      THEN Grown(d, from + s.size \div 4, (size - s.size) \div 4)
      ELSE SubSeq(d, 1, from + size \div 4)
             \o SubSeq(d, from + s.size \div 4 + 1, Len(d))

\* the parameter and capacity checks; "SAME" is the early return for nothing to do
ResizeError(n, size) ==
  IF ~ Has(sections, n) THEN "PARAMETER_WRONG"
  ELSE LET s == sections[Find(sections, n)]
       IN  CASE s.size = size                                    -> "SAME"
             [] ShadowSize(data) + (size - s.size) > FlashSize   -> "NOT_ENOUGH_MEMORY"
             [] OTHER                                            -> "SUCCESS"

ResizeResult(n, asked) ==
  LET size == AlignUp(asked)
      err  == ResizeError(n, size)
      k    == Find(sections, n)
      all  == Resized(Relocated(sections, k, size - sections[k].size), k, size)
      ss   == IF size = 0 THEN Without(all, k) ELSE all
      d    == Spliced(data, sections[k], size)
  IN  CASE err = "SUCCESS" -> [ret |-> Checked(ss, d), table |-> ss, words |-> d]
        [] err = "SAME"    -> [ret |-> "SUCCESS", table |-> sections, words |-> data]
        [] OTHER           -> [ret |-> err, table |-> sections, words |-> data]

\* does this resize have to move sections that come later in the table
Relocates(n, asked) ==
  /\ ResizeError(n, AlignUp(asked)) = "SUCCESS"
  /\ Find(sections, n) # Len(sections)

\* the splice of a resize that gets past the checks must lie inside the data
SpliceDefined(n, asked) ==
  ResizeError(n, AlignUp(asked)) = "SUCCESS" =>
    InData(sections[Find(sections, n)], data)

-----------------------------------------------------------------------------
(* store and try_to_load *)

\* store() fails as soon as no further entry would fit behind one it has written
TableOverflows == Len(sections) > 0 /\ (Len(sections) + 1) * InternalEntrySize > TableSize

\* bug: a shadow that fills the flash blocks to the last byte is refused
BugStoreError == TableOverflows \/ ShadowSize(data) >= FlashSize

StoreError == TableOverflows \/ ShadowSize(data) > FlashSize

ImageNow == [table |-> sections, data |-> data, moved |-> moved]

\* an entry of size 0 is skipped, which leaves the value-initialised one in its place
Parsed(s) ==
  IF s.size = 0 THEN [name |-> NoName, size |-> 0, pos |-> 0, valid |-> FALSE]
  ELSE [s EXCEPT !.valid = TRUE]

ParsedTable(img) == [i \in DOMAIN img.table |-> Parsed(img.table[i])]

\* bug: the word behind the last section is thrown away together with its last word
BugParsedData(img) == SubSeq(img.data, 1, (Extent(img.table) - Base) \div 4 - 1)

ParsedData(img) == SubSeq(img.data, 1, (AlignUp(Extent(img.table)) - Base) \div 4)

Loads(img) ==
  /\ img # NoImage
  /\ Len(img.table) * EntrySize <= TableSize
  /\ \A i \in DOMAIN img.table :
       /\ End(img.table[i]) <= ShadowSize(img.data)
       /\ img.table[i].pos >= Base
  /\ IntegrityOK(ParsedTable(img), ShadowSize(ParsedData(img)))

-----------------------------------------------------------------------------
(* Startup: set_default_sections, then load *)

PowerOn(fw) ==
  /\ sections' = << >> /\ data' = << >> /\ moved' = FALSE
  /\ defaults' = << >> /\ reserved' = Base /\ todo' = fw
  /\ phase' = "config" /\ code' = "SUCCESS"

\* a default section is taken over, or set_default_sections reports an error
DefaultTooLarge(d) == d.size = 0 \/ reserved + d.size > FlashSize

AcceptDefault ==
  /\ phase = "config" /\ todo # << >>
  /\ ~ Has(defaults, Head(todo).name) /\ ~ DefaultTooLarge(Head(todo))
  /\ defaults' = Append(defaults, Head(todo))
  /\ reserved' = reserved + Head(todo).size
  /\ todo' = Tail(todo)
  /\ UNCHANGED <<sections, data, phase, code, flash, moved, last, calls>>

RejectDefault ==
  /\ phase = "config" /\ todo # << >>
  /\ \/ Has(defaults, Head(todo).name) /\ code' = "PARAMETER_WRONG"
     \/ ~ Has(defaults, Head(todo).name) /\ DefaultTooLarge(Head(todo))
        /\ code' = "NOT_ENOUGH_MEMORY"
  /\ todo' = Tail(todo)
  /\ UNCHANGED <<sections, data, defaults, reserved, phase, flash, moved,
                 last, calls>>

\* a failed configuration raises a critical exception, which suspends startup for good
Configured ==
  /\ phase = "config" /\ todo = << >>
  /\ phase' = IF code = "SUCCESS" THEN "try" ELSE "halted"
  /\ UNCHANGED <<sections, data, defaults, reserved, todo, code, flash,
                 moved, last, calls>>

TryToLoad ==
  /\ phase = "try"
  /\ IF Loads(flash)
     THEN /\ sections' = ParsedTable(flash) /\ data' = ParsedData(flash)
          /\ moved' = flash.moved /\ code' = "SUCCESS"
     ELSE /\ sections' = << >> /\ data' = << >>
          /\ moved' = FALSE /\ code' = "INTERNAL_ERROR"
  /\ phase' = "defaults" /\ todo' = defaults
  /\ UNCHANGED <<defaults, reserved, flash, last, calls>>

\* load() adds a default section the image does not have ...
LoadAdds ==
  LET d == Head(todo)
      r == AddResult(d.name, d.size)
  IN  /\ phase = "defaults" /\ todo # << >>
      /\ ~ Has(sections, d.name)
      /\ sections' = r.table /\ data' = r.words /\ code' = r.ret
      /\ todo' = Tail(todo)
      /\ UNCHANGED <<defaults, reserved, phase, flash, moved, last, calls>>

\* ... resizes one that has another size ...
LoadResizes ==
  LET d == Head(todo)
      r == ResizeResult(d.name, d.size)
  IN  /\ phase = "defaults" /\ todo # << >>
      /\ Has(sections, d.name) /\ sections[Find(sections, d.name)].size # d.size
      /\ SpliceDefined(d.name, d.size)
      /\ sections' = r.table /\ data' = r.words /\ code' = r.ret
      /\ moved' = (moved \/ Relocates(d.name, d.size))
      /\ todo' = Tail(todo)
      /\ UNCHANGED <<defaults, reserved, phase, flash, last, calls>>

\* ... and leaves one that fits alone
LoadKeeps ==
  /\ phase = "defaults" /\ todo # << >>
  /\ Has(sections, Head(todo).name)
  /\ sections[Find(sections, Head(todo).name)].size = Head(todo).size
  /\ todo' = Tail(todo)
  /\ UNCHANGED <<sections, data, defaults, reserved, phase, code, flash,
                 moved, last, calls>>

Loaded ==
  /\ phase = "defaults" /\ todo = << >>
  /\ phase' = "ready"
  /\ last' = [op |-> "load", name |-> NoName, ret |-> code]
  /\ UNCHANGED <<sections, data, defaults, reserved, todo, code, flash,
                 moved, calls>>

-----------------------------------------------------------------------------
(* The interface, once the system is up *)

Called(op, n, ret) ==
  /\ calls < MaxCalls /\ calls' = calls + 1
  /\ last' = [op |-> op, name |-> n, ret |-> ret]
  /\ UNCHANGED <<defaults, reserved, todo, phase, code>>

AddSection(n, size) ==
  LET r == AddResult(n, size)
  IN  /\ phase = "ready"
      /\ sections' = r.table /\ data' = r.words
      /\ Called("add", n, r.ret)
      /\ UNCHANGED <<flash, moved>>

ResizeSection(n, size) ==
  LET r == ResizeResult(n, size)
  IN  /\ phase = "ready"
      /\ SpliceDefined(n, size)
      /\ sections' = r.table /\ data' = r.words
      /\ moved' = (moved \/ Relocates(n, size))
      /\ Called("resize", n, r.ret)
      /\ UNCHANGED flash

DeleteSection(n) == ResizeSection(n, 0)

WriteFits(s, off) == 4 + off <= s.size

\* write_section with one word at a word offset
WriteSection(n, off, w) ==
  LET s == sections[Find(sections, n)]
  IN  /\ phase = "ready"
      /\ \/ /\ Has(sections, n) /\ WriteFits(s, off)
            /\ InData(s, data)
            /\ data' = [data EXCEPT ![(s.pos - Base + off) \div 4 + 1] = w]
            /\ Called("write", n, "SUCCESS")
         \/ /\ ~ (Has(sections, n) /\ WriteFits(s, off))
            /\ UNCHANGED data
            /\ Called("write", n, "PARAMETER_WRONG")
      /\ UNCHANGED <<sections, flash, moved>>

\* the cyclic thread stores even when startup was halted by a critical exception
Store ==
  /\ phase \in {"ready", "halted"}
  /\ IF StoreError
     THEN Called("store", NoName, "NOT_ENOUGH_MEMORY") /\ UNCHANGED flash
     ELSE Called("store", NoName, "SUCCESS") /\ flash' = ImageNow
  /\ UNCHANGED <<sections, data, moved>>

\* power is lost and the device comes up with this or another firmware
PowerCycle(fw) ==
  /\ calls < MaxCalls /\ calls' = calls + 1
  /\ PowerOn(fw)
  /\ last' = [op |-> "none", name |-> NoName, ret |-> "SUCCESS"]
  /\ UNCHANGED flash

-----------------------------------------------------------------------------
Init ==
  /\ sections = << >> /\ data = << >> /\ moved = FALSE
  /\ defaults = << >> /\ reserved = Base /\ todo \in Firmware
  /\ phase = "config" /\ code = "SUCCESS"
  /\ flash = NoImage
  /\ last = [op |-> "none", name |-> NoName, ret |-> "SUCCESS"]
  /\ calls = 0

Next ==
  \/ AcceptDefault
  \/ RejectDefault
  \/ Configured
  \/ TryToLoad
  \/ LoadAdds
  \/ LoadResizes
  \/ LoadKeeps
  \/ Loaded
  \/ \E n \in Name, size \in Size : AddSection(n, size)
  \/ \E n \in Name, size \in Size : ResizeSection(n, size)
  \/ \E n \in Name : DeleteSection(n)
  \/ \E n \in Name, off \in Size, w \in Word : WriteSection(n, off, w)
  \/ Store
  \/ \E fw \in Firmware : PowerCycle(fw)

Spec == Init /\ [][Next]_vars

-----------------------------------------------------------------------------
(* Properties *)

TypeOK ==
  /\ sections \in Seq(Section) /\ data \in Seq(Word)
  /\ defaults \in Seq(Default) /\ todo \in Seq(Default) /\ reserved \in Nat
  /\ phase \in {"config", "try", "defaults", "ready", "halted"}
  /\ code \in Code /\ moved \in BOOLEAN
  /\ flash = NoImage \/ flash \in Image
  /\ last \in [op : Op, name : Name \cup {NoName}, ret : Code]
  /\ calls \in Nat

\* The sections lie in table order behind the table area, disjoint, with
\* different names, and fill the shadow to its last byte.
LayoutOK(ss, d) ==
  /\ \A i \in DOMAIN ss : Base <= ss[i].pos /\ End(ss[i]) <= ShadowSize(d)
  /\ \A i, j \in DOMAIN ss : i < j => End(ss[i]) <= ss[j].pos
  /\ \A i, j \in DOMAIN ss : ss[i].name = ss[j].name => i = j
  /\ IF ss = << >> THEN d = << >> ELSE End(ss[Len(ss)]) = ShadowSize(d)

\* As long as no section but the last one was resized or deleted, add_section,
\* delete_section, resize_section and load keep the sections apart from each
\* other, in order and inside the shadow.
CleanLayout == ~ moved => LayoutOK(sections, data)

\* add_section and resize_section never let the shadow outgrow the flash blocks.
ShadowFits == ShadowSize(data) <= FlashSize

\* What store() wrote from an undamaged table, with at least one section and no
\* empty one, is accepted by the next try_to_load and brings back the same
\* sections, marked as valid, and the same words.
StoredLoads ==
  (/\ flash # NoImage
   /\ ~ flash.moved
   /\ flash.table # << >>
   /\ \A i \in DOMAIN flash.table : flash.table[i].size > 0)
  => /\ Loads(flash)
     /\ ParsedData(flash) = flash.data
     /\ ParsedTable(flash) =
          [i \in DOMAIN flash.table |-> [flash.table[i] EXCEPT !.valid = TRUE]]

\* The only way store() fails is that the table area is too small for the
\* sections add_section let in; its own check of the total size never fires.
OnlyTableOverflowStopsStore ==
  last.op = "store" /\ last.ret # "SUCCESS" => TableOverflows

\* A call on one section leaves the words of every other section alone, as long
\* as no section but the last one was resized.
ContentFrame ==
  [][ phase = "ready" /\ phase' = "ready" /\ ~ moved' =>
        \A n \in Name : Has(sections, n) /\ Has(sections', n) /\ n # last'.name
          => Content(sections', data', n) = Content(sections, data, n) ]_vars

\* A call that reports a wrong parameter or missing memory has changed nothing.
FailedCallsChangeNothing ==
  [][ calls' # calls /\ last'.ret \in {"NOT_ENOUGH_MEMORY", "PARAMETER_WRONG"}
        => UNCHANGED <<sections, data, flash>> ]_vars

(* What comments of the code say, and the code does not do *)

\* "everything after the section must be relocated": after resize_section every
\* other section still holds what it held.
ResizeRelocates ==
  [][ last'.op = "resize" /\ calls' # calls =>
        \A n \in Name : Has(sections, n) /\ Has(sections', n) /\ n # last'.name
          => /\ InData(sections'[Find(sections', n)], data')
             /\ Content(sections', data', n) = Content(sections, data, n) ]_vars

=============================================================================
