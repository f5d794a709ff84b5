--------------------------- MODULE DevReadProofs ---------------------------
(***************************************************************************)
(* What TLAPS proves of DevRead, for all sizes of lines, fields, blocks,   *)
(* tags and files, and every euid.                                         *)
(***************************************************************************)
EXTENDS DevRead, FiniteSetTheorems, WellFoundedInduction, TLAPS

(* The blocks hold what nbytes counts, and nbytes counts all of the text   *)
(* but the two lines on top.                                               *)
CountInv ==
    /\ pc = "idle" => text = <<>> /\ nbytes = 0 /\ curr_block = 0
    /\ pc # "idle" => Len(text) = nbytes + 2 * LINE
    /\ nbytes <= CHAR_BLOCK * curr_block

(* dev_read holds the tag_lock of the tag it is in, and no other; that tag *)
(* is there.                                                               *)
LockInv ==
    /\ pc \in {"level", "divider"} =>
          i \in Desc /\ locked = {i} /\ tags[i] = entry /\ entry # NoTag
    /\ pc \notin {"level", "divider"} => locked = {}
    /\ pc = "idle" => held = {}

DevInv == TypeOK /\ CountInv /\ LockInv

-----------------------------------------------------------------------------
(* The constants.                                                          *)
LEMMA Sizes ==
    /\ MAX_TAGS \in Nat /\ MAX_TAGS # 0 /\ LEVELS \in Nat /\ LEVELS # 0
    /\ LINE \in Nat /\ LINE # 0 /\ FIELD \in Nat /\ FIELD < LINE
    /\ CHAR_BLOCK \in Nat /\ 2 * LINE < CHAR_BLOCK
    /\ ReadSizes \subseteq Nat \ {0}
    /\ MAX_POS \in Nat /\ MAX_CREATED \in Nat
BY DevReadAssumption

(* The lines: each has LINE bytes or one more, and has LINE if it is not   *)
(* about a tag.                                                            *)
LEMMA LineSizeIs ==
    /\ \A line : LineSize(line) \in {LINE, LINE + 1}
    /\ LineSize(Header) = LINE /\ LineSize(Divider) = LINE
<1>1. \A v : Width(v) \in {FIELD, FIELD + 1}
  BY DEF Width
<1>2. LINE \in Nat /\ FIELD \in Nat
  BY Sizes
<1>3. LINE - FIELD + FIELD = LINE /\ LINE - FIELD + (FIELD + 1) = LINE + 1
  BY <1>2
<1> HIDE DEF Width
<1>4. ASSUME NEW line PROVE LineSize(line) \in {LINE, LINE + 1}
  <2>1. PICK w \in {FIELD, FIELD + 1} : w = Width(Signed(Euid[line.tag]))
    BY <1>1
  <2>2. LINE - FIELD + w \in {LINE, LINE + 1}
    BY <1>3
  <2> QED
    BY <2>1, <2>2 DEF LineSize
<1> QED
  BY <1>4 DEF LineSize, Header, Divider

LEMMA LineTextIs ==
    ASSUME NEW line \in Line
    PROVE  /\ LineText(line) \in Seq(Byte) /\ Len(LineText(line)) = LineSize(line)
           /\ LineSize(line) \in Nat /\ LineSize(line) < CHAR_BLOCK
<1>1. PICK n \in Nat : n = LineSize(line) /\ n \in {LINE, LINE + 1} /\ n < CHAR_BLOCK
  BY LineSizeIs, Sizes
<1>2. \A c \in 1 .. n : <<line, c>> \in Byte
  BY <1>1, Sizes DEF Byte
<1>3. [c \in 1 .. n |-> <<line, c>>] \in [1 .. n -> Byte]
  BY <1>2
<1>4. \A g \in [1 .. n -> Byte] : g \in Seq(Byte) /\ Len(g) = n
  OBVIOUS
<1> QED
  BY <1>1, <1>3, <1>4 DEF LineText

LEMMA TopIs == Top \in Seq(Byte) /\ Len(Top) = 2 * LINE
<1>1. Header \in Line /\ Divider \in Line
  BY Sizes DEF Header, Divider, NoTag, Line
<1>2. PICK h \in Seq(Byte) : h = LineText(Header) /\ Len(h) = LINE
  BY <1>1, LineTextIs, LineSizeIs
<1>3. PICK d \in Seq(Byte) : d = LineText(Divider) /\ Len(d) = LINE
  BY <1>1, LineTextIs, LineSizeIs
<1>4. h \o d \in Seq(Byte) /\ Len(h \o d) = LINE + LINE
  BY <1>2, <1>3
<1>5. LINE + LINE = 2 * LINE
  BY Sizes
<1> QED
  BY <1>2, <1>3, <1>4, <1>5 DEF Top

(* How many bytes a part has: dev_read returns a number of bytes.          *)
Least(a, b) == IF a > b THEN b ELSE a
Avail(t, o) == IF Len(t) > o THEN Len(t) - o ELSE 0

LEMMA PartIs ==
    ASSUME NEW t \in Seq(Byte), NEW o \in Nat, NEW n \in Nat
    PROVE  /\ Least(n, Avail(t, o)) \in Nat
           /\ Len(Part(t, o, n)) = Least(n, Avail(t, o))
           /\ Part(t, o, n) = [k \in 1 .. Least(n, Avail(t, o)) |-> t[o + k]]
<1>1. PICK a \in Nat : a = Avail(t, o)
  <2>1. PICK l \in Nat : l = Len(t)
    OBVIOUS
  <2>2. (IF l > o THEN l - o ELSE 0) \in Nat
    OBVIOUS
  <2> QED
    BY <2>1, <2>2 DEF Avail
<1>2. PICK m \in Nat : m = Least(n, Avail(t, o))
  <2>1. (IF n > a THEN a ELSE n) \in Nat
    OBVIOUS
  <2> QED
    BY <1>1, <2>1 DEF Least
<1>3. Part(t, o, n) = [k \in 1 .. m |-> t[o + k]]
  BY <1>2 DEF Part, Least, Avail
<1>4. [k \in 1 .. m |-> t[o + k]] \in [1 .. m -> {t[o + k] : k \in 1 .. m}]
  OBVIOUS
<1>5. \A S, g : g \in [1 .. m -> S] => Len(g) = m
  OBVIOUS
<1>6. Len(Part(t, o, n)) = m
  BY <1>3, <1>4, <1>5
<1> QED
  BY <1>2, <1>3, <1>6

(* The initial state: nothing is open, read or held.                       *)
LEMMA InitInv == Init => DevInv
<1>1. CHAR_BLOCK * 0 = 0
  BY Sizes
<1>2. Init => TypeOK
  <2>1. ASSUME Init PROVE tags \in [Desc -> 0 .. MAX_CREATED]
    BY <2>1, Sizes DEF Init, NoTag
  <2>2. ASSUME Init PROVE text \in Seq(Byte)
    BY <2>2 DEF Init
  <2>3. ASSUME Init PROVE i \in 0 .. MAX_TAGS + 1 /\ j \in 0 .. LEVELS
    BY <2>3, Sizes DEF Init
  <2>4. ASSUME Init PROVE created \in 0 .. MAX_CREATED /\ entry \in 0 .. MAX_CREATED
    BY <2>4, Sizes DEF Init, NoTag
  <2>5. ASSUME Init PROVE ret.ok \in BOOLEAN /\ ret.from \in Nat
    BY <2>5 DEF Init
  <2>6. ASSUME Init PROVE /\ f_pos \in Nat /\ size \in Nat /\ quiet \in BOOLEAN
                         /\ relative_off \in Nat /\ nbytes \in Nat
                         /\ curr_block \in Nat
                         /\ pc \in {"idle", "tag", "level", "divider", "exit"}
                         /\ locked \subseteq Desc /\ held \subseteq {"buffer", "divider"}
    BY <2>6 DEF Init
  <2> QED
    BY <2>1, <2>2, <2>3, <2>4, <2>5, <2>6 DEF TypeOK
<1>3. Init => CountInv
  BY <1>1 DEF Init, CountInv
<1>4. Init => LockInv
  BY DEF Init, LockInv
<1> QED
  BY <1>2, <1>3, <1>4 DEF DevInv

(* What appending a line does to the counts: one block more is enough.     *)
LEMMA AppendInv ==
    ASSUME DevInv, pc # "idle",
           NEW line \in Line,
           AppendBuffer(line)
    PROVE  /\ text' \in Seq(Byte) /\ Len(text') = Len(text) + LineSize(line)
           /\ nbytes' \in Nat /\ curr_block' \in Nat
           /\ Len(text)' = nbytes' + 2 * LINE
           /\ nbytes' <= CHAR_BLOCK * curr_block'
<1>1. /\ text \in Seq(Byte) /\ Len(text) \in Nat
      /\ nbytes \in Nat /\ curr_block \in Nat /\ LINE \in Nat /\ CHAR_BLOCK \in Nat
  BY Sizes DEF DevInv, TypeOK
<1>2. PICK l \in Seq(Byte) : l = LineText(line) /\ Len(l) = LineSize(line)
  BY LineTextIs
<1>3. PICK n \in Nat : n = LineSize(line) /\ n < CHAR_BLOCK
  BY LineTextIs
<1>4. /\ text' = text \o l /\ nbytes' = nbytes + n
      /\ curr_block' = BlocksFor(nbytes + n)
  BY <1>2, <1>3 DEF AppendBuffer
<1>5. text' \in Seq(Byte) /\ Len(text') = Len(text) + n
  BY <1>1, <1>2, <1>3, <1>4
<1>6. Len(text') = nbytes' + 2 * LINE
  <2>1. Len(text) = nbytes + 2 * LINE
    BY DEF DevInv, CountInv
  <2> QED
    BY <1>1, <1>4, <1>5, <2>1
<1>7. nbytes' <= CHAR_BLOCK * curr_block'
  <2>1. nbytes <= CHAR_BLOCK * curr_block
    BY DEF DevInv, CountInv
  <2>2. CHAR_BLOCK * (curr_block + 1) = CHAR_BLOCK * curr_block + CHAR_BLOCK
    BY <1>1
  <2>3. CHAR_BLOCK * curr_block \in Nat
    BY <1>1
  <2> QED
    BY <1>1, <1>3, <1>4, <2>1, <2>2, <2>3 DEF BlocksFor, Full
<1> QED
  BY <1>1, <1>3, <1>4, <1>5, <1>6, <1>7 DEF BlocksFor

(* Leaving dev_read with its locks and buffers given back ends in a state  *)
(* of the invariant, whatever it returns.                                  *)
LEMMA ReturnInv ==
    ASSUME DevInv, NEW r, Return(r), r.ok \in BOOLEAN, r.from \in Nat,
           f_pos' \in Nat, quiet' \in BOOLEAN, locked' = {}, held' = {}
    PROVE  DevInv'
<1>1. TypeOK'
  BY Sizes DEF Return, DevInv, TypeOK, NoTag
<1>2. CHAR_BLOCK * 0 = 0
  BY Sizes
<1>3. CountInv'
  BY <1>2 DEF Return, CountInv
<1>4. LockInv'
  BY DEF Return, LockInv
<1> QED
  BY <1>1, <1>3, <1>4 DEF DevInv

(* Going on to the next tag without one of them locked.                    *)
LEMMA NextTagInv ==
    ASSUME DevInv, i \in Desc, pc # "idle", NextTag,
           UNCHANGED <<text, nbytes, curr_block, held>>,
           locked' = {}, relative_off' \in Nat, quiet' \in BOOLEAN
    PROVE  DevInv'
<1>1. TypeOK'
  BY Sizes DEF NextTag, DevInv, TypeOK, Desc, NoTag
<1>2. CountInv'
  BY DEF NextTag, DevInv, CountInv
<1>3. LockInv'
  BY DEF NextTag, LockInv
<1> QED
  BY <1>1, <1>2, <1>3 DEF DevInv

(* Every step keeps the invariant.                                         *)
LEMMA NextInv == DevInv /\ [Next]_vars => DevInv'
<1> SUFFICES ASSUME DevInv, [Next]_vars PROVE DevInv'
  OBVIOUS
<1> USE Sizes
<1>1. ASSUME NEW d \in Desc, Create(d) PROVE DevInv'
  <2>1. TypeOK'
    <3>1. tags' \in [Desc -> 0 .. MAX_CREATED] /\ created' \in 0 .. MAX_CREATED
      BY <1>1 DEF Create, DevInv, TypeOK
    <3> QED
      BY <1>1, <3>1 DEF Create, DevInv, TypeOK, scan
  <2>2. CountInv'
    BY <1>1 DEF Create, DevInv, CountInv, scan
  <2>3. LockInv'
    BY <1>1 DEF Create, DevInv, TypeOK, LockInv, scan, NoTag
  <2> QED
    BY <2>1, <2>2, <2>3 DEF DevInv
<1>2. ASSUME NEW d \in Desc, Delete(d) PROVE DevInv'
  <2>1. TypeOK'
    <3>1. tags' \in [Desc -> 0 .. MAX_CREATED]
      BY <1>2 DEF Delete, DevInv, TypeOK, NoTag
    <3> QED
      BY <1>2, <3>1 DEF Delete, DevInv, TypeOK, scan
  <2>2. CountInv'
    BY <1>2 DEF Delete, DevInv, CountInv, scan
  <2>3. LockInv'
    BY <1>2 DEF Delete, DevInv, TypeOK, LockInv, scan
  <2> QED
    BY <2>1, <2>2, <2>3 DEF DevInv
<1>3. ASSUME NEW p \in 0 .. MAX_POS, Seek(p) PROVE DevInv'
  <2>1. TypeOK'
    <3>1. f_pos' \in Nat /\ size' \in Nat
      BY <1>3 DEF Seek
    <3>2. ret'.ok \in BOOLEAN /\ ret'.from \in Nat
      BY <1>3 DEF Seek
    <3> QED
      BY <1>3, <3>1, <3>2 DEF Seek, DevInv, TypeOK, scan
  <2>2. CountInv'
    BY <1>3 DEF Seek, DevInv, CountInv, scan
  <2>3. LockInv'
    BY <1>3 DEF Seek, DevInv, LockInv, scan
  <2> QED
    BY <2>1, <2>2, <2>3 DEF DevInv
<1>4. ASSUME NEW n \in ReadSizes, Start(n) PROVE DevInv'
  <2>1. Top \in Seq(Byte)
    BY TopIs
  <2>2. TypeOK'
    BY <1>4, <2>1 DEF Start, DevInv, TypeOK, NoTag
  <2>3. Len(Top) = 0 + 2 * LINE /\ 0 <= CHAR_BLOCK * 1
    BY TopIs
  <2>4. Len(text') = nbytes' + 2 * LINE
    BY <1>4, <2>3 DEF Start
  <2>5. CountInv'
    BY <1>4, <2>3, <2>4 DEF Start, CountInv
  <2>6. LockInv'
    BY <1>4 DEF Start, DevInv, LockInv
  <2> QED
    BY <2>2, <2>5, <2>6 DEF DevInv
<1>5. ASSUME NEW n \in ReadSizes, StartNoMemory(n) PROVE DevInv'
  <2>1. TypeOK'
    BY <1>5 DEF StartNoMemory, DevInv, TypeOK, scan
  <2>2. CountInv'
    BY <1>5 DEF StartNoMemory, DevInv, CountInv, scan
  <2>3. LockInv'
    BY <1>5 DEF StartNoMemory, DevInv, LockInv, scan
  <2> QED
    BY <2>1, <2>2, <2>3 DEF DevInv
<1>6. CASE TagIntr \/ TagAbsent
  BY <1>6, NextTagInv DEF TagIntr, TagAbsent, AtTag, DevInv, TypeOK, LockInv
<1>7. CASE TagSkip
  <2>1. relative_off - TAG_SIZE \in Nat
    <3>1. TAG_SIZE \in Nat
      BY DEF TAG_SIZE
    <3> QED
      BY <1>7, <3>1 DEF TagSkip, Skippable, DevInv, TypeOK
  <2> QED
    BY <1>7, <2>1, NextTagInv DEF TagSkip, AtTag, DevInv, TypeOK, LockInv
<1>8. CASE TagEnter
  <2>1. TypeOK'
    BY <1>8 DEF TagEnter, AtTag, DevInv, TypeOK
  <2>2. CountInv'
    BY <1>8 DEF TagEnter, AtTag, DevInv, CountInv
  <2>3. LockInv'
    BY <1>8 DEF TagEnter, AtTag, DevInv, LockInv
  <2> QED
    BY <2>1, <2>2, <2>3 DEF DevInv
<1>9. CASE LevelLine
  <2>1. NextLine \in Line
    BY <1>9 DEF LevelLine, NextLine, DevInv, TypeOK, Line
  <2>2. pc # "idle" /\ AppendBuffer(NextLine)
    BY <1>9 DEF LevelLine
  <2>3. /\ text' \in Seq(Byte)
        /\ nbytes' \in Nat /\ curr_block' \in Nat
        /\ Len(text)' = nbytes' + 2 * LINE
        /\ nbytes' <= CHAR_BLOCK * curr_block'
    BY <2>1, <2>2, AppendInv
  <2>4. TypeOK'
    BY <1>9, <2>3, SMTT(30) DEF LevelLine, DevInv, TypeOK
  <2>5. CountInv'
    BY <1>9, <2>3 DEF LevelLine, CountInv
  <2>6. LockInv'
    BY <1>9 DEF LevelLine, DevInv, LockInv
  <2> QED
    BY <2>4, <2>5, <2>6 DEF DevInv
<1>10. CASE LevelSkip
  <2>1. TypeOK'
    <3>1. j' \in 0 .. LEVELS /\ pc' \in {"idle", "tag", "level", "divider", "exit"}
      BY <1>10 DEF LevelSkip, DevInv, TypeOK
    <3> QED
      BY <1>10, <3>1 DEF LevelSkip, DevInv, TypeOK
  <2>2. CountInv'
    BY <1>10 DEF LevelSkip, DevInv, CountInv
  <2>3. LockInv'
    BY <1>10 DEF LevelSkip, DevInv, LockInv
  <2> QED
    BY <2>1, <2>2, <2>3 DEF DevInv
<1>11. CASE TagEnd
  <2>1. NextLine \in Line
    BY <1>11 DEF TagEnd, NextLine, Divider, NoTag, Line
  <2>2. pc # "idle" /\ AppendBuffer(NextLine)
    BY <1>11 DEF TagEnd
  <2>3. /\ text' \in Seq(Byte)
        /\ nbytes' \in Nat /\ curr_block' \in Nat
        /\ Len(text)' = nbytes' + 2 * LINE
        /\ nbytes' <= CHAR_BLOCK * curr_block'
    BY <2>1, <2>2, AppendInv
  <2>4. TypeOK'
    BY <1>11, <2>3, SMTT(30) DEF TagEnd, NextTag, DevInv, TypeOK, LockInv, Desc, NoTag
  <2>5. CountInv'
    BY <1>11, <2>3 DEF TagEnd, NextTag, CountInv
  <2>6. LockInv'
    BY <1>11 DEF TagEnd, NextTag, DevInv, LockInv
  <2> QED
    BY <2>4, <2>5, <2>6 DEF DevInv
<1>12. CASE AppendNoMemory
  BY <1>12, ReturnInv DEF AppendNoMemory, Failed, DevInv, TypeOK, LockInv
<1>13. CASE Deliver
  <2> DEFINE data == Part(text, relative_off, size)
  <2>1. text \in Seq(Byte) /\ relative_off \in Nat /\ size \in Nat
    BY DEF DevInv, TypeOK
  <2>2. Len(data) \in Nat
    BY <2>1, PartIs
  <2> HIDE DEF data
  <2>3. f_pos' = f_pos + Len(data) /\ Return([ok |-> TRUE, from |-> ret.from, data |-> data])
    BY <1>13 DEF Deliver, data
  <2>4. f_pos' \in Nat
    BY <2>2, <2>3 DEF DevInv, TypeOK
  <2>5. locked' = {} /\ held' = {}
    BY <1>13 DEF Deliver, LoopDone, DevInv, TypeOK, LockInv
  <2>6. quiet' \in BOOLEAN
    BY <1>13 DEF Deliver, DevInv, TypeOK
  <2> DEFINE r == [ok |-> TRUE, from |-> ret.from, data |-> data]
  <2>7. r.ok \in BOOLEAN /\ r.from \in Nat
    BY DEF DevInv, TypeOK
  <2> HIDE DEF r
  <2> QED
    BY <2>3, <2>4, <2>5, <2>6, <2>7, ReturnInv DEF r
<1>14. CASE DeliverFault
  BY <1>14, ReturnInv DEF DeliverFault, LoopDone, Failed, DevInv, TypeOK, LockInv
<1>15. CASE UNCHANGED vars
  BY <1>15 DEF vars, scan, DevInv, TypeOK, CountInv, LockInv
<1> QED
  BY <1>1, <1>2, <1>3, <1>4, <1>5, <1>6, <1>7, <1>8, <1>9, <1>10, <1>11,
     <1>12, <1>13, <1>14, <1>15 DEF Next

LEMMA DevInvariant == Spec => []DevInv
<1>1. DevInv /\ [Next]_vars => DevInv'
  BY NextInv
<1> QED
  BY InitInv, <1>1, PTL DEF Spec

-----------------------------------------------------------------------------
(* For every line, block, tag and file size: the locals of dev_read keep   *)
(* their type; the offset it works with is never negative.                 *)
THEOREM TypeCorrect == Spec => []TypeOK
<1>1. DevInv => TypeOK
  BY DEF DevInv
<1> QED
  BY DevInvariant, <1>1, PTL

(* append_buffer keeps the text within the pages it got from vzalloc.  The *)
(* proof needs that the two lines on top are shorter than a block: nbytes  *)
(* does not count them, and the page that the extra byte brings holds them.*)
THEOREM TextFits == Spec => []BufferFits
<1>1. DevInv => BufferFits
  <2> SUFFICES ASSUME DevInv PROVE BufferFits
    OBVIOUS
  <2>1. CHAR_BLOCK * (curr_block + 1) = CHAR_BLOCK * curr_block + CHAR_BLOCK
    BY Sizes DEF DevInv, TypeOK
  <2>2. CHAR_BLOCK * curr_block \in Nat /\ nbytes \in Nat
    BY Sizes DEF DevInv, TypeOK
  <2>3. CASE pc = "idle"
    <3>1. Len(text) = 0
      BY <2>3, Sizes DEF DevInv, CountInv
    <3> QED
      BY <2>1, <2>2, <3>1, Sizes DEF BufferFits
  <2>4. CASE pc # "idle"
    <3>1. Len(text) = nbytes + 2 * LINE /\ nbytes <= CHAR_BLOCK * curr_block
      BY <2>4 DEF DevInv, CountInv
    <3> QED
      BY <2>1, <2>2, <3>1, Sizes DEF BufferFits
  <2> QED
    BY <2>3, <2>4
<1> QED
  BY DevInvariant, <1>1, PTL

(* On every return of dev_read, those for want of memory and for a bad     *)
(* address included, tag_lock and the buffers are given back.              *)
THEOREM EverythingGivenBack == Spec => []NothingHeld
<1>1. DevInv => NothingHeld
  BY DEF DevInv, LockInv, NothingHeld
<1> QED
  BY DevInvariant, <1>1, PTL

(* A tag cannot be deleted, and its descriptor not reused, while dev_read  *)
(* is reading its levels: DELETE needs the lock that dev_read holds.       *)
THEOREM TagStaysAlive == Spec => []ReadsLiveTag
<1>1. DevInv => ReadsLiveTag
  BY DEF DevInv, LockInv, ReadsLiveTag
<1> QED
  BY DevInvariant, <1>1, PTL

-----------------------------------------------------------------------------
(* Texts made of texts                                                     *)

(* Induction up to N: the set of numbers that have the property. *)
LEMMA UpTo ==
    ASSUME NEW N \in Nat, NEW S, 0 \in S,
           \A m \in 0 .. (N - 1) : m \in S => m + 1 \in S
    PROVE  \A m \in 0 .. N : m \in S
<1> DEFINE T == {m \in Nat : m <= N /\ m \notin S}
           R == {ss \in Nat \X Nat : ss[1] < ss[2]}
<1>1. SUFFICES ASSUME T # {} PROVE FALSE
  OBVIOUS
<1>2. IsWellFoundedOn(R, Nat)
  BY NatLessThanWellFounded DEF OpToRel
<1>3. \A x, y \in Nat : <<y, x>> \in R <=> y < x
  OBVIOUS
<1>4. T \in SUBSET Nat
  OBVIOUS
<1> HIDE DEF R
<1>5. PICK x \in T : \A y \in T : ~(<<y, x>> \in R)
  BY <1>1, <1>2, <1>4, WFMin
<1>6. x \in Nat /\ x # 0 /\ x <= N /\ x \notin S
  BY <1>5
<1>7. x - 1 \in 0 .. (N - 1) /\ x - 1 < x /\ x = (x - 1) + 1
  BY <1>6
<1>8. x - 1 \notin T
  BY <1>3, <1>4, <1>5, <1>6, <1>7
<1> QED
  BY <1>6, <1>7, <1>8

(* G[k] is the first k of the n texts p, one after the other.              *)
IsCat(G, p, n) ==
    /\ G[0] = <<>>
    /\ \A k \in 1 .. n : G[k] = G[k - 1] \o p[k]
    /\ \A k \in 0 .. n : G[k] \in Seq(Byte)

LEMMA CatExists ==
    ASSUME NEW n \in Nat \ {0}, NEW p \in [1 .. n -> Seq(Byte)]
    PROVE  \E G : IsCat(G, p, n) /\ Seqs!FlattenSeq(p) = G[n]
<1> DEFINE flat[k \in 1 .. n] == IF k = 1 THEN p[k] ELSE flat[k - 1] \o p[k]
    E(h, k) == IF k = 1 THEN p[k] ELSE h[k - 1] \o p[k]
    P(h, m) == h = [k \in 1 .. m |-> E(h, k)]
    S == {m \in 0 .. n : \E h : P(h, m)}
<1>1. 0 \in S
  <2>1. P([k \in 1 .. 0 |-> <<>>], 0)
    OBVIOUS
  <2>2. \E h : P(h, 0)
    BY <2>1
  <2> HIDE DEF P
  <2> QED
    BY <2>2
<1>2. ASSUME NEW m \in 0 .. (n - 1), m \in S PROVE m + 1 \in S
  <2>1. PICK h : P(h, m)
    BY <1>2
  <2> DEFINE g == [k \in 1 .. (m + 1) |-> E(h, k)]
  <2>2. \A k \in 1 .. m : g[k] = h[k]
    <3> HIDE DEF E
    <3>1. \A k \in 1 .. m : h[k] = E(h, k)
      BY <2>1
    <3> QED
      BY <3>1
  <2>3. P(g, m + 1)
    <3>1. \A k \in 1 .. (m + 1) : k # 1 => k - 1 \in 1 .. m
      OBVIOUS
    <3>2. \A k \in 1 .. (m + 1) : k # 1 => g[k - 1] = h[k - 1]
      BY <2>2, <3>1
    <3>3. \A k \in 1 .. (m + 1) : E(g, k) = E(h, k)
      <4> HIDE DEF g
      <4> QED
        BY <3>2
    <3> HIDE DEF E
    <3> QED
      BY <3>3
  <2>4. m + 1 \in 0 .. n
    OBVIOUS
  <2> HIDE DEF g, P
  <2>5. \E x : P(x, m + 1)
    BY <2>3
  <2> QED
    BY <2>4, <2>5
<1> HIDE DEF S
<1>3. n \in S
  <2>1. n \in Nat /\ n \in 0 .. n
    OBVIOUS
  <2>2. \A m \in 0 .. n : m \in S
    BY <1>1, <1>2, <2>1, UpTo
  <2> QED
    BY <2>1, <2>2
<1>4. \E h : P(h, n)
  BY <1>3 DEF S
<1>5. P(flat, n)
  BY <1>4
<1>6. Seqs!FlattenSeq(p) = flat[n]
  <2>1. Len(p) = n
    OBVIOUS
  <2> QED
    BY <2>1 DEF Seqs!FlattenSeq
<1> HIDE DEF flat
<1>7. \A k \in 1 .. n : flat[k] = E(flat, k)
  <2> HIDE DEF E
  <2> QED
    BY <1>5
<1> DEFINE G == [k \in 0 .. n |-> IF k = 0 THEN <<>> ELSE flat[k]]
<1>8. G[0] = <<>> /\ \A k \in 1 .. n : G[k] = flat[k]
  OBVIOUS
<1> HIDE DEF G
<1>9. \A k \in 1 .. n : G[k] = G[k - 1] \o p[k]
  <2> TAKE k \in 1 .. n
  <2>1. CASE k = 1
    <3>1. PICK t \in Seq(Byte) : t = p[k]
      OBVIOUS
    <3>2. <<>> \o t = t
      OBVIOUS
    <3>3. G[k] = t
      BY <1>7, <1>8, <2>1, <3>1
    <3>4. G[k - 1] = <<>>
      BY <1>8, <2>1
    <3> QED
      BY <3>1, <3>2, <3>3, <3>4
  <2>2. CASE k # 1
    <3>1. k - 1 \in 1 .. n
      BY <2>2
    <3>2. flat[k] = flat[k - 1] \o p[k]
      BY <1>7, <2>2
    <3> QED
      BY <1>8, <3>1, <3>2
  <2> QED
    BY <2>1, <2>2
<1>10. \A k \in 0 .. n : G[k] \in Seq(Byte)
  <2> DEFINE U == {k \in 0 .. n : G[k] \in Seq(Byte)}
  <2>1. 0 \in U
    <3>1. <<>> \in Seq(Byte) /\ 0 \in 0 .. n
      OBVIOUS
    <3> QED
      BY <1>8, <3>1
  <2>2. ASSUME NEW k \in 0 .. (n - 1), k \in U PROVE k + 1 \in U
    <3>1. k + 1 \in 1 .. n /\ (k + 1) - 1 = k
      OBVIOUS
    <3>2. PICK a \in Seq(Byte) : a = G[k]
      BY <2>2
    <3>3. PICK t \in Seq(Byte) : t = p[k + 1]
      BY <3>1
    <3>4. G[k + 1] = a \o t
      BY <1>9, <3>1, <3>2, <3>3
    <3>5. a \o t \in Seq(Byte) /\ k + 1 \in 0 .. n
      OBVIOUS
    <3> QED
      BY <3>4, <3>5
  <2> HIDE DEF U
  <2>3. \A k \in 0 .. n : k \in U
    BY <2>1, <2>2, UpTo
  <2> QED
    BY <2>3 DEF U
<1>11. Seqs!FlattenSeq(p) = G[n]
  BY <1>6, <1>8
<1> QED
  BY <1>8, <1>9, <1>10, <1>11 DEF IsCat

(* A text is its beginning, as far as that goes. *)
Begins(s, t) == Len(s) <= Len(t) /\ \A m \in 1 .. Len(s) : t[m] = s[m]

LEMMA CatBegins ==
    ASSUME NEW n \in Nat \ {0}, NEW p \in [1 .. n -> Seq(Byte)], NEW G, IsCat(G, p, n)
    PROVE  \A d \in 0 .. n : Begins(G[d], G[n])
<1>1. \A d \in 0 .. n : G[d] \in Seq(Byte) /\ Len(G[d]) \in Nat
  BY DEF IsCat
<1>2. ASSUME NEW d \in 1 .. n PROVE Begins(G[d - 1], G[d])
  <2>1. PICK t \in Seq(Byte) : t = p[d]
    OBVIOUS
  <2>2. PICK a \in Seq(Byte) : a = G[d - 1]
    BY <1>1
  <2>3. G[d] = a \o t
    BY <2>1, <2>2 DEF IsCat
  <2>4. Len(a \o t) = Len(a) + Len(t) /\ \A m \in 1 .. Len(a) : (a \o t)[m] = a[m]
    OBVIOUS
  <2>5. Len(t) \in Nat /\ Len(a) \in Nat
    OBVIOUS
  <2> QED
    BY <2>2, <2>3, <2>4, <2>5 DEF Begins
<1> DEFINE S == {m \in 0 .. n : \A d \in 0 .. m : Begins(G[d], G[m])}
<1>3. 0 \in S
  BY <1>1 DEF Begins
<1>4. ASSUME NEW m \in 0 .. (n - 1), m \in S PROVE m + 1 \in S
  <2>1. m + 1 \in 1 .. n /\ (m + 1) - 1 = m /\ m + 1 \in 0 .. n /\ m \in 0 .. n
    OBVIOUS
  <2>2. ASSUME NEW d \in 0 .. (m + 1) PROVE Begins(G[d], G[m + 1])
    <3>1. CASE d = m + 1
      BY <1>1, <2>1, <3>1 DEF Begins
    <3>2. CASE d \in 0 .. m
      <4>1. Begins(G[d], G[m])
        BY <1>4, <3>2
      <4>2. Begins(G[m], G[m + 1])
        BY <1>2, <2>1
      <4>3. d \in 0 .. n
        BY <3>2
      <4>4. Len(G[d]) \in Nat /\ Len(G[m]) \in Nat /\ Len(G[m + 1]) \in Nat
        BY <1>1, <2>1, <4>3
      <4> QED
        BY <4>1, <4>2, <4>4 DEF Begins
    <3> QED
      BY <3>1, <3>2
  <2> QED
    BY <2>1, <2>2
<1> HIDE DEF S
<1>5. n \in S
  <2>1. n \in Nat /\ n \in 0 .. n
    OBVIOUS
  <2>2. \A m \in 0 .. n : m \in S
    BY <1>3, <1>4, <2>1, UpTo
  <2> QED
    BY <2>1, <2>2
<1> QED
  BY <1>5 DEF S

(* The k-th text in it. *)
HasPiece(G, p, n, k) ==
    /\ Len(G[k - 1]) \in Nat /\ Len(p[k]) \in Nat /\ Len(G[n]) \in Nat
    /\ Len(G[k]) = Len(G[k - 1]) + Len(p[k])
    /\ Len(G[k]) <= Len(G[n])
    /\ \A c \in 1 .. Len(p[k]) : G[n][Len(G[k - 1]) + c] = p[k][c]

LEMMA CatPiece ==
    ASSUME NEW n \in Nat \ {0}, NEW p \in [1 .. n -> Seq(Byte)], NEW G, IsCat(G, p, n)
    PROVE  \A k \in 1 .. n : HasPiece(G, p, n, k)
<1> TAKE k \in 1 .. n
<1>1. k - 1 \in 0 .. n /\ k \in 0 .. n /\ n \in 0 .. n
  OBVIOUS
<1>2. PICK a \in Seq(Byte) : a = G[k - 1]
  BY <1>1 DEF IsCat
<1>3. PICK t \in Seq(Byte) : t = p[k]
  OBVIOUS
<1>4. G[k] = a \o t
  BY <1>2, <1>3 DEF IsCat
<1>5. /\ Len(a) \in Nat /\ Len(t) \in Nat /\ Len(a \o t) = Len(a) + Len(t)
      /\ \A c \in 1 .. Len(t) : (a \o t)[Len(a) + c] = t[c]
  OBVIOUS
<1>6. PICK u \in Seq(Byte) : u = G[n]
  BY <1>1 DEF IsCat
<1>7. Begins(a \o t, u) /\ Len(u) \in Nat
  <2>1. Begins(G[k], G[n])
    BY <1>1, CatBegins
  <2> QED
    BY <1>4, <1>6, <2>1
<1>8. \A c \in 1 .. Len(t) : u[Len(a) + c] = t[c]
  <2> TAKE c \in 1 .. Len(t)
  <2>1. Len(a) + c \in 1 .. Len(a \o t)
    BY <1>5
  <2> QED
    BY <1>5, <1>7, <2>1 DEF Begins
<1> QED
  BY <1>2, <1>3, <1>4, <1>5, <1>6, <1>7, <1>8 DEF Begins, HasPiece

-----------------------------------------------------------------------------
(* The text of the file                                                    *)

TagLine(g, k) == [tag |-> g, level |-> k]
LevelSize(g) == LineSize(TagLine(g, 1))

(* The lines of a tag are as long as each other, by one longer than LINE   *)
(* if its euid is wide.                                                    *)
LEMMA LevelSizeIs ==
    ASSUME NEW g \in 1 .. MAX_CREATED
    PROVE  /\ LevelSize(g) \in Nat
           /\ LevelSize(g) = IF IsWide(g) THEN LINE + 1 ELSE LINE
           /\ \A k : LineSize(TagLine(g, k)) = LevelSize(g)
<1>1. PICK w : w = Width(Signed(Euid[g]))
  OBVIOUS
<1>2. w \in {FIELD, FIELD + 1}
  BY <1>1 DEF Width
<1>3. g # NoTag
  BY DEF NoTag
<1>4. \A k : LineSize(TagLine(g, k)) = LINE - FIELD + w
  BY <1>1, <1>3 DEF LineSize, TagLine
<1>5. IsWide(g) <=> w > FIELD
  BY <1>1 DEF IsWide
<1>6. LINE - FIELD + FIELD = LINE /\ LINE - FIELD + (FIELD + 1) = LINE + 1 /\ ~(FIELD > FIELD)
      /\ FIELD + 1 > FIELD
  BY Sizes
<1>7. LINE - FIELD + w = IF IsWide(g) THEN LINE + 1 ELSE LINE
  BY <1>2, <1>5, <1>6
<1> QED
  BY <1>4, <1>7, Sizes DEF LevelSize

LEMMA TagTextIs ==
    ASSUME NEW g \in 1 .. MAX_CREATED
    PROVE  /\ TagText(g) \in Seq(Byte)
           /\ Len(TagText(g)) = LEVELS * LevelSize(g) + LINE
           /\ \A k \in Level : \A c \in 1 .. LevelSize(g) :
                 TagText(g)[(k - 1) * LevelSize(g) + c] = LineText(TagLine(g, k))[c]
           /\ \A c \in 1 .. LINE :
                 TagText(g)[LEVELS * LevelSize(g) + c] = LineText(Divider)[c]
<1> DEFINE p == [k \in Level |-> LineText(TagLine(g, k))]
<1>1. PICK z \in Nat : z = LevelSize(g)
  BY LevelSizeIs
<1>2. Level = 1 .. LEVELS /\ LEVELS \in Nat \ {0}
  BY Sizes DEF Level
<1>3. \A k \in Level : LineText(TagLine(g, k)) \in Seq(Byte) /\ Len(LineText(TagLine(g, k))) = z
  <2> TAKE k \in Level
  <2>1. TagLine(g, k) \in Line
    BY Sizes DEF TagLine, Line, Level
  <2> QED
    BY <1>1, <2>1, LineTextIs, LevelSizeIs
<1>4. p \in [1 .. LEVELS -> Seq(Byte)] /\ \A k \in Level : p[k] = LineText(TagLine(g, k))
  BY <1>2, <1>3
<1>5. TagText(g) = Seqs!FlattenSeq(p) \o LineText(Divider)
  BY DEF TagText, TagLine
<1> HIDE DEF p
<1>6. PICK H : IsCat(H, p, LEVELS) /\ Seqs!FlattenSeq(p) = H[LEVELS]
  BY <1>2, <1>4, CatExists
<1>7. \A k \in Level : Len(p[k]) = z
  BY <1>3, <1>4
<1>8. \A k \in 1 .. LEVELS :
        /\ Len(H[k - 1]) \in Nat /\ Len(H[k]) = Len(H[k - 1]) + z
        /\ Len(H[k]) <= Len(H[LEVELS])
        /\ \A c \in 1 .. z : H[LEVELS][Len(H[k - 1]) + c] = p[k][c]
  <2> TAKE k \in 1 .. LEVELS
  <2>1. LEVELS \in Nat \ {0} /\ p \in [1 .. LEVELS -> Seq(Byte)] /\ IsCat(H, p, LEVELS)
    BY <1>2, <1>4, <1>6
  <2>2. HasPiece(H, p, LEVELS, k)
    BY <2>1, CatPiece
  <2>3. Len(p[k]) = z
    BY <1>2, <1>7
  <2> QED
    BY <2>2, <2>3 DEF HasPiece
<1> DEFINE S == {k \in 0 .. LEVELS : Len(H[k]) = k * z}
<1>9. 0 \in S
  <2>1. H[0] = <<>> /\ Len(<<>>) = 0 /\ 0 * z = 0 /\ 0 \in 0 .. LEVELS
    BY <1>2, <1>6 DEF IsCat
  <2> QED
    BY <2>1
<1>10. ASSUME NEW k \in 0 .. (LEVELS - 1), k \in S PROVE k + 1 \in S
  <2>1. k + 1 \in 1 .. LEVELS /\ (k + 1) - 1 = k /\ k + 1 \in 0 .. LEVELS
    BY <1>2
  <2>2. Len(H[k + 1]) = Len(H[k]) + z /\ Len(H[k]) = k * z
    BY <1>8, <1>10, <2>1
  <2>3. (k + 1) * z = k * z + z
    OBVIOUS
  <2> QED
    BY <2>1, <2>2, <2>3
<1> HIDE DEF S
<1>11. \A k \in 0 .. LEVELS : k \in S
  BY <1>2, <1>9, <1>10, UpTo
<1>12. \A k \in 0 .. LEVELS : Len(H[k]) = k * z
  BY <1>11 DEF S
<1>13. PICK h \in Seq(Byte) : h = H[LEVELS]
  BY <1>2, <1>6 DEF IsCat
<1>14. PICK d \in Seq(Byte) : d = LineText(Divider) /\ Len(d) = LINE
  <2>1. Divider \in Line
    BY Sizes DEF Divider, NoTag, Line
  <2> QED
    BY <2>1, LineTextIs, LineSizeIs
<1>15. PICK t \in Seq(Byte) : t = h \o d
  <2>1. h \o d \in Seq(Byte)
    BY <1>13, <1>14
  <2> QED
    BY <2>1
<1>16. TagText(g) = t
  BY <1>5, <1>6, <1>13, <1>14, <1>15
<1>17. Len(h) = LEVELS * z
  BY <1>2, <1>12, <1>13
<1>18. /\ Len(h) \in Nat /\ Len(t) = Len(h) + LINE
       /\ \A c \in 1 .. Len(h) : t[c] = h[c]
       /\ \A c \in 1 .. LINE : t[Len(h) + c] = d[c]
  BY <1>14, <1>15
<1>19. \A k \in Level : \A c \in 1 .. z : t[(k - 1) * z + c] = LineText(TagLine(g, k))[c]
  <2> TAKE k \in Level
  <2> TAKE c \in 1 .. z
  <2>1. k \in 1 .. LEVELS /\ k - 1 \in 0 .. LEVELS
    BY <1>2
  <2>2. PICK a \in Nat : a = Len(H[k - 1]) /\ a = (k - 1) * z /\ a + z <= Len(h)
    <3>1. Len(H[k - 1]) \in Nat /\ Len(H[k - 1]) = (k - 1) * z
      BY <1>8, <1>12, <2>1
    <3>2. Len(H[k - 1]) + z <= Len(h)
      BY <1>8, <1>13, <2>1
    <3> QED
      BY <3>1, <3>2
  <2>3. a + c \in 1 .. Len(h)
    BY <1>18, <2>2
  <2>4. h[a + c] = p[k][c]
    BY <1>8, <1>13, <2>1, <2>2
  <2> QED
    BY <1>4, <1>18, <2>2, <2>3, <2>4
<1> QED
  BY <1>1, <1>14, <1>16, <1>17, <1>18, <1>19

(* The file, one tag after the other, without the two lines on top.        *)
Texts == [d \in Desc |-> IF tags[d] = NoTag THEN <<>> ELSE TagText(tags[d])]
IsFile(G) == IsCat(G, Texts, MAX_TAGS)

LEMMA TextsAre ==
    ASSUME TypeOK
    PROVE  /\ Texts \in [1 .. MAX_TAGS -> Seq(Byte)] /\ MAX_TAGS \in Nat \ {0}
           /\ \A d \in Desc : Texts[d] = IF tags[d] = NoTag THEN <<>> ELSE TagText(tags[d])
           /\ \A d \in Desc : tags[d] # NoTag => tags[d] \in 1 .. MAX_CREATED
<1>1. \A d \in Desc : tags[d] \in 0 .. MAX_CREATED
  BY DEF TypeOK
<1>2. \A d \in Desc : tags[d] # NoTag => tags[d] \in 1 .. MAX_CREATED
  BY <1>1, Sizes DEF NoTag
<1>3. \A d \in Desc : (IF tags[d] = NoTag THEN <<>> ELSE TagText(tags[d])) \in Seq(Byte)
  BY <1>2, TagTextIs
<1> QED
  BY <1>2, <1>3, Sizes DEF Texts, Desc

LEMMA FileIs ==
    ASSUME TypeOK
    PROVE  \E G : IsFile(G) /\ FileText = Top \o G[MAX_TAGS]
<1>1. PICK G : IsCat(G, Texts, MAX_TAGS) /\ Seqs!FlattenSeq(Texts) = G[MAX_TAGS]
  BY TextsAre, CatExists
<1> QED
  BY <1>1 DEF IsFile, FileText, Texts

(* The lines of one tag in it. *)
LEMMA TagInFile ==
    ASSUME TypeOK, NEW G, IsFile(G), NEW d \in Desc, tags[d] # NoTag
    PROVE  /\ Len(G[d - 1]) \in Nat /\ Len(G[MAX_TAGS]) \in Nat
           /\ Len(G[d]) = Len(G[d - 1]) + (LEVELS * LevelSize(tags[d]) + LINE)
           /\ Len(G[d]) <= Len(G[MAX_TAGS])
           /\ \A c \in 1 .. (LEVELS * LevelSize(tags[d]) + LINE) :
                 G[MAX_TAGS][Len(G[d - 1]) + c] = TagText(tags[d])[c]
<1>1. d \in 1 .. MAX_TAGS /\ Texts[d] = TagText(tags[d]) /\ tags[d] \in 1 .. MAX_CREATED
  BY TextsAre DEF Desc
<1>2. Len(Texts[d]) = LEVELS * LevelSize(tags[d]) + LINE
  BY <1>1, TagTextIs
<1>3. /\ Len(G[d - 1]) \in Nat /\ Len(G[MAX_TAGS]) \in Nat
      /\ Len(G[d]) = Len(G[d - 1]) + Len(Texts[d])
      /\ Len(G[d]) <= Len(G[MAX_TAGS])
      /\ \A c \in 1 .. Len(Texts[d]) : G[MAX_TAGS][Len(G[d - 1]) + c] = Texts[d][c]
  <2>1. /\ MAX_TAGS \in Nat \ {0} /\ Texts \in [1 .. MAX_TAGS -> Seq(Byte)]
        /\ IsCat(G, Texts, MAX_TAGS) /\ d \in 1 .. MAX_TAGS
    BY <1>1, TextsAre DEF IsFile
  <2>2. HasPiece(G, Texts, MAX_TAGS, d)
    BY <2>1, CatPiece
  <2> QED
    BY <2>2 DEF HasPiece
<1> QED
  BY <1>1, <1>2, <1>3

(* A descriptor without a tag takes no room. *)
LEMMA NoTagInFile ==
    ASSUME TypeOK, NEW G, IsFile(G), NEW d \in Desc, tags[d] = NoTag
    PROVE  G[d] = G[d - 1]
<1>1. d \in 1 .. MAX_TAGS /\ Texts[d] = <<>> /\ d - 1 \in 0 .. MAX_TAGS
  BY TextsAre DEF Desc
<1>2. PICK a \in Seq(Byte) : a = G[d - 1]
  BY <1>1 DEF IsFile, IsCat
<1>3. G[d] = a \o <<>>
  BY <1>1, <1>2 DEF IsFile, IsCat
<1> QED
  BY <1>2, <1>3

(* The tags that are there, and what they take of the file: TAG_SIZE each, *)
(* and one byte more for each line with a wide euid.                       *)
WideAmong(d) == {e \in Existing(d) : IsWide(tags[e])}

LEMMA TagsFinite ==
    ASSUME NEW d \in 0 .. MAX_TAGS
    PROVE  /\ IsFiniteSet(Existing(d)) /\ Cardinality(Existing(d)) \in Nat
           /\ IsFiniteSet(WideAmong(d)) /\ Cardinality(WideAmong(d)) \in Nat
<1>1. IsFiniteSet(1 .. d)
  BY FS_Interval, Sizes
<1>2. Existing(d) \subseteq 1 .. d /\ WideAmong(d) \subseteq 1 .. d
  BY DEF Existing, WideAmong
<1> QED
  BY <1>1, <1>2, FS_Subset, FS_CardinalityType

LEMMA FileLength ==
    ASSUME TypeOK, NEW G, IsFile(G)
    PROVE  \A d \in 0 .. MAX_TAGS :
              Len(G[d]) = Cardinality(Existing(d)) * TAG_SIZE
                          + LEVELS * Cardinality(WideAmong(d))
<1>0. /\ MAX_TAGS \in Nat /\ LEVELS \in Nat /\ LINE \in Nat
      /\ TAG_SIZE = LEVELS * LINE + LINE /\ TAG_SIZE \in Nat
  BY Sizes DEF TAG_SIZE
<1> DEFINE Size(n) == Cardinality(Existing(n)) * TAG_SIZE + LEVELS * Cardinality(WideAmong(n))
           S == {n \in 0 .. MAX_TAGS : Len(G[n]) = Size(n)}
<1>1. 0 \in S
  <2>1. Existing(0) = {} /\ WideAmong(0) = {}
    BY DEF Existing, WideAmong
  <2>2. Cardinality(Existing(0)) = 0 /\ Cardinality(WideAmong(0)) = 0
    BY <2>1, FS_EmptySet
  <2>3. Len(G[0]) = 0
    BY DEF IsFile, IsCat
  <2>4. 0 * TAG_SIZE + LEVELS * 0 = 0 /\ 0 \in 0 .. MAX_TAGS
    BY <1>0
  <2> QED
    BY <2>2, <2>3, <2>4
<1>2. ASSUME NEW n \in 0 .. (MAX_TAGS - 1), n \in S PROVE n + 1 \in S
  <2>1. n + 1 \in Desc /\ (n + 1) - 1 = n /\ n + 1 \in 0 .. MAX_TAGS /\ n \in 0 .. MAX_TAGS
        /\ n + 1 \notin 1 .. n
    BY <1>0 DEF Desc
  <2>2. PICK k \in Nat : k = Cardinality(Existing(n))
    BY <2>1, TagsFinite
  <2>3. PICK w \in Nat : w = Cardinality(WideAmong(n))
    BY <2>1, TagsFinite
  <2>4. Len(G[n]) = k * TAG_SIZE + LEVELS * w
    BY <1>2, <2>2, <2>3
  <2>5. CASE tags[n + 1] = NoTag
    <3>1. Existing(n + 1) = Existing(n) /\ WideAmong(n + 1) = WideAmong(n)
      <4>1. \A e \in 1 .. (n + 1) : e \in 1 .. n \/ e = n + 1
        BY <2>1
      <4>2. 1 .. n \subseteq 1 .. (n + 1)
        BY <2>1
      <4>3. Existing(n + 1) = Existing(n)
        BY <2>5, <4>1, <4>2 DEF Existing
      <4> QED
        BY <4>3 DEF WideAmong
    <3>2. G[n + 1] = G[n]
      BY <2>1, <2>5, NoTagInFile
    <3> QED
      BY <2>1, <2>2, <2>3, <2>4, <3>1, <3>2
  <2>6. CASE tags[n + 1] # NoTag
    <3>1. Existing(n + 1) = Existing(n) \cup {n + 1} /\ n + 1 \notin Existing(n)
      <4>1. \A e \in 1 .. (n + 1) : e \in 1 .. n \/ e = n + 1
        BY <2>1
      <4>2. 1 .. n \subseteq 1 .. (n + 1) /\ n + 1 \in 1 .. (n + 1)
        BY <2>1
      <4> QED
        BY <2>1, <2>6, <4>1, <4>2 DEF Existing
    <3>2. Cardinality(Existing(n + 1)) = k + 1
      BY <2>1, <2>2, <3>1, TagsFinite, FS_AddElement
    <3>3. PICK l \in Nat : l = LevelSize(tags[n + 1])
      BY <2>1, <2>6, TextsAre, LevelSizeIs
    <3>4. Len(G[n + 1]) = Len(G[n]) + (LEVELS * l + LINE)
      BY <2>1, <2>6, <3>3, TagInFile
    <3>5. (k + 1) * TAG_SIZE = k * TAG_SIZE + TAG_SIZE /\ k * TAG_SIZE \in Nat
      BY <1>0
    <3>6. PICK y \in Nat : y = k * TAG_SIZE
      BY <3>5
    <3>7. PICK v \in Nat : v = LEVELS * w
      BY <1>0
    <3>8. PICK x \in Nat : x = LEVELS * LINE
      BY <1>0
    <3>9. CASE IsWide(tags[n + 1])
      <4>1. WideAmong(n + 1) = WideAmong(n) \cup {n + 1} /\ n + 1 \notin WideAmong(n)
        BY <3>1, <3>9 DEF WideAmong
      <4>2. Cardinality(WideAmong(n + 1)) = w + 1
        BY <2>1, <2>3, <4>1, TagsFinite, FS_AddElement
      <4>3. l = LINE + 1
        BY <2>1, <2>6, <3>3, <3>9, TextsAre, LevelSizeIs
      <4>4. LEVELS * (LINE + 1) = x + LEVELS /\ LEVELS * (w + 1) = v + LEVELS
        BY <1>0, <3>7, <3>8
      <4>5. Len(G[n + 1]) = (y + v) + ((x + LEVELS) + LINE)
        BY <2>4, <3>4, <3>6, <3>7, <4>3, <4>4
      <4>6. Size(n + 1) = (y + (x + LINE)) + (v + LEVELS)
        BY <1>0, <3>2, <3>5, <3>6, <3>8, <4>2, <4>4
      <4>7. Len(G[n + 1]) = Size(n + 1)
        BY <1>0, <4>5, <4>6
      <4> QED
        BY <2>1, <4>7
    <3>10. CASE ~IsWide(tags[n + 1])
      <4>1. WideAmong(n + 1) = WideAmong(n)
        BY <3>1, <3>10 DEF WideAmong
      <4>2. l = LINE
        BY <2>1, <2>6, <3>3, <3>10, TextsAre, LevelSizeIs
      <4>3. Len(G[n + 1]) = (y + v) + (x + LINE)
        BY <2>4, <3>4, <3>6, <3>7, <3>8, <4>2
      <4>4. Size(n + 1) = (y + (x + LINE)) + v
        BY <1>0, <2>3, <3>2, <3>5, <3>6, <3>7, <3>8, <4>1
      <4>5. Len(G[n + 1]) = Size(n + 1)
        BY <1>0, <4>3, <4>4
      <4> QED
        BY <2>1, <4>5
    <3> QED
      BY <3>9, <3>10
  <2> QED
    BY <2>5, <2>6
<1> HIDE DEF S
<1>3. \A n \in 0 .. MAX_TAGS : n \in S
  BY <1>0, <1>1, <1>2, UpTo
<1> QED
  BY <1>3 DEF S

-----------------------------------------------------------------------------
(* An undisturbed dev_read                                                 *)

(* The text t is the file with the tags up to b left out, as far as it     *)
(* goes.                                                                   *)
Copied(t, G, b) ==
    /\ Len(t) >= 2 * LINE /\ \A m \in 1 .. (2 * LINE) : t[m] = Top[m]
    /\ Len(t) + Len(G[b]) <= 2 * LINE + Len(G[MAX_TAGS])
    /\ \A m \in 1 .. (Len(t) - 2 * LINE) :
          t[2 * LINE + m] = G[MAX_TAGS][Len(G[b]) + m]

(* It has skipped the tags up to descriptor b, and only those;             *)
(* relative_off lacks TAG_SIZE for each.                                   *)
Skipped(G, b) ==
    /\ b \in 0 .. MAX_TAGS
    /\ relative_off = ret.from - Cardinality(Existing(b)) * TAG_SIZE
    /\ (Existing(b) # {} => relative_off > 0) /\ ret.ok
    /\ Copied(text, G, b)

(* Where it is in the file; from the first tag that it does not skip on,   *)
(* it skips none.                                                          *)
Position(G, b) ==
    /\ (pc = "tag" /\ b = i - 1) \/ ~Skippable
    /\ pc = "tag" => /\ i \in 1 .. (MAX_TAGS + 1)
                     /\ Len(text) + Len(G[b]) = 2 * LINE + Len(G[i - 1])
    /\ pc = "level" => /\ j \in Level
                       /\ Len(text) + Len(G[b]) =
                            2 * LINE + Len(G[i - 1]) + (j - 1) * LevelSize(entry)
    /\ pc = "divider" => Len(text) + Len(G[b]) =
                            2 * LINE + Len(G[i - 1]) + LEVELS * LevelSize(entry)
    /\ pc = "exit" => nbytes > size + relative_off

Follows(G, b) == Skipped(G, b) /\ Position(G, b)

PieceInv ==
    /\ quiet /\ pc # "idle" => \A G : IsFile(G) => \E b : Follows(G, b)
    /\ PieceOfFile /\ PieceLength

(* A disturbance ends what can be said about this dev_read.                *)
LEMMA Disturbed ==
    ASSUME quiet' = FALSE
    PROVE  PieceInv'
BY DEF PieceInv, PieceOfFile, PieceLength, ReadDone

(* As long as no tag comes or goes, the file stays the same. *)
LEMMA SameFile ==
    ASSUME UNCHANGED tags
    PROVE  /\ \A G : IsFile(G)' <=> IsFile(G)
           /\ FileText' = FileText
           /\ \A b : Existing(b)' = Existing(b)
           /\ \A o : SkippedTags(o)' = SkippedTags(o)
           /\ \A o : InSkippedTag(o)' <=> InSkippedTag(o)
           /\ \A o : Place(o)' = Place(o)
<1>1. \A b : Existing(b)' = Existing(b)
  BY DEF Existing
<1>2. \A o : SkippedTags(o)' = SkippedTags(o)
  BY <1>1 DEF SkippedTags
<1>3. \A o : Place(o)' = Place(o)
  BY <1>2 DEF Place
<1>4. \A o : InSkippedTag(o)' <=> InSkippedTag(o)
  BY <1>2 DEF InSkippedTag
<1> QED
  BY <1>1, <1>2, <1>3, <1>4 DEF IsFile, Texts, FileText

(* What a step that changes no tag has to show while dev_read is going on. *)
LEMMA OnFollows ==
    ASSUME UNCHANGED <<tags, quiet>>, pc # "idle", pc' # "idle", PieceInv,
           \A G, b : IsFile(G) /\ Follows(G, b) => \E c : Follows(G, c)'
    PROVE  PieceInv'
<1>1. quiet' => \A G : IsFile(G)' => \E b : Follows(G, b)'
  BY SameFile DEF PieceInv
<1> QED
  BY <1>1 DEF PieceInv, PieceOfFile, PieceLength, ReadDone

(* The lengths of the beginnings of the file. *)
LEMMA FileLengths ==
    ASSUME TypeOK, NEW G, IsFile(G)
    PROVE  /\ \A d \in 0 .. MAX_TAGS : Len(G[d]) \in Nat /\ Len(G[d]) <= Len(G[MAX_TAGS])
           /\ Len(G[0]) = 0
           /\ MAX_TAGS \in Nat /\ 0 \in 0 .. MAX_TAGS /\ MAX_TAGS \in 0 .. MAX_TAGS
<1>1. MAX_TAGS \in Nat \ {0} /\ Texts \in [1 .. MAX_TAGS -> Seq(Byte)] /\ IsCat(G, Texts, MAX_TAGS)
  BY TextsAre DEF IsFile
<1>2. \A d \in 0 .. MAX_TAGS : Begins(G[d], G[MAX_TAGS])
  BY <1>1, CatBegins
<1>3. G[0] = <<>> /\ \A d \in 0 .. MAX_TAGS : G[d] \in Seq(Byte)
  BY <1>1 DEF IsCat
<1> QED
  BY <1>1, <1>2, <1>3 DEF Begins

(* One more line of the file. *)
LEMMA OneMoreLine ==
    ASSUME DevInv, pc # "idle", NEW G, IsFile(G), NEW b, Skipped(G, b),
           NEW line \in Line, AppendBuffer(line), UNCHANGED <<tags, relative_off, ret>>,
           NEW a \in Nat, Len(text) + Len(G[b]) = 2 * LINE + a,
           a + LineSize(line) <= Len(G[MAX_TAGS]),
           \A c \in 1 .. LineSize(line) : G[MAX_TAGS][a + c] = LineText(line)[c]
    PROVE  Skipped(G, b)' /\ Len(text') + Len(G[b]) = 2 * LINE + (a + LineSize(line))
<1>1. PICK t \in Seq(Byte) : t = text
  BY DEF DevInv, TypeOK
<1>2. PICK l \in Seq(Byte) : l = LineText(line) /\ Len(l) = LineSize(line)
  BY LineTextIs
<1>3. PICK z \in Nat : z = LineSize(line) /\ z = Len(l)
  BY <1>2
<1>4. text' = t \o l
  BY <1>1, <1>2 DEF AppendBuffer
<1>5. PICK n \in Nat : n = Len(t)
  BY <1>1
<1>6. /\ t \o l \in Seq(Byte) /\ Len(t \o l) = n + z
      /\ \A m \in 1 .. n : (t \o l)[m] = t[m]
      /\ \A c \in 1 .. z : (t \o l)[n + c] = l[c]
  <2>1. t \in Seq(Byte) /\ l \in Seq(Byte) /\ n = Len(t) /\ z = Len(l)
    BY <1>1, <1>2, <1>3, <1>5
  <2>2. t \o l \in Seq(Byte) /\ Len(t \o l) = Len(t) + Len(l)
    BY <2>1
  <2>3. \A m \in 1 .. Len(t) : (t \o l)[m] = t[m]
    BY <2>1
  <2>4. \A c \in 1 .. Len(l) : (t \o l)[Len(t) + c] = l[c]
    BY <2>1
  <2> QED
    BY <2>1, <2>2, <2>3, <2>4
<1>7. PICK v : v = t \o l
  OBVIOUS
<1>8. PICK x \in Nat : x = Len(G[b])
  BY FileLengths DEF Skipped, DevInv
<1>9. PICK e \in Nat : e = Len(G[MAX_TAGS])
  BY FileLengths DEF DevInv
<1>10. PICK L \in Nat : L = 2 * LINE
  BY Sizes
<1>11. /\ n >= L /\ \A m \in 1 .. L : t[m] = Top[m]
       /\ \A m \in 1 .. (n - L) : t[L + m] = G[MAX_TAGS][x + m]
       /\ n + x = L + a /\ a + z <= e
  BY <1>1, <1>3, <1>5, <1>8, <1>9, <1>10 DEF Skipped, Copied
<1>n. n \in Nat /\ L \in Nat /\ x \in Nat /\ e \in Nat /\ z \in Nat /\ a \in Nat
  BY <1>3, <1>5, <1>8, <1>9, <1>10
<1>m. n >= L /\ n + x = L + a /\ a + z <= e
  BY <1>11
<1>12. /\ n + z >= L /\ (n + z) + x = L + (a + z) /\ (n + z) + x <= L + e
  BY <1>n, <1>m
<1>13. \A m \in 1 .. L : v[m] = Top[m]
  <2> TAKE m \in 1 .. L
  <2>1. m \in 1 .. n
    BY <1>11
  <2> QED
    BY <1>6, <1>7, <1>11, <2>1
<1>14. \A m \in 1 .. ((n + z) - L) : v[L + m] = G[MAX_TAGS][x + m]
  <2> TAKE m \in 1 .. ((n + z) - L)
  <2>1. CASE m <= n - L
    <3>1. m \in 1 .. (n - L) /\ L + m \in 1 .. n
      BY <1>n, <1>m, <2>1
    <3> QED
      BY <1>6, <1>7, <1>11, <3>1
  <2>2. CASE ~(m <= n - L)
    <3>1. PICK c \in 1 .. z : m = (n - L) + c
      <4>1. m - (n - L) \in 1 .. z /\ m = (n - L) + (m - (n - L))
        BY <1>n, <1>m, <2>2
      <4> QED
        BY <4>1
    <3>2. L + m = n + c /\ x + m = a + c
      BY <1>n, <1>m, <3>1
    <3>3. v[n + c] = l[c]
      BY <1>6, <1>7, <3>1
    <3>4. G[MAX_TAGS][a + c] = l[c]
      BY <1>2, <1>3, <3>1
    <3> QED
      BY <3>2, <3>3, <3>4
  <2> QED
    BY <2>1, <2>2
<1>15. text' = v /\ Len(v) = n + z
  BY <1>4, <1>6, <1>7
<1>16. Copied(v, G, b)
  BY <1>8, <1>9, <1>10, <1>12, <1>13, <1>14, <1>15 DEF Copied
<1>17. Existing(b)' = Existing(b)
  BY SameFile
<1>18. Skipped(G, b)'
  BY <1>15, <1>16, <1>17 DEF Skipped
<1> QED
  BY <1>3, <1>8, <1>10, <1>12, <1>15, <1>18

(* dev_read begins at the top. *)
LEMMA StartFollows ==
    ASSUME DevInv, NEW n \in ReadSizes, Start(n)
    PROVE  PieceInv'
<1>1. ASSUME NEW G, IsFile(G)' PROVE Follows(G, 0)'
  <2>1. IsFile(G) /\ Existing(0)' = Existing(0)
    BY <1>1, SameFile DEF Start
  <2>2. Existing(0) = {} /\ Cardinality(Existing(0)) = 0
    <3>1. Existing(0) = {}
      BY DEF Existing
    <3> QED
      BY <3>1, FS_EmptySet
  <2>3. /\ text' = Top /\ relative_off' = f_pos /\ ret'.from = f_pos /\ ret'.ok
        /\ pc' = "tag" /\ i' = 1
    BY DEF Start
  <2>4. PICK e \in Nat : e = Len(G[MAX_TAGS])
    BY <2>1, FileLengths DEF DevInv
  <2>5. /\ Len(G[0]) = 0 /\ MAX_TAGS \in Nat /\ 0 \in 0 .. MAX_TAGS
    BY <2>1, FileLengths DEF DevInv
  <2>6. PICK L \in Nat : L = 2 * LINE
    BY Sizes
  <2>7. f_pos \in Nat /\ TAG_SIZE \in Nat /\ 0 * TAG_SIZE = 0 /\ f_pos = f_pos - 0
    BY Sizes DEF DevInv, TypeOK, TAG_SIZE
  <2>8. Copied(Top, G, 0)
    <3>1. \A m \in 1 .. (L - L) : FALSE
      OBVIOUS
    <3>2. L >= L /\ L + 0 <= L + e
      OBVIOUS
    <3>3. Len(Top) = L
      BY <2>6, TopIs
    <3> QED
      BY <2>4, <2>5, <2>6, <3>1, <3>2, <3>3 DEF Copied
  <2>9. Skipped(G, 0)'
    BY <2>1, <2>2, <2>3, <2>5, <2>7, <2>8 DEF Skipped
  <2>10. Position(G, 0)'
    <3>1. 1 \in 1 .. (MAX_TAGS + 1) /\ 1 - 1 = 0
      BY <2>5
    <3>2. Len(text') + Len(G[0]) = 2 * LINE + Len(G[i' - 1])
      BY <2>3, <3>1, TopIs
    <3> QED
      BY <2>3, <3>1, <3>2 DEF Position
  <2> QED
    BY <2>9, <2>10 DEF Follows
<1>2. pc' # "idle"
  BY DEF Start
<1> QED
  BY <1>1, <1>2 DEF PieceInv, PieceOfFile, PieceLength, ReadDone

(* A descriptor without a tag has no lines in the file.                    *)
LEMMA AbsentFollows ==
    ASSUME DevInv, PieceInv, TagAbsent
    PROVE  PieceInv'
<1>1. ASSUME NEW G, NEW b, IsFile(G), Follows(G, b) PROVE \E c : Follows(G, c)'
  <2>1. /\ i \in Desc /\ tags[i] = NoTag /\ pc = "tag" /\ pc' = "tag" /\ i' = i + 1
        /\ UNCHANGED <<tags, relative_off, text, ret>>
    BY DEF TagAbsent, AtTag, NextTag
  <2>2. /\ MAX_TAGS \in Nat /\ i \in 0 .. MAX_TAGS
        /\ i + 1 \in 1 .. (MAX_TAGS + 1) /\ (i + 1) - 1 = i
    BY <2>1, Sizes DEF Desc
  <2>3. G[i] = G[i - 1]
    BY <1>1, <2>1, NoTagInFile DEF DevInv
  <2>4. \A c : Existing(c)' = Existing(c)
    BY <2>1, SameFile
  <2>5. CASE b = i - 1
    <3>1. Existing(i) = Existing(b)
      <4>1. \A e \in 1 .. i : e \in 1 .. (i - 1) \/ e = i
        BY <2>2
      <4>2. 1 .. (i - 1) \subseteq 1 .. i
        BY <2>2
      <4> QED
        BY <2>1, <2>5, <4>1, <4>2 DEF Existing
    <3>2. PICK c : c = i
      OBVIOUS
    <3>3. Len(G[c]) = Len(G[b]) /\ Existing(c)' = Existing(b) /\ c \in 0 .. MAX_TAGS
      BY <2>2, <2>3, <2>4, <2>5, <3>1, <3>2
    <3>4. Skipped(G, b)
      BY <1>1 DEF Follows
    <3>5. Copied(text', G, c)
      BY <2>1, <3>3, <3>4 DEF Skipped, Copied
    <3>6. Skipped(G, c)'
      BY <2>1, <3>3, <3>4, <3>5 DEF Skipped
    <3>7. Position(G, c)'
      <4>1. Len(text') + Len(G[c]) = 2 * LINE + Len(G[i' - 1])
        <5>1. Len(text) + Len(G[b]) = 2 * LINE + Len(G[i - 1])
          BY <1>1, <2>1 DEF Follows, Position
        <5> QED
          BY <2>1, <2>2, <2>3, <3>3, <5>1
      <4> QED
        BY <2>1, <2>2, <3>2, <4>1 DEF Position
    <3> QED
      BY <3>6, <3>7 DEF Follows
  <2>6. CASE b # i - 1
    <3>1. Skipped(G, b)'
      BY <1>1, <2>1, <2>4 DEF Follows, Skipped
    <3>2. Position(G, b)'
      BY <1>1, <2>1, <2>2, <2>3, <2>6 DEF Follows, Position, Skippable
    <3> QED
      BY <3>1, <3>2 DEF Follows
  <2> QED
    BY <2>5, <2>6
<1>2. UNCHANGED <<tags, quiet>> /\ pc # "idle" /\ pc' # "idle"
  BY DEF TagAbsent, AtTag, NextTag
<1> QED
  BY <1>1, <1>2, OnFollows

(* A tag is only skipped while nothing but the top has been made.          *)
LEMMA SkipFollows ==
    ASSUME DevInv, PieceInv, TagSkip
    PROVE  PieceInv'
<1>1. ASSUME NEW G, NEW b, IsFile(G), Follows(G, b) PROVE \E c : Follows(G, c)'
  <2>1. /\ i \in Desc /\ tags[i] # NoTag /\ pc = "tag" /\ pc' = "tag" /\ i' = i + 1
        /\ UNCHANGED <<tags, text, ret>> /\ Skippable /\ relative_off' = relative_off - TAG_SIZE
    BY DEF TagSkip, AtTag, NextTag
  <2>2. /\ MAX_TAGS \in Nat /\ i \in 0 .. MAX_TAGS /\ i - 1 \in 0 .. MAX_TAGS
        /\ i + 1 \in 1 .. (MAX_TAGS + 1) /\ (i + 1) - 1 = i /\ i \notin 1 .. (i - 1)
    BY <2>1, Sizes DEF Desc
  <2>3. PICK c : c = i
    OBVIOUS
  <2>4. b = i - 1 /\ Skipped(G, b)
    BY <1>1, <2>1 DEF Follows, Position
  <2>5. Existing(i) = Existing(i - 1) \cup {i} /\ i \notin Existing(i - 1)
    <3>1. \A e \in 1 .. i : e \in 1 .. (i - 1) \/ e = i
      BY <2>2
    <3>2. 1 .. (i - 1) \subseteq 1 .. i /\ i \in 1 .. i
      BY <2>1, <2>2 DEF Desc
    <3> QED
      BY <2>1, <2>2, <3>1, <3>2 DEF Existing
  <2>6. PICK k \in Nat : k = Cardinality(Existing(i - 1)) /\ Cardinality(Existing(i)) = k + 1
    <3>1. IsFiniteSet(Existing(i - 1)) /\ Cardinality(Existing(i - 1)) \in Nat
      BY <2>2, TagsFinite
    <3> QED
      BY <2>5, <3>1, FS_AddElement
  <2>7. Existing(c)' = Existing(i)
    BY <2>1, <2>3, SameFile
  <2>8. PICK z \in Nat : z = TAG_SIZE
    BY Sizes DEF TAG_SIZE
  <2>9. PICK w \in Nat : w = k * TAG_SIZE /\ (k + 1) * TAG_SIZE = w + z
    <3>1. k * z \in Nat /\ (k + 1) * z = k * z + z
      OBVIOUS
    <3> QED
      BY <2>8, <3>1
  <2>10. relative_off \in Nat /\ ret.from \in Nat /\ relative_off > z
    BY <2>1, <2>8 DEF DevInv, TypeOK, Skippable
  <2>11. relative_off = ret.from - w
    BY <2>4, <2>6, <2>9 DEF Skipped
  <2>12. relative_off - z = ret.from - (w + z) /\ relative_off - z > 0
    BY <2>10, <2>11
  <2>13. relative_off' = ret'.from - Cardinality(Existing(c)') * TAG_SIZE /\ relative_off' > 0
    BY <2>1, <2>6, <2>7, <2>8, <2>9, <2>12
  <2>14. PICK x \in Nat : x = Len(G[i - 1])
    BY <1>1, <2>2, FileLengths DEF DevInv
  <2>15. PICK L \in Nat : L = 2 * LINE
    BY Sizes
  <2>16. Len(text) = L
    <3>1. Len(text) \in Nat
      BY DEF DevInv, TypeOK
    <3>2. Len(text) + x = L + x
      BY <1>1, <2>1, <2>4, <2>14, <2>15 DEF Follows, Position
    <3> QED
      BY <3>1, <3>2
  <2>17. L + Len(G[i]) <= L + Len(G[MAX_TAGS])
    <3>1. /\ Len(G[i]) \in Nat /\ Len(G[MAX_TAGS]) \in Nat
          /\ Len(G[i]) <= Len(G[MAX_TAGS])
      BY <1>1, <2>2, FileLengths DEF DevInv
    <3> QED
      BY <3>1
  <2>18. Copied(text, G, c)
    <3>1. \A m \in 1 .. (L - L) : FALSE
      OBVIOUS
    <3> QED
      BY <2>3, <2>4, <2>15, <2>16, <2>17, <3>1 DEF Skipped, Copied
  <2>19. Skipped(G, c)'
    BY <2>1, <2>2, <2>3, <2>4, <2>13, <2>18 DEF Skipped
  <2>20. Position(G, c)'
    <3>1. Len(text') + Len(G[c]) = 2 * LINE + Len(G[i' - 1])
      BY <2>1, <2>2, <2>3, <2>15, <2>16
    <3> QED
      BY <2>1, <2>2, <2>3, <3>1 DEF Position
  <2> QED
    BY <2>19, <2>20 DEF Follows
<1>2. UNCHANGED <<tags, quiet>> /\ pc # "idle" /\ pc' # "idle"
  BY DEF TagSkip, AtTag, NextTag
<1> QED
  BY <1>1, <1>2, OnFollows

LEMMA EnterFollows ==
    ASSUME DevInv, PieceInv, TagEnter
    PROVE  PieceInv'
<1>1. ASSUME NEW G, NEW b, IsFile(G), Follows(G, b) PROVE Follows(G, b)'
  <2>1. /\ i \in Desc /\ tags[i] # NoTag /\ pc = "tag" /\ pc' = "level" /\ j' = 1 /\ ~Skippable
        /\ entry' = tags[i] /\ UNCHANGED <<tags, relative_off, text, ret, i>>
    BY DEF TagEnter, AtTag
  <2>2. Skipped(G, b)'
    BY <1>1, <2>1, SameFile DEF Follows, Skipped
  <2>3. Len(text) + Len(G[b]) = 2 * LINE + Len(G[i - 1])
    BY <1>1, <2>1 DEF Follows, Position
  <2>4. PICK z \in Nat : z = LevelSize(tags[i])
    BY <2>1, TextsAre, LevelSizeIs DEF DevInv
  <2>5. 1 \in Level /\ 2 * LINE + Len(G[i - 1]) = 2 * LINE + Len(G[i - 1]) + (1 - 1) * z
    <3>1. PICK x \in Nat : x = Len(G[i - 1])
      <4>1. i - 1 \in 0 .. MAX_TAGS
        BY <2>1, Sizes DEF Desc
      <4> QED
        BY <1>1, <4>1, FileLengths DEF DevInv
    <3>2. 2 * LINE + x = 2 * LINE + x + (1 - 1) * z
      BY Sizes
    <3>3. 1 \in Level
      BY Sizes DEF Level
    <3> QED
      BY <3>1, <3>2, <3>3
  <2>6. Position(G, b)'
    BY <2>1, <2>3, <2>4, <2>5 DEF Position, Skippable
  <2> QED
    BY <2>2, <2>6 DEF Follows
<1>2. UNCHANGED <<tags, quiet>> /\ pc # "idle" /\ pc' # "idle"
  BY DEF TagEnter, AtTag
<1>3. \A G, b : IsFile(G) /\ Follows(G, b) => \E c : Follows(G, c)'
  BY <1>1
<1> QED
  BY <1>2, <1>3, OnFollows

(* The line of a level is the next one of the file.                        *)
LEMMA LevelFollows ==
    ASSUME DevInv, PieceInv, LevelLine
    PROVE  PieceInv'
<1>1. ASSUME NEW G, NEW b, IsFile(G), Follows(G, b) PROVE Follows(G, b)'
  <2>1. /\ pc = "level" /\ AppendBuffer(NextLine)
        /\ UNCHANGED <<tags, relative_off, ret, i, entry, size>>
    BY DEF LevelLine
  <2>2. i \in Desc /\ tags[i] = entry /\ entry # NoTag
    BY <2>1 DEF DevInv, LockInv
  <2>3. entry \in 1 .. MAX_CREATED
    BY <2>2, TextsAre DEF DevInv
  <2>4. LEVELS \in Nat \ {0} /\ j \in Level /\ j \in 1 .. LEVELS
    BY <1>1, <2>1, Sizes DEF Follows, Position, Level
  <2>5. PICK line \in Line : line = TagLine(entry, j) /\ line = NextLine
    <3>1. NextLine = TagLine(entry, j)
      BY <2>1 DEF NextLine, TagLine
    <3>2. TagLine(entry, j) \in Line
      BY <2>3, <2>4, Sizes DEF TagLine, Line
    <3> QED
      BY <3>1, <3>2
  <2>6. PICK z \in Nat : z = LevelSize(entry) /\ LineSize(line) = z
    BY <2>3, <2>5, LevelSizeIs
  <2>7. PICK x \in Nat : x = Len(G[i - 1])
    BY <1>1, <2>2, TagInFile DEF DevInv
  <2>8. PICK y \in Nat : y = (j - 1) * z /\ y + z <= LEVELS * z /\ y + z = ((j + 1) - 1) * z
    <3>1. (j - 1) * z \in Nat /\ (j - 1) * z + z = j * z /\ j * z <= LEVELS * z
      <4>1. j * z <= LEVELS * z
        <5>1. PICK r \in Nat : LEVELS = j + r
          <6>1. LEVELS - j \in Nat /\ LEVELS = j + (LEVELS - j)
            BY <2>4
          <6> QED
            BY <6>1
        <5>2. (j + r) * z = j * z + r * z /\ r * z \in Nat /\ j * z \in Nat
          BY <2>4
        <5> QED
          BY <5>1, <5>2
      <4>2. (j - 1) * z \in Nat /\ (j - 1) * z + z = j * z
        BY <2>4
      <4> QED
        BY <4>1, <4>2
    <3>2. (j + 1) - 1 = j
      BY <2>4
    <3> QED
      BY <3>1, <3>2
  <2>9. PICK w \in Nat : w = LEVELS * z
    BY <2>4
  <2>10. /\ x + (w + LINE) <= Len(G[MAX_TAGS]) /\ Len(G[MAX_TAGS]) \in Nat
         /\ \A c \in 1 .. (w + LINE) : G[MAX_TAGS][x + c] = TagText(entry)[c]
    BY <1>1, <2>2, <2>6, <2>7, <2>9, TagInFile DEF DevInv
  <2>11. \A c \in 1 .. z : TagText(entry)[y + c] = LineText(line)[c]
    <3>1. \A k \in Level : \A c \in 1 .. LevelSize(entry) :
            TagText(entry)[(k - 1) * LevelSize(entry) + c] = LineText(TagLine(entry, k))[c]
      BY <2>3, TagTextIs
    <3>2. \A c \in 1 .. z : TagText(entry)[(j - 1) * z + c] = LineText(TagLine(entry, j))[c]
      BY <2>4, <2>6, <3>1
    <3> QED
      BY <2>5, <2>8, <3>2
  <2>12. x + y \in Nat /\ (x + y) + z <= Len(G[MAX_TAGS])
    <3>1. y + z <= w
      BY <2>8, <2>9
    <3>2. x + (w + LINE) <= Len(G[MAX_TAGS]) /\ Len(G[MAX_TAGS]) \in Nat
      BY <2>10
    <3> QED
      BY <3>1, <3>2, Sizes
  <2>13. \A c \in 1 .. z : G[MAX_TAGS][(x + y) + c] = LineText(line)[c]
    <3> TAKE c \in 1 .. z
    <3>1. y + c \in 1 .. (w + LINE) /\ (x + y) + c = x + (y + c)
      BY <2>8, <2>9, Sizes
    <3> QED
      BY <2>10, <2>11, <3>1
  <2>14. /\ Len(text) + Len(G[b]) = 2 * LINE + (x + y)
         /\ ~Skippable /\ Skipped(G, b)
    <3>1. Len(text) + Len(G[b]) = 2 * LINE + x + y
      BY <1>1, <2>1, <2>6, <2>7, <2>8 DEF Follows, Position
    <3>2. 2 * LINE + x + y = 2 * LINE + (x + y)
      BY Sizes
    <3> QED
      BY <1>1, <2>1, <3>1, <3>2 DEF Follows, Position
  <2>15. Skipped(G, b)' /\ Len(text') + Len(G[b]) = 2 * LINE + ((x + y) + z)
    <3>1. AppendBuffer(line)
      BY <2>1, <2>5
    <3>2. pc # "idle" /\ UNCHANGED <<tags, relative_off, ret>> /\ line \in Line
      BY <2>1
    <3>3. PICK a \in Nat : a = x + y
      BY <2>12
    <3>4. /\ Len(text) + Len(G[b]) = 2 * LINE + a
          /\ a + LineSize(line) <= Len(G[MAX_TAGS])
          /\ \A c \in 1 .. LineSize(line) : G[MAX_TAGS][a + c] = LineText(line)[c]
      BY <2>6, <2>12, <2>13, <2>14, <3>3
    <3>5. Skipped(G, b)' /\ Len(text') + Len(G[b]) = 2 * LINE + (a + LineSize(line))
      BY <1>1, <2>14, <3>1, <3>2, <3>3, <3>4, OneMoreLine
    <3> QED
      BY <2>6, <3>3, <3>5
  <2>16. Len(text') + Len(G[b]) = 2 * LINE + x + (y + z)
    <3>1. 2 * LINE + ((x + y) + z) = 2 * LINE + x + (y + z)
      BY Sizes
    <3> QED
      BY <2>15, <3>1
  <2>17. /\ \/ pc' = "exit" /\ nbytes' > size + relative_off
            \/ pc' = "level" /\ j' = j + 1 /\ j < LEVELS
            \/ pc' = "divider" /\ ~(j < LEVELS)
         /\ UNCHANGED <<relative_off, size, i, entry>>
    BY DEF LevelLine
  <2>18. ~Skippable'
    BY <2>14, <2>17 DEF Skippable
  <2>19. Position(G, b)'
    <3>1. CASE pc' = "exit" /\ nbytes' > size + relative_off
      BY <2>17, <2>18, <3>1 DEF Position
    <3>2. CASE pc' = "level" /\ j' = j + 1 /\ j < LEVELS
      <4>1. j + 1 \in Level
        BY <2>4, <3>2 DEF Level
      <4>2. Len(text') + Len(G[b]) = 2 * LINE + Len(G[i' - 1]) + (j' - 1) * LevelSize(entry')
        BY <2>6, <2>7, <2>8, <2>16, <2>17, <3>2
      <4> QED
        BY <2>18, <3>2, <4>1, <4>2 DEF Position
    <3>3. CASE pc' = "divider" /\ ~(j < LEVELS)
      <4>1. (j + 1) - 1 = LEVELS
        BY <2>4, <3>3
      <4>2. Len(text') + Len(G[b]) = 2 * LINE + Len(G[i' - 1]) + LEVELS * LevelSize(entry')
        BY <2>6, <2>7, <2>8, <2>16, <2>17, <4>1
      <4> QED
        BY <2>18, <3>3, <4>2 DEF Position
    <3> QED
      BY <2>17, <3>1, <3>2, <3>3
  <2> QED
    BY <2>15, <2>19 DEF Follows
<1>2. UNCHANGED <<tags, quiet>> /\ pc # "idle" /\ pc' # "idle"
  BY DEF LevelLine
<1>3. \A G, b : IsFile(G) /\ Follows(G, b) => \E c : Follows(G, c)'
  BY <1>1
<1> QED
  BY <1>2, <1>3, OnFollows

(* So is the divider, the last one of its tag.                             *)
LEMMA EndFollows ==
    ASSUME DevInv, PieceInv, TagEnd
    PROVE  PieceInv'
<1>1. ASSUME NEW G, NEW b, IsFile(G), Follows(G, b) PROVE Follows(G, b)'
  <2>1. /\ pc = "divider" /\ AppendBuffer(Divider) /\ pc' = "tag" /\ i' = i + 1
        /\ UNCHANGED <<tags, relative_off, ret>>
    BY DEF TagEnd, NextTag, NextLine
  <2>2. i \in Desc /\ tags[i] = entry /\ entry # NoTag
    BY <2>1 DEF DevInv, LockInv
  <2>3. entry \in 1 .. MAX_CREATED
    BY <2>2, TextsAre DEF DevInv
  <2>4. Divider \in Line /\ LineSize(Divider) = LINE
    BY Sizes, LineSizeIs DEF Divider, NoTag, Line
  <2>5. PICK z \in Nat : z = LevelSize(entry)
    BY <2>3, LevelSizeIs
  <2>6. PICK x \in Nat : x = Len(G[i - 1])
    BY <1>1, <2>2, TagInFile DEF DevInv
  <2>7. PICK w \in Nat : w = LEVELS * z
    BY Sizes
  <2>8. /\ x + (w + LINE) <= Len(G[MAX_TAGS]) /\ Len(G[MAX_TAGS]) \in Nat
        /\ Len(G[i]) = x + (w + LINE)
        /\ \A c \in 1 .. (w + LINE) : G[MAX_TAGS][x + c] = TagText(entry)[c]
    BY <1>1, <2>2, <2>5, <2>6, <2>7, TagInFile DEF DevInv
  <2>9. \A c \in 1 .. LINE : TagText(entry)[w + c] = LineText(Divider)[c]
    BY <2>3, <2>5, <2>7, TagTextIs
  <2>10. x + w \in Nat /\ (x + w) + LINE = x + (w + LINE)
    BY Sizes
  <2>11. \A c \in 1 .. LINE : G[MAX_TAGS][(x + w) + c] = LineText(Divider)[c]
    <3> TAKE c \in 1 .. LINE
    <3>1. w + c \in 1 .. (w + LINE) /\ (x + w) + c = x + (w + c)
      BY Sizes
    <3> QED
      BY <2>8, <2>9, <3>1
  <2>12. /\ Len(text) + Len(G[b]) = 2 * LINE + (x + w)
         /\ ~Skippable /\ Skipped(G, b)
    <3>1. Len(text) + Len(G[b]) = 2 * LINE + x + w
      BY <1>1, <2>1, <2>5, <2>6, <2>7 DEF Follows, Position
    <3>2. 2 * LINE + x + w = 2 * LINE + (x + w)
      BY Sizes
    <3> QED
      BY <1>1, <2>1, <3>1, <3>2 DEF Follows, Position
  <2>13. Skipped(G, b)' /\ Len(text') + Len(G[b]) = 2 * LINE + Len(G[i])
    <3>1. PICK a \in Nat : a = x + w
      BY <2>10
    <3>2. /\ Len(text) + Len(G[b]) = 2 * LINE + a
          /\ a + LineSize(Divider) <= Len(G[MAX_TAGS])
          /\ \A c \in 1 .. LineSize(Divider) : G[MAX_TAGS][a + c] = LineText(Divider)[c]
      BY <2>4, <2>8, <2>10, <2>11, <2>12, <3>1
    <3>3. pc # "idle"
      BY <2>1
    <3>4. Skipped(G, b)' /\ Len(text') + Len(G[b]) = 2 * LINE + (a + LineSize(Divider))
      BY <1>1, <2>1, <2>4, <2>12, <3>2, <3>3, OneMoreLine
    <3> QED
      BY <2>4, <2>8, <2>10, <3>1, <3>4
  <2>14. i + 1 \in 1 .. (MAX_TAGS + 1) /\ (i + 1) - 1 = i
    BY <2>2, Sizes DEF Desc
  <2>15. Position(G, b)'
    BY <2>1, <2>12, <2>13, <2>14 DEF Position, Skippable
  <2> QED
    BY <2>13, <2>15 DEF Follows
<1>2. UNCHANGED <<tags, quiet>> /\ pc # "idle" /\ pc' # "idle"
  BY DEF TagEnd, NextTag
<1>3. \A G, b : IsFile(G) /\ Follows(G, b) => \E c : Follows(G, c)'
  BY <1>1
<1> QED
  BY <1>2, <1>3, OnFollows

(* The same piece of two texts, of which the second has x bytes more in    *)
(* front of it.                                                            *)
LEMMA PartSame ==
    ASSUME NEW t \in Seq(Byte), NEW u \in Seq(Byte),
           NEW o \in Nat, NEW n \in Nat, NEW x \in Nat,
           Len(t) + x <= Len(u),
           Len(t) + x = Len(u) \/ Len(t) > o + n
    PROVE  /\ Len(Part(t, o, n)) = Len(Part(u, o + x, n))
           /\ (\A m \in (o + 1) .. Len(t) : t[m] = u[m + x])
                 => Part(t, o, n) = Part(u, o + x, n)
<1>1. PICK p \in Nat : p = Len(t)
  OBVIOUS
<1>2. PICK q \in Nat : q = Len(u)
  OBVIOUS
<1>3. PICK o2 \in Nat : o2 = o + x
  OBVIOUS
<1>4. Avail(t, o) = (IF p > o THEN p - o ELSE 0) /\ Avail(u, o2) = (IF q > o2 THEN q - o2 ELSE 0)
  BY <1>1, <1>2 DEF Avail
<1>5. PICK a : a = Avail(t, o)
  OBVIOUS
<1>6. PICK b : b = Avail(u, o2)
  OBVIOUS
<1>7. a = (IF p > o THEN p - o ELSE 0) /\ b = (IF q > o2 THEN q - o2 ELSE 0)
  BY <1>4, <1>5, <1>6
<1>8. Least(n, a) = Least(n, b) /\ Least(n, a) <= a
  <2>1. p + x <= q /\ (p + x = q \/ p > o + n)
    BY <1>1, <1>2
  <2>2. a \in Nat /\ b \in Nat
    BY <1>7
  <2>3. CASE p + x = q
    BY <1>3, <1>7, <2>2, <2>3 DEF Least
  <2>4. CASE p > o + n
    <3>1. a > n /\ b > n
      BY <1>3, <1>7, <2>1, <2>4
    <3> QED
      BY <2>2, <3>1 DEF Least
  <2> QED
    BY <2>1, <2>3, <2>4
<1>9. PICK l : l = Least(n, a)
  OBVIOUS
<1>10. l \in Nat /\ Len(Part(t, o, n)) = l /\ Part(t, o, n) = [k \in 1 .. l |-> t[o + k]]
  BY <1>5, <1>9, PartIs
<1>11. Len(Part(u, o2, n)) = l /\ Part(u, o2, n) = [k \in 1 .. l |-> u[o2 + k]]
  <2>1. l = Least(n, Avail(u, o2))
    BY <1>6, <1>8, <1>9
  <2> QED
    BY <2>1, PartIs
<1>12. ASSUME \A m \in (o + 1) .. p : t[m] = u[m + x]
       PROVE  Part(t, o, n) = Part(u, o2, n)
  <2>1. \A k \in 1 .. l : t[o + k] = u[o2 + k]
    <3> TAKE k \in 1 .. l
    <3>1. l <= a
      BY <1>8, <1>9
    <3>2. o + k \in (o + 1) .. p /\ (o + k) + x = o2 + k
      BY <1>3, <1>7, <1>10, <3>1
    <3> QED
      BY <1>12, <3>2
  <2> QED
    BY <1>10, <1>11, <2>1
<1> QED
  BY <1>1, <1>3, <1>10, <1>11, <1>12

(* The file: the two lines on top, and behind them the tags.               *)
LEMMA FileBytes ==
    ASSUME TypeOK, NEW G, IsFile(G), FileText = Top \o G[MAX_TAGS]
    PROVE  /\ FileText \in Seq(Byte) /\ Len(FileText) = 2 * LINE + Len(G[MAX_TAGS])
           /\ \A m \in 1 .. (2 * LINE) : FileText[m] = Top[m]
           /\ \A m \in 1 .. Len(G[MAX_TAGS]) : FileText[2 * LINE + m] = G[MAX_TAGS][m]
<1>1. PICK h \in Seq(Byte) : h = Top /\ Len(h) = 2 * LINE
  BY TopIs
<1>2. MAX_TAGS \in 0 .. MAX_TAGS
  BY Sizes
<1>3. PICK g \in Seq(Byte) : g = G[MAX_TAGS]
  BY <1>2 DEF IsFile, IsCat
<1>4. h \o g \in Seq(Byte) /\ Len(h \o g) = Len(h) + Len(g)
  <2>1. h \in Seq(Byte) /\ g \in Seq(Byte)
    OBVIOUS
  <2>2. h \o g \in Seq(Byte)
    BY <2>1
  <2> QED
    BY <2>1, <2>2
<1>5. \A m \in 1 .. Len(h) : (h \o g)[m] = h[m]
  BY <1>1, <1>3
<1>6. \A m \in 1 .. Len(g) : (h \o g)[Len(h) + m] = g[m]
  BY <1>1, <1>3
<1> QED
  BY <1>1, <1>3, <1>4, <1>5, <1>6

(* The tags it has skipped are those that its offset says: as the number   *)
(* of tags grows along the descriptors, TAG_SIZE for each stays below the  *)
(* offset up to b and not behind it.                                       *)
LEMMA SkippedAre ==
    ASSUME DevInv, NEW G, NEW b, Follows(G, b), LoopDone
    PROVE  SkippedTags(ret.from) = Existing(b)
<1>1. /\ b \in 0 .. MAX_TAGS /\ (Existing(b) # {} => relative_off > 0)
      /\ relative_off = ret.from - Cardinality(Existing(b)) * TAG_SIZE
  BY DEF Follows, Skipped
<1>2. b = MAX_TAGS \/ ~Skippable
  <2>1. pc = "tag" /\ i \notin Desc => i - 1 = MAX_TAGS
    BY Sizes DEF Follows, Position, Desc
  <2> QED
    BY <2>1 DEF Follows, Position, LoopDone
<1>3. MAX_TAGS \in Nat /\ b \in Nat /\ b <= MAX_TAGS
  BY <1>1, Sizes
<1>4. PICK k \in Nat : k = Cardinality(Existing(b)) /\ IsFiniteSet(Existing(b))
  BY <1>1, TagsFinite
<1>5. PICK z \in Nat : z = TAG_SIZE
  BY Sizes DEF TAG_SIZE
<1>6. PICK o \in Nat : o = ret.from
  BY DEF DevInv, TypeOK
<1>7. PICK r \in Nat : r = relative_off
  BY DEF DevInv, TypeOK
<1>8. PICK w \in Nat : w = k * z
  OBVIOUS
<1>9. r = o - w
  BY <1>1, <1>4, <1>5, <1>6, <1>7, <1>8
<1>10. ASSUME NEW d \in Existing(MAX_TAGS), d <= b
       PROVE  Cardinality(Existing(d)) * TAG_SIZE < ret.from
  <2>1. d \in 1 .. MAX_TAGS /\ d \in 0 .. MAX_TAGS /\ tags[d] # NoTag
    BY <1>3 DEF Existing
  <2>2. Existing(d) \subseteq Existing(b) /\ d \in Existing(b)
    BY <1>3, <1>10, <2>1 DEF Existing
  <2>3. PICK c \in Nat : c = Cardinality(Existing(d)) /\ c <= k
    BY <1>4, <2>1, <2>2, FS_Subset, TagsFinite
  <2>4. c * z <= k * z
    <3>1. PICK e \in Nat : k = c + e
      <4>1. k - c \in Nat /\ k = c + (k - c)
        BY <2>3
      <4> QED
        BY <4>1
    <3>2. (c + e) * z = c * z + e * z /\ e * z \in Nat /\ c * z \in Nat
      OBVIOUS
    <3> QED
      BY <3>1, <3>2
  <2>5. PICK v \in Nat : v = c * z
    OBVIOUS
  <2>6. r > 0
    BY <1>1, <1>7, <2>2
  <2>7. v < o
    BY <1>8, <1>9, <2>4, <2>5, <2>6
  <2> QED
    BY <1>5, <1>6, <2>3, <2>5, <2>7
<1>11. ASSUME NEW d \in Existing(MAX_TAGS), d > b
       PROVE  ~(Cardinality(Existing(d)) * TAG_SIZE < ret.from)
  <2>1. d \in 1 .. MAX_TAGS /\ d \in 0 .. MAX_TAGS /\ tags[d] # NoTag /\ b # MAX_TAGS
    BY <1>3, <1>11 DEF Existing
  <2>2. Existing(b) \cup {d} \subseteq Existing(d) /\ d \notin Existing(b)
    BY <1>3, <1>11, <2>1 DEF Existing
  <2>3. Cardinality(Existing(b) \cup {d}) = k + 1
    BY <1>4, <2>2, FS_AddElement
  <2>4. PICK c \in Nat : c = Cardinality(Existing(d)) /\ k + 1 <= c
    BY <2>1, <2>2, <2>3, FS_Subset, TagsFinite
  <2>5. c * z >= k * z + z
    <3>1. PICK e \in Nat : c = (k + 1) + e
      <4>1. c - (k + 1) \in Nat /\ c = (k + 1) + (c - (k + 1))
        BY <2>4
      <4> QED
        BY <4>1
    <3>2. ((k + 1) + e) * z = (k * z + z) + e * z /\ e * z \in Nat /\ k * z \in Nat
      OBVIOUS
    <3> QED
      BY <3>1, <3>2
  <2>6. PICK v \in Nat : v = c * z
    OBVIOUS
  <2>7. ~(r > z)
    BY <1>2, <1>5, <1>7, <2>1 DEF Skippable
  <2>8. ~(v < o)
    BY <1>8, <1>9, <2>5, <2>6, <2>7
  <2> QED
    BY <1>5, <1>6, <2>4, <2>6, <2>8
<1>12. Existing(b) \subseteq Existing(MAX_TAGS)
  BY <1>3 DEF Existing
<1>13. \A d \in Existing(MAX_TAGS) : d <= b <=> d \in Existing(b)
  BY <1>3 DEF Existing
<1>14. \A d \in Existing(MAX_TAGS) : d <= b \/ d > b
  BY <1>3 DEF Existing
<1> QED
  BY <1>10, <1>11, <1>12, <1>13, <1>14 DEF SkippedTags

(* So the place of its offset is where the text begins that it has made.   *)
LEMMA PlaceIs ==
    ASSUME DevInv, NEW G, IsFile(G), NEW b, Follows(G, b), LoopDone
    PROVE  /\ Place(ret.from) = relative_off + Len(G[b])
           /\ ~InSkippedTag(ret.from) => Len(G[b]) = 0 \/ relative_off >= 2 * LINE
<1>1. /\ b \in 0 .. MAX_TAGS
      /\ relative_off = ret.from - Cardinality(Existing(b)) * TAG_SIZE
  BY DEF Follows, Skipped
<1>2. SkippedTags(ret.from) = Existing(b)
  BY SkippedAre
<1>3. PICK k \in Nat : k = Cardinality(Existing(b))
  BY <1>1, TagsFinite
<1>4. PICK c \in Nat : c = Cardinality(WideAmong(b))
  BY <1>1, TagsFinite
<1>5. PICK w \in Nat : w = k * TAG_SIZE
  BY Sizes DEF TAG_SIZE
<1>6. PICK v \in Nat : v = LEVELS * c
  BY Sizes
<1>7. Len(G[b]) = w + v
  BY <1>1, <1>3, <1>4, <1>5, <1>6, FileLength DEF DevInv
<1>8. relative_off \in Nat /\ ret.from \in Nat /\ relative_off = ret.from - w
  BY <1>1, <1>3, <1>5 DEF DevInv, TypeOK
<1>9. Place(ret.from) = ret.from + v
  BY <1>2, <1>4, <1>6 DEF Place, WideAmong
<1>10. Place(ret.from) = relative_off + Len(G[b])
  BY <1>7, <1>8, <1>9
<1>11. ASSUME ~InSkippedTag(ret.from) PROVE Len(G[b]) = 0 \/ relative_off >= 2 * LINE
  <2>1. Existing(b) = {} \/ ~(relative_off < Len(Top))
    BY <1>1, <1>2, <1>11 DEF InSkippedTag
  <2>2. CASE Existing(b) = {}
    <3>1. WideAmong(b) = {}
      BY <2>2 DEF WideAmong
    <3>2. k = 0 /\ c = 0
      BY <1>3, <1>4, <2>2, <3>1, FS_EmptySet
    <3>3. w = 0 /\ v = 0
      <4>1. TAG_SIZE \in Nat /\ LEVELS \in Nat
        BY Sizes DEF TAG_SIZE
      <4>2. 0 * TAG_SIZE = 0 /\ LEVELS * 0 = 0
        BY <4>1
      <4> QED
        BY <1>5, <1>6, <3>2, <4>2
    <3> QED
      BY <1>7, <3>3
  <2>3. CASE ~(relative_off < Len(Top))
    <3>1. ~(relative_off < 2 * LINE)
      BY <2>3, TopIs
    <3> QED
      BY <1>8, <3>1, Sizes
  <2> QED
    BY <2>1, <2>2, <2>3
<1> QED
  BY <1>10, <1>11

(* What is delivered is the part of the file at the place, although the    *)
(* skipped tags were never made and the rest of the file perhaps not.      *)
LEMMA DeliverRight ==
    ASSUME DevInv, PieceInv, Deliver
    PROVE  PieceInv'
<1>0. /\ UNCHANGED <<tags, size, quiet>> /\ pc' = "idle"
      /\ ret' = [ok |-> TRUE, from |-> ret.from, data |-> Part(text, relative_off, size)]
  BY DEF Deliver, Return
<1>1. CASE quiet = FALSE
  BY <1>0, <1>1, Disturbed
<1>2. CASE quiet
  <2>1. PICK G : IsFile(G) /\ FileText = Top \o G[MAX_TAGS]
    BY FileIs DEF DevInv
  <2>2. LoopDone /\ pc # "idle"
    BY DEF Deliver, LoopDone
  <2>3. PICK b : Follows(G, b)
    BY <1>2, <2>1, <2>2 DEF PieceInv
  <2>4. PICK u \in Seq(Byte) : u = FileText
    BY <2>1, FileBytes DEF DevInv
  <2>5. PICK t \in Seq(Byte) : t = text
    BY DEF DevInv, TypeOK
  <2>6. PICK o \in Nat : o = relative_off
    BY DEF DevInv, TypeOK
  <2>7. PICK n \in Nat : n = size
    BY DEF DevInv, TypeOK
  <2>8. PICK x \in Nat : x = Len(G[b])
    BY <2>1, <2>3, FileLengths DEF Follows, Skipped, DevInv
  <2>9. PICK e \in Nat : e = Len(G[MAX_TAGS])
    BY <2>1, FileLengths DEF DevInv
  <2>10. PICK L \in Nat : L = 2 * LINE
    BY Sizes
  <2>11. PICK p \in Nat : p = Len(t)
    OBVIOUS
  <2>12. /\ Len(u) = L + e /\ \A m \in 1 .. L : u[m] = Top[m]
         /\ \A m \in 1 .. e : u[L + m] = G[MAX_TAGS][m]
    BY <2>1, <2>4, <2>9, <2>10, FileBytes DEF DevInv
  <2>13. Copied(t, G, b)
    BY <2>3, <2>5 DEF Follows, Skipped
  <2>14. /\ p >= L /\ \A m \in 1 .. L : t[m] = Top[m]
         /\ p + x <= L + e
         /\ \A m \in 1 .. (p - L) : t[L + m] = G[MAX_TAGS][x + m]
    BY <2>8, <2>9, <2>10, <2>11, <2>13 DEF Copied
  <2>15. p + x = L + e \/ p > o + n
    <3>1. CASE pc = "tag" /\ i \notin Desc
      <4>1. i \in 1 .. (MAX_TAGS + 1) /\ Len(text) + Len(G[b]) = 2 * LINE + Len(G[i - 1])
        BY <2>3, <3>1 DEF Follows, Position
      <4>2. i - 1 = MAX_TAGS
        BY <3>1, <4>1, Sizes DEF Desc
      <4> QED
        BY <2>5, <2>8, <2>9, <2>10, <2>11, <4>1, <4>2
    <3>2. CASE pc = "exit"
      <4>1. nbytes > size + relative_off
        BY <2>3, <3>2 DEF Follows, Position
      <4>2. Len(text) = nbytes + 2 * LINE /\ nbytes \in Nat
        BY <2>2 DEF DevInv, CountInv, TypeOK
      <4>3. nbytes > n + o /\ p = nbytes + L
        BY <2>5, <2>6, <2>7, <2>10, <2>11, <4>1, <4>2
      <4> QED
        BY <4>2, <4>3
    <3> QED
      BY <2>2, <3>1, <3>2 DEF LoopDone
  <2>16. Place(ret.from) = o + x /\ (~InSkippedTag(ret.from) => x = 0 \/ o >= L)
    BY <2>1, <2>2, <2>3, <2>6, <2>8, <2>10, PlaceIs
  <2>17. /\ Len(Part(t, o, n)) = Len(Part(u, o + x, n))
         /\ (\A m \in (o + 1) .. Len(t) : t[m] = u[m + x])
               => Part(t, o, n) = Part(u, o + x, n)
    <3>1. Len(t) + x <= Len(u) /\ (Len(t) + x = Len(u) \/ Len(t) > o + n)
      BY <2>11, <2>12, <2>14, <2>15
    <3> QED
      BY <3>1, PartSame
  <2>18. ASSUME x = 0 \/ o >= L, NEW m \in (o + 1) .. p PROVE t[m] = u[m + x]
    <3>1. CASE m > L
      <4>1. PICK c \in 1 .. (p - L) : m = L + c
        <5>1. p >= L
          BY <2>14
        <5>2. m - L \in 1 .. (p - L) /\ m = L + (m - L)
          BY <3>1, <5>1
        <5> QED
          BY <5>2
      <4>2. p + x <= L + e /\ p >= L
        BY <2>14
      <4>3. x + c \in 1 .. e /\ m + x = L + (x + c)
        BY <4>1, <4>2
      <4>4. t[L + c] = G[MAX_TAGS][x + c]
        BY <2>14, <4>1
      <4>5. u[L + (x + c)] = G[MAX_TAGS][x + c]
        BY <2>12, <4>3
      <4> QED
        BY <4>1, <4>3, <4>4, <4>5
    <3>2. CASE ~(m > L)
      <4>1. m \in 1 .. L /\ x = 0 /\ m + x = m
        BY <2>18, <3>2
      <4> QED
        BY <2>12, <2>14, <4>1
    <3> QED
      BY <3>1, <3>2
  <2>19. Len(ret'.data) = Len(Part(FileText, Place(ret.from), size))
    BY <1>0, <2>4, <2>5, <2>6, <2>7, <2>16, <2>17
  <2>20. ~InSkippedTag(ret.from) => ret'.data = Part(FileText, Place(ret.from), size)
    BY <1>0, <2>4, <2>5, <2>6, <2>7, <2>11, <2>16, <2>17, <2>18
  <2>21. /\ ret'.from = ret.from /\ FileText' = FileText /\ size' = size
         /\ \A a : InSkippedTag(a)' <=> InSkippedTag(a)
         /\ \A a : Place(a)' = Place(a)
    BY <1>0, SameFile
  <2>22. PieceLength'
    BY <2>19, <2>21 DEF PieceLength
  <2>23. PieceOfFile'
    BY <2>20, <2>21 DEF PieceOfFile
  <2> QED
    BY <1>0, <2>22, <2>23 DEF PieceInv
<1>3. quiet \in BOOLEAN
  BY DEF DevInv, TypeOK
<1> QED
  BY <1>1, <1>2, <1>3

LEMMA PieceNext == DevInv /\ PieceInv /\ [Next]_vars => PieceInv'
<1> SUFFICES ASSUME DevInv, PieceInv, [Next]_vars PROVE PieceInv'
  OBVIOUS
<1>1. CASE \E d \in Desc : Create(d) \/ Delete(d)
  BY <1>1, Disturbed DEF Create, Delete
<1>2. CASE \E p \in 0 .. MAX_POS : Seek(p)
  BY <1>2, Disturbed DEF Seek
<1>3. CASE \E n \in ReadSizes : Start(n)
  BY <1>3, StartFollows
<1>4. CASE \E n \in ReadSizes : StartNoMemory(n)
  BY <1>4, Disturbed DEF StartNoMemory
<1>5. CASE TagIntr \/ LevelSkip \/ AppendNoMemory \/ DeliverFault
  BY <1>5, Disturbed DEF TagIntr, LevelSkip, AppendNoMemory, DeliverFault
<1>6. CASE TagAbsent
  BY <1>6, AbsentFollows
<1>7. CASE TagSkip
  BY <1>7, SkipFollows
<1>8. CASE TagEnter
  BY <1>8, EnterFollows
<1>9. CASE LevelLine
  BY <1>9, LevelFollows
<1>10. CASE TagEnd
  BY <1>10, EndFollows
<1>11. CASE Deliver
  BY <1>11, DeliverRight
<1>12. CASE UNCHANGED vars
  <2>1. UNCHANGED <<tags, pc, i, j, entry, size, relative_off, text, nbytes, ret, quiet>>
    BY <1>12 DEF vars, scan
  <2>2. /\ \A G : IsFile(G)' <=> IsFile(G)
        /\ FileText' = FileText
        /\ \A b : Existing(b)' = Existing(b)
        /\ \A o : InSkippedTag(o)' <=> InSkippedTag(o)
        /\ \A o : Place(o)' = Place(o)
    BY <2>1, SameFile
  <2>3. \A G, b : Follows(G, b)' <=> Follows(G, b)
    BY <2>1, <2>2 DEF Follows, Skipped, Position, Skippable
  <2>4. PieceOfFile' /\ PieceLength'
    BY <2>1, <2>2 DEF PieceInv, PieceOfFile, PieceLength, ReadDone
  <2> QED
    BY <2>1, <2>2, <2>3, <2>4 DEF PieceInv
<1> QED
  BY <1>1, <1>2, <1>3, <1>4, <1>5, <1>6, <1>7, <1>8, <1>9, <1>10, <1>11, <1>12
     DEF Next

LEMMA PieceInvariant == Spec => []PieceInv
<1>1. Init => PieceInv
  BY DEF Init, PieceInv, PieceOfFile, PieceLength, ReadDone
<1> QED
  BY DevInvariant, <1>1, PieceNext, PTL DEF Spec

(* For every number of tags and levels, every length of a line and every   *)
(* euid: a dev_read that nothing disturbs returns the bytes of the file at *)
(* the place of its offset, which is the offset itself unless it skips a   *)
(* tag with a wide euid, whatever tags it skipped and wherever it stopped, *)
(* but for the offsets in the last two lines of a skipped tag.             *)
THEOREM PiecesAreOfTheFile == Spec => []PieceOfFile
<1>1. PieceInv => PieceOfFile
  BY DEF PieceInv
<1> QED
  BY PieceInvariant, <1>1, PTL

(* It returns as many as the file has there, up to what it was asked for,  *)
(* at those offsets too.                                                   *)
THEOREM PiecesAreLongEnough == Spec => []PieceLength
<1>1. PieceInv => PieceLength
  BY DEF PieceInv
<1> QED
  BY PieceInvariant, <1>1, PTL
=============================================================================
