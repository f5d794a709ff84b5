------------------------------ MODULE DevRead ------------------------------
(***************************************************************************)
(* tag-dev-driver.c: reading /dev/tag_info.  The text of the device is     *)
(* made anew by every dev_read, from the tags that exist at that moment;   *)
(* the file offset says which part of it the caller gets.                  *)
(*                                                                         *)
(* A line is known by the tag and level it is about, a byte by its line    *)
(* and column.  Keys, levels and counts of waiting threads are not         *)
(* negative and fit their field of ten characters; an euid, which is       *)
(* unsigned and printed as an int, may need eleven, and its line is then   *)
(* longer than LINE.  One reader suffices: dev_read keeps everything in    *)
(* locals but the offset, which the kernel guards per open file.  Tags are *)
(* created and deleted meanwhile.                                          *)
(***************************************************************************)
EXTENDS Integers, Sequences, FiniteSets

Seqs == INSTANCE SequencesExt

CONSTANTS
    MAX_TAGS,       \* number of descriptors
    LEVELS,         \* levels of a tag
    LINE,           \* bytes of a line: LINE_SIZE + 1 (54 in the code)
    FIELD,          \* characters of a field of a line, as in "%10d"
    UID_BITS,       \* bits of a uid_t and of an int (32)
    CHAR_BLOCK,     \* bytes by which the buffer grows (a page)
    ReadSizes,      \* values of dev_read's size
    MAX_POS,        \* bound on the offsets that are asked for
    MAX_CREATED,    \* bound on the tags that are ever created
    Euid            \* euid of each of them

ASSUME DevReadAssumption ==
    /\ {MAX_TAGS, LEVELS, LINE, FIELD, UID_BITS} \subseteq Nat \ {0}
    /\ FIELD < LINE /\ 2 ^ (UID_BITS - 1) <= 10 ^ FIELD
    /\ CHAR_BLOCK \in Nat /\ 2 * LINE < CHAR_BLOCK
    /\ ReadSizes \subseteq Nat \ {0}
    /\ MAX_POS \in Nat /\ MAX_CREATED \in Nat
    /\ Euid \in [1 .. MAX_CREATED -> 0 .. (2 ^ UID_BITS - 1)]

VARIABLES
    tags,       \* tags[d]: which tag ever created it is, or NoTag
    created,    \* how many were ever created
    f_pos,      \* offset of the open file
    pc,         \* where dev_read is
    i, j,       \* its loop indices
    entry,      \* tag_entry
    size,       \* its argument
    relative_off, text, nbytes, curr_block,     \* its locals
    locked,     \* the tag_lock that dev_read holds
    held,       \* what it has allocated
    ret,        \* the last call: offset it began at, and bytes or failure
    quiet       \* history: nothing disturbed the current or last dev_read

scan == <<i, j, entry, relative_off, text, nbytes, curr_block>>
vars == <<tags, created, f_pos, pc, scan, size, locked, held, ret, quiet>>

NoTag == 0
Desc == 1 .. MAX_TAGS
Level == 1 .. LEVELS

(* Mutant: the divider below the levels is forgotten. *)
TAG_SIZE_Levels == LINE * LEVELS

TAG_SIZE == LINE * (LEVELS + 1)

(* The value of an int to which the uid_t u is assigned.                   *)
Signed(u) == IF u < 2 ^ (UID_BITS - 1) THEN u ELSE u - 2 ^ UID_BITS

(* Characters that the field's format makes of the int v: a negative       *)
(* number with as many digits as the field has characters needs one more.  *)
Width(v) == IF v > -(10 ^ (FIELD - 1)) THEN FIELD ELSE FIELD + 1

IsWide(g) == Width(Signed(Euid[g])) > FIELD

Header  == [tag |-> NoTag, level |-> 0]
Divider == [tag |-> NoTag, level |-> 1]

LineSize(line) ==
    IF line.tag = NoTag THEN LINE ELSE LINE - FIELD + Width(Signed(Euid[line.tag]))

LineText(line) == [c \in 1 .. LineSize(line) |-> <<line, c>>]

Top == LineText(Header) \o LineText(Divider)

(* At most n bytes of the text t from byte o on. *)
Part(t, o, n) ==
    LET avail == IF Len(t) > o THEN Len(t) - o ELSE 0 IN
    [k \in 1 .. (IF n > avail THEN avail ELSE n) |-> t[o + k]]

Init ==
    /\ tags = [d \in Desc |-> NoTag] /\ created = 0
    /\ f_pos = 0 /\ pc = "idle"
    /\ i = 0 /\ j = 0 /\ entry = NoTag /\ size = 0
    /\ relative_off = 0 /\ text = <<>> /\ nbytes = 0 /\ curr_block = 0
    /\ locked = {} /\ held = {} /\ ret = [ok |-> TRUE, from |-> 0, data |-> <<>>]
    /\ quiet = FALSE

-----------------------------------------------------------------------------
(* The other calls, as far as dev_read sees them: tag_get publishes an     *)
(* entry without a lock, DELETE needs tag_lock in write mode.              *)
Create(d) ==
    /\ tags[d] = NoTag /\ created < MAX_CREATED
    /\ tags' = [tags EXCEPT ![d] = created + 1] /\ created' = created + 1
    /\ quiet' = FALSE
    /\ UNCHANGED <<f_pos, pc, scan, size, locked, held, ret>>

Delete(d) ==
    /\ tags[d] # NoTag /\ d \notin locked
    /\ tags' = [tags EXCEPT ![d] = NoTag]
    /\ quiet' = FALSE
    /\ UNCHANGED <<created, f_pos, pc, scan, size, locked, held, ret>>

(* dev_llseek with SEEK_SET, and with SEEK_CUR, where newpos is whatever   *)
(* was on the stack.  A negative position is refused, and SEEK_END leaves  *)
(* the offset alone.                                                       *)
Seek(p) ==
    /\ pc = "idle"
    /\ f_pos' = p /\ size' = 0
    /\ ret' = [ok |-> TRUE, from |-> p, data |-> <<>>] /\ quiet' = FALSE
    /\ UNCHANGED <<tags, created, pc, scan, locked, held>>

-----------------------------------------------------------------------------
(* dev_read.  The loop over the tags is at tag i when pc is "tag", inside  *)
(* tag i at level j when pc is "level", behind its last level when pc is   *)
(* "divider".                                                              *)
Start(n) ==
    /\ pc = "idle"
    /\ pc' = "tag" /\ i' = 1 /\ j' = 0 /\ entry' = NoTag
    /\ size' = n /\ relative_off' = f_pos
    /\ text' = Top /\ nbytes' = 0 /\ curr_block' = 1
    /\ held' = {"buffer", "divider"}
    /\ ret' = [ok |-> TRUE, from |-> f_pos, data |-> <<>>] /\ quiet' = TRUE
    /\ UNCHANGED <<tags, created, f_pos, locked>>

(* The locals are dead once dev_read has returned. *)
Return(r) ==
    /\ pc' = "idle" /\ i' = 0 /\ j' = 0 /\ entry' = NoTag
    /\ relative_off' = 0 /\ text' = <<>> /\ nbytes' = 0 /\ curr_block' = 0
    /\ ret' = r
    /\ UNCHANGED <<tags, created, size>>

Failed == [ok |-> FALSE, from |-> ret.from, data |-> <<>>]

(* vzalloc or kzalloc fails before the loop: what was allocated is freed.  *)
StartNoMemory(n) ==
    /\ pc = "idle"
    /\ ret' = [ok |-> FALSE, from |-> f_pos, data |-> <<>>] /\ size' = n
    /\ quiet' = FALSE
    /\ UNCHANGED <<tags, created, f_pos, pc, scan, locked, held>>

NextTag ==
    /\ pc' = "tag" /\ i' = i + 1 /\ j' = 0 /\ entry' = NoTag
    /\ UNCHANGED <<tags, created, f_pos, size, ret>>

AtTag == pc = "tag" /\ i \in Desc

(* Line 176: the wait for tag_lock is interrupted; the tag is left out. *)
TagIntr ==
    /\ AtTag
    /\ NextTag /\ quiet' = FALSE
    /\ UNCHANGED <<relative_off, text, nbytes, curr_block, locked, held>>

TagAbsent ==
    /\ AtTag /\ tags[i] = NoTag
    /\ NextTag
    /\ UNCHANGED <<relative_off, text, nbytes, curr_block, locked, held, quiet>>

(* Mutant: any offset that is not 0 skips the tag. *)
SkippableAny == relative_off > 0

(* Mutant: >= for >. *)
SkippableEqual == relative_off >= TAG_SIZE

Skippable == relative_off > TAG_SIZE

(* The whole tag is taken to lie before the offset. *)
TagSkip ==
    /\ AtTag /\ tags[i] # NoTag /\ Skippable
    /\ NextTag /\ relative_off' = relative_off - TAG_SIZE
    /\ UNCHANGED <<text, nbytes, curr_block, locked, held, quiet>>

(* Mutant: tag_lock is given back once key and owner are read. *)
TagEnterUnlocked ==
    /\ AtTag /\ tags[i] # NoTag /\ ~Skippable
    /\ pc' = "level" /\ j' = 1 /\ entry' = tags[i]
    /\ UNCHANGED <<tags, created, f_pos, i, size, relative_off, text,
                   nbytes, curr_block, locked, held, ret, quiet>>

TagEnter ==
    /\ AtTag /\ tags[i] # NoTag /\ ~Skippable
    /\ pc' = "level" /\ j' = 1 /\ entry' = tags[i]
    /\ locked' = locked \cup {i}
    /\ UNCHANGED <<tags, created, f_pos, i, size, relative_off, text,
                   nbytes, curr_block, held, ret, quiet>>

(* append_buffer grows the buffer by one block when nbytes, which leaves   *)
(* the header out, is more than the blocks hold.                           *)
Full(n) == n > CHAR_BLOCK * curr_block

(* Mutant: the number of blocks is not kept. *)
BlocksKept(n) == curr_block

BlocksFor(n) == IF Full(n) THEN curr_block + 1 ELSE curr_block

AppendBuffer(line) ==
    /\ text' = text \o LineText(line)
    /\ nbytes' = nbytes + LineSize(line)
    /\ curr_block' = BlocksFor(nbytes + LineSize(line))

NextLine == IF pc = "level" THEN [tag |-> entry, level |-> j] ELSE Divider

(* Lines 233-269: the line of level j, after which the loop is left when   *)
(* the caller can get no more.                                             *)
LevelLine ==
    /\ pc = "level"
    /\ AppendBuffer(NextLine)
    /\ IF nbytes' > size + relative_off
          THEN pc' = "exit" /\ locked' = locked \ {i} /\ UNCHANGED j
          ELSE /\ IF j < LEVELS THEN pc' = "level" /\ j' = j + 1
                                ELSE pc' = "divider" /\ UNCHANGED j
               /\ UNCHANGED locked
    /\ UNCHANGED <<tags, created, f_pos, i, entry, size, relative_off,
                   held, ret, quiet>>

(* Lines 208, 221, 236: a wait is interrupted or there is no memory for    *)
(* the line; the level is left out.                                        *)
LevelSkip ==
    /\ pc = "level"
    /\ IF j < LEVELS THEN j' = j + 1 /\ UNCHANGED pc
                     ELSE pc' = "divider" /\ UNCHANGED j
    /\ quiet' = FALSE
    /\ UNCHANGED <<tags, created, f_pos, i, entry, size, relative_off, text,
                   nbytes, curr_block, locked, held, ret>>

TagEnd ==
    /\ pc = "divider"
    /\ AppendBuffer(NextLine)
    /\ NextTag /\ locked' = locked \ {i}
    /\ UNCHANGED <<relative_off, held, quiet>>

(* Mutant: as on the other error returns, only memory is given back. *)
AppendNoMemoryLocked ==
    /\ pc \in {"level", "divider"} /\ Full(nbytes + LineSize(NextLine))
    /\ held' = held \ {"buffer", "divider"}
    /\ Return(Failed) /\ quiet' = FALSE
    /\ UNCHANGED <<f_pos, locked>>

(* append_buffer frees the buffer when it cannot grow it. *)
AppendNoMemory ==
    /\ pc \in {"level", "divider"} /\ Full(nbytes + LineSize(NextLine))
    /\ locked' = locked \ {i} /\ held' = held \ {"buffer", "divider"}
    /\ Return(Failed) /\ quiet' = FALSE
    /\ UNCHANGED f_pos

LoopDone == pc = "exit" \/ (pc = "tag" /\ i \notin Desc)

(* Lines 287-323: nothing when the offset is behind the text. *)
Deliver ==
    /\ LoopDone
    /\ LET data == Part(text, relative_off, size) IN
        /\ f_pos' = f_pos + Len(data)
        /\ Return([ok |-> TRUE, from |-> ret.from, data |-> data])
    /\ held' = held \ {"buffer", "divider"}
    /\ UNCHANGED <<locked, quiet>>

(* copy_to_user fails. *)
DeliverFault ==
    /\ LoopDone /\ Len(text) > relative_off
    /\ held' = held \ {"buffer", "divider"}
    /\ Return(Failed) /\ quiet' = FALSE
    /\ UNCHANGED <<f_pos, locked>>

Next ==
    \/ \E d \in Desc : Create(d) \/ Delete(d)
    \/ \E p \in 0 .. MAX_POS : Seek(p)
    \/ \E n \in ReadSizes : Start(n) \/ StartNoMemory(n)
    \/ TagIntr \/ TagAbsent \/ TagSkip \/ TagEnter
    \/ LevelLine \/ LevelSkip \/ TagEnd \/ AppendNoMemory
    \/ Deliver \/ DeliverFault

Spec == Init /\ [][Next]_vars

-----------------------------------------------------------------------------
Line == [tag : 0 .. MAX_CREATED, level : 0 .. LEVELS]
Byte == Line \X (1 .. (LINE + 1))

TypeOK ==
    /\ tags \in [Desc -> 0 .. MAX_CREATED] /\ created \in 0 .. MAX_CREATED
    /\ f_pos \in Nat /\ size \in Nat
    /\ pc \in {"idle", "tag", "level", "divider", "exit"}
    /\ i \in 0 .. MAX_TAGS + 1 /\ j \in 0 .. LEVELS
    /\ entry \in 0 .. MAX_CREATED
    /\ relative_off \in Nat /\ nbytes \in Nat /\ curr_block \in Nat
    /\ text \in Seq(Byte)
    /\ locked \subseteq Desc /\ held \subseteq {"buffer", "divider"}
    /\ ret.ok \in BOOLEAN /\ ret.from \in Nat
    /\ quiet \in BOOLEAN

(* The file that the device shows: the header, then every tag in the order *)
(* of the descriptors, a line for each level and a divider.                *)
TagText(g) ==
    Seqs!FlattenSeq([k \in Level |-> LineText([tag |-> g, level |-> k])])
        \o LineText(Divider)

FileText ==
    Top \o Seqs!FlattenSeq(
        [d \in Desc |-> IF tags[d] = NoTag THEN <<>> ELSE TagText(tags[d])])

(* The last call was a dev_read and nothing disturbed it, nor happened     *)
(* since that changes the file.                                            *)
ReadDone == pc = "idle" /\ quiet /\ ret.ok

(* The tags that dev_read skips for offset o: as many as TAG_SIZE goes     *)
(* into it.                                                                *)
Existing(d) == {e \in 1 .. d : tags[e] # NoTag}
SkippedTags(o) ==
    {d \in Existing(MAX_TAGS) : Cardinality(Existing(d)) * TAG_SIZE < o}

(* Offsets at which a tag is skipped although its last bytes are asked     *)
(* for: the offset counts the two lines on top, the tag size does not.     *)
InSkippedTag(o) ==
    /\ SkippedTags(o) # {}
    /\ o - Cardinality(SkippedTags(o)) * TAG_SIZE < Len(Top)

(* Where in the file dev_read begins when it is asked for offset o: behind *)
(* o by the bytes that the skipped tags have more than TAG_SIZE, one for   *)
(* each line with a wide euid.                                             *)
Place(o) == o + LEVELS * Cardinality({d \in SkippedTags(o) : IsWide(tags[d])})

(* A dev_read that is not disturbed returns the bytes of the file at its   *)
(* Place, which is its offset as long as no skipped tag has a wide euid,   *)
(* wherever the piece begins and ends, but for pieces that begin in the    *)
(* last two lines of a skipped tag: reading in pieces then gives the file. *)
PieceOfFile ==
    ReadDone /\ ~InSkippedTag(ret.from) => ret.data = Part(FileText, Place(ret.from), size)

(* It never returns less than it was asked for before the end of the file, *)
(* and nothing behind it, at any offset: a reader that goes on until 0     *)
(* comes back misses the bytes that Place jumps over, and no others.       *)
PieceLength ==
    ReadDone => Len(ret.data) = Len(Part(FileText, Place(ret.from), size))

(* append_buffer does not write past the buffer.  nbytes leaves out the    *)
(* two lines on top, so the text may be longer than the CHAR_BLOCK *       *)
(* curr_block + 1 bytes that were asked for, but vzalloc gives whole pages *)
(* and the extra byte brings a page more.                                  *)
BufferFits == Len(text) + 1 <= CHAR_BLOCK * (curr_block + 1)

(* On each of its returns dev_read has freed its buffers and given back    *)
(* tag_lock.                                                               *)
NothingHeld == pc = "idle" => held = {} /\ locked = {}

(* The tag whose levels are being read is not deleted meanwhile, and its   *)
(* descriptor not given to another tag.                                    *)
ReadsLiveTag == pc \in {"level", "divider"} => tags[i] = entry /\ entry # NoTag
=============================================================================
