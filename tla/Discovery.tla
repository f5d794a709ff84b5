----------------------------- MODULE Discovery -----------------------------
(***************************************************************************)
(* scth_discovery and ptexplorer: SCTH finds the system call table by      *)
(* reading the mapped pages of the kernel byte by byte, from the lowest    *)
(* address, until the words at the indexes of the free entries are equal   *)
(* pointers and none of those before them is.                              *)
(*                                                                         *)
(* Addresses count from START_ADDR, a page is its number.  A memory says   *)
(* how each page is translated, where the table is, and where another      *)
(* array of equal pointers is that may look like the end of a table.  The  *)
(* value of a word is a number that only equality and Fits look at.        *)
(***************************************************************************)
EXTENDS Integers, Sequences

CONSTANTS
    NI,         \* ni_syscall: indexes of the free entries, increasing
    Entries,    \* entries of the table
    WORD,       \* bytes of a pointer (8)
    PAGE,       \* PAGE_SIZE_DEF
    Pages,      \* pages from START_ADDR to END_ADDR
    Walks,      \* translations that occur
    Arrays      \* arrays of equal pointers that occur: [at, len]

ASSUME DiscoveryAssumption ==
    /\ NI \in Seq(Nat \ {0}) /\ Len(NI) > 1 /\ NI[1] > 1
    /\ \A i, k \in 1 .. Len(NI) : i < k => NI[i] < NI[k]
    /\ NI[Len(NI)] < Entries /\ Entries * WORD <= PAGE
    /\ {Entries, WORD, PAGE, Pages} \subseteq Nat \ {0}
    /\ Arrays \subseteq [at : Nat, len : Nat]

FREE_ENTRIES == Len(NI)
LastNI == NI[FREE_ENTRIES]
NiIndex == {NI[i] : i \in 1 .. FREE_ENTRIES}
Page == 0 .. (Pages - 1)
PageOf(a) == a \div PAGE

(* Values of words.  Other system calls have addresses of their own. *)
NoPointer == 0
OtherPointer == 1
NiAddress == 2      \* sys_ni_syscall
CallAddress(i) == 3 + i

-----------------------------------------------------------------------------
(* get_phys_frame walks PML4, PDP, PD and PT, where an entry leads to the  *)
(* next table, is a large page, or is not present.                         *)
Translation == {
    <<"absent">>,
    <<"table", "absent">>, <<"table", "large">>,
    <<"table", "table", "absent">>, <<"table", "table", "large">>,
    <<"table", "table", "table", "absent">>, <<"table", "table", "table", "page">>}

(* Whether the processor can read the page. *)
Readable(mem, p) == p \in Page /\ mem.walk[p][Len(mem.walk[p])] # "absent"

(* get_phys_frame # -1.  A large page of 1 GB is taken for not mapped. *)
HasFrame(mem, p) == Readable(mem, p) /\ Len(mem.walk[p]) > 2

-----------------------------------------------------------------------------
(* Some of len words from byte base on begins at byte a; which one.        *)
BeginsIn(base, len, a) == (a - base) % WORD = 0 /\ (a - base) \div WORD \in 0 .. (len - 1)
IndexIn(base, a) == (a - base) \div WORD

(* The word that begins at byte a.  Outside of table and array there are   *)
(* no pointers, nor is one made of parts of two words: functions are       *)
(* aligned, so that the low byte of the second one, which is the high byte *)
(* then, is not 0xff.                                                      *)
Word(mem, a) ==
    CASE BeginsIn(mem.at, Entries, a) ->
            IF IndexIn(mem.at, a) \in NiIndex
               THEN NiAddress ELSE CallAddress(IndexIn(mem.at, a))
      [] BeginsIn(mem.array.at, mem.array.len, a) -> OtherPointer
      [] OTHER -> NoPointer

(* Aligned to 4, not null, above START_ADDR. *)
Fits(v) == v # NoPointer

(* Mutant: the words before the first free entry are not looked at. *)
PatternNoCheck(mem, offs) ==
    LET first == Word(mem, offs + NI[1] * WORD) IN
    /\ Fits(first)
    /\ \A i \in 2 .. FREE_ENTRIES : Word(mem, offs + NI[i] * WORD) = first

(* The checks of syscall_table_pattern at byte offs. *)
Pattern(mem, offs) ==
    LET first == Word(mem, offs + NI[1] * WORD) IN
    /\ Fits(first)
    /\ \A i \in 2 .. FREE_ENTRIES : Word(mem, offs + NI[i] * WORD) = first
    /\ \A j \in 1 .. (NI[1] - 1) : Word(mem, offs + j * WORD) # first

(* Mutant: the next page is not looked up. *)
BlockedNever(mem, offs) == FALSE

(* The last free entry would begin on the next page, which is not mapped:  *)
(* the rest of this page is given up.                                      *)
Blocked(mem, offs) ==
    LET last == PageOf(offs + LastNI * WORD) IN
    last = PageOf(offs) + 1 /\ ~HasFrame(mem, last)

(* The bytes of page p at which the pattern is looked for, unless it is    *)
(* found before.                                                           *)
Tried(mem, p) ==
    {o \in p * PAGE .. (p * PAGE + PAGE - 1) : \A b \in p * PAGE .. o : ~Blocked(mem, b)}

Scanned(mem) == UNION {Tried(mem, p) : p \in {q \in Page : HasFrame(mem, q)}}

(* find_syscall_table: the address of the table, or NotFound (the null     *)
(* pointer in the code).                                                   *)
NotFound == -1
Lowest(S) == IF S = {} THEN NotFound ELSE CHOOSE o \in S : \A b \in S : o <= b

find_syscall_table(mem) == Lowest({o \in Scanned(mem) : Pattern(mem, o)})

(* First bytes of the words that the scan may read. *)
Reads(mem) ==
    LET addr == find_syscall_table(mem) IN
    {o + k * WORD : o \in {b \in Scanned(mem) : addr # NotFound => b <= addr},
                    k \in 1 .. LastNI}

-----------------------------------------------------------------------------
(* Where the words that the pattern looks at lie, seen from byte o. *)
PagesFrom(o) == PageOf(o) .. PageOf(o + LastNI * WORD)

(* The memories the kernel may run with: the processor can read the table, *)
(* and the array is somewhere else.                                        *)
Memory ==
    {mem \in [walk : [Page -> Walks], at : 0 .. (Pages * PAGE - Entries * WORD), array : Arrays] :
        /\ mem.at % WORD = 0 /\ mem.array.at % WORD = 0
        /\ \A p \in PagesFrom(mem.at) : Readable(mem, p)
        /\ \/ mem.array.at + mem.array.len * WORD <= mem.at
           \/ mem.at + Entries * WORD <= mem.array.at}

(* Where a table would begin whose free entries are in the array, from its *)
(* first pointer on: the scan cannot tell it from the table, if the array  *)
(* is long enough.                                                         *)
LookAlike(mem) == mem.array.at - NI[1] * WORD
Candidates(mem) ==
    {mem.at} \cup {o \in {LookAlike(mem)} : mem.array.len > LastNI - NI[1]}

(* get_phys_frame sees the page of o, and that of the last word from there.*)
Visible(mem, o) == \A p \in PagesFrom(o) : HasFrame(mem, p)

(* What is found is the table or what looks like it, whichever comes first *)
(* among those that get_phys_frame sees, and never anything else.          *)
FindsFirst(mem) ==
    find_syscall_table(mem) = Lowest({o \in Candidates(mem) : Visible(mem, o)})

(* Every word that is read begins on a page that is mapped. *)
ReadsMapped(mem) == \A a \in Reads(mem) : Readable(mem, PageOf(a))
=============================================================================
