-------------------------- MODULE KeyStoreProofs ----------------------------
(***************************************************************************)
(* What TLAPS proves of KeyStore: the bitmask implements a pool of         *)
(* descriptors, the hash map a finite map, and both together, as tag_get   *)
(* and clear_tag_common drive them, the table of names.                    *)
(***************************************************************************)
EXTENDS HashmapProofs

-----------------------------------------------------------------------------
(* The bitmask                                                             *)

(* Division by the number of bits of a word. *)
LEMMA Division ==
    ASSUME NEW w \in Nat \ {0}, NEW n \in Nat
    PROVE  /\ n \div w \in Nat /\ n % w \in 0 .. (w - 1)
           /\ n = (n \div w) * w + (n % w)
  OBVIOUS

(* A number is in one word, at one bit. *)
LEMMA Unique ==
    ASSUME NEW w \in Nat \ {0}, NEW i \in Nat, NEW b \in 0 .. (w - 1),
           NEW j \in Nat, NEW c \in 0 .. (w - 1),
           i * w + b = j * w + c
    PROVE  i = j /\ b = c
  OBVIOUS

(* A later word has greater numbers. *)
LEMMA Monotone ==
    ASSUME NEW w \in Nat \ {0}, NEW i \in Nat, NEW j \in Nat, i < j
    PROVE  i * w + w <= j * w
  OBVIOUS

-----------------------------------------------------------------------------
(* No bit past number_bits is set: the last word may have some. *)
Bits == B!Bit
Words == B!Slot

PoolInv ==
    /\ n_bits \in Sizes
    /\ mask \in [Words -> SUBSET Bits]
    /\ \A i \in Words : \A b \in mask[i] : i * W + b < n_bits
    /\ tag_key \in Desc

(* Every number below MAX_TAGS is a descriptor. *)
LEMMA SizesAreDescriptors ==
    ASSUME NEW n \in Sizes
    PROVE  n \in Nat \ {0} /\ 0 .. (n - 1) \subseteq Desc /\ 0 \in Desc
  <1>1. MostDesc \in Sizes /\ \A m \in Sizes : m <= MostDesc
    BY KeyStoreAssumption DEF MostDesc
  <1>2. QED  BY <1>1, KeyStoreAssumption DEF Desc

(* initialize_bitmask allocates enough words for s bits, and only they     *)
(* have numbers below the number of words times that of bits.              *)
LEMMA WordsOf ==
    ASSUME NEW s \in Nat
    PROVE  /\ B!Slots(s) \in Nat
           /\ \A n \in Nat : n < s => n \div W < B!Slots(s)
           /\ \A n \in Nat : n < B!Slots(s) * W <=> n \div W < B!Slots(s)
  <1>w. W \in Nat \ {0}  BY KeyStoreAssumption
  <1>1. B!Slots(s) \in Nat /\ s <= B!Slots(s) * W
    <2>1. s \div W \in Nat /\ s % W \in 0 .. (W - 1) /\ s = (s \div W) * W + (s % W)
      BY <1>w, Division
    <2>2. PICK q \in Nat : q = s \div W  BY <2>1
    <2>3. PICK r \in 0 .. (W - 1) : r = s % W  BY <2>1
    <2>4. B!Slots(s) = q + (IF r # 0 THEN 1 ELSE 0)  BY <2>2, <2>3 DEF B!Slots
    <2>5. CASE r = 0  BY <2>1, <2>2, <2>3, <2>4, <2>5, <1>w
    <2>6. CASE r # 0
      <3>1. B!Slots(s) = q + 1 /\ s = q * W + r  BY <2>1, <2>2, <2>3, <2>4, <2>6
      <3>2. (q + 1) * W = q * W + W  BY <1>w
      <3>3. QED  BY <3>1, <3>2, <1>w
    <2>7. QED  BY <2>5, <2>6
  <1>2. ASSUME NEW n \in Nat
        PROVE  n < B!Slots(s) * W <=> n \div W < B!Slots(s)
    <2>1. n \div W \in Nat /\ n % W \in 0 .. (W - 1) /\ n = (n \div W) * W + (n % W)
      BY <1>w, Division
    <2>2. CASE n \div W < B!Slots(s)
      BY <2>1, <2>2, <1>w, <1>1, Monotone
    <2>3. CASE n \div W >= B!Slots(s)
      <3>1. PICK q \in Nat : q = n \div W  BY <2>1
      <3>2. CASE q = B!Slots(s)
        BY <3>1, <3>2, <2>1, <1>w, <1>1
      <3>3. CASE q > B!Slots(s)
        <4>1. B!Slots(s) * W + W <= q * W  BY <3>3, <1>w, <1>1, Monotone
        <4>2. QED  BY <4>1, <3>1, <3>3, <2>1, <1>w, <1>1
      <3>4. QED  BY <3>1, <3>2, <3>3, <2>3, <1>1
    <2>4. QED  BY <2>1, <2>2, <2>3, <1>1
  <1>3. QED  BY <1>1, <1>2, <1>w

(* A number is in use if its bit is set; all of these are below            *)
(* number_bits.                                                            *)
LEMMA InUseIs ==
    PoolInv =>
        /\ \A n \in Nat : n \in B!InUse <=>
                n \div W \in Words /\ n % W \in mask[n \div W]
        /\ B!InUse \subseteq 0 .. (n_bits - 1)
        /\ \A n \in 0 .. (n_bits - 1) : n \div W \in Words
  <1> SUFFICES ASSUME PoolInv PROVE InUseIs!2
    OBVIOUS
  <1>w. W \in Nat \ {0}  BY KeyStoreAssumption
  <1>s. n_bits \in Nat  BY KeyStoreAssumption DEF PoolInv
  <1>1. ASSUME NEW n \in Nat
        PROVE  /\ n \in 0 .. (B!Slots(n_bits) * W - 1) <=> n \div W \in Words
               /\ n < n_bits => n \div W \in Words
    <2>1. n \div W \in Nat  BY <1>w, Division
    <2>2. PICK k \in Nat : k = B!Slots(n_bits)  BY <1>s, WordsOf
    <2>3. PICK q \in Nat : q = n \div W  BY <2>1
    <2>4. n < n_bits => q < k  BY <1>s, WordsOf, <2>2, <2>3
    <2>5. n < k * W <=> q < k  BY <1>s, WordsOf, <2>2, <2>3
    <2>6. Words = 0 .. (k - 1)  BY <2>2 DEF Words, B!Slot
    <2>7. k * W \in Nat  BY <1>w
    <2>8. n \in 0 .. (k * W - 1) <=> n < k * W  BY <2>7
    <2>9. q \in Words <=> q < k  BY <2>6
    <2>10. QED  BY <2>2, <2>3, <2>4, <2>5, <2>8, <2>9
  <1>2. ASSUME NEW n \in Nat
        PROVE  n \in B!InUse <=> n \div W \in Words /\ n % W \in mask[n \div W]
    BY <1>1 DEF B!InUse
  <1>3. B!InUse \subseteq Nat  BY <1>s, <1>w, WordsOf DEF B!InUse
  <1>4. ASSUME NEW n \in B!InUse PROVE n \in 0 .. (n_bits - 1)
    <2>1. n \in Nat /\ n \div W \in Words /\ n % W \in mask[n \div W]  BY <1>2, <1>3
    <2>2. (n \div W) * W + (n % W) < n_bits  BY <2>1 DEF PoolInv
    <2>3. QED  BY <2>1, <2>2, <1>w, <1>s, Division
  <1>5. QED  BY <1>1, <1>2, <1>4, <1>s


(* One bit of one word is the number at that place and no other. *)
LEMMA Flipped ==
    ASSUME PoolInv, PoolInv', n_bits' = n_bits, NEW n \in 0 .. (n_bits - 1)
    PROVE  /\ mask' = [mask EXCEPT ![n \div W] = @ \cup {n % W}]
                => B!InUse' = B!InUse \cup {n}
           /\ mask' = [mask EXCEPT ![n \div W] = @ \ {n % W}]
                => B!InUse' = B!InUse \ {n}
  <1>w. W \in Nat \ {0}  BY KeyStoreAssumption
  <1>s. n_bits \in Nat  BY KeyStoreAssumption DEF PoolInv
  <1>1. \A m \in Nat : m \in B!InUse <=> m \div W \in Words /\ m % W \in mask[m \div W]
    BY InUseIs
  <1>2. \A m \in Nat : m \in B!InUse' <=> m \div W \in Words /\ m % W \in mask'[m \div W]
    <2>1. Words' = Words  BY DEF Words, B!Slot
    <2>2. InUseIs!1' => InUseIs!2'  BY InUseIs, PTL
    <2>3. QED  BY <2>1, <2>2
  <1>3. B!InUse \subseteq Nat /\ B!InUse' \subseteq Nat  BY <1>s DEF B!InUse
  <1>4. n \in Nat /\ n \div W \in Words  BY <1>s, InUseIs
  <1>5. ASSUME NEW m \in Nat, m \div W = n \div W, m % W = n % W PROVE m = n
    BY <1>5, <1>4, <1>w, Division
  <1>6. DOMAIN mask = Words  BY DEF PoolInv
  <1>7. ASSUME mask' = [mask EXCEPT ![n \div W] = @ \cup {n % W}], NEW m \in Nat
        PROVE  m \in B!InUse' <=> m \in B!InUse \cup {n}
    BY <1>1, <1>2, <1>4, <1>5, <1>6, <1>7
  <1>8. ASSUME mask' = [mask EXCEPT ![n \div W] = @ \ {n % W}], NEW m \in Nat
        PROVE  m \in B!InUse' <=> m \in B!InUse \ {n}
    BY <1>1, <1>2, <1>4, <1>5, <1>6, <1>8
  <1>9. QED  BY <1>3, <1>4, <1>7, <1>8

(* get_avail_number. *)
LEMMA TakesLowest ==
    ASSUME PoolInv, PoolInv', B!get_avail_number
    PROVE  B!Pool!Take
  <1>w. W \in Nat \ {0}  BY KeyStoreAssumption
  <1>s. n_bits \in Nat \ {0}  BY KeyStoreAssumption DEF PoolInv
  <1>f. \A i \in Words : mask[i] \subseteq Bits  BY DEF PoolInv
  <1>k. n_bits' = n_bits  BY DEF B!get_avail_number
  <1> DEFINE notFull == {i \in Words : mask[i] # Bits}
  <1>1. CASE notFull = {} /\ number' = -1 /\ UNCHANGED mask
    <2>1. ASSUME NEW n \in B!Pool!Number PROVE n \in B!InUse
      <3>1. n \in 0 .. (n_bits - 1)  BY DEF B!Pool!Number
      <3>2. n \div W \in Words  BY <3>1, InUseIs
      <3>3. mask[n \div W] = Bits  BY <1>1, <3>2
      <3>4. n % W \in Bits  BY <1>w, <1>s, <3>1, Division DEF Bits, B!Bit
      <3>5. QED  BY <1>s, <3>1, <3>2, <3>3, <3>4, InUseIs
    <2>2. UNCHANGED B!InUse  BY <1>1, <1>k DEF B!InUse
    <2>3. QED  BY <2>1, <2>2, <1>1, <1>k DEF B!Pool!Take
  <1>2. ASSUME NEW i \in Words, NEW b \in Bits,
               B!IsLowest(i, notFull), B!IsLowest(b, Bits \ mask[i]),
               IF i * W + b >= n_bits
                  THEN number' = -1 /\ UNCHANGED mask
                  ELSE number' = i * W + b /\ mask' = [mask EXCEPT ![i] = @ \cup {b}]
        PROVE  B!Pool!Take
    <2>1. i \in Nat /\ b \in 0 .. (W - 1)
      BY <1>s, <1>w, WordsOf DEF Words, B!Slot, Bits, B!Bit
    <2>2. b \notin mask[i] /\ \A c \in Bits : c < b => c \in mask[i]
      BY <1>2, <2>1, <1>w DEF B!IsLowest, Bits, B!Bit
    <2>3. \A j \in Words : j < i => mask[j] = Bits
      BY <1>2, <2>1, <1>s, WordsOf DEF B!IsLowest, Words, B!Slot
    <2>4. ASSUME NEW n \in 0 .. (n_bits - 1), n < i * W + b
          PROVE  n \in B!InUse
      <3>1. n \in Nat  BY <1>s
      <3>2. PICK q \in Nat : q = n \div W  BY <3>1, <1>w, Division
      <3>3. PICK r \in 0 .. (W - 1) : r = n % W  BY <3>1, <1>w, Division
      <3>4. n = q * W + r  BY <3>1, <3>2, <3>3, <1>w, Division
      <3>5. q \in Words /\ r \in Bits  BY <3>2, InUseIs DEF Bits, B!Bit
      <3>6. ~(q > i)
        <4>1. SUFFICES ASSUME q > i PROVE FALSE  OBVIOUS
        <4>2. i * W + W <= q * W  BY <4>1, <2>1, <1>w, Monotone
        <4>3. QED  BY <4>2, <3>4, <2>1, <2>4, <1>w
      <3>7. CASE q = i
        <4>1. r < b  BY <3>7, <3>4, <2>4, <2>1, <1>w
        <4>2. QED  BY <4>1, <3>1, <3>2, <3>3, <3>5, <3>7, <2>2, InUseIs
      <3>8. CASE q < i
        BY <3>8, <2>3, <3>1, <3>2, <3>3, <3>5, InUseIs
      <3>9. QED  BY <3>6, <3>7, <3>8, <2>1
    <2>5. CASE i * W + b >= n_bits /\ number' = -1 /\ UNCHANGED mask
      <3>1. \A n \in B!Pool!Number : n \in B!InUse
        BY <2>4, <2>5, <2>1, <1>w, <1>s DEF B!Pool!Number
      <3>2. UNCHANGED B!InUse  BY <2>5, <1>k DEF B!InUse
      <3>3. QED  BY <3>1, <3>2, <2>5, <1>k DEF B!Pool!Take
    <2>6. CASE /\ i * W + b < n_bits /\ number' = i * W + b
               /\ mask' = [mask EXCEPT ![i] = @ \cup {b}]
      <3>n. i * W + b \in Nat  BY <2>1, <1>w
      <3>m. PICK n \in Nat : n = i * W + b  BY <3>n
      <3>1. n \in 0 .. (n_bits - 1)  BY <3>m, <2>6, <1>s
      <3>2. n \div W = i /\ n % W = b
        <4>1. PICK q \in Nat : q = n \div W  BY <1>w, Division
        <4>2. PICK r \in 0 .. (W - 1) : r = n % W  BY <1>w, Division
        <4>3. q * W + r = i * W + b  BY <3>m, <4>1, <4>2, <1>w, Division
        <4>4. QED  BY <4>1, <4>2, <4>3, <2>1, <1>w, Unique
      <3>3. n \notin B!InUse  BY <3>1, <3>2, <2>2, InUseIs
      <3>4. \A m \in 0 .. (n - 1) : m \in B!InUse  BY <3>m, <3>1, <2>4, <1>s
      <3>5. B!InUse' = B!InUse \cup {n}
        BY <3>1, <3>2, <2>6, <1>k, Flipped
      <3>6. QED  BY <3>m, <3>1, <3>3, <3>4, <3>5, <2>6, <1>k DEF B!Pool!Take, B!Pool!Number
    <2>7. QED  BY <1>2, <2>1, <2>5, <2>6, <1>w, <1>s
  <1>3. QED  BY <1>1, <1>2 DEF B!get_avail_number, Words, Bits


(* clear_number. *)
LEMMA GivesBack ==
    ASSUME PoolInv, PoolInv', NEW n \in Desc, B!clear_number(n)
    PROVE  B!Pool!Give(n)
  <1>w. W \in Nat \ {0}  BY KeyStoreAssumption
  <1>s. n_bits \in Nat \ {0} /\ n \in Nat
    BY KeyStoreAssumption, SizesAreDescriptors DEF PoolInv, Desc
  <1>k. n_bits' = n_bits  BY DEF B!clear_number
  <1>1. CASE n >= n_bits /\ number' = -1 /\ UNCHANGED mask
    <2>1. n \notin B!InUse /\ n \notin B!Pool!Number
      BY <1>1, <1>s, InUseIs DEF B!Pool!Number
    <2>2. UNCHANGED B!InUse  BY <1>1, <1>k DEF B!InUse
    <2>3. QED  BY <2>1, <2>2, <1>1, <1>k DEF B!Pool!Give
  <1>2. CASE /\ n < n_bits /\ n % W \notin mask[n \div W]
             /\ number' = 0 /\ UNCHANGED mask
    <2>1. n \notin B!InUse /\ n \in B!Pool!Number
      BY <1>2, <1>s, InUseIs DEF B!Pool!Number
    <2>2. UNCHANGED B!InUse  BY <1>2, <1>k DEF B!InUse
    <2>3. QED  BY <2>1, <2>2, <1>2, <1>k DEF B!Pool!Give
  <1>3. CASE /\ n < n_bits /\ n % W \in mask[n \div W] /\ number' = 1
             /\ mask' = [mask EXCEPT ![n \div W] = @ \ {n % W}]
    <2>1. n \in 0 .. (n_bits - 1)  BY <1>3, <1>s
    <2>2. n \in B!InUse  BY <2>1, <1>s, <1>3, InUseIs
    <2>3. B!InUse' = B!InUse \ {n}  BY <2>1, <1>3, <1>k, Flipped
    <2>4. QED  BY <2>2, <2>3, <1>3, <1>k DEF B!Pool!Give
  <1>4. QED  BY <1>1, <1>2, <1>3 DEF B!clear_number

(* Neither call of the bitmask spoils it, and what get_avail_number        *)
(* returns is a descriptor or negative.                                    *)
LEMMA WordsKept ==
    ASSUME PoolInv, tag_key' \in Desc,
           B!get_avail_number \/ \E n \in Desc : B!clear_number(n)
    PROVE  PoolInv'
  <1>w. W \in Nat \ {0}  BY KeyStoreAssumption
  <1>1. n_bits' = n_bits /\ Words' = Words
    BY DEF B!get_avail_number, B!clear_number, Words, B!Slot
  <1>2. CASE UNCHANGED mask
    BY <1>1, <1>2 DEF PoolInv
  <1>3. ASSUME NEW i \in Words, NEW b \in Bits, i * W + b < n_bits,
               mask' = [mask EXCEPT ![i] = @ \cup {b}]
        PROVE  PoolInv'
    BY <1>1, <1>3 DEF PoolInv
  <1>4. ASSUME NEW i, NEW b, mask' = [mask EXCEPT ![i] = @ \ {b}]
        PROVE  PoolInv'
    BY <1>1, <1>4 DEF PoolInv
  <1>5. CASE B!get_avail_number
    <2>1. ASSUME NEW i \in Words, NEW b \in Bits
          PROVE  i * W + b >= n_bits \/ i * W + b < n_bits
      BY <1>w, WordsOf, KeyStoreAssumption DEF PoolInv, Words, B!Slot, Bits, B!Bit
    <2>2. QED  BY <2>1, <1>5, <1>2, <1>3 DEF B!get_avail_number, Words, Bits
  <1>6. CASE \E n \in Desc : B!clear_number(n)
    BY <1>6, <1>2, <1>4 DEF B!clear_number
  <1>7. QED  BY <1>5, <1>6

(* get_avail_number returns -1 or a descriptor. *)
LEMMA ReservedFits ==
    ASSUME PoolInv, B!get_avail_number
    PROVE  number' = -1 \/ number' \in 0 .. (n_bits - 1)
  <1>w. W \in Nat \ {0}  BY KeyStoreAssumption
  <1>s. n_bits \in Nat \ {0}  BY KeyStoreAssumption DEF PoolInv
  <1>1. ASSUME NEW i \in Words, NEW b \in Bits PROVE i * W + b \in Nat
    <2>1. i \in Nat /\ b \in Nat
      BY <1>w, <1>s, WordsOf DEF Words, B!Slot, Bits, B!Bit
    <2>2. QED  BY <2>1, <1>w
  <1>2. ASSUME NEW i \in Words, NEW b \in Bits, ~(i * W + b >= n_bits),
               number' = i * W + b
        PROVE  number' \in 0 .. (n_bits - 1)
    BY <1>1, <1>2, <1>s
  <1>3. QED  BY <1>2 DEF B!get_avail_number, Words, Bits

-----------------------------------------------------------------------------
(* The words are clear at first, so that no number is in use. *)
LEMMA InitPool == Init => PoolInv /\ B!Pool!Init
  <1> SUFFICES ASSUME Init PROVE PoolInv /\ B!Pool!Init  OBVIOUS
  <1>1. n_bits \in Sizes /\ mask = [i \in Words |-> {}] /\ number = 0 /\ tag_key = 0
    BY DEF Init, B!Init, Words
  <1>2. PoolInv  BY <1>1, SizesAreDescriptors DEF PoolInv
  <1>3. B!InUse = {}
    <2>1. B!InUse \subseteq Nat  BY <1>2, InUseIs
    <2>2. \A n \in Nat : n \notin B!InUse  BY <1>1, <1>2, InUseIs
    <2>3. QED  BY <2>1, <2>2
  <1>4. QED  BY <1>1, <1>2, <1>3 DEF B!Pool!Init

(* Each step makes one call of the bitmask or none; a call does to the     *)
(* numbers in use what the pool does.                                      *)
LEMMA NextPool ==
    PoolInv /\ [Next]_vars => PoolInv' /\ [B!Pool!Next]_(B!Pool!vars)
  <1> SUFFICES ASSUME PoolInv, [Next]_vars
               PROVE  PoolInv' /\ [B!Pool!Next]_(B!Pool!vars)
    OBVIOUS
  <1>d. 0 \in Desc /\ 0 .. (n_bits - 1) \subseteq Desc /\ tag_key \in Desc
    BY SizesAreDescriptors DEF PoolInv
  <1>1. CASE B!get_avail_number /\ tag_key' \in {0, number'} /\ (number' < 0 => tag_key' = 0)
    <2>1. tag_key' \in Desc  BY <1>1, <1>d, ReservedFits
    <2>2. PoolInv'  BY <2>1, <1>1, WordsKept
    <2>3. QED  BY <2>2, <1>1, TakesLowest DEF B!Pool!Next
  <1>2. CASE B!clear_number(tag_key) /\ tag_key' = 0
    <2>1. PoolInv'  BY <1>2, <1>d, WordsKept
    <2>2. QED  BY <2>1, <1>2, <1>d, GivesBack DEF B!Pool!Next
  <1>3. CASE UNCHANGED bitmask /\ tag_key' \in Desc
    <2>1. n_bits' = n_bits /\ mask' = mask /\ number' = number /\ Words' = Words
      BY <1>3 DEF bitmask, Words, B!Slot
    <2>2. PoolInv'  BY <2>1, <1>3 DEF PoolInv
    <2>3. UNCHANGED B!Pool!vars  BY <2>1 DEF B!Pool!vars, B!InUse
    <2>4. QED  BY <2>2, <2>3
  <1>4. ASSUME NEW k, CreateReserve(k) PROVE PoolInv' /\ [B!Pool!Next]_(B!Pool!vars)
    <2>1. B!get_avail_number  BY <1>4 DEF CreateReserve
    <2>2. number' \in Int  BY <2>1, ReservedFits, KeyStoreAssumption DEF PoolInv
    <2>3. tag_key' = 0 \/ (number' >= 0 /\ tag_key' = number')
      BY <1>4 DEF CreateReserve, Return
    <2>4. QED  BY <2>1, <2>2, <2>3, <1>1
  <1>5. CASE CreateUndo \/ ClearNumber
    BY <1>5, <1>2 DEF CreateUndo, ClearNumber, Return
  <1>6. CASE CreateLookup \/ CreateAdd \/ ClearLookup \/ ClearDelete
    BY <1>6, <1>3, <1>d DEF CreateLookup, CreateAdd, ClearLookup, ClearDelete, Return
  <1>7. ASSUME NEW d \in Desc, ClearStart(d) PROVE UNCHANGED bitmask /\ tag_key' \in Desc
    BY <1>7 DEF ClearStart
  <1>8. CASE UNCHANGED vars
    BY <1>8, <1>3, <1>d DEF vars, call
  <1>9. QED  BY <1>3, <1>4, <1>5, <1>6, <1>7, <1>8 DEF Next

(* tag_bitmask, as tag_get and clear_tag_common use it (get_avail_number,  *)
(* clear_number), is a pool that gives its lowest free number, whatever    *)
(* MAX_TAGS and the number of bits of a word: no number is given twice,    *)
(* none past the end.                                                      *)
THEOREM BitmaskImplementsPool == Spec => ImplementsPool
  <1>1. Init => PoolInv /\ B!Pool!Init  BY InitPool
  <1>2. PoolInv /\ [Next]_vars => PoolInv' /\ [B!Pool!Next]_(B!Pool!vars)  BY NextPool
  <1>3. QED  BY <1>1, <1>2, PTL DEF Spec, ImplementsPool, B!ImplementsPool, B!Pool!Spec

-----------------------------------------------------------------------------
(* The hash map under the calls of tag_get and clear_tag_common            *)

(* Where a call may be, and what it has in its locals there. *)
CallInv ==
    /\ pc \in {"idle", "c_get", "c_set", "c_undo", "d_get", "d_delete", "d_number"}
    /\ key \in Key \cup {IPC_PRIVATE}
    /\ pc \in {"c_get", "c_set", "c_undo", "d_get", "d_delete"} => key \in Key
    /\ held \in [Desc -> Key \cup {IPC_PRIVATE, None}]

(* tag_get's call of hashmap_set. *)
LEMMA AddEffect ==
    ASSUME MapInv, CallInv, tag_key \in Desc, CreateAdd
    PROVE  \/ /\ WasSet(key, tag_key)
              /\ held' = [held EXCEPT ![tag_key] = key] /\ Return
           \/ /\ MapInv' /\ UNCHANGED <<buckets, cap, count, key, tag_key, held>>
              /\ oom' = TRUE /\ pc' = "c_undo"
              /\ \A k \in Key : hashmap_get(k)' = hashmap_get(k)
              /\ count = H!GrowAt(buckets)
  <1>k. key \in Key  BY DEF CallInv, CreateAdd
  <1>1. CASE H!SetNoMemory
    BY <1>1, SetFails DEF CreateAdd
  <1>2. CASE H!Set(key, tag_key)
    <2>1. WasSet(key, tag_key)  BY <1>k, <1>2, SetWorks
    <2>2. oom' = FALSE  BY <2>1 DEF WasSet
    <2>3. QED  BY <2>1, <2>2 DEF CreateAdd
  <1>3. QED  BY <1>1, <1>2 DEF CreateAdd, H!hashmap_set

(* clear_tag_common's call of hashmap_delete. *)
LEMMA DeleteEffect ==
    ASSUME MapInv, CallInv, ClearDelete
    PROVE  key \in Key /\ WasDeleted(key)
  <1>k. key \in Key  BY DEF CallInv, ClearDelete
  <1>1. QED
    BY <1>k, DeleteAbsentWorks, DeletePresentWorks DEF ClearDelete, H!hashmap_delete

(* A step that leaves the map alone keeps what is said of it. *)
LEMMA MapKept ==
    ASSUME MapInv, UNCHANGED hashmap
    PROVE  /\ MapInv' /\ UNCHANGED <<buckets, cap, count, oom>>
           /\ \A k \in Key : hashmap_get(k)' = hashmap_get(k)
           /\ H!NBuckets(buckets)' = H!NBuckets(buckets)
  BY DEF MapInv, hashmap, hashmap_get, H!NBuckets

(* Every other step leaves the hash map alone. *)
LEMMA StepMap ==
    ASSUME [Next]_vars
    PROVE  UNCHANGED hashmap \/ CreateAdd \/ ClearDelete
  <1>1. ASSUME NEW k, CreateReserve(k) PROVE UNCHANGED hashmap
    BY <1>1 DEF CreateReserve
  <1>2. ASSUME NEW d, ClearStart(d) PROVE UNCHANGED hashmap
    BY <1>2 DEF ClearStart
  <1>3. CASE CreateLookup \/ CreateUndo \/ ClearLookup \/ ClearNumber
    BY <1>3 DEF CreateLookup, CreateUndo, ClearLookup, ClearNumber
  <1>4. CASE UNCHANGED vars  BY <1>4 DEF vars
  <1>5. QED  BY <1>1, <1>2, <1>3, <1>4 DEF Next

(* The map stays in order. *)
LEMMA NextMap ==
    ASSUME MapInv, CallInv, tag_key \in Desc, [Next]_vars
    PROVE  MapInv'
  <1>1. CASE UNCHANGED hashmap  BY <1>1, MapKept
  <1>2. CASE CreateAdd  BY <1>2, AddEffect DEF WasSet
  <1>3. CASE ClearDelete  BY <1>3, DeleteEffect DEF WasDeleted
  <1>4. QED  BY <1>1, <1>2, <1>3, StepMap

(* No call is under way at first. *)
LEMMA InitCall == Init => CallInv
  BY DEF Init, CallInv

(* A call keeps to its path. *)
LEMMA NextCall ==
    ASSUME CallInv, tag_key \in Desc, [Next]_vars
    PROVE  CallInv'
  <1>1. ASSUME NEW k \in Key \cup {IPC_PRIVATE}, CreateReserve(k) PROVE CallInv'
    <2>1. CASE number' < 0 /\ Return /\ UNCHANGED held
      BY <2>1 DEF CallInv, Return
    <2>2. CASE k = IPC_PRIVATE /\ held' = [held EXCEPT ![number'] = k] /\ Return
      BY <2>2 DEF CallInv, Return
    <2>3. CASE k \in Key /\ pc' = "c_get" /\ key' = k /\ UNCHANGED held
      BY <2>3 DEF CallInv
    <2>4. QED  BY <1>1, <2>1, <2>2, <2>3 DEF CreateReserve
  <1>2. CASE CreateLookup
    BY <1>2 DEF CallInv, CreateLookup
  <1>3. CASE CreateAdd
    <2>1. key \in Key  BY <1>3 DEF CallInv, CreateAdd
    <2>2. CASE pc' = "c_undo" /\ UNCHANGED <<key, held>>
      BY <2>1, <2>2 DEF CallInv
    <2>3. CASE held' = [held EXCEPT ![tag_key] = key] /\ Return
      BY <2>1, <2>3 DEF CallInv, Return
    <2>4. QED  BY <1>3, <2>2, <2>3 DEF CreateAdd
  <1>4. CASE CreateUndo
    BY <1>4 DEF CallInv, CreateUndo, Return
  <1>5. ASSUME NEW d \in Desc, ClearStart(d) PROVE CallInv'
    <2>1. held[d] \in Key \cup {IPC_PRIVATE}  BY <1>5 DEF CallInv, ClearStart
    <2>2. QED  BY <2>1, <1>5 DEF CallInv, ClearStart
  <1>6. CASE ClearLookup \/ ClearDelete
    BY <1>6 DEF CallInv, ClearLookup, ClearDelete
  <1>7. CASE ClearNumber
    BY <1>7 DEF CallInv, ClearNumber, Return
  <1>8. CASE UNCHANGED vars
    BY <1>8 DEF CallInv, vars, call
  <1>9. QED  BY <1>1, <1>2, <1>3, <1>4, <1>5, <1>6, <1>7, <1>8 DEF Next

(* The invariant says no less than RobinHood. *)
LEMMA InOrderRobinHood == MapInv => RobinHood
  <1> SUFFICES ASSUME MapInv PROVE RobinHood  OBVIOUS
  <1>n. PICK n \in Capacity : InOrder(buckets, n, count)  BY DEF MapInv
  <1>0. /\ n \in Nat \ {0} /\ Sound(buckets, n) /\ buckets \in Maps(n)
    BY <1>n, OrderMeans
  <1>1. ASSUME NEW i \in Taken(buckets)
        PROVE  LET k == buckets[i].key  dib == buckets[i].dib IN
               /\ H!Bucket(buckets, k, dib - 1) = i
               /\ \A s \in 0 .. (dib - 2) : buckets[H!Bucket(buckets, k, s)].dib > s
    <2>1. PICK x \in Entries : x = buckets[i]  BY <1>0, MapSize
    <2>2. x.key \in Key /\ x.dib \in Nat \ {0}  BY DEF Entries
    <2>3. Reached(buckets, n, x, i)  BY <1>0, <2>1 DEF Sound, Ordered
    <2>4. \A s \in Int : H!Bucket(buckets, x.key, s) = (Hash[x.key] + s) % n
      BY <2>2, <1>0, BucketsInside
    <2>5. H!Bucket(buckets, x.key, x.dib - 1) = i  BY <2>2, <2>3, <2>4 DEF Reached
    <2>6. \A s \in 0 .. (x.dib - 2) : buckets[H!Bucket(buckets, x.key, s)].dib > s
      BY <2>2, <2>3, <2>4 DEF Reached
    <2>7. QED  BY <2>1, <2>5, <2>6
  <1>2. \A i, j \in Taken(buckets) : buckets[i].key = buckets[j].key => i = j
    BY <1>0 DEF Sound, Distinct
  <1>3. QED  BY <1>1, <1>2 DEF RobinHood, Taken

(* The invariant says no less than ProbesEnd. *)
LEMMA InOrderProbesEnd == MapInv => ProbesEnd
  <1> SUFFICES ASSUME MapInv PROVE ProbesEnd  OBVIOUS
  <1>n. PICK n \in Capacity : InOrder(buckets, n, count) /\ cap <= n  BY DEF MapInv
  <1>0. /\ n \in Nat \ {0} /\ Sound(buckets, n) /\ buckets \in Maps(n)
        /\ count < n /\ H!NBuckets(buckets) = n /\ H!GrowAt(buckets) = (3 * n) \div 4
        /\ count = Cardinality(Taken(buckets)) /\ count <= (3 * n) \div 4
    BY <1>n, OrderMeans DEF InOrder
  <1>1. Taken(buckets) # DOMAIN buckets  BY <1>0, MapSize
  <1>2. QED  BY <1>n, <1>0, <1>1 DEF ProbesEnd, Taken

StoreInv == PoolInv /\ MapInv /\ CallInv

(* Bitmask, map and call at first. *)
LEMMA InitStore == Init => StoreInv
  BY InitPool, InitMap, InitCall DEF StoreInv

(* Every step keeps all three in order. *)
LEMMA NextStore == StoreInv /\ [Next]_vars => StoreInv'
  <1> SUFFICES ASSUME StoreInv, [Next]_vars PROVE StoreInv'  OBVIOUS
  <1>1. PoolInv'  BY NextPool DEF StoreInv
  <1>2. tag_key \in Desc  BY DEF StoreInv, PoolInv
  <1>3. QED  BY <1>1, <1>2, NextMap, NextCall DEF StoreInv

(* RobinHood: hashmap_set with its swaps, resize and the backward shift of *)
(* hashmap_delete keep every entry as far from its bucket as its dib says, *)
(* behind none that is nearer to its own, for all hashes and capacities.   *)
THEOREM EntriesInRobinHoodOrder == Spec => []RobinHood
  <1>1. StoreInv => RobinHood  BY InOrderRobinHood DEF StoreInv
  <1>2. QED  BY <1>1, InitStore, NextStore, PTL DEF Spec

(* ProbesEnd: the count of tag_table is exact and a bucket is always       *)
(* empty, so that the loops of hashmap_get, hashmap_set and hashmap_delete *)
(* end.                                                                    *)
THEOREM ABucketIsAlwaysEmpty == Spec => []ProbesEnd
  <1>1. StoreInv => ProbesEnd  BY InOrderProbesEnd DEF StoreInv
  <1>2. QED  BY <1>1, InitStore, NextStore, PTL DEF Spec

-----------------------------------------------------------------------------
(* A step does to what hashmap_get returns what the finite map does, or    *)
(* nothing.                                                                *)
LEMMA NextIsMap == StoreInv /\ [Next]_vars => [Map!Next]_(Map!vars)
  <1> SUFFICES ASSUME StoreInv, [Next]_vars PROVE [Map!Next]_(Map!vars)  OBVIOUS
  <1> DEFINE m == [k \in Key |-> hashmap_get(k)]
  <1>0. MapInv /\ CallInv /\ tag_key \in Desc  BY DEF StoreInv, PoolInv
  <1>1. CASE UNCHANGED hashmap
    <2>1. /\ \A k \in Key : hashmap_get(k)' = hashmap_get(k)
          /\ oom' = oom
      BY <1>0, <1>1, MapKept
    <2>2. m' = m  BY <2>1
    <2>3. QED  BY <2>1, <2>2 DEF Map!vars
  <1>2. CASE CreateAdd
    <2>k. key \in Key  BY <1>0, <1>2 DEF CallInv, CreateAdd
    <2>1. CASE WasSet(key, tag_key)
      <3>1. /\ oom' = FALSE
            /\ \A j \in Key :
                 hashmap_get(j)' = IF j = key THEN tag_key ELSE hashmap_get(j)
        BY <2>1 DEF WasSet
      <3>2. m' = [m EXCEPT ![key] = tag_key]  BY <3>1
      <3>3. Map!Set(key, tag_key)  BY <3>1, <3>2 DEF Map!Set
      <3>4. QED  BY <2>k, <1>0, <3>3 DEF Map!Next
    <2>2. CASE oom' = TRUE /\ \A k \in Key : hashmap_get(k)' = hashmap_get(k)
      <3>1. m' = m  BY <2>2
      <3>2. QED  BY <3>1, <2>2 DEF Map!Next, Map!SetNoMemory
    <2>3. QED  BY <1>0, <1>2, <2>1, <2>2, AddEffect
  <1>3. CASE ClearDelete
    <2>1. key \in Key /\ WasDeleted(key)  BY <1>0, <1>3, DeleteEffect
    <2>2. /\ oom' = FALSE
          /\ \A j \in Key : hashmap_get(j)' = IF j = key THEN None ELSE hashmap_get(j)
      BY <2>1 DEF WasDeleted
    <2>3. m' = [m EXCEPT ![key] = None]  BY <2>2
    <2>4. Map!Delete(key)  BY <2>2, <2>3 DEF Map!Delete
    <2>5. QED  BY <2>1, <2>4 DEF Map!Next
  <1>4. QED  BY <1>1, <1>2, <1>3, StepMap

(* hashmap.c is a finite map, however keys collide: hashmap_get returns    *)
(* what hashmap_set was last given for the key and hashmap_delete did not  *)
(* remove, through every enlargement, reduction and failed allocation.     *)
THEOREM HashmapImplementsMap == Spec => ImplementsMap
  <1>1. Init => Map!Init
    <2> SUFFICES ASSUME Init PROVE Map!Init  OBVIOUS
    <2>1. \A k \in Key : hashmap_get(k) = None  BY InitMap
    <2>2. oom = FALSE  BY DEF Init, H!Init
    <2>3. QED  BY <2>1, <2>2 DEF Map!Init
  <1>2. QED
    BY <1>1, InitStore, NextStore, NextIsMap, PTL DEF Spec, ImplementsMap, Map!Spec

-----------------------------------------------------------------------------
(* There are never more entries than descriptors, and there is room for    *)
(* one more while a creation is under way.                                 *)
RoomInv ==
    /\ count <= n_bits
    /\ pc \in {"c_get", "c_set"} => count < n_bits
    /\ cap >= 2 * n_bits => ~oom /\ H!NBuckets(buckets) = cap

(* The map has the capacity asked for, at first. *)
LEMMA InitRoom == Init => RoomInv
  <1> SUFFICES ASSUME Init PROVE RoomInv  OBVIOUS
  <1>1. PICK c \in Nat : cap = H!RoundUp(c) /\ buckets = H!New(c)
    BY KeyStoreAssumption DEF Init, H!Init
  <1>2. cap \in Nat \ {0}  BY <1>1, RoundedUp, Capacities
  <1>3. H!NBuckets(buckets) = cap  BY <1>1, <1>2, NewSound, MapSize DEF Sound
  <1>4. n_bits \in Nat \ {0}  BY KeyStoreAssumption DEF Init, B!Init
  <1>5. QED  BY <1>3, <1>4 DEF Init, H!Init, RoomInv

(* It keeps it: MAX_TAGS entries are less than three quarters of twice as  *)
(* many buckets.                                                           *)
LEMMA NextRoom == StoreInv /\ RoomInv /\ [Next]_vars => RoomInv'
  <1> SUFFICES ASSUME StoreInv, RoomInv, [Next]_vars PROVE RoomInv'  OBVIOUS
  <1>0. MapInv /\ CallInv /\ tag_key \in Desc /\ n_bits \in Nat \ {0}
    BY KeyStoreAssumption DEF StoreInv, PoolInv
  <1>n. PICK n \in Capacity : InOrder(buckets, n, count)  BY <1>0 DEF MapInv
  <1>c. /\ count \in Nat /\ n \in Nat \ {0} /\ cap \in Nat \ {0}
        /\ H!NBuckets(buckets) = n /\ H!GrowAt(buckets) = (3 * n) \div 4
    BY <1>n, <1>0, OrderMeans, Capacities DEF MapInv
  <1>s. n_bits' = n_bits
    <2>1. ASSUME NEW k, CreateReserve(k) PROVE n_bits' = n_bits
      BY <2>1 DEF CreateReserve, B!get_avail_number
    <2>2. ASSUME NEW d, ClearStart(d) PROVE n_bits' = n_bits
      BY <2>2 DEF ClearStart, bitmask
    <2>3. CASE CreateUndo \/ ClearNumber
      BY <2>3 DEF CreateUndo, ClearNumber, B!clear_number
    <2>4. CASE CreateLookup \/ CreateAdd \/ ClearLookup \/ ClearDelete \/ UNCHANGED vars
      BY <2>4 DEF CreateLookup, CreateAdd, ClearLookup, ClearDelete, vars, bitmask
    <2>5. QED  BY <2>1, <2>2, <2>3, <2>4 DEF Next
  <1>1. CASE UNCHANGED hashmap
    <2>1. UNCHANGED <<cap, count, oom>> /\ H!NBuckets(buckets)' = H!NBuckets(buckets)
      BY <1>0, <1>1, MapKept
    <2>2. pc' \in {"c_get", "c_set"} => count < n_bits
      <3>1. ASSUME NEW k, CreateReserve(k) PROVE count < n_bits
        BY <3>1 DEF CreateReserve, HasRoom, MAX_TAGS
      <3>2. ASSUME NEW d, ClearStart(d) PROVE pc' \notin {"c_get", "c_set"}
        BY <3>2 DEF ClearStart
      <3>3. CASE CreateLookup
        BY <3>3 DEF CreateLookup, RoomInv
      <3>4. CASE CreateUndo \/ ClearLookup \/ ClearNumber \/ ClearDelete
        BY <3>4 DEF CreateUndo, ClearLookup, ClearNumber, ClearDelete, Return
      <3>5. CASE CreateAdd
        BY <3>5 DEF CreateAdd, Return
      <3>6. CASE UNCHANGED vars  BY <3>6 DEF RoomInv, vars, call
      <3>7. QED  BY <3>1, <3>2, <3>3, <3>4, <3>5, <3>6 DEF Next
    <2>3. QED  BY <2>1, <2>2, <1>s DEF RoomInv
  <1>2. CASE CreateAdd
    <2>0. count < n_bits /\ pc' \notin {"c_get", "c_set"}
      BY <1>2 DEF CreateAdd, RoomInv, Return
    <2>1. cap >= 2 * n_bits => n = cap /\ count # H!GrowAt(buckets)
      <3>1. SUFFICES ASSUME cap >= 2 * n_bits
                     PROVE  n = cap /\ count # H!GrowAt(buckets)
        OBVIOUS
      <3>2. n = cap  BY <3>1, <1>c DEF RoomInv
      <3>3. (3 * n) \div 4 >= n_bits  BY <3>1, <3>2, <1>0, <1>c
      <3>4. QED  BY <3>2, <3>3, <2>0, <1>0, <1>c
    <2>2. CASE WasSet(key, tag_key)
      <3>1. count' \in {count, count + 1} /\ oom' = FALSE /\ cap' = cap
        BY <2>2 DEF WasSet
      <3>2. cap >= 2 * n_bits => H!NBuckets(buckets)' = n
        BY <2>1, <2>2, <1>c DEF WasSet
      <3>3. count' <= n_bits  BY <3>1, <2>0, <1>c, <1>0
      <3>4. QED  BY <3>1, <3>2, <3>3, <2>0, <2>1, <1>s DEF RoomInv
    <2>3. CASE UNCHANGED <<buckets, cap, count>> /\ count = H!GrowAt(buckets)
      <3>1. ~(cap >= 2 * n_bits)  BY <2>1, <2>3
      <3>2. QED  BY <3>1, <2>0, <2>3, <1>s, <1>c, <1>0 DEF RoomInv
    <2>4. QED  BY <1>0, <1>2, <2>2, <2>3, AddEffect
  <1>3. CASE ClearDelete
    <2>1. WasDeleted(key)  BY <1>0, <1>3, DeleteEffect
    <2>2. /\ count' <= n_bits /\ oom' = FALSE /\ cap' = cap
          /\ cap >= 2 * n_bits => H!NBuckets(buckets)' = cap
      BY <2>1, <1>0, <1>c DEF WasDeleted, RoomInv
    <2>3. pc' \notin {"c_get", "c_set"}  BY <1>3 DEF ClearDelete
    <2>4. QED  BY <2>2, <2>3, <1>s DEF RoomInv
  <1>4. QED  BY <1>1, <1>2, <1>3, StepMap

(* NeverGrows: tag_table, made for twice MAX_TAGS entries, is never        *)
(* enlarged, so that hashmap_set in tag_get cannot fail, for any MAX_TAGS. *)
THEOREM TagTableNeverGrows == Spec => []NeverGrows
  <1>1. RoomInv => NeverGrows  BY DEF RoomInv, NeverGrows, MAX_TAGS
  <1>2. QED  BY <1>1, InitStore, NextStore, InitRoom, NextRoom, PTL DEF Spec

-----------------------------------------------------------------------------
(* Names                                                                   *)

Creating == pc \in {"c_get", "c_set", "c_undo"}
Clearing == pc \in {"d_get", "d_delete", "d_number"}

(* The bits are those of the tags that exist and of the one being created, *)
(* for which every lower descriptor is taken.                              *)
BitsInv ==
    /\ {d \in Desc : held[d] # None} = B!InUse \ Reserved
    /\ Creating => /\ tag_key \in B!InUse
                   /\ \A m \in 0 .. (tag_key - 1) : m \in B!InUse
    /\ Clearing => held[tag_key] = key

(* The keys in the table are those of the tags that have one.  The key of  *)
(* a tag that is being cleared is gone before its bit is.                  *)
KeysInv ==
    /\ \A k \in Key : NameOf(k) # None => NameOf(k) \in Desc /\ held[NameOf(k)] = k
    /\ \A d \in Desc : held[d] \in Key => NameOf(held[d]) = d
    /\ pc = "c_set" => hashmap_get(key) = None
    /\ pc = "d_number" /\ key \in Key => hashmap_get(key) = None

NamesInv == StoreInv /\ BitsInv /\ KeysInv

(* A descriptor that is in use is one. *)
LEMMA UsedAreDescriptors ==
    ASSUME PoolInv
    PROVE  B!InUse \subseteq 0 .. (n_bits - 1) /\ 0 .. (n_bits - 1) \subseteq Desc
           /\ n_bits \in Nat \ {0} /\ None \notin Desc /\ tag_key \in Desc
           /\ IPC_PRIVATE \notin Key /\ None \notin Key /\ None # IPC_PRIVATE
  BY InUseIs, SizesAreDescriptors, KeyStoreAssumption DEF PoolInv, Desc

(* What a step that neither names nor frees a descriptor leaves as it was. *)
Kept ==
    /\ n_bits' = n_bits /\ held' = held
    /\ (B!InUse \ Reserved)' = B!InUse \ Reserved
    /\ \A k \in Key : NameOf(k)' = NameOf(k)

(* A step that leaves these as they were is a stutter of NameTable. *)
LEMMA KeptNames ==
    ASSUME NamesInv, Kept
    PROVE  /\ {d \in Desc : held'[d] # None} = (B!InUse \ Reserved)'
           /\ \A k \in Key : NameOf(k)' # None =>
                    NameOf(k)' \in Desc /\ held'[NameOf(k)'] = k
           /\ \A d \in Desc : held'[d] \in Key => NameOf(held[d])' = d
           /\ UNCHANGED Names!vars
  <1>1. {d \in Desc : held'[d] # None} = (B!InUse \ Reserved)'
    BY DEF Kept, NamesInv, BitsInv
  <1>2. /\ \A k \in Key : NameOf(k)' # None =>
                NameOf(k)' \in Desc /\ held'[NameOf(k)'] = k
        /\ \A d \in Desc : held'[d] \in Key => NameOf(held[d])' = d
    BY DEF Kept, NamesInv, KeysInv
  <1>3. UNCHANGED Names!vars
    <2>1. [k \in Key |-> NameOf(k)]' = [k \in Key |-> NameOf(k)]  BY DEF Kept
    <2>2. QED  BY <2>1 DEF Kept, Names!vars
  <1>4. QED  BY <1>1, <1>2, <1>3

(* While no clearing has passed its key, a name is what the table says. *)
LEMMA NameOfIs ==
    /\ pc # "d_number" => \A k : NameOf(k) = hashmap_get(k)
    /\ \A k : k # key => NameOf(k) = hashmap_get(k)
    /\ pc = "d_number" => NameOf(key) = tag_key
  BY DEF NameOf


(* CreateReserve registers a private tag; a key comes later. *)
LEMMA ReserveNames ==
    ASSUME NamesInv, StoreInv', NEW k \in Key \cup {IPC_PRIVATE}, CreateReserve(k)
    PROVE  BitsInv' /\ KeysInv' /\ [Names!Next]_(Names!vars)
  <1>0. StoreInv /\ PoolInv /\ PoolInv' /\ BitsInv /\ KeysInv /\ CallInv /\ MapInv
    BY DEF NamesInv, StoreInv
  <1>d. B!InUse \subseteq 0 .. (n_bits - 1) /\ 0 .. (n_bits - 1) \subseteq Desc
        /\ n_bits \in Nat \ {0} /\ None \notin Desc
        /\ IPC_PRIVATE \notin Key /\ None \notin Key /\ None # IPC_PRIVATE
    BY <1>0, UsedAreDescriptors
  <1>1. /\ pc = "idle" /\ Reserved = {} /\ ~Creating /\ ~Clearing
        /\ UNCHANGED hashmap /\ n_bits' = n_bits
    BY DEF CreateReserve, Reserved, Creating, Clearing, B!get_avail_number
  <1>2. \A j \in Key : hashmap_get(j)' = hashmap_get(j)  BY <1>0, <1>1, MapKept
  <1>3. \A j \in Key : NameOf(j) = hashmap_get(j)  BY <1>1, NameOfIs
  <1>4. \/ number' = -1 /\ B!InUse' = B!InUse
        \/ /\ number' \in (0 .. (n_bits - 1)) \ B!InUse
           /\ \A m \in 0 .. (number' - 1) : m \in B!InUse
           /\ B!InUse' = B!InUse \cup {number'}
    <2>1. B!Pool!Take  BY <1>0, TakesLowest DEF CreateReserve
    <2>2. QED  BY <2>1 DEF B!Pool!Take, B!Pool!Number
  <1>5. pc' \in {"idle", "c_get"}
    BY DEF CreateReserve, Return
  <1>6. \A j \in Key : NameOf(j)' = NameOf(j)
    <2>1. \A j \in Key : NameOf(j)' = hashmap_get(j)'  BY <1>5 DEF NameOf
    <2>2. QED  BY <2>1, <1>2, <1>3
  <1>7. KeysInv' \/ held' # held
    BY <1>0, <1>5, <1>6 DEF KeysInv
  <1>8. CASE number' < 0 /\ Return /\ UNCHANGED held
    <2>1. Reserved' = {} /\ ~Creating' /\ ~Clearing'
      BY <1>8 DEF Return, Reserved, Creating, Clearing
    <2>2. B!InUse' = B!InUse  BY <1>4, <1>8, <1>d
    <2>3. Kept  BY <2>1, <2>2, <1>1, <1>6, <1>8 DEF Kept
    <2>4. BitsInv'  BY <2>1, <2>3, KeptNames, <1>8 DEF BitsInv
    <2>5. QED  BY <2>3, <2>4, <1>7, <1>8, KeptNames
  <1>9. CASE number' >= 0 /\ k \in Key /\ pc' = "c_get" /\ key' = k
             /\ tag_key' = number' /\ UNCHANGED held
    <2>1. Reserved' = {number'} /\ ~Clearing'
      BY <1>9 DEF Reserved, Clearing
    <2>2. /\ number' \in (0 .. (n_bits - 1)) \ B!InUse
          /\ \A m \in 0 .. (number' - 1) : m \in B!InUse
          /\ B!InUse' = B!InUse \cup {number'}
      BY <1>4, <1>9, <1>d
    <2>3. (B!InUse \ Reserved)' = B!InUse \ Reserved  BY <2>1, <2>2, <1>1
    <2>4. Kept  BY <2>3, <1>1, <1>6, <1>9 DEF Kept
    <2>5. /\ tag_key' \in B!InUse'
          /\ \A m \in 0 .. (tag_key' - 1) : m \in B!InUse'
      BY <2>2, <1>9
    <2>6. {d \in Desc : held'[d] # None} = (B!InUse \ Reserved)'  BY <2>4, KeptNames
    <2>7. BitsInv'  BY <2>1, <2>5, <2>6 DEF BitsInv
    <2>8. QED  BY <2>4, <2>7, <1>7, <1>9, KeptNames
  <1>10. CASE /\ number' >= 0 /\ k = IPC_PRIVATE
              /\ held' = [held EXCEPT ![number'] = k] /\ Return
    <2>0. PICK e \in (0 .. (n_bits - 1)) \ B!InUse :
            /\ e = number' /\ \A m \in 0 .. (e - 1) : m \in B!InUse
            /\ B!InUse' = B!InUse \cup {e}
      BY <1>4, <1>10, <1>d
    <2>1. Reserved' = {} /\ ~Creating' /\ ~Clearing' /\ pc' = "idle"
      BY <1>10 DEF Return, Reserved, Creating, Clearing
    <2>2. e \in Desc /\ held \in [Desc -> Key \cup {IPC_PRIVATE, None}] /\ held[e] = None
      BY <2>0, <1>0, <1>1, <1>d DEF CallInv, BitsInv
    <2>3. held' = [held EXCEPT ![e] = IPC_PRIVATE]  BY <2>0, <1>10
    <2>4. BitsInv'
      <3>1. {d \in Desc : held'[d] # None} = {d \in Desc : held[d] # None} \cup {e}
        BY <2>2, <2>3, <1>d
      <3>2. {d \in Desc : held'[d] # None} = B!InUse'  BY <3>1, <2>0, <1>0, <1>1 DEF BitsInv
      <3>3. QED  BY <3>2, <2>1 DEF BitsInv
    <2>5. KeysInv'
      <3>1. \A j \in Key : NameOf(j) # None => NameOf(j) \in Desc /\ NameOf(j) # e
        BY <2>2, <1>0, <1>d DEF KeysInv
      <3>2. \A j \in Key : NameOf(j)' # None => NameOf(j)' \in Desc /\ held'[NameOf(j)'] = j
        BY <3>1, <2>2, <2>3, <1>0, <1>6 DEF KeysInv
      <3>3. \A d \in Desc : held'[d] \in Key => NameOf(held[d])' = d
        <4>1. SUFFICES ASSUME NEW d \in Desc, held'[d] \in Key PROVE NameOf(held[d])' = d
          OBVIOUS
        <4>2. d # e /\ held'[d] = held[d]  BY <4>1, <2>2, <2>3, <1>d
        <4>3. QED  BY <4>1, <4>2, <1>0, <1>6 DEF KeysInv
      <3>4. QED  BY <3>2, <3>3, <2>1 DEF KeysInv
    <2>6. Names!RegisterPrivate
      <3>1. e \in Names!Free /\ Names!IsLowestFree(e)
        BY <2>0, <1>1, <1>d DEF Names!Free, Names!IsLowestFree
      <3>2. (B!InUse \ Reserved)' = (B!InUse \ Reserved) \cup {e}  BY <2>0, <2>1, <1>1
      <3>3. [j \in Key |-> NameOf(j)]' = [j \in Key |-> NameOf(j)]  BY <1>6
      <3>4. QED  BY <3>1, <3>2, <3>3, <1>1 DEF Names!RegisterPrivate
    <2>7. QED  BY <2>4, <2>5, <2>6 DEF Names!Next
  <1>11. QED  BY <1>8, <1>9, <1>10 DEF CreateReserve

(* What every step on a key starts from. *)
LEMMA NamesFacts ==
    ASSUME NamesInv
    PROVE  /\ StoreInv /\ PoolInv /\ BitsInv /\ KeysInv /\ CallInv /\ MapInv
           /\ B!InUse \subseteq 0 .. (n_bits - 1) /\ 0 .. (n_bits - 1) \subseteq Desc
           /\ n_bits \in Nat \ {0} /\ None \notin Desc /\ tag_key \in Desc
           /\ IPC_PRIVATE \notin Key /\ None \notin Key /\ None # IPC_PRIVATE
  <1>1. StoreInv /\ PoolInv /\ BitsInv /\ KeysInv /\ CallInv /\ MapInv
    BY DEF NamesInv, StoreInv
  <1>2. QED  BY <1>1, UsedAreDescriptors

(* A step that leaves the bitmask alone keeps the numbers in use. *)
LEMMA BitmaskKept ==
    ASSUME UNCHANGED bitmask
    PROVE  n_bits' = n_bits /\ B!InUse' = B!InUse
  BY DEF bitmask, B!InUse

(* CreateLookup changes no name. *)
LEMMA LookupNames ==
    ASSUME NamesInv, CreateLookup
    PROVE  BitsInv' /\ KeysInv' /\ [Names!Next]_(Names!vars)
  <1>0. BitsInv /\ KeysInv /\ MapInv  BY NamesFacts
  <1>1. /\ pc = "c_get" /\ UNCHANGED <<hashmap, bitmask, key, tag_key, held>>
        /\ pc' \in {"c_undo", "c_set"} /\ (pc' = "c_set" => hashmap_get(key) = None)
    BY DEF CreateLookup
  <1>2. n_bits' = n_bits /\ B!InUse' = B!InUse  BY <1>1, BitmaskKept
  <1>3. \A k \in Key : hashmap_get(k)' = hashmap_get(k)  BY <1>0, <1>1, MapKept
  <1>4. Reserved' = Reserved  BY <1>1 DEF Reserved
  <1>5. \A k \in Key : NameOf(k)' = NameOf(k)  BY <1>1, <1>3 DEF NameOf
  <1>6. Kept  BY <1>1, <1>2, <1>4, <1>5 DEF Kept
  <1>7. BitsInv'
    <2>1. Creating /\ Creating' /\ ~Clearing'  BY <1>1 DEF Creating, Clearing
    <2>2. {d \in Desc : held'[d] # None} = (B!InUse \ Reserved)'  BY <1>6, KeptNames
    <2>3. QED  BY <2>1, <2>2, <1>0, <1>1, <1>2 DEF BitsInv
  <1>8. KeysInv'
    <2>1. hashmap_get(key)' = hashmap_get(key)  BY <1>1 DEF hashmap, hashmap_get
    <2>2. QED  BY <2>1, <1>1, <1>6, KeptNames DEF KeysInv
  <1>9. QED  BY <1>6, <1>7, <1>8, KeptNames

(* CreateUndo: what -EBUSY and -ENOMEM give back was nobody's yet. *)
LEMMA UndoNames ==
    ASSUME NamesInv, StoreInv', CreateUndo
    PROVE  BitsInv' /\ KeysInv' /\ [Names!Next]_(Names!vars)
  <1>0. BitsInv /\ KeysInv /\ MapInv /\ PoolInv /\ PoolInv' /\ tag_key \in Desc
    BY NamesFacts DEF StoreInv
  <1>1. pc = "c_undo" /\ pc' = "idle" /\ UNCHANGED <<hashmap, held>>
    BY DEF CreateUndo, Return
  <1>2. n_bits' = n_bits /\ B!InUse' = B!InUse \ {tag_key}
    <2>1. B!Pool!Give(tag_key)  BY <1>0, GivesBack DEF CreateUndo
    <2>2. QED  BY <2>1 DEF B!Pool!Give
  <1>3. \A k \in Key : hashmap_get(k)' = hashmap_get(k)  BY <1>0, <1>1, MapKept
  <1>4. Reserved' = {} /\ Reserved = {tag_key} /\ ~Creating' /\ ~Clearing'
    BY <1>1 DEF Reserved, Creating, Clearing
  <1>5. \A k \in Key : NameOf(k)' = NameOf(k)  BY <1>1, <1>3 DEF NameOf
  <1>6. Kept  BY <1>1, <1>2, <1>4, <1>5 DEF Kept
  <1>7. BitsInv'  BY <1>4, <1>6, <1>1, KeptNames DEF BitsInv
  <1>8. KeysInv'  BY <1>1, <1>6, KeptNames DEF KeysInv
  <1>9. QED  BY <1>6, <1>7, <1>8, KeptNames

(* ClearStart changes no name. *)
LEMMA StartNames ==
    ASSUME NamesInv, NEW d \in Desc, ClearStart(d)
    PROVE  BitsInv' /\ KeysInv' /\ [Names!Next]_(Names!vars)
  <1>0. BitsInv /\ KeysInv /\ MapInv /\ IPC_PRIVATE \notin Key  BY NamesFacts
  <1>1. /\ pc = "idle" /\ key' = held[d] /\ tag_key' = d
        /\ pc' = IF held[d] = IPC_PRIVATE THEN "d_number" ELSE "d_get"
        /\ UNCHANGED <<hashmap, bitmask, held>>
    BY DEF ClearStart
  <1>2. n_bits' = n_bits /\ B!InUse' = B!InUse  BY <1>1, BitmaskKept
  <1>3. \A k \in Key : hashmap_get(k)' = hashmap_get(k)  BY <1>0, <1>1, MapKept
  <1>4. Reserved' = {} /\ Reserved = {} /\ ~Creating'
    BY <1>1 DEF Reserved, Creating
  <1>5. \A k \in Key : NameOf(k)' = NameOf(k)
    <2>1. ASSUME NEW k \in Key PROVE NameOf(k)' = hashmap_get(k)'
      BY <1>0, <1>1 DEF NameOf
    <2>2. QED  BY <2>1, <1>1, <1>3, NameOfIs
  <1>6. Kept  BY <1>1, <1>2, <1>4, <1>5 DEF Kept
  <1>7. BitsInv'
    <2>1. {e \in Desc : held'[e] # None} = (B!InUse \ Reserved)'  BY <1>6, KeptNames
    <2>2. QED  BY <2>1, <1>1, <1>4 DEF BitsInv
  <1>8. KeysInv'
    <2>1. pc' # "c_set" /\ ~(pc' = "d_number" /\ key' \in Key)  BY <1>0, <1>1
    <2>2. QED  BY <2>1, <1>6, KeptNames DEF KeysInv
  <1>9. QED  BY <1>6, <1>7, <1>8, KeptNames

(* ClearLookup finds the descriptor of the tag that is cleared. *)
LEMMA FoundNames ==
    ASSUME NamesInv, ClearLookup
    PROVE  BitsInv' /\ KeysInv' /\ [Names!Next]_(Names!vars)
  <1>0. /\ BitsInv /\ KeysInv /\ MapInv /\ CallInv /\ tag_key \in Desc
    BY NamesFacts
  <1>1. pc = "d_get" /\ UNCHANGED <<hashmap, bitmask, key, tag_key, held>>
    BY DEF ClearLookup
  <1>k. key \in Key /\ held[tag_key] = key  BY <1>0, <1>1 DEF CallInv, BitsInv, Clearing
  <1>p. pc' = "d_delete"
    <2>1. NameOf(held[tag_key]) = tag_key  BY <1>0, <1>k DEF KeysInv
    <2>2. hashmap_get(key) = tag_key  BY <2>1, <1>k, <1>1, NameOfIs
    <2>3. QED  BY <2>2 DEF ClearLookup
  <1>2. n_bits' = n_bits /\ B!InUse' = B!InUse  BY <1>1, BitmaskKept
  <1>3. \A k \in Key : hashmap_get(k)' = hashmap_get(k)  BY <1>0, <1>1, MapKept
  <1>4. Reserved' = {} /\ Reserved = {} /\ ~Creating'
    BY <1>1, <1>p DEF Reserved, Creating
  <1>5. \A k \in Key : NameOf(k)' = NameOf(k)  BY <1>1, <1>p, <1>3 DEF NameOf
  <1>6. Kept  BY <1>1, <1>2, <1>4, <1>5 DEF Kept
  <1>7. BitsInv'
    <2>1. {e \in Desc : held'[e] # None} = (B!InUse \ Reserved)'  BY <1>6, KeptNames
    <2>2. QED  BY <2>1, <1>1, <1>4, <1>k DEF BitsInv
  <1>8. KeysInv'  BY <1>p, <1>6, KeptNames DEF KeysInv
  <1>9. QED  BY <1>6, <1>7, <1>8, KeptNames

(* ClearDelete: the key still names the descriptor, until its bit is       *)
(* clear.                                                                  *)
LEMMA DeletedNames ==
    ASSUME NamesInv, ClearDelete
    PROVE  BitsInv' /\ KeysInv' /\ [Names!Next]_(Names!vars)
  <1>0. /\ BitsInv /\ KeysInv /\ MapInv /\ CallInv /\ tag_key \in Desc
    BY NamesFacts
  <1>1. pc = "d_delete" /\ pc' = "d_number" /\ UNCHANGED <<bitmask, key, tag_key, held>>
    BY DEF ClearDelete
  <1>k. key \in Key /\ WasDeleted(key)  BY <1>0, DeleteEffect
  <1>h. held[tag_key] = key /\ hashmap_get(key) = tag_key
    <2>1. held[tag_key] = key  BY <1>0, <1>1 DEF BitsInv, Clearing
    <2>2. NameOf(held[tag_key]) = tag_key  BY <2>1, <1>0, <1>k DEF KeysInv
    <2>3. QED  BY <2>1, <2>2, <1>1, NameOfIs
  <1>2. n_bits' = n_bits /\ B!InUse' = B!InUse  BY <1>1, BitmaskKept
  <1>3. \A k \in Key : hashmap_get(k)' = IF k = key THEN None ELSE hashmap_get(k)
    BY <1>k DEF WasDeleted
  <1>4. Reserved' = {} /\ Reserved = {} /\ ~Creating'
    BY <1>1 DEF Reserved, Creating
  <1>5. \A k \in Key : NameOf(k)' = NameOf(k)
    <2>1. \A k \in Key : NameOf(k)' = IF k = key THEN tag_key ELSE hashmap_get(k)'
      BY <1>1 DEF NameOf
    <2>2. QED  BY <2>1, <1>1, <1>3, <1>h, NameOfIs
  <1>6. Kept  BY <1>1, <1>2, <1>4, <1>5 DEF Kept
  <1>7. BitsInv'
    <2>1. {e \in Desc : held'[e] # None} = (B!InUse \ Reserved)'  BY <1>6, KeptNames
    <2>2. QED  BY <2>1, <1>1, <1>4, <1>h DEF BitsInv
  <1>8. KeysInv'
    <2>1. hashmap_get(key)' = None
      <3>1. PICK k \in Key : k = key  BY <1>k
      <3>2. hashmap_get(k)' = None  BY <3>1, <1>3
      <3>3. QED  BY <3>1, <3>2, <1>1 DEF hashmap_get
    <2>2. QED  BY <2>1, <1>1, <1>6, KeptNames DEF KeysInv
  <1>9. QED  BY <1>6, <1>7, <1>8, KeptNames

(* CreateAdd registers the key, or fails and changes no name. *)
LEMMA AddedNames ==
    ASSUME NamesInv, CreateAdd
    PROVE  BitsInv' /\ KeysInv' /\ [Names!Next]_(Names!vars)
  <1>0. /\ BitsInv /\ KeysInv /\ MapInv /\ CallInv /\ tag_key \in Desc
        /\ B!InUse \subseteq 0 .. (n_bits - 1) /\ n_bits \in Nat \ {0}
        /\ 0 .. (n_bits - 1) \subseteq Desc /\ None \notin Desc /\ None \notin Key
    BY NamesFacts
  <1>1. pc = "c_set" /\ UNCHANGED bitmask
    BY DEF CreateAdd
  <1>k. key \in Key /\ hashmap_get(key) = None  BY <1>0, <1>1 DEF CallInv, KeysInv
  <1>2. n_bits' = n_bits /\ B!InUse' = B!InUse  BY <1>1, BitmaskKept
  <1>t. Reserved = {tag_key} /\ tag_key \in B!InUse
        /\ \A m \in 0 .. (tag_key - 1) : m \in B!InUse
    BY <1>0, <1>1 DEF BitsInv, Creating, Reserved
  <1>n. \A k \in Key : NameOf(k) = hashmap_get(k)  BY <1>1, NameOfIs
  <1>3. CASE /\ UNCHANGED <<key, tag_key, held>> /\ pc' = "c_undo"
             /\ \A k \in Key : hashmap_get(k)' = hashmap_get(k)
    <2>1. Reserved' = Reserved /\ Creating' /\ ~Clearing'
      BY <1>3, <1>1 DEF Reserved, Creating, Clearing
    <2>2. \A k \in Key : NameOf(k)' = NameOf(k)  BY <1>1, <1>3 DEF NameOf
    <2>3. Kept  BY <2>1, <2>2, <1>2, <1>3 DEF Kept
    <2>4. BitsInv'
      <3>1. {d \in Desc : held'[d] # None} = (B!InUse \ Reserved)'  BY <2>3, KeptNames
      <3>2. QED  BY <3>1, <2>1, <1>2, <1>3, <1>t DEF BitsInv
    <2>5. KeysInv'  BY <2>3, <1>3, KeptNames DEF KeysInv
    <2>6. QED  BY <2>3, <2>4, <2>5, KeptNames
  <1>4. CASE WasSet(key, tag_key) /\ held' = [held EXCEPT ![tag_key] = key] /\ Return
    <2>1. pc' = "idle" /\ Reserved' = {} /\ ~Creating' /\ ~Clearing'
      BY <1>4 DEF Return, Reserved, Creating, Clearing
    <2>2. \A k \in Key : NameOf(k)' = IF k = key THEN tag_key ELSE NameOf(k)
      <3>1. \A k \in Key : NameOf(k)' = hashmap_get(k)'  BY <2>1 DEF NameOf
      <3>2. \A k \in Key : hashmap_get(k)' = IF k = key THEN tag_key ELSE hashmap_get(k)
        BY <1>4 DEF WasSet
      <3>3. QED  BY <3>1, <3>2, <1>n
    <2>3. held[tag_key] = None /\ held \in [Desc -> Key \cup {IPC_PRIVATE, None}]
      BY <1>0, <1>t DEF CallInv, BitsInv
    <2>4. held' = [held EXCEPT ![tag_key] = key]  BY <1>4
    <2>5. BitsInv'
      <3>1. {d \in Desc : held'[d] # None} = {d \in Desc : held[d] # None} \cup {tag_key}
        BY <2>3, <2>4, <1>0, <1>k
      <3>2. {d \in Desc : held'[d] # None} = B!InUse'  BY <3>1, <1>0, <1>2, <1>t DEF BitsInv
      <3>3. QED  BY <3>2, <2>1 DEF BitsInv
    <2>6. KeysInv'
      <3>1. \A k \in Key : NameOf(k) # None => NameOf(k) \in Desc /\ NameOf(k) # tag_key
        BY <2>3, <1>0 DEF KeysInv
      <3>2. \A k \in Key : NameOf(k)' # None => NameOf(k)' \in Desc /\ held'[NameOf(k)'] = k
        BY <3>1, <2>2, <2>3, <2>4, <1>0 DEF KeysInv
      <3>3. \A d \in Desc : held'[d] \in Key => NameOf(held[d])' = d
        <4>1. SUFFICES ASSUME NEW d \in Desc, held'[d] \in Key PROVE NameOf(held[d])' = d
          OBVIOUS
        <4>2. CASE d = tag_key
          <5>1. held'[d] = key  BY <4>2, <2>3, <2>4
          <5>2. PICK k \in Key : k = held'[d]  BY <4>1
          <5>3. NameOf(k)' = tag_key  BY <5>1, <5>2, <2>2
          <5>4. NameOf(held[d])' = NameOf(k)'  BY <5>2 DEF NameOf, hashmap_get
          <5>5. QED  BY <5>3, <5>4, <4>2
        <4>3. CASE d # tag_key
          <5>1. held'[d] = held[d] /\ held[d] \in Key  BY <4>1, <4>3, <2>3, <2>4
          <5>2. NameOf(held[d]) = d  BY <5>1, <1>0 DEF KeysInv
          <5>3. PICK k \in Key : k = held[d]  BY <5>1
          <5>4. k # key
            <6>1. NameOf(key) = None  BY <1>k, <1>n
            <6>2. QED  BY <6>1, <5>2, <5>3, <1>0
          <5>5. NameOf(k)' = d  BY <5>2, <5>3, <5>4, <2>2
          <5>6. NameOf(held[d])' = NameOf(k)'  BY <5>1, <5>3 DEF NameOf, hashmap_get
          <5>7. QED  BY <5>5, <5>6
        <4>4. QED  BY <4>2, <4>3
      <3>4. QED  BY <3>2, <3>3, <2>1 DEF KeysInv
    <2>7. Names!Register(key)
      <3>1. tag_key \in Names!Free /\ Names!IsLowestFree(tag_key)
        <4>1. tag_key \in 0 .. (n_bits - 1)  BY <1>0, <1>t
        <4>2. Names!Free = (0 .. (n_bits - 1)) \ (B!InUse \ {tag_key})
          BY <1>t DEF Names!Free
        <4>3. ASSUME NEW e \in Names!Free PROVE tag_key <= e
          <5>1. e \in 0 .. (n_bits - 1) /\ (e \notin B!InUse \/ e = tag_key)  BY <4>2
          <5>2. e \notin 0 .. (tag_key - 1)  BY <5>1, <4>1, <1>t
          <5>3. QED  BY <5>1, <5>2, <4>1
        <4>4. QED  BY <4>1, <4>2, <4>3 DEF Names!IsLowestFree
      <3>2. (B!InUse \ Reserved)' = (B!InUse \ Reserved) \cup {tag_key}
        BY <2>1, <1>2, <1>t
      <3>3. [k \in Key |-> NameOf(k)]' = [[k \in Key |-> NameOf(k)] EXCEPT ![key] = tag_key]
        BY <2>2
      <3>4. [k \in Key |-> NameOf(k)][key] = None  BY <1>k, <1>n
      <3>5. QED  BY <3>1, <3>2, <3>3, <3>4, <1>2 DEF Names!Register
    <2>8. QED  BY <2>5, <2>6, <2>7, <1>k DEF Names!Next
  <1>5. QED  BY <1>0, <1>3, <1>4, AddEffect

(* ClearNumber unregisters the tag. *)
LEMMA NumberNames ==
    ASSUME NamesInv, StoreInv', ClearNumber
    PROVE  BitsInv' /\ KeysInv' /\ [Names!Next]_(Names!vars)
  <1>0. /\ BitsInv /\ KeysInv /\ MapInv /\ CallInv /\ tag_key \in Desc
        /\ PoolInv /\ PoolInv' /\ IPC_PRIVATE \notin Key
        /\ None \notin Desc /\ None \notin Key /\ None # IPC_PRIVATE
    BY NamesFacts DEF StoreInv
  <1>1. /\ pc = "d_number" /\ pc' = "idle" /\ UNCHANGED hashmap
        /\ held' = [held EXCEPT ![tag_key] = None]
    BY DEF ClearNumber, Return
  <1>2. n_bits' = n_bits /\ B!InUse' = B!InUse \ {tag_key}
    <2>1. B!Pool!Give(tag_key)  BY <1>0, GivesBack DEF ClearNumber
    <2>2. QED  BY <2>1 DEF B!Pool!Give
  <1>3. \A k \in Key : hashmap_get(k)' = hashmap_get(k)  BY <1>0, <1>1, MapKept
  <1>4. Reserved' = {} /\ Reserved = {} /\ ~Creating' /\ ~Clearing'
    BY <1>1 DEF Reserved, Creating, Clearing
  <1>h. /\ held[tag_key] = key /\ key \in Key \cup {IPC_PRIVATE}
        /\ key \in Key => hashmap_get(key) = None
        /\ held \in [Desc -> Key \cup {IPC_PRIVATE, None}]
    BY <1>0, <1>1 DEF BitsInv, CallInv, KeysInv, Clearing
  <1>u. tag_key \in B!InUse  BY <1>0, <1>4, <1>h DEF BitsInv
  <1>5. \A k \in Key : NameOf(k)' = IF k = key THEN None ELSE NameOf(k)
    <2>1. \A k \in Key : NameOf(k)' = hashmap_get(k)'  BY <1>1 DEF NameOf
    <2>2. \A k \in Key : k # key => NameOf(k) = hashmap_get(k)  BY NameOfIs
    <2>3. QED  BY <2>1, <2>2, <1>3, <1>h
  <1>6. BitsInv'
    <2>1. {d \in Desc : held'[d] # None} = {d \in Desc : held[d] # None} \ {tag_key}
      BY <1>0, <1>1, <1>h
    <2>2. {d \in Desc : held'[d] # None} = B!InUse'  BY <2>1, <1>0, <1>2, <1>4 DEF BitsInv
    <2>3. QED  BY <2>2, <1>4 DEF BitsInv
  <1>7. KeysInv'
    <2>1. \A k \in Key : NameOf(k)' # None => NameOf(k)' \in Desc /\ held'[NameOf(k)'] = k
      <3>1. SUFFICES ASSUME NEW k \in Key, NameOf(k)' # None
                     PROVE  NameOf(k)' \in Desc /\ held'[NameOf(k)'] = k
        OBVIOUS
      <3>2. k # key /\ NameOf(k)' = NameOf(k)  BY <3>1, <1>5
      <3>3. NameOf(k) \in Desc /\ held[NameOf(k)] = k  BY <3>1, <3>2, <1>0 DEF KeysInv
      <3>4. NameOf(k) # tag_key  BY <3>2, <3>3, <1>h
      <3>5. QED  BY <3>2, <3>3, <3>4, <1>1, <1>h
    <2>2. \A d \in Desc : held'[d] \in Key => NameOf(held[d])' = d
      <3>1. SUFFICES ASSUME NEW d \in Desc, held'[d] \in Key PROVE NameOf(held[d])' = d
        OBVIOUS
      <3>2. d # tag_key /\ held'[d] = held[d]  BY <3>1, <1>0, <1>1, <1>h
      <3>3. PICK k \in Key : k = held[d]  BY <3>1, <3>2
      <3>4. NameOf(held[d]) = d  BY <3>3, <1>0 DEF KeysInv
      <3>5. k # key  BY <3>2, <3>3, <3>4, <1>1, NameOfIs
      <3>6. NameOf(k)' = d  BY <3>3, <3>4, <3>5, <1>5
      <3>7. NameOf(held[d])' = NameOf(k)'  BY <3>2, <3>3 DEF NameOf, hashmap_get
      <3>8. QED  BY <3>6, <3>7
    <2>3. QED  BY <2>1, <2>2, <1>1 DEF KeysInv
  <1> DEFINE table == [k \in Key |-> NameOf(k)]
  <1>8. (B!InUse \ Reserved)' = (B!InUse \ Reserved) \ {tag_key}
        /\ tag_key \in B!InUse \ Reserved
    BY <1>2, <1>4, <1>u
  <1>9. CASE key \in Key
    <2>1. table[key] = tag_key  BY <1>9, <1>1, NameOfIs
    <2>2. table' = [table EXCEPT ![key] = None]  BY <1>5
    <2>3. Names!Unregister(key)
      BY <2>1, <2>2, <1>2, <1>8 DEF Names!Unregister
    <2>4. QED  BY <2>3, <1>6, <1>7, <1>9 DEF Names!Next
  <1>10. CASE key = IPC_PRIVATE
    <2>1. table' = table  BY <1>5, <1>10, <1>0
    <2>2. ASSUME NEW k \in Key PROVE table[k] # tag_key
      <3>1. NameOf(k) # tag_key  BY <1>0, <1>10, <1>h DEF KeysInv
      <3>2. QED  BY <3>1
    <2>3. Names!UnregisterPrivate(tag_key)
      BY <2>1, <2>2, <1>2, <1>8 DEF Names!UnregisterPrivate
    <2>4. QED  BY <2>3, <1>6, <1>7, <1>8 DEF Names!Next
  <1>11. QED  BY <1>9, <1>10, <1>h

-----------------------------------------------------------------------------
(* There are no names at first. *)
LEMMA InitNames == Init => NamesInv /\ Names!Init
  <1> SUFFICES ASSUME Init PROVE NamesInv /\ Names!Init  OBVIOUS
  <1>1. StoreInv  BY InitStore
  <1>2. B!InUse = {} /\ n_bits \in Sizes  BY InitPool DEF B!Pool!Init
  <1>3. \A k \in Key : hashmap_get(k) = None  BY InitMap
  <1>4. /\ pc = "idle" /\ held = [d \in Desc |-> None] /\ Reserved = {}
        /\ ~Creating /\ ~Clearing
    BY DEF Init, Reserved, Creating, Clearing
  <1>5. \A k \in Key : NameOf(k) = None  BY <1>3, <1>4, NameOfIs
  <1>6. None \notin Key  BY KeyStoreAssumption
  <1>7. BitsInv /\ KeysInv  BY <1>2, <1>4, <1>5, <1>6 DEF BitsInv, KeysInv
  <1>8. QED  BY <1>1, <1>2, <1>4, <1>5, <1>7 DEF NamesInv, Names!Init

(* Each step keeps bits, keys and tags together and is a step of NameTable *)
(* or a stutter.                                                           *)
LEMMA NextNames == NamesInv /\ [Next]_vars => NamesInv' /\ [Names!Next]_(Names!vars)
  <1> SUFFICES ASSUME NamesInv, [Next]_vars
               PROVE  NamesInv' /\ [Names!Next]_(Names!vars)
    OBVIOUS
  <1>1. StoreInv'  BY NextStore, NamesFacts
  <1>2. ASSUME NEW k \in Key \cup {IPC_PRIVATE}, CreateReserve(k)
        PROVE  BitsInv' /\ KeysInv' /\ [Names!Next]_(Names!vars)
    BY <1>1, <1>2, ReserveNames
  <1>3. ASSUME NEW d \in Desc, ClearStart(d)
        PROVE  BitsInv' /\ KeysInv' /\ [Names!Next]_(Names!vars)
    BY <1>3, StartNames
  <1>4. CASE UNCHANGED vars
    <2>1. UNCHANGED <<hashmap, bitmask, pc, key, tag_key, held>>  BY <1>4 DEF vars, call
    <2>2. n_bits' = n_bits /\ B!InUse' = B!InUse  BY <2>1, BitmaskKept
    <2>3. \A k : hashmap_get(k)' = hashmap_get(k)  BY <2>1 DEF hashmap_get, hashmap
    <2>4. Reserved' = Reserved /\ (Creating <=> Creating') /\ (Clearing <=> Clearing')
      BY <2>1 DEF Reserved, Creating, Clearing
    <2>5. \A k : NameOf(k)' = NameOf(k)  BY <2>1, <2>3 DEF NameOf
    <2>6. Kept  BY <2>1, <2>2, <2>4, <2>5 DEF Kept
    <2>7. BitsInv'
      <3>1. {d \in Desc : held'[d] # None} = (B!InUse \ Reserved)'  BY <2>6, KeptNames
      <3>2. BitsInv  BY NamesFacts
      <3>3. QED  BY <3>1, <3>2, <2>1, <2>2, <2>4 DEF BitsInv
    <2>8. KeysInv'
      <3>1. hashmap_get(key)' = hashmap_get(key)  BY <2>1 DEF hashmap_get, hashmap
      <3>2. KeysInv  BY NamesFacts
      <3>3. QED  BY <3>1, <3>2, <2>1, <2>6, KeptNames DEF KeysInv
    <2>9. QED  BY <2>6, <2>7, <2>8, <1>1, KeptNames DEF NamesInv
  <1>5. CASE Next
    BY <1>1, <1>2, <1>3, <1>5, LookupNames, AddedNames, UndoNames, FoundNames,
       DeletedNames, NumberNames DEF Next, NamesInv
  <1>6. QED  BY <1>4, <1>5

(* NothingLeftBehind: between two calls of tag_get and clear_tag_common    *)
(* the bits set and the keys in tag_table are those of the tags that       *)
(* exist, although creations fail halfway (-EBUSY, -ENOMEM, -EPROTO).      *)
THEOREM NothingIsLeftBehind == Spec => []NothingLeftBehind
  <1>1. NamesInv => NothingLeftBehind
    <2> SUFFICES ASSUME NamesInv, pc = "idle"
                 PROVE  /\ {d \in Desc : held[d] # None} = B!InUse
                        /\ \A k \in Key : hashmap_get(k) # None => held[hashmap_get(k)] = k
                        /\ \A d \in Desc : held[d] \in Key => hashmap_get(held[d]) = d
      BY DEF NothingLeftBehind
    <2>1. BitsInv /\ KeysInv /\ Reserved = {}  BY NamesFacts DEF Reserved
    <2>2. \A k : NameOf(k) = hashmap_get(k)  BY NameOfIs
    <2>3. QED  BY <2>1, <2>2 DEF BitsInv, KeysInv
  <1>2. QED  BY <1>1, InitNames, NextNames, PTL DEF Spec

(* The hash map and the bitmask together, as tag_get and clear_tag_common  *)
(* drive them, implement the table of names: the lowest free descriptor,   *)
(* one key for one descriptor, and no trace of a call that failed.         *)
THEOREM StoreImplementsNames == Spec => ImplementsNames
  BY InitNames, NextNames, PTL DEF Spec, ImplementsNames, Names!Spec
=============================================================================
