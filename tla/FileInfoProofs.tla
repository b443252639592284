--------------------------- MODULE FileInfoProofs ---------------------------
(***************************************************************************)
(* Proofs about FileInfo, for any set of attributes and values and for any *)
(* two widths of the fields: an attribute reads back as it was given, and  *)
(* a valid bit means that a value was given.                               *)
(***************************************************************************)
EXTENDS FileInfo, TLAPS

\* Every field has a positive number of values, no more than a 64-bit one.
LEMMA SizeType ==
    ASSUME NEW a
    PROVE  Size(a) \in Nat /\ Size(a) > 1 /\ Size(a) <= Wide
BY InfoConstants DEF Size

\* What % does with a number that fits, and with any.
LEMMA ModFits ==
    ASSUME NEW n \in Int, NEW k \in Nat, k > 0
    PROVE  /\ n % k \in 0 .. k - 1
           /\ n \in 0 .. k - 1 => n % k = n
OBVIOUS

\* A number becomes a value of its field, and is kept if the field holds it.
LEMMA FieldFits ==
    ASSUME NEW a, NEW type, NEW n \in Int
    PROVE  /\ Field(a, type, n) \in Nat
           /\ Field(a, type, n) < Size(a)
           /\ n \in 0 .. Size(a) - 1 => Field(a, type, n) = n
<1>1. Size(a) \in Nat /\ Size(a) > 1 /\ Size(a) <= Wide /\ Wide \in Nat
  BY SizeType, InfoConstants
<1>2. /\ n % Size(a) \in 0 .. Size(a) - 1
      /\ n \in 0 .. Size(a) - 1 => n % Size(a) = n
  BY <1>1, ModFits
<1> QED
  BY <1>1, <1>2 DEF Field

\* Every assignment, __init__ and filled structure keeps the types.
LEMMA InfoTypeStep ==
    ASSUME InfoTypeOK, [InfoNext]_infoVars
    PROVE  InfoTypeOK'
<1> USE DEF InfoTypeOK
<1>1. ASSUME NEW a \in Attrs \cap TextAttrs, NEW s \in Strings,
             setattr_text(a, s)
      PROVE  InfoTypeOK'
  <2>1. a # "name" => ValidBit(a) \in ValidBits
    BY DEF ValidBits
  <2> QED
    BY <1>1, <2>1 DEF setattr_text, Given
<1>2. ASSUME NEW a \in Attrs \cap NumberAttrs, NEW type \in {"int", "long"},
             NEW n \in Numbers, setattr_number(a, type, n)
      PROVE  InfoTypeOK'
  <2>1. a # "name"
    BY DEF NumberAttrs, IntAttrs, CountAttrs, TimeAttrs
  <2>2. ValidBit(a) \in ValidBits
    BY <2>1 DEF ValidBits
  <2>3. Field(a, type, n) \in Nat /\ Field(a, type, n) < Size(a)
    BY FieldFits, InfoConstants
  <2>4. number' = [number EXCEPT ![a] = Field(a, type, n)]
    BY <1>2 DEF setattr_number
  <2>5. /\ number' \in [Attrs \cap NumberAttrs -> Nat]
        /\ \A b \in Attrs \cap NumberAttrs : number'[b] < Size(b)
    BY <2>3, <2>4
  <2> QED
    BY <1>2, <2>2, <2>5 DEF setattr_number, Given
<1>3. ASSUME "permissions" \in Attrs,
             NEW b \in SUBSET (AccessBits \cup ModeBits),
             setattr_permissions(b)
      PROVE  InfoTypeOK'
  <2>1. "permissions" \in ValidBits
    BY <1>3 DEF ValidBits, ValidBit
  <2> QED
    BY <1>3, <2>1 DEF setattr_permissions, Given
<1>4. ASSUME "access" \in Attrs,
             NEW b \in SUBSET (AccessBits \cup ModeBits), setattr_access(b)
      PROVE  InfoTypeOK'
  <2>1. "access" \in ValidBits
    BY <1>4 DEF ValidBits, ValidBit
  <2> QED
    BY <1>4, <2>1 DEF setattr_access, Given
<1>5. ASSUME NEW v \in {{}, ValidBits}, setattr_valid_fields(v)
      PROVE  InfoTypeOK'
  BY <1>5 DEF setattr_valid_fields
<1>6. CASE pygvfinfo_init
  <2>1. \A a \in Attrs : 0 < Size(a)
    BY SizeType
  <2> QED
    BY <1>6, <2>1 DEF pygvfinfo_init
<1>7. ASSUME NEW v \in SUBSET ValidBits, NEW s \in Strings,
             NEW n \in 0 .. Narrow - 1,
             NEW b \in SUBSET (AccessBits \cup ModeBits),
             pygnome_vfs_file_info_new(v, s, n, b)
      PROVE  InfoTypeOK'
  <2>1. \A a \in Attrs : n < Size(a)
    BY InfoConstants DEF Size
  <2>2. given' = [a \in Attrs |-> given'[a]]
    BY <1>7 DEF pygnome_vfs_file_info_new
  <2>3. /\ number' \in [Attrs \cap NumberAttrs -> Nat]
        /\ \A a \in Attrs \cap NumberAttrs : number'[a] < Size(a)
    BY <1>7, <2>1 DEF pygnome_vfs_file_info_new
  <2> QED
    BY <1>7, <2>2, <2>3 DEF pygnome_vfs_file_info_new
<1>8. CASE UNCHANGED infoVars
  BY <1>8 DEF infoVars
<1> QED
  BY <1>1, <1>2, <1>3, <1>4, <1>5, <1>6, <1>7, <1>8 DEF InfoNext, setattr

\* Type correctness: every numeric field stays within its width.
THEOREM InfoTypeCorrect == InfoSpec => []InfoTypeOK
<1>1. InfoInit => InfoTypeOK
  <2>1. \A a \in Attrs : 0 < Size(a)
    BY SizeType
  <2>2. SUFFICES ASSUME InfoInit
                 PROVE  InfoTypeOK
    OBVIOUS
  <2>3. given = [a \in Attrs |-> given[a]]
    BY <2>2 DEF InfoInit
  <2>4. /\ number \in [Attrs \cap NumberAttrs -> Nat]
        /\ \A a \in Attrs \cap NumberAttrs : number[a] < Size(a)
    BY <2>1, <2>2 DEF InfoInit
  <2> QED
    BY <2>2, <2>3, <2>4 DEF InfoInit, InfoTypeOK
<1> QED
  BY <1>1, InfoTypeStep, PTL DEF InfoSpec

-----------------------------------------------------------------------------
(***************************************************************************)
(* ReadsBack and ValidMeansGiven are inductive together with the types; an *)
(* assignment is looked at for the attribute it is about and for any       *)
(* other.                                                                  *)
(***************************************************************************)

\* Nothing that is put into an attribute is taken for "nothing".
LEMMA GivenNotNull ==
    /\ \A s \in Strings : s # NULL
    /\ \A n \in Int : n # NULL
    /\ \A b \in SUBSET (AccessBits \cup ModeBits) : b # NULL
BY InfoConstants

\* A time that its field holds reads as itself; so do the other numbers.
LEMMA HoldsReads ==
    ASSUME NEW a, NEW n \in Holds(a)
    PROVE  /\ n \in Int
           /\ n \in 0 .. Size(a) - 1
           /\ a \in TimeAttrs => Signed(n) = n
<1>1. Wide \in Nat /\ Size(a) \in Nat
  BY SizeType, InfoConstants
<1>2. CASE a \in TimeAttrs
  <2>1. Size(a) = Wide
    BY <1>2 DEF Size
  <2>2. n \in 0 .. (Wide \div 2) - 1
    BY <1>2 DEF Holds
  <2> QED
    BY <1>1, <1>2, <2>1, <2>2 DEF Signed
<1>3. CASE a \notin TimeAttrs
  BY <1>1, <1>3 DEF Holds
<1> QED
  BY <1>2, <1>3

\* One step keeps what attributes read as.
LEMMA ReadsBackStep ==
    ASSUME InfoTypeOK, ReadsBack, [InfoNext]_infoVars
    PROVE  ReadsBack'
<1> USE DEF InfoTypeOK, ReadsBack, Readable, getattr_number, getattr_bits
<1>0. \A a \in NumberAttrs : a \notin TextAttrs \cup BitAttrs
  BY DEF NumberAttrs, IntAttrs, CountAttrs, TimeAttrs, TextAttrs, BitAttrs
<1>00. /\ \A a \in TextAttrs : a \notin BitAttrs
       /\ "permissions" \in BitAttrs /\ "access" \in BitAttrs
  BY DEF TextAttrs, BitAttrs
<1>1. ASSUME NEW a \in Attrs \cap TextAttrs, NEW s \in Strings,
             setattr_text(a, s)
      PROVE  ReadsBack'
  BY <1>0, <1>00, <1>1 DEF setattr_text, Given
<1>2. ASSUME NEW a \in Attrs \cap NumberAttrs, NEW type \in {"int", "long"},
             NEW n \in Numbers, setattr_number(a, type, n)
      PROVE  ReadsBack'
  <2>1. n \in Holds(a) => /\ Field(a, type, n) = n
                          /\ a \in TimeAttrs => Signed(n) = n
    BY FieldFits, HoldsReads
  <2> QED
    BY <1>0, <1>00, <1>2, <2>1 DEF setattr_number, Given
<1>3. ASSUME "permissions" \in Attrs,
             NEW b \in SUBSET (AccessBits \cup ModeBits),
             setattr_permissions(b)
      PROVE  ReadsBack'
  BY <1>0, <1>00, <1>3 DEF setattr_permissions, Given, ValidBit
<1>4. ASSUME "access" \in Attrs,
             NEW b \in SUBSET (AccessBits \cup ModeBits), setattr_access(b)
      PROVE  ReadsBack'
  BY <1>0, <1>00, <1>4 DEF setattr_access, Given, ValidBit
<1>5. ASSUME NEW v \in {{}, ValidBits}, setattr_valid_fields(v)
      PROVE  ReadsBack'
  BY <1>5 DEF setattr_valid_fields
<1>6. CASE pygvfinfo_init
  BY <1>6 DEF pygvfinfo_init
<1>7. ASSUME NEW v \in SUBSET ValidBits, NEW s \in Strings,
             NEW n \in 0 .. Narrow - 1,
             NEW b \in SUBSET (AccessBits \cup ModeBits),
             pygnome_vfs_file_info_new(v, s, n, b)
      PROVE  ReadsBack'
  BY <1>0, <1>00, <1>7 DEF pygnome_vfs_file_info_new
<1>8. CASE UNCHANGED infoVars
  BY <1>8 DEF infoVars
<1> QED
  BY <1>1, <1>2, <1>3, <1>4, <1>5, <1>6, <1>7, <1>8 DEF InfoNext, setattr

\* An attribute reads as it was given through any sequence of assignments.
THEOREM InfoReadsBack == InfoSpec => []ReadsBack
<1>1. InfoInit => ReadsBack
  BY DEF InfoInit, ReadsBack
<1> QED
  BY <1>1, InfoTypeCorrect, ReadsBackStep, PTL DEF InfoSpec

\* One step keeps the meaning of the valid bits: an assignment sets the bit
\* of its own attribute, which it gives a value; only uid and gid share one.
LEMMA ValidStep ==
    ASSUME InfoTypeOK, ValidMeansGiven, [InfoNext]_infoVars
    PROVE  ValidMeansGiven'
<1> USE DEF InfoTypeOK, ValidMeansGiven, ValidBit
<1>0. \A a, b \in Attrs : ValidBit(a) = ValidBit(b) =>
          a = b \/ (a \in {"uid", "gid"} /\ b \in {"uid", "gid"})
  <2>1. "ids" \notin TextAttrs \cup NumberAttrs \cup BitAttrs
    BY DEF NumberAttrs, IntAttrs, CountAttrs, TimeAttrs, TextAttrs, BitAttrs
  <2> QED
    BY <2>1, InfoConstants
<1>1. ASSUME NEW a \in Attrs \cap TextAttrs, NEW s \in Strings,
             setattr_text(a, s)
      PROVE  ValidMeansGiven'
  BY <1>0, <1>1, GivenNotNull DEF setattr_text, Given, TextAttrs
<1>2. ASSUME NEW a \in Attrs \cap NumberAttrs, NEW type \in {"int", "long"},
             NEW n \in Numbers, setattr_number(a, type, n)
      PROVE  ValidMeansGiven'
  <2>1. n # NULL
    BY InfoConstants
  <2>2. /\ valid' = valid \cup {ValidBit(a)}
        /\ given' = [given EXCEPT ![a] = n]
        /\ UNCHANGED masked
    BY <1>2 DEF setattr_number, Given
  <2> QED
    BY <1>0, <2>1, <2>2
<1>3. ASSUME "permissions" \in Attrs,
             NEW b \in SUBSET (AccessBits \cup ModeBits),
             setattr_permissions(b)
      PROVE  ValidMeansGiven'
  BY <1>0, <1>3, GivenNotNull DEF setattr_permissions, Given
<1>4. ASSUME "access" \in Attrs,
             NEW b \in SUBSET (AccessBits \cup ModeBits), setattr_access(b)
      PROVE  ValidMeansGiven'
  <2>1. b # NULL
    BY GivenNotNull
  <2> QED
    BY <1>0, <1>4, <2>1 DEF setattr_access, Given
<1>5. ASSUME NEW v \in {{}, ValidBits}, setattr_valid_fields(v)
      PROVE  ValidMeansGiven'
  BY <1>5 DEF setattr_valid_fields
<1>6. CASE pygvfinfo_init
  BY <1>6 DEF pygvfinfo_init
<1>7. ASSUME NEW v \in SUBSET ValidBits, NEW s \in Strings,
             NEW n \in 0 .. Narrow - 1,
             NEW b \in SUBSET (AccessBits \cup ModeBits),
             pygnome_vfs_file_info_new(v, s, n, b)
      PROVE  ValidMeansGiven'
  <2>1. /\ s # NULL /\ n # NULL /\ Signed(n) # NULL
        /\ b \cap AccessBits # NULL /\ b \ AccessBits # NULL
    <3>1. n \in Int /\ Signed(n) \in Int
      BY InfoConstants DEF Signed
    <3> QED
      BY <3>1, GivenNotNull
  <2> QED
    BY <1>7, <2>1 DEF pygnome_vfs_file_info_new
<1>8. CASE UNCHANGED infoVars
  BY <1>8 DEF infoVars
<1> QED
  BY <1>1, <1>2, <1>3, <1>4, <1>5, <1>6, <1>7, <1>8 DEF InfoNext, setattr

\* A valid bit that was not assigned as such belongs to a given attribute.
THEOREM InfoValidMeansGiven == InfoSpec => []ValidMeansGiven
<1>1. InfoInit => ValidMeansGiven
  BY DEF InfoInit, ValidMeansGiven
<1> QED
  BY <1>1, InfoTypeCorrect, ValidStep, PTL DEF InfoSpec

=============================================================================
