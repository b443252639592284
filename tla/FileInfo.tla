------------------------------ MODULE FileInfo ------------------------------
(***************************************************************************)
(* A gnomevfs.FileInfo object (gnomevfs/vfs-file-info.c): the fields of a  *)
(* GnomeVFSFileInfo and valid_fields, which tells the fields that count.   *)
(* uid and gid have one valid bit between them; permissions and access     *)
(* have one each, but live in one field.                                   *)
(*                                                                         *)
(* given, masked and added are history variables: what the program, or     *)
(* GnomeVFS, put into an attribute.                                        *)
(***************************************************************************)
EXTENDS Integers

CONSTANTS
    Attrs,          \* bound: the attributes that are used
    Numbers,        \* bound: the Python numbers that are assigned
    Strings,
    Narrow,         \* number of values of a 32-bit field
    Wide,           \* number of values of a 64-bit field and of a C long
    AccessBits,     \* PYGNOME_VFS_ACCESS_BITS
    ModeBits,       \* the other bits of permissions
    NULL

TextAttrs == {"name", "symlink_name", "mime_type"}
IntAttrs == {"type", "flags"}
CountAttrs == {"device", "inode", "link_count", "uid", "gid", "size",
               "block_count", "io_block_size"}
TimeAttrs == {"atime", "mtime", "ctime"}
NumberAttrs == IntAttrs \cup CountAttrs \cup TimeAttrs
BitAttrs == {"permissions", "access"}

ASSUME InfoConstants ==
    /\ Attrs \subseteq TextAttrs \cup NumberAttrs \cup BitAttrs
    /\ Numbers \subseteq Int
    /\ Narrow \in Nat /\ Wide \in Nat /\ Narrow > 1 /\ Wide >= Narrow
    /\ AccessBits \cap ModeBits = {}
    /\ NULL \notin Strings /\ NULL \notin Int
    /\ \A b \in SUBSET (AccessBits \cup ModeBits) : NULL # b

VARIABLES
    valid,      \* valid_fields
    text,       \* the string fields
    number,     \* the numeric fields, as unsigned values
    bits,       \* the field permissions
    given,      \* history: what an attribute was last given, or NULL
    masked,     \* history: valid_fields was assigned
    added       \* history: bits given to access after permissions

infoVars == <<valid, text, number, bits, given, masked, added>>

\* The valid bit of an attribute; name has none.
ValidBit(a) == IF a \in {"uid", "gid"} THEN "ids" ELSE a
ValidBits == {ValidBit(a) : a \in Attrs \ {"name"}}

\* Number of values of a field.
Size(a) ==
    IF a \in {"device", "inode", "size", "block_count"} \cup TimeAttrs
    THEN Wide ELSE Narrow

InfoTypeOK ==
    /\ valid \subseteq ValidBits
    /\ text \in [Attrs \cap TextAttrs -> Strings \cup {NULL}]
    /\ number \in [Attrs \cap NumberAttrs -> Nat]
    /\ \A a \in Attrs \cap NumberAttrs : number[a] < Size(a)
    /\ bits \subseteq AccessBits \cup ModeBits
    /\ given = [a \in Attrs |-> given[a]]
    /\ masked \in BOOLEAN
    /\ added \subseteq AccessBits \cup ModeBits

-----------------------------------------------------------------------------
(***************************************************************************)
(* pygvfinfo_getattr.  Whether an attribute can be read, and its value; a  *)
(* time is the same field read as a signed number.                         *)
(***************************************************************************)
Readable(a) == a = "name" \/ ValidBit(a) \in valid

Signed(n) == IF n < Wide \div 2 THEN n ELSE n - Wide
getattr_number(a) == IF a \in TimeAttrs THEN Signed(number[a]) ELSE number[a]

getattr_bits(a) ==
    IF a = "access" THEN bits \cap AccessBits ELSE bits \ AccessBits

-----------------------------------------------------------------------------
(***************************************************************************)
(* A new object: by pygvfinfo_init, which also replaces the structure of   *)
(* an object that has one, or around a structure GnomeVFS filled.          *)
(***************************************************************************)
\* Mutant: __init__ empties the fields and leaves valid_fields as it was.
init_keeps_valid ==
    /\ text' = [a \in Attrs \cap TextAttrs |-> NULL]
    /\ number' = [a \in Attrs \cap NumberAttrs |-> 0]
    /\ bits' = {}
    /\ given' = [a \in Attrs |-> NULL]
    /\ masked' = FALSE
    /\ added' = {}
    /\ UNCHANGED valid

pygvfinfo_init ==
    /\ valid' = {}
    /\ text' = [a \in Attrs \cap TextAttrs |-> NULL]
    /\ number' = [a \in Attrs \cap NumberAttrs |-> 0]
    /\ bits' = {}
    /\ given' = [a \in Attrs |-> NULL]
    /\ masked' = FALSE
    /\ added' = {}

\* GnomeVFS fills what it knows: v are the valid bits, s the strings, n the
\* numbers and b the bits.
pygnome_vfs_file_info_new(v, s, n, b) ==
    /\ valid' = v
    /\ text' = [a \in Attrs \cap TextAttrs |-> s]
    /\ number' = [a \in Attrs \cap NumberAttrs |-> n]
    /\ bits' = b
    /\ given' = [a \in Attrs |->
          IF a # "name" /\ ValidBit(a) \notin v THEN NULL
          ELSE IF a \in TextAttrs THEN s
          ELSE IF a = "access" THEN b \cap AccessBits
          ELSE IF a = "permissions" THEN b \ AccessBits
          ELSE IF a \in TimeAttrs THEN Signed(n) ELSE n]
    /\ masked' = FALSE
    /\ added' = IF "access" \in v THEN b \cap AccessBits ELSE {}

InfoInit ==
    /\ valid = {}
    /\ text = [a \in Attrs \cap TextAttrs |-> NULL]
    /\ number = [a \in Attrs \cap NumberAttrs |-> 0]
    /\ bits = {}
    /\ given = [a \in Attrs |-> NULL]
    /\ masked = FALSE
    /\ added = {}

-----------------------------------------------------------------------------
(***************************************************************************)
(* pygvfinfo_setattr, for each kind of attribute.  A value of another type *)
(* raises TypeError and changes nothing.                                   *)
(***************************************************************************)
Given(a, v) == given' = [given EXCEPT ![a] = v]

setattr_text(a, s) ==
    /\ valid' = IF a = "name" THEN valid ELSE valid \cup {ValidBit(a)}
    /\ text' = [text EXCEPT ![a] = s]
    /\ Given(a, s)
    /\ UNCHANGED <<number, bits, masked, added>>

\* The Python types an attribute takes.
Accepts(a, type) ==
    CASE a \in IntAttrs -> type = "int"
      [] a \in CountAttrs -> type \in {"int", "long"}
      [] a \in TimeAttrs -> type = "long"

\* A Python int is a C long.
IsInt(n) == n >= -(Wide \div 2) /\ n < Wide \div 2

\* A number as an unsigned field.  PyLong_AsUnsignedLongLong answers all ones
\* for a long that does not fit, and leaves an exception pending that nobody
\* looks at.
Field(a, type, n) ==
    IF type = "long" /\ n \notin 0 .. Wide - 1 THEN Size(a) - 1
                                               ELSE n % Size(a)

\* Mutant: every number is stored in 32 bits.
setattr_number_narrow(a, type, n) ==
    /\ Accepts(a, type)
    /\ type = "int" => IsInt(n)
    /\ valid' = valid \cup {ValidBit(a)}
    /\ number' = [number EXCEPT ![a] = Field(a, type, n) % Narrow]
    /\ Given(a, n)
    /\ UNCHANGED <<text, bits, masked, added>>

setattr_number(a, type, n) ==
    /\ Accepts(a, type)
    /\ type = "int" => IsInt(n)
    /\ valid' = valid \cup {ValidBit(a)}
    /\ number' = [number EXCEPT ![a] = Field(a, type, n)]
    /\ Given(a, n)
    /\ UNCHANGED <<text, bits, masked, added>>

setattr_permissions(b) ==
    /\ valid' = valid \cup {"permissions"}
    /\ bits' = b
    /\ Given("permissions", b)
    /\ added' = {}
    /\ UNCHANGED <<text, number, masked>>

\* The bits, of whatever kind, are added to permissions, never taken away.
setattr_access(b) ==
    /\ valid' = valid \cup {"access"}
    /\ bits' = bits \cup b
    /\ Given("access", b)
    /\ added' = added \cup b
    /\ UNCHANGED <<text, number, masked>>

setattr_valid_fields(v) ==
    /\ valid' = v
    /\ masked' = TRUE
    /\ UNCHANGED <<text, number, bits, given, added>>

setattr ==
    \/ \E a \in Attrs \cap TextAttrs, s \in Strings : setattr_text(a, s)
    \/ \E a \in Attrs \cap NumberAttrs, type \in {"int", "long"},
          n \in Numbers : setattr_number(a, type, n)
    \/ /\ "permissions" \in Attrs
       /\ \E b \in SUBSET (AccessBits \cup ModeBits) : setattr_permissions(b)
    \/ /\ "access" \in Attrs
       /\ \E b \in SUBSET (AccessBits \cup ModeBits) : setattr_access(b)
    \/ \E v \in {{}, ValidBits} : setattr_valid_fields(v)

InfoNext ==
    \/ setattr
    \/ pygvfinfo_init
    \/ \E v \in SUBSET ValidBits, s \in Strings, n \in 0 .. Narrow - 1,
          b \in SUBSET (AccessBits \cup ModeBits) :
            pygnome_vfs_file_info_new(v, s, n, b)

InfoSpec == InfoInit /\ [][InfoNext]_infoVars

-----------------------------------------------------------------------------
\* The numbers a field can hold as they are.
Holds(a) == IF a \in TimeAttrs THEN 0 .. (Wide \div 2) - 1 ELSE 0 .. Size(a) - 1

\* Through any sequence of assignments (pygvfinfo_setattr) an attribute that
\* was given a value can be read (unless valid_fields was assigned), and
\* reads as that value if its field can hold it: no assignment disturbs
\* another attribute, but for permissions and access, which share a field.
\* An assignment of access adds whatever bits it is given to the field, mode
\* bits too: permissions then reads more than it was given, and access only
\* ever reads access bits.  It reads those it was given since permissions
\* was assigned, which replaces the field, and may read more.
ReadsBack ==
    /\ \A a \in Attrs : given[a] # NULL => masked \/ Readable(a)
    /\ \A a \in Attrs \cap TextAttrs : given[a] # NULL => text[a] = given[a]
    /\ \A a \in Attrs \cap NumberAttrs :
          given[a] # NULL /\ given[a] \in Holds(a) =>
              getattr_number(a) = given[a]
    /\ "permissions" \in Attrs /\ given["permissions"] # NULL =>
          getattr_bits("permissions")
              = (given["permissions"] \cup added) \ AccessBits
    /\ "access" \in Attrs =>
          added \cap AccessBits \subseteq getattr_bits("access")

\* A valid bit that was not assigned with valid_fields means a value was
\* given: to the attribute itself, or, for the bit that uid and gid share,
\* to one of the two.
ValidMeansGiven ==
    \A a \in Attrs \ {"name"} :
        ValidBit(a) \in valid =>
            \/ masked
            \/ given[a] # NULL
            \/ a \in {"uid", "gid"} /\ \E b \in Attrs \cap {"uid", "gid"} :
                                           given[b] # NULL

=============================================================================
