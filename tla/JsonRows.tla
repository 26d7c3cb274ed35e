------------------------------ MODULE JsonRows ------------------------------
(***************************************************************************)
(* How the DataFusion backend writes a page of rows as JSON (store.rs,     *)
(* serialize).  A text is a sequence of bytes.  A cell is an option: {} is *)
(* null, {v} a value; what v is depends on the Arrow type of its column.   *)
(*                                                                         *)
(* The types are classes: "Int" stands for the eight integer types, which  *)
(* have the same arms, "Float" for both widths, "Decimal" likewise, and    *)
(* "Other" for every type without an arm (temporal, nested, binary, other  *)
(* dictionaries).                                                          *)
(***************************************************************************)
EXTENDS Integers, Sequences, SequencesExt

Texts == {"Utf8", "LargeUtf8", "Utf8View"}
DataTypes == Texts \cup {"DictI32Utf8", "Boolean", "Int", "Float", "Decimal", "Other"}

Quote == 34
Backslash == 92
LetterU == 117
Digit0 == 48

JsonLit(name) == [kind |-> name, chars |-> <<>>]
JsonNull == JsonLit("null")

-----------------------------------------------------------------------------
(***************************************************************************)
(* write_str.                                                              *)
(***************************************************************************)
\* HEX, as codes.
Hex(d) == IF d < 10 THEN Digit0 + d ELSE 87 + d

\* The bytes that have a short escape, with its letter.
Short == [b \in {Quote, Backslash, 10, 13, 9} |->
            IF b = 10 THEN 110 ELSE IF b = 13 THEN 114 ELSE IF b = 9 THEN 116 ELSE b]

Escaped(b) ==
    IF b \in DOMAIN Short THEN <<Backslash, Short[b]>>
    ELSE IF b < 32 THEN <<Backslash, LetterU, Digit0, Digit0, Hex(b \div 16), Hex(b % 16)>>
    ELSE <<b>>

write_str(text) ==
    [kind |-> "string", chars |-> FlattenSeq([i \in DOMAIN text |-> Escaped(text[i])])]

-----------------------------------------------------------------------------
(***************************************************************************)
(* A cell of a type that has an arm of its own.  value_as_string of a      *)
(* decimal is its text; itoa and ryu write a number as it is.              *)
(***************************************************************************)
\* The value a dictionary key stands for.  Only the keys are asked for nulls: a
\* null among the values is read as the empty text.
DictText(v) == IF v.values[v.key] = {} THEN <<>> ELSE CHOOSE x \in v.values[v.key] : TRUE

write_value(type, v) ==
    CASE type \in Texts \cup {"Decimal"} -> write_str(v)
      [] type = "DictI32Utf8" -> write_str(DictText(v))
      [] type = "Boolean" -> JsonLit(IF v THEN "true" ELSE "false")
      [] type = "Int" -> [kind |-> "number", chars |-> <<v>>]
      [] type = "Float" -> IF v.finite THEN [kind |-> "number", chars |-> <<v.n>>]
                           ELSE JsonNull
      [] OTHER -> JsonLit("unsupported")

\* ColEnc::new chooses the encoder from the type of the column once ...
ColEnc(type) == IF type \in DataTypes \ {"Other"} THEN type ELSE "write_value"

\* ... and ColEnc::write applies it to each row.
ColEnc_write(type, cell) ==
    IF cell = {} THEN JsonNull
    ELSE LET v == CHOOSE x \in cell : TRUE IN
         CASE ColEnc(type) = "Boolean" -> JsonLit(IF v THEN "true" ELSE "false")
           [] ColEnc(type) = "Int" -> [kind |-> "number", chars |-> <<v>>]
           [] ColEnc(type) = "Float" ->
                IF v.finite THEN [kind |-> "number", chars |-> <<v.n>>] ELSE JsonNull
           [] ColEnc(type) \in Texts \cup {"Decimal"} -> write_str(v)
           [] ColEnc(type) = "DictI32Utf8" -> write_str(DictText(v))
           [] OTHER -> write_value(type, v)

-----------------------------------------------------------------------------
(***************************************************************************)
(* cast_for_serialize: columns without an arm become text first.           *)
(***************************************************************************)
writable_inline(type) == type # "Other"

\* compute::cast to Utf8: the text of a value, null for one that has none (bytes
\* that are not UTF-8), or an error for a type that cannot be cast.
cast(v) == [err |-> v.text = "error", cell |-> IF v.text = "none" THEN {} ELSE {v.chars}]

cast_for_serialize(type, cell) ==
    IF writable_inline(type) \/ cell = {}
    THEN [err |-> FALSE, type |-> IF writable_inline(type) THEN type ELSE "Utf8",
          cell |-> cell]
    ELSE LET c == cast(CHOOSE v \in cell : TRUE) IN
         [err |-> c.err, type |-> "Utf8", cell |-> c.cell]

\* serialize, for one cell of one column: its key and what is written.  The
\* name of the column is not escaped.
serialize(name, type, cell) ==
    LET c == cast_for_serialize(type, cell) IN
    [err |-> c.err, key |-> [kind |-> "string", chars |-> name],
     out |-> IF c.err THEN JsonNull ELSE ColEnc_write(c.type, c.cell)]

-----------------------------------------------------------------------------
(***************************************************************************)
(* A reader of JSON strings (RFC 8259), for reference: a quote or a        *)
(* control byte inside, or an unknown escape, is an error.                 *)
(***************************************************************************)
HexValue(c) == IF c \in 48 .. 57 THEN c - 48 ELSE IF c \in 97 .. 102 THEN c - 87 ELSE -1
Unescape == [c \in {Quote, Backslash, 110, 114, 116} |->
               IF c = 110 THEN 10 ELSE IF c = 114 THEN 13 ELSE IF c = 116 THEN 9 ELSE c]

ReadStart == [bad |-> FALSE, mode |-> "plain", digits |-> 0, code |-> 0, text |-> <<>>]

Broken(st) == [st EXCEPT !.bad = TRUE]

ReadPlain(st, c) ==
    IF c = Backslash THEN [st EXCEPT !.mode = "escape"]
    ELSE IF c = Quote \/ c < 32 THEN Broken(st)
    ELSE [st EXCEPT !.text = Append(@, c)]

ReadEscape(st, c) ==
    IF c \in DOMAIN Unescape
    THEN [st EXCEPT !.mode = "plain", !.text = Append(@, Unescape[c])]
    ELSE IF c = LetterU
    THEN [bad |-> FALSE, mode |-> "hex", digits |-> 0, code |-> 0, text |-> st.text]
    ELSE Broken(st)

ReadHex(st, c) ==
    LET code == 16 * st.code + HexValue(c) IN
    IF HexValue(c) < 0 THEN Broken(st)
    ELSE IF st.digits < 3 THEN [st EXCEPT !.digits = @ + 1, !.code = code]
    ELSE [st EXCEPT !.mode = "plain", !.text = Append(@, code)]

ReadByte(st, c) ==
    IF st.bad THEN st
    ELSE IF st.mode = "plain" THEN ReadPlain(st, c)
    ELSE IF st.mode = "escape" THEN ReadEscape(st, c)
    ELSE ReadHex(st, c)

\* What the reader has after each byte.
Reading(chars) ==
    LET st[k \in 0 .. Len(chars)] ==
          IF k = 0 THEN ReadStart ELSE ReadByte(st[k - 1], chars[k])
    IN st

Read(chars) ==
    LET st == Reading(chars)[Len(chars)]
    IN [ok |-> ~st.bad /\ st.mode = "plain", text |-> st.text]

\* What a reader should get for a cell: its value, or null if it has none (not
\* so for a null among the values of a dictionary).
Meant(type, cell) ==
    LET v == CHOOSE x \in cell : TRUE IN
    IF cell = {} THEN JsonNull
    ELSE CASE type = "DictI32Utf8" -> [kind |-> "string", chars |-> DictText(v)]
           [] type \in Texts \cup {"Decimal"} -> [kind |-> "string", chars |-> v]
           [] type = "Other" -> IF v.text = "none" THEN JsonNull
                                ELSE [kind |-> "string", chars |-> v.chars]
           [] type = "Boolean" -> JsonLit(IF v THEN "true" ELSE "false")
           [] type = "Int" -> [kind |-> "number", chars |-> <<v>>]
           [] OTHER -> IF v.finite THEN [kind |-> "number", chars |-> <<v.n>>] ELSE JsonNull

\* The JSON of a cell reads back as its value; the generic writer and the
\* encoder chosen per column agree; and a key reads back as the name of its
\* column when no byte of it needs escaping.
CellKept(name, type, cell) ==
    LET s == serialize(name, type, cell)
        read == Read(s.out.chars)
        key == Read(s.key.chars)
    IN /\ ~s.err =>
            IF s.out.kind = "string"
            THEN read.ok /\ Meant(type, cell) = [kind |-> "string", chars |-> read.text]
            ELSE s.out = Meant(type, cell)
       /\ writable_inline(type) =>
            \A v \in cell : write_value(type, v) = ColEnc_write(type, {v})
       /\ (\A i \in DOMAIN name : Escaped(name[i]) = <<name[i]>>) => key.ok /\ key.text = name
=============================================================================
